--------------------------- MODULE MCNotification ---------------------------
(***************************************************************************)
(* Small instances of Notification.                                        *)
(***************************************************************************)
EXTENDS Notification, TLC

CONSTANTS c1, c2

\* A customer whose id is not the order's.
OneOwner == <<2>>

\* Two connections of one user.
SameUser == c1 :> 2 @@ c2 :> 2
=============================================================================
