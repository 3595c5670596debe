------------------------------- MODULE Accounts -------------------------------
(***************************************************************************)
(* Registration, login and profiles of the user service, and the tokens    *)
(* that the gateway and the services check.  A client always types the     *)
(* same spelling of its address and the same password; several clients may *)
(* type one address, each in a spelling of its own.                        *)
(*                                                                         *)
(* A handler runs one statement that changes something, so a request is    *)
(* one step.  A request that is refused changes nothing and is no step.    *)
(***************************************************************************)
EXTENDS Naturals, Sequences

CONSTANTS
    Clients,
    Spellings,   \* addresses as they can be typed
    Spelling,    \* the address as each client types it
    Normal,      \* ToLower(TrimSpace(address)) of each spelling
    Passwords,
    Password,    \* the password of each client
    Names,       \* what an account may be called
    Admin,       \* the row that the migration inserts
    MaxUsers     \* bound on the accounts

Roles == {"CUSTOMER", "ADMIN"}

UserType == [email : Spellings, password : Passwords, name : Names, role : Roles]

ConstantsOK ==
    /\ Spelling \in [Clients -> Spellings]
    /\ Normal \in [Spellings -> Spellings]
    /\ \A s \in Spellings : Normal[Normal[s]] = Normal[s]
    /\ Password \in [Clients -> Passwords]
    /\ Admin \in UserType
    /\ Normal[Admin.email] = Admin.email
    /\ MaxUsers \in Nat \ {0}

VARIABLES
    users,     \* table users; an account's id is its position
    promised,  \* history: the id in the answer 201 to each client's registration
    token      \* the token each client holds, NoToken without a valid one

accountVars == <<users, promised, token>>

NoId == 0
NoToken == [id |-> NoId, role |-> "none"]
Ids == 1 .. MaxUsers

TypeOK ==
    /\ users \in Seq(UserType)
    /\ Len(users) \in Ids
    /\ promised \in [Clients -> Ids \cup {NoId}]
    /\ token \in [Clients -> [id : Ids, role : Roles] \cup {NoToken}]

Init ==
    /\ users = <<Admin>>
    /\ promised = [c \in Clients |-> NoId]
    /\ token = [c \in Clients |-> NoToken]

Address(c) == Normal[Spelling[c]]

FindByEmail(email) == {i \in DOMAIN users : users[i].email = email}

-----------------------------------------------------------------------------
(***************************************************************************)
(* Register.  email is UNIQUE: whoever comes second is told 409.           *)
(***************************************************************************)
Insert(email, c) ==
    /\ FindByEmail(email) = {}
    /\ Len(users) < MaxUsers
    /\ \E name \in Names :
          users' = Append(users, [email |-> email, password |-> Password[c],
                                  name |-> name, role |-> "CUSTOMER"])

\* Mutant: the address is stored as it was typed.
RegisterAsTyped(c) ==
    /\ Insert(Spelling[c], c)
    /\ promised' = [promised EXCEPT ![c] = Len(users')]
    /\ UNCHANGED token

Register(c) ==
    /\ Insert(Address(c), c)
    /\ promised' = [promised EXCEPT ![c] = Len(users')]
    /\ UNCHANGED token

\* The row is inserted, but the client is told of an error: 400 from the
\* handler, 502 from the gateway, or nothing.  Its next attempt meets 409.
RegisterUnanswered(c) ==
    /\ Insert(Address(c), c)
    /\ UNCHANGED <<promised, token>>

-----------------------------------------------------------------------------
(***************************************************************************)
(* Login and the token.                                                    *)
(***************************************************************************)
CredentialsOf(c) ==
    {i \in FindByEmail(Address(c)) : users[i].password = Password[c]}

\* GenerateToken copies the id and the role into the claims.
Claims(i) == [id |-> i, role |-> users[i].role]

Login(c) ==
    /\ \E i \in CredentialsOf(c) : token' = [token EXCEPT ![c] = Claims(i)]
    /\ UNCHANGED <<users, promised>>

\* The 24 hours are over: ParseToken refuses the token from now on.
TokenExpires(c) ==
    /\ token[c] # NoToken
    /\ token' = [token EXCEPT ![c] = NoToken]
    /\ UNCHANGED <<users, promised>>

\* The Middleware lets a request pass with a valid token only.
Authorized(c) == token[c] # NoToken

\* An account is renamed by its owner or by an administrator.
UpdateProfile(c) ==
    /\ Authorized(c)
    /\ \E i \in DOMAIN users, name \in Names :
          /\ token[c].role = "ADMIN" \/ token[c].id = i
          /\ users' = [users EXCEPT ![i].name = name]
    /\ UNCHANGED <<promised, token>>

Next ==
    \E c \in Clients :
       \/ Register(c)
       \/ RegisterUnanswered(c)
       \/ Login(c)
       \/ TokenExpires(c)
       \/ UpdateProfile(c)

Spec == Init /\ [][Next]_accountVars
-----------------------------------------------------------------------------
(***************************************************************************)
(* RegistrationHonoured: whoever was answered 201 can log in to that very  *)
(* account with what it typed, in its own spelling, whoever else registers *)
(* the same address in another one; and a token is for an account whose    *)
(* password its holder knows, with the role the account has.               *)
(***************************************************************************)
RegistrationHonoured ==
    \A c \in Clients :
       /\ promised[c] # NoId => CredentialsOf(c) = {promised[c]}
       /\ Authorized(c) => /\ CredentialsOf(c) = {token[c].id}
                           /\ token[c] = Claims(token[c].id)
=============================================================================
