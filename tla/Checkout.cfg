SPECIFICATION CheckoutSpec
CONSTANTS
    c1 = c1
    c2 = c2
    u1 = u1
    r1 = r1
    lower = lower
    upper = upper
    reserved = reserved
    p1 = p1
    p2 = p2
    n1 = n1
    n2 = n2
    Clients = {c1, c2}
    Spellings = {lower, upper, reserved}
    Spelling <- MCSpelling
    Normal <- MCNormal
    Passwords = {p1, p2}
    Password <- MCPassword
    Names = {n1, n2}
    Admin <- MCAdmin
    MaxUsers = 2
    Readers = {c1, r1}
    Writers = {u1}
    MaxVersion = 2
    Buyers = {c1}
    MaxLines = 2
    MaxOrders = 1
INVARIANTS
    CheckoutTypeOK
    StaleHasCause
    PricedAsOffered
    AnswerIsTrue
    RegistrationHonoured
CHECK_DEADLOCK FALSE
