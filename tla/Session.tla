------------------------------ MODULE Session ------------------------------
(***************************************************************************)
(* What a browser's session promises: signing in takes a login that the     *)
(* server granted, each of them at most once, with the token it granted.    *)
(* Signing out is always possible, and grants may get lost.                  *)
(***************************************************************************)
CONSTANTS
    Request,           \* the requests that may be logins
    Token,             \* what the server grants
    None               \* no token

VARIABLES
    token,             \* the session's token, or None
    grants             \* the logins granted and not yet used, with their tokens

Init == token = None /\ grants = [r \in {} |-> None]

Only(R) == [r \in R |-> grants[r]]

Grant(r, k) ==
    /\ r \notin DOMAIN grants
    /\ grants' = [q \in DOMAIN grants \cup {r} |-> IF q = r THEN k ELSE grants[q]]
    /\ UNCHANGED token

SignIn(r) ==
    /\ r \in DOMAIN grants
    /\ token' = grants[r] /\ grants' = Only(DOMAIN grants \ {r})

SignOut == token' = None /\ UNCHANGED grants

Lose(R) == grants' = Only(DOMAIN grants \ R) /\ UNCHANGED token

Next ==
    \/ \E r \in Request, k \in Token : Grant(r, k)
    \/ \E r \in Request : SignIn(r)
    \/ \E R \in SUBSET Request : Lose(R)
    \/ SignOut

Spec == Init /\ [][Next]_<<token, grants>>
=============================================================================
