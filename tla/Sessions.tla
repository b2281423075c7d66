------------------------------ MODULE Sessions ------------------------------
(***************************************************************************)
(* What the token lists of app_backend promise, without Redis, time or     *)
(* requests: a token opens a session of one device at most once, and a     *)
(* session that is over (revoked, signed out or expired) stays over.       *)
(* Tokens.tla implements this specification.                               *)
(***************************************************************************)
CONSTANTS Devices, Jti

VARIABLES
    live, \* live[d]: the tokens that are good for device d
    used  \* the tokens that are or were good, and those that never will be

vars == <<live, used>>

Init ==
    /\ live = [d \in Devices |-> {}]
    /\ used = {}

\* A new token of the device becomes good.
Open(d, j) ==
    /\ j \notin used
    /\ used' = used \union {j}
    /\ live' = [live EXCEPT ![d] = @ \union {j}]

\* A token is given up before it ever was good.
Burn(j) ==
    /\ j \notin used
    /\ used' = used \union {j}
    /\ UNCHANGED live

\* Some tokens are good no more: revoked one by one, or expired together.
Close(gone) ==
    /\ live' = [d \in Devices |-> live[d] \ gone]
    /\ UNCHANGED used

Next ==
    \/ \E d \in Devices, j \in Jti : Open(d, j)
    \/ \E j \in Jti : Burn(j)
    \/ \E gone \in SUBSET Jti : Close(gone)

Spec == Init /\ [][Next]_vars
=============================================================================
