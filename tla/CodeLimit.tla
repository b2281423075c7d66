----------------------------- MODULE CodeLimit -----------------------------
(***************************************************************************)
(* The limit on confirmation codes, as two counters: codes come in groups  *)
(* of at most Attempts, at most Groups of them, with a pause between codes *)
(* and a longer one between groups; after a pause of more than             *)
(* LimitTimeout the count starts again.                                    *)
(* ConfirmationCodes.tla, where the counters are queries on a table,       *)
(* implements it as long as requests do not overlap.                       *)
(***************************************************************************)
EXTENDS Integers

CONSTANTS Attempts, Groups, SameGroupTimeout, GroupTimeout, LimitTimeout

VARIABLES
    at,     \* when the last code was created, -1 before the first
    number, \* the number of its group, 0 if it has none
    count   \* how many codes the group has

vars == <<at, number, count>>

Init == at = -1 /\ number = 0 /\ count = 0

\* A code that nothing limits: the first of all, or the next one after a reset
First ==
    /\ number = 0
    /\ at' >= at
    /\ number' = 1 /\ count' = 1

Again ==
    /\ number > 0 /\ count < Attempts
    /\ at' > at + SameGroupTimeout
    /\ UNCHANGED number
    /\ count' = count + 1

NextGroup ==
    /\ number > 0 /\ number < Groups
    /\ at' > at + GroupTimeout
    /\ number' = number + 1 /\ count' = 1

\* The pause was long enough: the code is not counted.
Reset ==
    /\ at' > at + LimitTimeout
    /\ number' = 0 /\ count' = 0

Next == First \/ Again \/ NextGroup \/ Reset

Spec == Init /\ [][Next]_vars
=============================================================================
