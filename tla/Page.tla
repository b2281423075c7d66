-------------------------------- MODULE Page --------------------------------
(***************************************************************************)
(* What all pages with common.js have in common. The script binds its      *)
(* handlers to the body when the document is ready. A form that a dialog   *)
(* or a block loads brings the script along: jQuery executes it, and its   *)
(* callback of $(document).ready runs later, a second time on this page.   *)
(***************************************************************************)
EXTENDS Integers, Sequences

CONSTANT MaxClicks \* bound on the clicks of the user

ASSUME PageAssumption == MaxClicks \in Nat

VARIABLES
    scripts, \* executions of common.js whose ready callback is to come
    bound,   \* how often the handlers are bound; MaxBound stands for that and more
    left,    \* location.href has been assigned
    clicks   \* the number of clicks so far (a history, and the bound)

MaxBound == 2

pageVars == <<scripts, bound, left, clicks>>

PageInit == scripts = 1 /\ bound = 0 /\ left = FALSE /\ clicks = 0

PageTypeOK ==
    /\ scripts \in Nat /\ bound \in 0 .. MaxBound /\ left \in BOOLEAN
    /\ clicks \in 0 .. MaxClicks

\* Variant with a fault: handlers without e.stopImmediatePropagation()
RunsEach(times) == times

\* A handler that is bound several times runs once: it ends with
\* stopImmediatePropagation, and the other bindings are skipped.
Runs(times) == IF times = 0 THEN 0 ELSE 1

Here == ~left

\* The user clicks something that has a handler.
Click == Here /\ bound > 0 /\ clicks < MaxClicks /\ clicks' = clicks + 1

\* $(document).ready: bind the handlers; the composition adds what is loaded.
Bind ==
    /\ Here /\ scripts > 0
    /\ scripts' = scripts - 1
    /\ bound' = IF bound < MaxBound THEN bound + 1 ELSE bound
    /\ UNCHANGED <<left, clicks>>
=============================================================================
