----------------------------- MODULE MCBackend -----------------------------
(***************************************************************************)
(* RouterService and UserCache on small sets, in one run. They share no    *)
(* variable and every property is about one of them, so it says the same   *)
(* of their product as of behaviours in which only one of them moves.      *)
(***************************************************************************)
EXTENDS RouterService, UserCache, TLC

VARIABLE part  \* the component that moves

Init == RouterInit /\ CacheInit /\ part \in {"router", "cache"}

Next ==
    \/ part = "router" /\ RouterNext /\ UNCHANGED <<cacheVars, part>>
    \/ part = "cache" /\ CacheNext /\ UNCHANGED <<routerVars, part>>

Spec == Init /\ [][Next]_<<routerVars, cacheVars, part>>

Symmetry == Permutations(Requests)
=============================================================================
