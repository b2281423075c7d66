----------------------------- MODULE MCListPage -----------------------------
(* ListPage with two records *)
EXTENDS ListPage

CONSTANTS r1, r2, none

MCOrder == [col |-> "name", direction |-> "up"]

MCButtons == {[kind |-> "update", record |-> r1, block |-> FALSE],
              [kind |-> "delete", record |-> r2, block |-> FALSE],
              [kind |-> "json", record |-> r1, block |-> FALSE]}
=============================================================================
