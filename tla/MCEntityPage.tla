---------------------------- MODULE MCEntityPage ----------------------------
(* EntityPage with two records in the block and a button of each kind *)
EXTENDS EntityPage

CONSTANTS r1, r2, none

Opens(kind, record, inBlock) == [kind |-> kind, record |-> record, block |-> inBlock]

MCButtons == {Opens("create", none, FALSE), Opens("update", r1, TRUE),
              Opens("view", r2, TRUE), Opens("delete", r2, TRUE)}

MCGenerators == {[url |-> TRUE, length |-> FALSE, uuid |-> FALSE],
                 [url |-> TRUE, length |-> TRUE, uuid |-> FALSE],
                 [url |-> FALSE, length |-> FALSE, uuid |-> TRUE]}
=============================================================================
