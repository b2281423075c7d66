------------------------------- MODULE Blocks -------------------------------
(***************************************************************************)
(* The loading block of a page (load_block_data in common.js): a part that *)
(* is loaded when the script is ready, and again when a dialog opened from *)
(* it has saved. Its content may bring common.js along.                    *)
(***************************************************************************)
EXTENDS Page

LOCAL INSTANCE SequencesExt

VARIABLES
    block,  \* loaded: is its class loaded? shows: the saves its content shows;
            \* sound: it was the only load when it was loaded last (history)
    fetches \* its loads in flight: answered by the server?

blockVars == <<block, fetches>>

BlocksInit ==
    /\ block = [loaded |-> FALSE, shows |-> {}, sound |-> FALSE]
    /\ fetches = <<>>

\* What load_block_data adds to the loads in flight
Fetch ==
    [k \in DOMAIN fetches |-> [fetches[k] EXCEPT !.alone = FALSE]]
    \o <<[served |-> FALSE, shows |-> {}, alone |-> fetches = <<>>]>>

\* The server renders the block from what has been saved so far.
FetchServe(k, performed) ==
    /\ Here /\ k \in DOMAIN fetches /\ ~fetches[k].served
    /\ fetches' = [fetches EXCEPT ![k].served = TRUE, ![k].shows = performed]
    /\ UNCHANGED <<pageVars, block>>

\* Variant with a fault: a loaded block keeps the class not-loaded
FetchAnswerNotLoaded(k) ==
    /\ Here /\ k \in DOMAIN fetches /\ fetches[k].served
    /\ fetches' = RemoveAt(fetches, k)
    /\ block' = [block EXCEPT !.shows = fetches[k].shows, !.sound = fetches[k].alone]
    /\ scripts' = scripts + 1
    /\ UNCHANGED <<bound, left, clicks>>

\* success replaces the content and executes its scripts; complete marks the
\* block as loaded before their ready callback runs.
FetchAnswer(k) ==
    /\ Here /\ k \in DOMAIN fetches /\ fetches[k].served
    /\ fetches' = RemoveAt(fetches, k)
    /\ block' = [loaded |-> TRUE, shows |-> fetches[k].shows, sound |-> fetches[k].alone]
    /\ scripts' = scripts + 1
    /\ UNCHANGED <<bound, left, clicks>>

\* An error is logged. The block keeps what it shows, and is marked as loaded.
FetchFail(k) ==
    /\ Here /\ k \in DOMAIN fetches
    /\ fetches' = RemoveAt(fetches, k)
    /\ block' = [block EXCEPT !.loaded = TRUE, !.sound = FALSE]
    /\ UNCHANGED pageVars

BlocksTypeOK ==
    /\ block.loaded \in BOOLEAN /\ block.shows \subseteq Nat /\ block.sound \in BOOLEAN
    /\ \A k \in DOMAIN fetches : fetches[k].served \in BOOLEAN /\ fetches[k].shows \subseteq Nat
=============================================================================
