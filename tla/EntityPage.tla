----------------------------- MODULE EntityPage -----------------------------
(***************************************************************************)
(* The page of a record: its form, a dialog for the records that belong to *)
(* it, and the block that shows them. A save from the block loads the      *)
(* block again; forms and block bring common.js along.                     *)
(***************************************************************************)
EXTENDS PageForm, Modal, Blocks

vars == <<pageVars, formVars, modalVars, blockVars>>

Init == PageInit /\ FormInit /\ ModalInit /\ BlocksInit

\* $(document).ready: the block is loaded unless it is marked as loaded.
Ready ==
    /\ Bind
    /\ fetches' = IF block.loaded THEN fetches ELSE Fetch
    /\ UNCHANGED <<formVars, modalVars, block>>

\* Variant with a fault: the block is not loaded again
SavedQuietly(i) == ModalSaved(i) /\ UNCHANGED <<formVars, blockVars>>

\* The success of modal_form_submit
Saved(i) ==
    /\ ModalSaved(i)
    /\ fetches' = IF saves[i].block THEN Fetch ELSE fetches
    /\ UNCHANGED <<formVars, block>>

Performed == {i \in DOMAIN saves : saves[i].state \in {"done", "saved"}}

Dialog ==
    \/ \E button \in Buttons : ModalOpen(button)
    \/ \E o \in openings : FormLoaded(o) \/ FormFailed(o)
    \/ Faded \/ Close \/ ModalSubmit
    \/ \E i \in DOMAIN saves : ModalServe(i) \/ ModalRefused(i) \/ ModalLost(i)

Loading(k) == FetchServe(k, Performed) \/ FetchAnswer(k) \/ FetchFail(k)

Next ==
    \/ Ready
    \/ dialog.window = "hidden" /\ FormUse /\ UNCHANGED <<modalVars, blockVars>>
    \/ FormAnswer /\ UNCHANGED <<modalVars, blockVars>>
    \/ Dialog /\ UNCHANGED <<formVars, blockVars>>
    \/ \E i \in DOMAIN saves : Saved(i)
    \/ \E k \in DOMAIN fetches : Loading(k) /\ UNCHANGED <<formVars, modalVars>>

\* The browser runs what is due, and each load ends with an answer or an error.
Fairness ==
    /\ WF_vars(Ready)
    /\ WF_vars(\E k \in DOMAIN fetches : Loading(k) /\ UNCHANGED <<formVars, modalVars>>)

Spec == Init /\ [][Next]_vars /\ Fairness

-----------------------------------------------------------------------------
(* Properties *)

\* Every variable has its type.
TypeOK == PageTypeOK /\ FormTypeOK /\ ModalTypeOK /\ BlocksTypeOK

\* Whoever has saved from the block sees it there: when the load that follows
\* was the only one and has succeeded, the block shows each save that was
\* answered with a success.
BlockShowsSaves ==
    fetches = <<>> /\ block.sound =>
        {i \in DOMAIN saves : saves[i].state = "saved" /\ saves[i].block} \subseteq block.shows

\* The script loads the block, the block brings the script, whose ready callback
\* loads blocks: this comes to an end, unless the page is left.
BlocksComeToRest == <>[](left \/ (fetches = <<>> /\ scripts = 0))
=============================================================================
