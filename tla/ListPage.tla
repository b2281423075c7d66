------------------------------ MODULE ListPage ------------------------------
(***************************************************************************)
(* A list page: the grid, its filters and the dialog of one page, which    *)
(* meet in the script. A form that arrives in the dialog executes          *)
(* common.js again, and its ready callback binds all handlers again and    *)
(* reloads the grid.                                                       *)
(***************************************************************************)
EXTENDS PageFilters, Modal

vars == <<pageVars, gridVars, filtersVars, modalVars>>

Init == PageInit /\ GridInit /\ FiltersInit /\ ModalInit

\* $(document).ready on a page with one grid
Ready == Bind /\ FirstLoad /\ UNCHANGED <<filtersVars, modalVars>>

ModalNext ==
    \/ \E button \in Buttons : ModalOpen(button)
    \/ \E o \in openings : FormLoaded(o) \/ FormFailed(o)
    \/ Faded \/ Close \/ ModalSubmit
    \/ \E i \in DOMAIN saves : ModalServe(i) \/ ModalSaved(i) \/ ModalRefused(i) \/ ModalLost(i)

\* Behind an open window only the dialog can be used.
Next ==
    \/ Ready
    \/ /\ dialog.window = "hidden"
       /\ FiltersUse \/ (GridUse /\ UNCHANGED filtersVars)
       /\ UNCHANGED modalVars
    \/ GridAnswer /\ UNCHANGED <<filtersVars, modalVars>>
    \/ ModalNext /\ UNCHANGED <<gridVars, filtersVars>>

Spec == Init /\ [][Next]_vars

-----------------------------------------------------------------------------
(* Properties *)

\* Every variable has its type.
TypeOK == PageTypeOK /\ GridTypeOK /\ FiltersTypeOK /\ ModalTypeOK

\* A click leads to one request for rows and one save at most, however many
\* forms have executed the script again and bound its handlers again.
OneRequestPerClick ==
    LET clicked == loads \o saves
    IN \A i, j \in DOMAIN clicked :
          i # j /\ clicked[i].click # 0 => clicked[i].click # clicked[j].click
=============================================================================
