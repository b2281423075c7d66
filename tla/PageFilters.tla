---------------------------- MODULE PageFilters ----------------------------
(***************************************************************************)
(* Filters that are part of the address of a page (page_filter_apply,      *)
(* page_filter_clear, page_grid_export in common.js), in the same controls *)
(* as the filters of a grid, and the card that collapses them.             *)
(***************************************************************************)
EXTENDS Grid

VARIABLES
    collapsed, \* the filters are hidden
    expand,    \* the icon that expands them is the one shown
    address    \* the query of location.href: the filter, and whether to export

filtersVars == <<collapsed, expand, address>>

FiltersInit ==
    /\ collapsed = FALSE /\ expand = FALSE
    /\ address = [filter |-> NoText, export |-> FALSE]

\* change_collapse_button_icon toggles the filters and the two icons.
Collapse ==
    /\ Click
    /\ collapsed' = ~collapsed /\ expand' = ~expand
    /\ UNCHANGED <<scripts, bound, left, gridVars, address>>

\* The address without its query, and the controls as the new query. The page
\* stays when a file comes in answer to an export.
PageReload(export) ==
    /\ left' \in {TRUE, ~export}
    /\ address' = IF left' THEN [filter |-> filter, export |-> export] ELSE address
    /\ UNCHANGED <<scripts, bound, gridVars, collapsed, expand>>

PageFilterApply == Click /\ PageReload(FALSE)

PageGridExport == Click /\ PageReload(TRUE)

PageFilterClear ==
    /\ Click
    /\ left' = TRUE
    /\ address' = [filter |-> NoText, export |-> FALSE]
    /\ UNCHANGED <<scripts, bound, gridVars, collapsed, expand>>

FiltersUse == Collapse \/ PageFilterApply \/ PageGridExport \/ PageFilterClear

FiltersTypeOK ==
    /\ collapsed \in BOOLEAN /\ expand \in BOOLEAN
    /\ address \in [filter : Texts, export : BOOLEAN]
=============================================================================
