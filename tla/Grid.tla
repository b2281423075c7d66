-------------------------------- MODULE Grid --------------------------------
(***************************************************************************)
(* The table of a list page (common.js): its order, filters, pages and     *)
(* page size, the requests for rows that are in flight, and what their     *)
(* answers, in whatever order they come, make of the page. Nothing in the  *)
(* script relates an answer to the newest request.                         *)
(***************************************************************************)
EXTENDS Page

CONSTANTS
    Columns,     \* the columns that rows can be sorted by
    FirstOrder,  \* get_grid_default_order of the router
    Texts,       \* what a filter can hold
    NoText,      \* the empty filter
    NoneText,    \* the string "None"
    PageCounts,  \* how many pages an answer may have: other users change the rows
    PageSizes,   \* backend_page_sizes
    TableLimit   \* data-limit of the table: 0 if it has none, as in a partial template

Orders == [col : Columns, direction : {"up", "down"}]

ASSUME GridAssumption ==
    /\ FirstOrder \in Orders /\ NoText \in Texts \ {NoneText}
    /\ PageCounts \subseteq Nat /\ PageSizes \subseteq Nat \ {0} /\ TableLimit \in Nat

VARIABLES
    order,  \* sort-col and sort-direction of the table
    filter, \* the value of the filter control
    size,   \* the value of the page size control
    loads,  \* the requests load_grid_table_data has sent (history)
    view,   \* what is shown: the load the rows come from, its pages, the icons
    loader, \* the loader is shown
    alert   \* the alert is shown

gridVars == <<order, filter, size, loads, view, loader, alert>>

DefaultLimit == 10
GridInit ==
    /\ order = FirstOrder
    /\ filter = NoText
    /\ size = DefaultLimit
    /\ loads = <<>>
    /\ view = [load |-> 0, pages |-> 0, icons |-> {}]
    /\ loader = FALSE
    /\ alert = FALSE

-----------------------------------------------------------------------------
(* GridPagination, with inner_window = 2 and outer_window = 1 *)

Less(a, b) == IF a < b THEN a ELSE b

\* win_from and win_to: two pages on each side, moved inside
Window(page, pages) ==
    LET excess == IF page + 2 > pages THEN page + 2 - pages ELSE 0
        from == page - 2 - excess
        to == page + 2 - excess
    IN IF from < 1 THEN [from |-> 1, to |-> Less(to + 1 - from, pages)]
                   ELSE [from |-> from, to |-> to]

\* Variant with a fault: behind a gap, only the very last page
PageLinksOneLast(page, pages) ==
    LET w == Window(page, pages)
    IN IF pages < 3
       THEN 1 .. pages
       ELSE (IF w.from > 2 THEN {1, 2} ELSE 1 .. w.to)
            \union (IF w.to < pages - 1
                    THEN (IF w.from > 2 THEN w.from .. w.to ELSE {}) \union {pages}
                    ELSE (IF w.from > 2 THEN w.from .. pages ELSE (w.to + 1) .. pages))

\* The numbers of the links. None, the gap, is not a link.
PageLinks(page, pages) ==
    LET w == Window(page, pages)
    IN IF pages < 3
       THEN 1 .. pages
       ELSE (IF w.from > 2 THEN {1, 2} ELSE 1 .. w.to)
            \union (IF w.to < pages - 1
                    THEN (IF w.from > 2 THEN w.from .. w.to ELSE {}) \union {pages - 1, pages}
                    ELSE (IF w.from > 2 THEN w.from .. pages ELSE (w.to + 1) .. pages))

\* The links of the navigation that do not belong to the active page. It is
\* rendered for more than one page.
Clickable(page, pages) ==
    IF pages < 2 THEN {}
    ELSE (PageLinks(page, pages) \ {page})
         \union (IF page > 1 THEN {1, page - 1} ELSE {})
         \union (IF page < pages THEN {page + 1, pages} ELSE {})

-----------------------------------------------------------------------------
(* Requests *)

ShownPage == IF view.load = 0 THEN 1 ELSE loads[view.load].page

\* The page of the active link; without one, the first
ActivePage ==
    IF view.pages > 1 /\ ShownPage \in PageLinks(ShownPage, view.pages) THEN ShownPage ELSE 1

\* An input is sent trimmed or not at all, "None" is never sent; what is not
\* sent or empty does not filter.
Sent(text) == IF text = NoneText THEN NoText ELSE text

\* data-limit if the table has one, else the control of the page size if it is
\* shown, else ten
Limit == IF TableLimit > 0 THEN TableLimit ELSE IF view.pages > 0 THEN size ELSE DefaultLimit

InFlight == {i \in DOMAIN loads : loads[i].kind = "rows" /\ loads[i].state = "sent"}

\* get_grid_table_load_url_params: what the table and the controls say now
Request(kind, page, sort, text, limit, click) ==
    [kind |-> kind, page |-> page, order |-> sort, filter |-> Sent(text), limit |-> limit,
     click |-> click, state |-> "sent",
     alone |-> InFlight = {}] \* history: no other request for rows was in flight with it

Overlapped == [i \in DOMAIN loads |-> IF i \in InFlight THEN [loads[i] EXCEPT !.alone = FALSE]
                                                       ELSE loads[i]]

\* load_grid_table_data, called n times by one event. The loader is for rows only.
Load(n, request) ==
    /\ loads' = (IF request.kind = "rows" THEN Overlapped ELSE loads)
                \o [k \in 1 .. n |-> request]
    /\ loader' = (loader \/ request.kind = "rows")

\* The table is loaded when the script is ready; no event, no click.
FirstLoad ==
    /\ Load(1, Request("rows", 1, order, filter, Limit, 0))
    /\ UNCHANGED <<order, filter, size, view, alert>>

\* The user changes the filter; nothing is loaded before it is applied.
EditFilter(text) ==
    /\ Here /\ text # filter
    /\ filter' = text
    /\ UNCHANGED <<pageVars, order, size, loads, view, loader, alert>>

\* A click on a header: another column keeps the direction. The page is the
\* active one. Nothing happens while the table has no rows.
ChangeOrder(col) ==
    /\ Click /\ view.pages > 0
    /\ order' = IF order.col # col THEN [order EXCEPT !.col = col]
                ELSE [order EXCEPT !.direction = IF @ = "down" THEN "up" ELSE "down"]
    /\ Load(Runs(bound), Request("rows", ActivePage, order', filter, Limit, clicks'))
    /\ UNCHANGED <<scripts, bound, left, filter, size, view, alert>>

ChangePage(page) ==
    /\ Click /\ page \in Clickable(ShownPage, view.pages)
    /\ Load(Runs(bound), Request("rows", page, order, filter, Limit, clicks'))
    /\ UNCHANGED <<scripts, bound, left, order, filter, size, view, alert>>

\* The choice in the control comes with the click.
ChangePageSize(n) ==
    /\ Click /\ view.pages > 0 /\ n \in PageSizes
    /\ size' = n
    /\ Load(Runs(bound),
            Request("rows", 1, order, filter, IF TableLimit > 0 THEN TableLimit ELSE n, clicks'))
    /\ UNCHANGED <<scripts, bound, left, order, filter, view, alert>>

FilterApply ==
    /\ Click
    /\ Load(Runs(bound), Request("rows", 1, order, filter, Limit, clicks'))
    /\ UNCHANGED <<scripts, bound, left, order, filter, size, view, alert>>

FilterClear ==
    /\ Click
    /\ filter' = NoText
    /\ Load(Runs(bound), Request("rows", 1, order, NoText, Limit, clicks'))
    /\ UNCHANGED <<scripts, bound, left, order, size, view, alert>>

\* The file has the first page, with the filters as the controls have them now.
Export ==
    /\ Click
    /\ Load(Runs(bound), Request("file", 1, order, filter, Limit, clicks'))
    /\ UNCHANGED <<scripts, bound, left, order, filter, size, view, alert>>

-----------------------------------------------------------------------------
(* Answers *)

Settle(i, state) == loads' = [loads EXCEPT ![i].state = state]

\* Variant with a fault: an icon that is there stays
IconsStay(pages) == IF pages = 0 \/ view.icons # {} THEN view.icons ELSE {order}

\* table_data_sortable_update_header: all icons are removed, then the column of
\* the table's present order gets one, if there are rows.
Icons(pages) == IF pages > 0 THEN {order} ELSE {}

\* The rows arrive: success, then complete. order and direction of the response
\* are stored and never read.
Answer(i, pages) ==
    /\ Here /\ i \in InFlight
    /\ Settle(i, "shown")
    /\ view' = [load |-> i, pages |-> pages, icons |-> Icons(pages)]
    /\ size' = IF pages > 0 THEN loads[i].limit ELSE size
    /\ loader' = FALSE
    /\ UNCHANGED <<pageVars, order, filter, alert>>

\* An error with a message: the alert appears, and nothing hides it again.
Refuse(i) ==
    /\ Here /\ i \in InFlight
    /\ Settle(i, "refused")
    /\ alert' = TRUE
    /\ loader' = FALSE
    /\ UNCHANGED <<pageVars, order, filter, size, view>>

\* An error without JSON: reading its message throws, and complete is not run.
Break(i) ==
    /\ Here /\ i \in InFlight
    /\ Settle(i, "broken")
    /\ UNCHANGED <<pageVars, order, filter, size, view, loader, alert>>

\* The file is saved, or an undefined function is called to report the error.
FileAnswer(i, state) ==
    /\ Here /\ i \in DOMAIN loads /\ loads[i].kind = "file" /\ loads[i].state = "sent"
    /\ Settle(i, state)
    /\ UNCHANGED <<pageVars, order, filter, size, view, loader, alert>>

\* What the user does, and what comes back
GridUse ==
    \/ \E text \in Texts : EditFilter(text)
    \/ \E col \in Columns : ChangeOrder(col)
    \/ \E page \in Clickable(ShownPage, view.pages) : ChangePage(page)
    \/ \E n \in PageSizes : ChangePageSize(n)
    \/ FilterApply \/ FilterClear \/ Export

GridAnswer ==
    \E i \in DOMAIN loads :
        \/ \E pages \in PageCounts : Answer(i, pages)
        \/ Refuse(i) \/ Break(i)
        \/ \E state \in {"saved", "refused"} : FileAnswer(i, state)

-----------------------------------------------------------------------------
(* Properties *)

GridTypeOK ==
    /\ order \in Orders /\ filter \in Texts /\ size \in PageSizes \union {TableLimit, DefaultLimit}
    /\ \A i \in DOMAIN loads :
          /\ loads[i].kind \in {"rows", "file"} /\ loads[i].page \in Nat \ {0}
          /\ loads[i].order \in Orders /\ loads[i].filter \in Texts \ {NoneText}
          /\ loads[i].limit \in (PageSizes \union {TableLimit, DefaultLimit}) \ {0}
          /\ loads[i].state \in {"sent", "shown", "saved", "refused", "broken"}
    /\ view.load \in 0 .. Len(loads) /\ view.pages \in PageCounts \union {0}
    /\ view.icons \subseteq Orders
    /\ loader \in BOOLEAN /\ alert \in BOOLEAN

RowsLoads == {i \in DOMAIN loads : loads[i].kind = "rows"}
Last == CHOOSE i \in RowsLoads : \A j \in RowsLoads : j <= i

\* Requests overlap, and their answers may leave the rows of one order under
\* the icon of another. But whatever happened before, one load that is alone
\* in flight puts everything right: rows, icon, controls and table tell the
\* same, and the loader shows what goes on.
QuietGridIsConsistent ==
    RowsLoads # {} /\ loads[Last].alone =>
        /\ loads[Last].state = "sent" => loader
        /\ loads[Last].state = "shown" =>
             /\ view.load = Last /\ ~loader
             /\ order = loads[Last].order
             /\ view.pages > 0 => view.icons = {loads[Last].order} /\ size = loads[Last].limit

\* Wherever the user has clicked to, and however many pages there are by then, the
\* pages linked are these, by another definition: the two first and the two last
\* ones, and the five pages around the centre that is nearest to the page, of
\* those that have two pages on each side.
LinksComplete ==
    view.pages > 1 /\ ~loader => \A pages \in ShownPage .. 14 :
        LET Distance(c) == IF c > ShownPage THEN c - ShownPage ELSE ShownPage - c
            Nearest == {c \in 3 .. pages - 2 :
                          \A d \in 3 .. pages - 2 : Distance(c) <= Distance(d)}
            Near == UNION {c - 2 .. c + 2 : c \in Nearest}
        IN PageLinks(ShownPage, pages) =
              {q \in 1 .. pages : q <= 2 \/ q > pages - 2 \/ q \in Near}
=============================================================================
