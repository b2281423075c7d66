--------------------------- MODULE ListPageProofs ---------------------------
(***************************************************************************)
(* What holds of ListPage for every set of columns, filters, page sizes    *)
(* and buttons, every number of clicks, requests and pages, and every      *)
(* order of the answers.                                                   *)
(***************************************************************************)
EXTENDS ListPage, ModalProofs

-----------------------------------------------------------------------------
(* Types *)

Limits == (PageSizes \union {TableLimit, DefaultLimit}) \ {0}
GridLoad == [kind : {"rows", "file"}, page : Nat \ {0}, order : Orders, filter : Texts \ {NoneText},
             limit : Limits, click : 0 .. MaxClicks,
             state : {"sent", "shown", "saved", "refused", "broken"}, alone : BOOLEAN]

GridTypes ==
    /\ order \in Orders /\ filter \in Texts /\ size \in Limits
    /\ loads \in Seq(GridLoad)
    /\ view \in [load : Nat, pages : Nat, icons : SUBSET Orders]
    /\ view.load <= Len(loads) /\ view.pages \in PageCounts \union {0}
    /\ loader \in BOOLEAN /\ alert \in BOOLEAN

Types == ModalTypes /\ GridTypes /\ FiltersTypeOK

\* What a click, a filter and a first load ask for, written out.
LEMMA LoadsAre ==
    ASSUME GridTypes
    PROVE  /\ Len(loads) \in Nat /\ DOMAIN loads = 1 .. Len(loads)
           /\ \A i \in DOMAIN loads : loads[i] \in GridLoad
           /\ view.load \in Nat /\ view.pages \in Nat
  BY LenProperties, ElementOfSeq DEF GridTypes

\* The invariant proved is at least the type invariant the run checks.
LEMMA TypesImply == Types => TypeOK
  <1> SUFFICES ASSUME Types PROVE TypeOK
    OBVIOUS
  <1>1. PageTypeOK /\ ModalTypeOK /\ FiltersTypeOK /\ GridTypes
    BY ModalTypesImply DEF Types
  <1>2. \A i \in DOMAIN loads :
          /\ loads[i].kind \in {"rows", "file"} /\ loads[i].page \in Nat \ {0}
          /\ loads[i].order \in Orders /\ loads[i].filter \in Texts \ {NoneText}
          /\ loads[i].limit \in (PageSizes \union {TableLimit, DefaultLimit}) \ {0}
          /\ loads[i].state \in {"sent", "shown", "saved", "refused", "broken"}
    BY <1>1, LoadsAre DEF GridLoad, Limits
  <1>3. view.load \in 0 .. Len(loads) /\ view.icons \subseteq Orders
    BY <1>1, LoadsAre DEF GridTypes
  <1>4. GridTypeOK
    BY <1>1, <1>2, <1>3 DEF GridTypeOK, GridTypes, Limits
  <1>5. QED
    BY <1>1, <1>4 DEF TypeOK

-----------------------------------------------------------------------------
(* The links of the pages *)

\* The page a table shows is the one its answer was made for.
LEMMA ShownPageIs ==
    ASSUME GridTypes
    PROVE  ShownPage \in Nat \ {0}
  <1>1. CASE view.load = 0
    BY <1>1 DEF ShownPage
  <1>2. CASE view.load # 0
    <2>1. view.load \in DOMAIN loads
      BY <1>2, LoadsAre DEF GridTypes
    <2>2. loads[view.load] \in GridLoad
      BY <2>1, LoadsAre
    <2>3. QED
      BY <1>2, <2>2 DEF ShownPage, GridLoad
  <1>3. QED
    BY <1>1, <1>2

\* The window of five pages: its centre is the page, moved inside.
LEMMA WindowIs ==
    ASSUME NEW page \in Nat \ {0}, NEW pages \in Nat, pages > 2, page <= pages
    PROVE  LET w == Window(page, pages)
           IN  /\ w.from \in Nat \ {0} /\ w.to \in Nat /\ 3 <= w.to /\ w.to <= pages
               /\ pages < 5 => w.from = 1 /\ w.to = pages
               /\ pages >= 5 => w.to = w.from + 4
               /\ pages >= 5 /\ page < 3 => w.from = 1
               /\ pages >= 5 /\ page > pages - 2 => w.to = pages
               /\ pages >= 5 /\ 3 <= page /\ page <= pages - 2 => w.from = page - 2
  <1> DEFINE excess == IF page + 2 > pages THEN page + 2 - pages ELSE 0
             from == page - 2 - excess
             to == page + 2 - excess
  <1>1. Window(page, pages) = IF from < 1 THEN [from |-> 1, to |-> Less(to + 1 - from, pages)]
                                          ELSE [from |-> from, to |-> to]
    BY DEF Window
  <1>2. excess \in Nat /\ from \in Int /\ to = from + 4
        /\ (page + 2 > pages => excess = page + 2 - pages) /\ (~(page + 2 > pages) => excess = 0)
        /\ from = page - 2 - excess
    OBVIOUS
  <1> HIDE DEF excess, from, to
  <1>3. CASE from < 1
    <2>1. Window(page, pages).from = 1 /\ Window(page, pages).to = IF 5 < pages THEN 5 ELSE pages
      BY <1>1, <1>2, <1>3 DEF Less
    <2>2. QED
      BY <1>2, <1>3, <2>1
  <1>4. CASE ~(from < 1)
    <2>1. Window(page, pages).from = from /\ Window(page, pages).to = to
      BY <1>1, <1>4
    <2>2. QED
      BY <1>2, <1>4, <2>1
  <1>5. QED
    BY <1>3, <1>4

\* The pages linked: the two first, the two last, and those in the window
LEMMA LinksAre ==
    ASSUME NEW page \in Nat \ {0}, NEW pages \in Nat, pages > 2, page <= pages
    PROVE  LET w == Window(page, pages)
           IN  PageLinks(page, pages) =
                  {q \in 1 .. pages : q <= 2 \/ q > pages - 2 \/ (w.from <= q /\ q <= w.to)}
  <1> DEFINE w == Window(page, pages)
             links == PageLinks(page, pages)
             front == IF w.from > 2 THEN {1, 2} ELSE 1 .. w.to
             back == IF w.to < pages - 1
                     THEN (IF w.from > 2 THEN w.from .. w.to ELSE {}) \union {pages - 1, pages}
                     ELSE (IF w.from > 2 THEN w.from .. pages ELSE (w.to + 1) .. pages)
  <1>1. links = front \union back
    BY DEF PageLinks
  <1>2. w.from \in Nat \ {0} /\ w.to \in Nat /\ 3 <= w.to /\ w.to <= pages
        /\ (pages < 5 => w.from = 1 /\ w.to = pages) /\ (pages >= 5 => w.to = w.from + 4)
    BY WindowIs
  <1> HIDE DEF w
  <1>3. \A q \in front : q \in 1 .. pages /\ (q <= 2 \/ q > pages - 2 \/ (w.from <= q /\ q <= w.to))
    BY <1>2
  <1>4. \A q \in back : q \in 1 .. pages /\ (q <= 2 \/ q > pages - 2 \/ (w.from <= q /\ q <= w.to))
    BY <1>2
  <1>5. ASSUME NEW q \in 1 .. pages, q <= 2 \/ q > pages - 2 \/ (w.from <= q /\ q <= w.to)
        PROVE  q \in front \/ q \in back
    BY <1>2, <1>5
  <1> HIDE DEF front, back, links
  <1>6. links = {q \in 1 .. pages : q <= 2 \/ q > pages - 2 \/ (w.from <= q /\ q <= w.to)}
    BY <1>1, <1>3, <1>4, <1>5
  <1>7. QED
    BY <1>6 DEF w, links

\* For every number of pages that includes the page shown, the links are those
\* of the other definition.
LEMMA LinksByDistance ==
    ASSUME NEW page \in Nat \ {0}, NEW pages \in Nat, page <= pages
    PROVE  LET Distance(c) == IF c > page THEN c - page ELSE page - c
               Nearest == {c \in 3 .. pages - 2 : \A d \in 3 .. pages - 2 : Distance(c) <= Distance(d)}
               Near == UNION {c - 2 .. c + 2 : c \in Nearest}
           IN  PageLinks(page, pages) = {q \in 1 .. pages : q <= 2 \/ q > pages - 2 \/ q \in Near}
  <1> DEFINE Distance(c) == IF c > page THEN c - page ELSE page - c
             Nearest == {c \in 3 .. pages - 2 : \A d \in 3 .. pages - 2 : Distance(c) <= Distance(d)}
             Near == UNION {c - 2 .. c + 2 : c \in Nearest}
             w == Window(page, pages)
  <1>1. CASE pages < 3
    <2>1. PageLinks(page, pages) = 1 .. pages
      BY <1>1 DEF PageLinks
    <2>2. \A q \in 1 .. pages : q <= 2
      BY <1>1
    <2> HIDE DEF Near
    <2>3. PageLinks(page, pages) = {q \in 1 .. pages : q <= 2 \/ q > pages - 2 \/ q \in Near}
      BY <2>1, <2>2
    <2>4. QED
      BY <2>3 DEF Near
  <1>2. CASE ~(pages < 3)
    <2>1. PageLinks(page, pages) =
              {q \in 1 .. pages : q <= 2 \/ q > pages - 2 \/ (w.from <= q /\ q <= w.to)}
      BY <1>2, LinksAre
    <2>2. ASSUME NEW q \in 1 .. pages, ~(q <= 2), ~(q > pages - 2)
          PROVE  (w.from <= q /\ q <= w.to) <=> q \in Near
      <3>1. pages >= 5
        BY <2>2
      <3>2. PICK c \in 3 .. pages - 2 : /\ page < 3 => c = 3
                                        /\ page > pages - 2 => c = pages - 2
                                        /\ 3 <= page /\ page <= pages - 2 => c = page
        <4>1. CASE page < 3
          BY <3>1, <4>1
        <4>2. CASE page > pages - 2
          BY <3>1, <4>2
        <4>3. CASE 3 <= page /\ page <= pages - 2
          BY <4>3
        <4>4. QED
          BY <4>1, <4>2, <4>3
      <3>3. w.from = c - 2 /\ w.to = c + 2
        <4>1. w.from \in Nat /\ w.to = w.from + 4 /\ (page < 3 => w.from = 1)
              /\ (page > pages - 2 => w.to = pages)
              /\ (3 <= page /\ page <= pages - 2 => w.from = page - 2)
          BY <1>2, <3>1, WindowIs
        <4> HIDE DEF w
        <4>2. QED
          BY <3>1, <3>2, <4>1
      <3>4. Nearest = {c}
        <4>1. \A d \in 3 .. pages - 2 : Distance(c) <= Distance(d)
          BY <3>2
        <4>2. \A d \in 3 .. pages - 2 : Distance(d) <= Distance(c) => d = c
          BY <3>2
        <4> HIDE DEF Distance
        <4>3. QED
          BY <4>1, <4>2
      <3>5. Near = c - 2 .. c + 2
        <4> HIDE DEF Nearest
        <4>1. QED
          BY <3>4
      <3> HIDE DEF w, Near
      <3>6. QED
        BY <3>3, <3>5
    <2> HIDE DEF w, Near
    <2>3. PageLinks(page, pages) = {q \in 1 .. pages : q <= 2 \/ q > pages - 2 \/ q \in Near}
      BY <2>1, <2>2
    <2>4. QED
      BY <2>3 DEF Near
  <1>3. QED
    BY <1>1, <1>2

\* The links of every table of the right type are complete.
LEMMA LinksImplied == GridTypes => LinksComplete
  <1> SUFFICES ASSUME GridTypes, NEW pages \in ShownPage .. 14
               PROVE  LET Distance(c) == IF c > ShownPage THEN c - ShownPage ELSE ShownPage - c
                          Nearest == {c \in 3 .. pages - 2 :
                                        \A d \in 3 .. pages - 2 : Distance(c) <= Distance(d)}
                          Near == UNION {c - 2 .. c + 2 : c \in Nearest}
                      IN PageLinks(ShownPage, pages) =
                            {q \in 1 .. pages : q <= 2 \/ q > pages - 2 \/ q \in Near}
    BY DEF LinksComplete
  <1>1. ShownPage \in Nat \ {0} /\ pages \in Nat /\ ShownPage <= pages
    BY ShownPageIs
  <1>2. QED
    BY <1>1, LinksByDistance

\* A page that can be clicked is a page.
LEMMA ClickableIs ==
    ASSUME GridTypes, NEW page \in Clickable(ShownPage, view.pages)
    PROVE  page \in Nat \ {0}
  <1> DEFINE shown == ShownPage
             pages == view.pages
  <1>1. shown \in Nat \ {0} /\ pages \in Nat
    BY ShownPageIs, LoadsAre
  <1> HIDE DEF shown, pages
  <1>2. PageLinks(shown, pages) \subseteq Nat \ {0}
    <2>1. CASE pages < 3
      BY <1>1, <2>1 DEF PageLinks
    <2>2. CASE ~(pages < 3)
      <3> DEFINE w == Window(shown, pages)
      <3>1. w.from \in Nat \ {0} /\ w.to \in Nat
        BY <1>1, <2>2 DEF Window, Less
      <3> HIDE DEF w
      <3>2. QED
        BY <1>1, <2>2, <3>1 DEF PageLinks, w
    <2>3. QED
      BY <2>1, <2>2
  <1>3. page \in Clickable(shown, pages)
    BY DEF shown, pages
  <1>4. QED
    BY <1>1, <1>2, <1>3 DEF Clickable

-----------------------------------------------------------------------------
(* Requests and answers *)

\* The fields of a request that the table sends.
LEMMA RequestIs ==
    ASSUME NEW kind \in {"rows", "file"}, NEW page \in Nat \ {0}, NEW sort \in Orders,
           NEW text \in Texts, NEW limit \in Limits, NEW click \in 0 .. MaxClicks
    PROVE  LET request == Request(kind, page, sort, text, limit, click)
           IN  /\ request \in GridLoad /\ request.kind = kind /\ request.order = sort
               /\ request.click = click /\ request.state = "sent" /\ request.limit = limit
               /\ request.alone => InFlight = {}
  <1> DEFINE empty == InFlight = {}
             sent == Sent(text)
             request == [kind |-> kind, page |-> page, order |-> sort, filter |-> sent,
                         limit |-> limit, click |-> click, state |-> "sent", alone |-> empty]
  <1>1. empty \in BOOLEAN /\ (empty => InFlight = {})
    OBVIOUS
  <1>2. sent \in Texts \ {NoneText}
    BY GridAssumption DEF Sent
  <1>3. Request(kind, page, sort, text, limit, click) = request
    BY DEF Request
  <1> HIDE DEF empty, sent
  <1>4. request \in GridLoad
    BY <1>1, <1>2 DEF GridLoad
  <1>5. QED
    BY <1>1, <1>3, <1>4

\* The requests that were sent, after another one for rows
LEMMA OverlappedIs ==
    ASSUME GridTypes
    PROVE  /\ Overlapped \in Seq(GridLoad) /\ Len(Overlapped) = Len(loads)
           /\ DOMAIN Overlapped = DOMAIN loads
           /\ \A i \in DOMAIN loads :
                 /\ Overlapped[i] \in {loads[i], [loads[i] EXCEPT !.alone = FALSE]}
                 /\ i \in InFlight => Overlapped[i].alone = FALSE
  <1>1. \A i \in DOMAIN loads : [loads[i] EXCEPT !.alone = FALSE] \in GridLoad
                                /\ [loads[i] EXCEPT !.alone = FALSE].alone = FALSE
    BY LoadsAre DEF GridLoad
  <1>2. Overlapped = [i \in DOMAIN loads |-> Overlapped[i]]
        /\ \A i \in DOMAIN loads :
              /\ i \in InFlight => Overlapped[i] = [loads[i] EXCEPT !.alone = FALSE]
              /\ i \notin InFlight => Overlapped[i] = loads[i]
    BY DEF Overlapped
  <1>3. \A i \in DOMAIN loads : Overlapped[i] \in GridLoad
    BY <1>1, <1>2, LoadsAre
  <1>4. loads \in Seq(GridLoad)
    BY DEF GridTypes
  <1>5. Overlapped \in Seq(GridLoad) /\ Len(Overlapped) = Len(loads) /\ DOMAIN Overlapped = DOMAIN loads
    BY <1>2, <1>3, <1>4, AllChanged
  <1>6. QED
    BY <1>1, <1>2, <1>5

\* One request is added; the others change in nothing but whether they were alone.
LEMMA LoadAdds ==
    ASSUME GridTypes, NEW request \in GridLoad, Load(1, request)
    PROVE  /\ loads' \in Seq(GridLoad) /\ Len(loads') = Len(loads) + 1
           /\ DOMAIN loads' = 1 .. Len(loads) + 1 /\ loads'[Len(loads) + 1] = request
           /\ \A i \in DOMAIN loads :
                 /\ loads'[i].kind = loads[i].kind /\ loads'[i].state = loads[i].state
                 /\ loads'[i].click = loads[i].click /\ loads'[i].order = loads[i].order
                 /\ loads'[i].limit = loads[i].limit
                 /\ loads'[i].alone => loads[i].alone
                 /\ request.kind = "rows" /\ i \in InFlight => ~loads'[i].alone
           /\ loader' \in BOOLEAN
           /\ request.kind = "rows" => loader'
           /\ request.kind = "file" => loader' = loader
  <1> DEFINE before == IF request.kind = "rows" THEN Overlapped ELSE loads
  <1>0. request.kind \in {"rows", "file"}
    BY DEF GridLoad
  <1>1. /\ before \in Seq(GridLoad) /\ Len(before) = Len(loads)
        /\ \A i \in DOMAIN loads :
              /\ before[i] \in {loads[i], [loads[i] EXCEPT !.alone = FALSE]}
              /\ request.kind = "rows" /\ i \in InFlight => before[i].alone = FALSE
    <2>1. CASE request.kind = "rows"
      BY <2>1, OverlappedIs
    <2>2. CASE request.kind # "rows"
      BY <2>2 DEF GridTypes
    <2>3. QED
      BY <2>1, <2>2
  <1>2. loads' = before \o [k \in 1 .. 1 |-> request]
    BY DEF Load
  <1> HIDE DEF before
  <1>3. /\ loads' \in Seq(GridLoad) /\ Len(loads') = Len(before) + 1
        /\ DOMAIN loads' = 1 .. Len(before) + 1
        /\ \A i \in 1 .. Len(before) : loads'[i] = before[i]
        /\ loads'[Len(before) + 1] = request
    BY <1>1, <1>2, OneAdded
  <1>4. \A i \in DOMAIN loads : loads'[i] = before[i] /\ loads[i] \in GridLoad
    BY <1>1, <1>3, LoadsAre
  <1>5. ASSUME NEW i \in DOMAIN loads
        PROVE  /\ loads'[i].kind = loads[i].kind /\ loads'[i].state = loads[i].state
               /\ loads'[i].click = loads[i].click /\ loads'[i].order = loads[i].order
               /\ loads'[i].limit = loads[i].limit
               /\ loads'[i].alone => loads[i].alone
    <2>1. CASE loads'[i] = loads[i]
      BY <2>1
    <2>2. CASE loads'[i] = [loads[i] EXCEPT !.alone = FALSE]
      BY <1>4, <2>2 DEF GridLoad
    <2>3. QED
      BY <1>1, <1>4, <2>1, <2>2
  <1>6. loader' \in BOOLEAN /\ (request.kind = "rows" => loader') /\ (request.kind = "file" => loader' = loader)
    <2> DEFINE rows == request.kind = "rows"
    <2>1. loader' = (loader \/ rows) /\ loader \in BOOLEAN /\ rows \in BOOLEAN
          /\ (rows <=> request.kind = "rows")
      BY DEF Load, GridTypes
    <2>2. request.kind = "file" => ~rows
      OBVIOUS
    <2> HIDE DEF rows
    <2>3. loader' \in BOOLEAN /\ (rows => loader') /\ (~rows => loader' = loader)
      BY <2>1
    <2>4. QED
      BY <2>1, <2>2, <2>3
  <1>7. \A i \in DOMAIN loads : request.kind = "rows" /\ i \in InFlight => ~loads'[i].alone
    BY <1>1, <1>4
  <1>8. QED
    BY <1>1, <1>3, <1>5, <1>6, <1>7

\* What a use of the grid asks for: what the table and the controls say then
Asks(kind) ==
    \E page \in Nat \ {0}, text \in Texts, limit \in Limits :
        Load(1, Request(kind, page, order', text, limit, clicks'))

\* Each use of the grid is the edit of a filter, or one click and one request.
LEMMA GridUses ==
    ASSUME Types, GridUse
    PROVE  /\ order' \in Orders /\ filter' \in Texts /\ size' \in Limits
           /\ UNCHANGED <<scripts, bound, left, view, alert>>
           /\ \/ Click /\ Asks("rows")
              \/ Click /\ Asks("file") /\ UNCHANGED <<order, size>>
              \/ UNCHANGED <<clicks, order, size, loads, loader>>
  <1> DEFINE Goal == /\ order' \in Orders /\ filter' \in Texts /\ size' \in Limits
                     /\ UNCHANGED <<scripts, bound, left, view, alert>>
                     /\ \/ Click /\ Asks("rows")
                        \/ Click /\ Asks("file") /\ UNCHANGED <<order, size>>
                        \/ UNCHANGED <<clicks, order, size, loads, loader>>
  <1>0. order \in Orders /\ filter \in Texts /\ size \in Limits /\ NoText \in Texts
    BY GridAssumption DEF Types, GridTypes
  <1>1. Limit \in Limits
    BY <1>0, GridAssumption DEF Limit, Limits, DefaultLimit
  <1>2. ActivePage \in Nat \ {0}
    BY ShownPageIs DEF ActivePage, Types
  <1>3. Click => Runs(bound) = 1
    BY ClickCounts DEF Types, ModalTypes
  <1>4. ASSUME NEW text \in Texts, EditFilter(text) PROVE Goal
    BY <1>0, <1>4 DEF EditFilter, pageVars
  <1>5. ASSUME NEW col \in Columns, ChangeOrder(col) PROVE Goal
    <2>1. order' \in Orders
      BY <1>0, <1>5 DEF ChangeOrder, Orders
    <2>2. Click /\ UNCHANGED <<scripts, bound, left, filter, size, view, alert>>
          /\ Load(1, Request("rows", ActivePage, order', filter, Limit, clicks'))
      BY <1>3, <1>5 DEF ChangeOrder
    <2>3. Asks("rows")
      BY <1>0, <1>1, <1>2, <2>2 DEF Asks
    <2>4. QED
      BY <1>0, <2>1, <2>2, <2>3
  <1>6. ASSUME NEW page \in Clickable(ShownPage, view.pages), ChangePage(page) PROVE Goal
    <2>1. page \in Nat \ {0}
      BY ClickableIs DEF Types
    <2>2. Click /\ UNCHANGED <<scripts, bound, left, order, filter, size, view, alert>>
          /\ Load(1, Request("rows", page, order', filter, Limit, clicks'))
      BY <1>3, <1>6 DEF ChangePage
    <2>3. Asks("rows")
      BY <1>0, <1>1, <2>1, <2>2 DEF Asks
    <2>4. QED
      BY <1>0, <2>2, <2>3
  <1>7. ASSUME NEW n \in PageSizes, ChangePageSize(n) PROVE Goal
    <2> DEFINE limit == IF TableLimit > 0 THEN TableLimit ELSE n
    <2>1. limit \in Limits /\ n \in Limits
      BY GridAssumption DEF Limits
    <2>2. Click /\ UNCHANGED <<scripts, bound, left, order, filter, view, alert>> /\ size' = n
          /\ Load(1, Request("rows", 1, order', filter, limit, clicks'))
      BY <1>3, <1>7 DEF ChangePageSize
    <2> HIDE DEF limit
    <2>3. Asks("rows")
      BY <1>0, <2>1, <2>2 DEF Asks
    <2>4. QED
      BY <1>0, <2>1, <2>2, <2>3
  <1>8. ASSUME FilterApply PROVE Goal
    <2>1. Click /\ UNCHANGED <<scripts, bound, left, order, filter, size, view, alert>>
          /\ Load(1, Request("rows", 1, order', filter, Limit, clicks'))
      BY <1>3, <1>8 DEF FilterApply
    <2>2. Asks("rows")
      BY <1>0, <1>1, <2>1 DEF Asks
    <2>3. QED
      BY <1>0, <2>1, <2>2
  <1>9. ASSUME FilterClear PROVE Goal
    <2>1. Click /\ UNCHANGED <<scripts, bound, left, order, size, view, alert>> /\ filter' = NoText
          /\ Load(1, Request("rows", 1, order', NoText, Limit, clicks'))
      BY <1>3, <1>9 DEF FilterClear
    <2>2. Asks("rows")
      BY <1>0, <1>1, <2>1 DEF Asks
    <2>3. QED
      BY <1>0, <2>1, <2>2
  <1>10. ASSUME Export PROVE Goal
    <2>1. Click /\ UNCHANGED <<scripts, bound, left, order, filter, size, view, alert>>
          /\ Load(1, Request("file", 1, order', filter, Limit, clicks'))
      BY <1>3, <1>10 DEF Export
    <2>2. Asks("file")
      BY <1>0, <1>1, <2>1 DEF Asks
    <2>3. QED
      BY <1>0, <2>1, <2>2
  <1>11. QED
    BY <1>4, <1>5, <1>6, <1>7, <1>8, <1>9, <1>10 DEF GridUse

\* What is asked for is one request, the newest.
LEMMA AsksOne ==
    ASSUME Types, NEW kind \in {"rows", "file"}, order' \in Orders, clicks' \in 0 .. MaxClicks,
           Asks(kind)
    PROVE  \E request \in GridLoad :
              /\ Load(1, request) /\ request.kind = kind /\ request.order = order'
              /\ request.click = clicks' /\ request.state = "sent"
              /\ request.alone => InFlight = {}
  <1>1. PICK page \in Nat \ {0}, text \in Texts, limit \in Limits :
            Load(1, Request(kind, page, order', text, limit, clicks'))
    BY DEF Asks
  <1> DEFINE request == Request(kind, page, order', text, limit, clicks')
  <1>2. /\ request \in GridLoad /\ request.kind = kind /\ request.order = order'
        /\ request.click = clicks' /\ request.state = "sent" /\ (request.alone => InFlight = {})
    BY RequestIs
  <1> HIDE DEF request
  <1>3. Load(1, request)
    BY <1>1 DEF request
  <1>4. QED
    BY <1>2, <1>3

\* An answer changes nothing of the request but its state, and of the others nothing.
LEMMA Settles ==
    ASSUME GridTypes, NEW i \in DOMAIN loads,
           NEW state \in {"sent", "shown", "saved", "refused", "broken"}, Settle(i, state)
    PROVE  /\ loads' \in Seq(GridLoad) /\ Len(loads') = Len(loads) /\ DOMAIN loads' = DOMAIN loads
           /\ loads'[i].state = state
           /\ \A j \in DOMAIN loads : j # i => loads'[j] = loads[j]
           /\ \A j \in DOMAIN loads :
                 /\ loads'[j].kind = loads[j].kind /\ loads'[j].click = loads[j].click
                 /\ loads'[j].order = loads[j].order /\ loads'[j].limit = loads[j].limit
                 /\ loads'[j].alone = loads[j].alone
  <1> DEFINE load == [loads[i] EXCEPT !.state = state]
  <1>1. loads \in Seq(GridLoad) /\ loads[i] \in GridLoad
    BY LoadsAre DEF GridTypes
  <1>2. /\ load \in GridLoad /\ load.state = state /\ load.kind = loads[i].kind
        /\ load.click = loads[i].click /\ load.order = loads[i].order
        /\ load.limit = loads[i].limit /\ load.alone = loads[i].alone
    BY <1>1 DEF GridLoad
  <1>3. loads' = [loads EXCEPT ![i] = load]
    BY DEF Settle
  <1> HIDE DEF load
  <1>4. /\ loads' \in Seq(GridLoad) /\ Len(loads') = Len(loads) /\ DOMAIN loads' = DOMAIN loads
        /\ loads'[i] = load /\ \A j \in DOMAIN loads : j # i => loads'[j] = loads[j]
    BY <1>1, <1>2, <1>3, OneChanged
  <1>5. QED
    BY <1>2, <1>4

\* The answers: to a request for rows the only one that is new, to one for a
\* file one that the grid does not show.
LEMMA GridAnswers ==
    ASSUME Types, GridAnswer
    PROVE  /\ UNCHANGED <<scripts, bound, left, clicks, order, filter>>
           /\ \E i \in DOMAIN loads, state \in {"shown", "saved", "refused", "broken"} :
                 /\ Settle(i, state)
                 /\ \/ /\ i \in InFlight /\ state = "shown" /\ loader' = FALSE /\ alert' = alert
                       /\ \E pages \in PageCounts :
                             /\ view' = [load |-> i, pages |-> pages, icons |-> Icons(pages)]
                             /\ size' = IF pages > 0 THEN loads[i].limit ELSE size
                    \/ /\ i \in InFlight /\ state \in {"refused", "broken"}
                       /\ loader' \in {loader, FALSE} /\ alert' \in {alert, TRUE}
                       /\ UNCHANGED <<size, view>>
                    \/ /\ loads[i].kind = "file" /\ state \in {"saved", "refused"}
                       /\ UNCHANGED <<size, view, loader, alert>>
  <1>1. PICK i \in DOMAIN loads :
            \/ \E pages \in PageCounts : Answer(i, pages)
            \/ Refuse(i) \/ Break(i)
            \/ \E state \in {"saved", "refused"} : FileAnswer(i, state)
    BY DEF GridAnswer
  <1>2. UNCHANGED <<scripts, bound, left, clicks, order, filter>>
    BY <1>1 DEF Answer, Refuse, Break, FileAnswer, pageVars
  <1>3. CASE \E pages \in PageCounts : Answer(i, pages)
    BY <1>2, <1>3 DEF Answer
  <1>4. CASE Refuse(i)
    BY <1>2, <1>4 DEF Refuse
  <1>5. CASE Break(i)
    BY <1>2, <1>5 DEF Break
  <1>6. CASE \E state \in {"saved", "refused"} : FileAnswer(i, state)
    BY <1>2, <1>6 DEF FileAnswer
  <1>7. QED
    BY <1>1, <1>3, <1>4, <1>5, <1>6

-----------------------------------------------------------------------------
(* Every variable has its type *)

\* A step of the page is one of its script, its grid, its filters or its dialog.
LEMMA Steps ==
    ASSUME Next
    PROVE  \/ Ready
           \/ GridUse /\ UNCHANGED <<filtersVars, modalVars>>
           \/ FiltersUse /\ UNCHANGED <<gridVars, modalVars>>
           \/ GridAnswer /\ UNCHANGED <<filtersVars, modalVars>>
           \/ ModalStep /\ UNCHANGED <<gridVars, filtersVars>>
  <1>1. FiltersUse => UNCHANGED gridVars
    BY DEF FiltersUse, Collapse, PageFilterApply, PageGridExport, PageFilterClear, PageReload
  <1>2. ModalNext => ModalStep
    BY DEF ModalNext, ModalStep
  <1>3. QED
    BY <1>1, <1>2 DEF Next

\* The first load is one for rows, without a click.
LEMMA ReadyAsks ==
    ASSUME Types, Ready
    PROVE  /\ UNCHANGED <<left, clicks, order, filter, size, view, alert>>
           /\ UNCHANGED <<filtersVars, modalVars>>
           /\ scripts' \in Nat /\ bound' \in 0 .. MaxBound
           /\ \E request \in GridLoad :
                 /\ Load(1, request) /\ request.kind = "rows" /\ request.order = order'
                 /\ request.click = 0 /\ request.state = "sent"
                 /\ request.alone => InFlight = {}
  <1>1. /\ UNCHANGED <<left, clicks, order, filter, size, view, alert>>
        /\ UNCHANGED <<filtersVars, modalVars>>
        /\ Load(1, Request("rows", 1, order, filter, Limit, 0))
    BY DEF Ready, Bind, FirstLoad
  <1>2. scripts' \in Nat /\ bound' \in 0 .. MaxBound
    BY DEF Ready, Bind, MaxBound, Types, ModalTypes, PageTypeOK
  <1>3. order \in Orders /\ filter \in Texts /\ Limit \in Limits /\ 0 \in 0 .. MaxClicks
    BY GridAssumption, PageAssumption DEF Types, GridTypes, Limit, Limits, DefaultLimit
  <1> DEFINE request == Request("rows", 1, order, filter, Limit, 0)
  <1>4. /\ request \in GridLoad /\ request.kind = "rows" /\ request.order = order
        /\ request.click = 0 /\ request.state = "sent" /\ (request.alone => InFlight = {})
    BY <1>3, RequestIs
  <1> HIDE DEF request
  <1>5. Load(1, request)
    BY <1>1 DEF request
  <1>6. QED
    BY <1>1, <1>2, <1>4, <1>5

\* What a use of the grid does when it is not the edit of a filter
LEMMA UseAsks ==
    ASSUME Types, Click, order' \in Orders, NEW kind \in {"rows", "file"}, Asks(kind)
    PROVE  /\ clicks' = clicks + 1 /\ clicks' \in 1 .. MaxClicks
           /\ \E request \in GridLoad :
                 /\ Load(1, request) /\ request.kind = kind /\ request.order = order'
                 /\ request.click = clicks' /\ request.state = "sent"
                 /\ request.alone => InFlight = {}
  <1>1. clicks' = clicks + 1 /\ clicks' \in 1 .. MaxClicks
    BY ClickCounts DEF Types, ModalTypes
  <1>2. clicks' \in 0 .. MaxClicks
    BY <1>1
  <1>3. QED
    BY <1>1, <1>2, AsksOne

\* The filters of the page keep its types.
LEMMA FiltersKeepTypes ==
    ASSUME PageTypeOK, FiltersTypeOK, filter \in Texts, FiltersUse
    PROVE  PageTypeOK' /\ FiltersTypeOK'
  <1>1. clicks' \in 0 .. MaxClicks /\ UNCHANGED <<scripts, bound>>
    <2>1. Click /\ UNCHANGED <<scripts, bound>>
      BY DEF FiltersUse, Collapse, PageFilterApply, PageGridExport, PageFilterClear, PageReload
    <2>2. QED
      BY <2>1, ClickCounts
  <1>2. left' \in BOOLEAN
    BY DEF FiltersUse, Collapse, PageFilterApply, PageGridExport, PageFilterClear, PageReload, PageTypeOK
  <1>3. collapsed' \in BOOLEAN /\ expand' \in BOOLEAN
    BY DEF FiltersUse, Collapse, PageFilterApply, PageGridExport, PageFilterClear, PageReload, FiltersTypeOK
  <1>4. address' \in [filter : Texts, export : BOOLEAN]
    <2>1. \A export \in BOOLEAN : PageReload(export) => address' \in [filter : Texts, export : BOOLEAN]
      BY DEF PageReload, FiltersTypeOK
    <2>2. Collapse => address' \in [filter : Texts, export : BOOLEAN]
      BY DEF Collapse, FiltersTypeOK
    <2>3. PageFilterClear => address' \in [filter : Texts, export : BOOLEAN]
      BY GridAssumption DEF PageFilterClear
    <2>4. QED
      BY <2>1, <2>2, <2>3 DEF FiltersUse, PageFilterApply, PageGridExport
  <1>5. QED
    BY <1>1, <1>2, <1>3, <1>4 DEF PageTypeOK, FiltersTypeOK

\* Every step of the page keeps its types.
LEMMA TypesStep ==
    ASSUME Types, [Next]_vars
    PROVE  Types'
  <1>0. ModalTypes /\ GridTypes /\ FiltersTypeOK /\ PageTypeOK /\ Len(loads) \in Nat
        /\ view \in [load : Nat, pages : Nat, icons : SUBSET Orders]
        /\ view.load <= Len(loads) /\ view.pages \in PageCounts \union {0}
    BY LoadsAre DEF Types, ModalTypes, GridTypes
  <1>1. ASSUME NEW request \in GridLoad, Load(1, request), UNCHANGED <<view, alert>>,
               order' \in Orders, filter' \in Texts, size' \in Limits
        PROVE  GridTypes'
    <2>1. loads' \in Seq(GridLoad) /\ Len(loads') = Len(loads) + 1 /\ loader' \in BOOLEAN
      BY <1>0, <1>1, LoadAdds
    <2>2. QED
      BY <1>0, <1>1, <2>1 DEF GridTypes
  <1>2. CASE Ready
    <2>1. PageTypeOK'
      BY <1>0, <1>2, ReadyAsks DEF PageTypeOK, Types
    <2>2. /\ UNCHANGED <<order, filter, size, view, alert, filtersVars, modalVars>>
          /\ \E request \in GridLoad : Load(1, request)
      BY <1>2, ReadyAsks
    <2>3. GridTypes'
      BY <1>0, <1>1, <2>2 DEF GridTypes
    <2>4. QED
      BY <1>0, <2>1, <2>2, <2>3 DEF Types, ModalTypes, FiltersTypeOK, modalVars, filtersVars
  <1>3. CASE GridUse /\ UNCHANGED <<filtersVars, modalVars>>
    <2>1. /\ order' \in Orders /\ filter' \in Texts /\ size' \in Limits
          /\ UNCHANGED <<scripts, bound, left, view, alert>>
          /\ \/ Click /\ \E kind \in {"rows", "file"} : Asks(kind)
             \/ UNCHANGED <<clicks, loads, loader>>
      BY <1>3, GridUses
    <2>2. GridTypes' /\ clicks' \in 0 .. MaxClicks
      <3>1. CASE UNCHANGED <<clicks, loads, loader>>
        BY <1>0, <2>1, <3>1 DEF GridTypes, PageTypeOK
      <3>2. CASE Click /\ \E kind \in {"rows", "file"} : Asks(kind)
        <4>1. clicks' \in 1 .. MaxClicks /\ \E request \in GridLoad : Load(1, request)
          BY <2>1, <3>2, UseAsks
        <4>2. QED
          BY <1>1, <2>1, <4>1
      <3>3. QED
        BY <2>1, <3>1, <3>2
    <2>3. QED
      BY <1>0, <1>3, <2>1, <2>2 DEF Types, ModalTypes, PageTypeOK, FiltersTypeOK, modalVars, filtersVars
  <1>4. CASE FiltersUse /\ UNCHANGED <<gridVars, modalVars>>
    <2>1. PageTypeOK' /\ FiltersTypeOK'
      BY <1>0, <1>4, FiltersKeepTypes DEF GridTypes
    <2>2. QED
      BY <1>0, <1>4, <2>1 DEF Types, ModalTypes, GridTypes, gridVars, modalVars
  <1>5. CASE GridAnswer /\ UNCHANGED <<filtersVars, modalVars>>
    <2>1. UNCHANGED <<scripts, bound, left, clicks, order, filter>>
      BY <1>5, GridAnswers
    <2>2. PICK i \in DOMAIN loads, state \in {"shown", "saved", "refused", "broken"} :
              /\ Settle(i, state)
              /\ \/ /\ i \in InFlight /\ state = "shown" /\ loader' = FALSE /\ alert' = alert
                    /\ \E pages \in PageCounts :
                          /\ view' = [load |-> i, pages |-> pages, icons |-> Icons(pages)]
                          /\ size' = IF pages > 0 THEN loads[i].limit ELSE size
                 \/ /\ i \in InFlight /\ state \in {"refused", "broken"}
                    /\ loader' \in {loader, FALSE} /\ alert' \in {alert, TRUE}
                    /\ UNCHANGED <<size, view>>
                 \/ /\ loads[i].kind = "file" /\ state \in {"saved", "refused"}
                    /\ UNCHANGED <<size, view, loader, alert>>
      BY <1>5, GridAnswers
    <2>3. loads' \in Seq(GridLoad) /\ Len(loads') = Len(loads)
      BY <1>0, <2>2, Settles
    <2>4. loader' \in BOOLEAN /\ alert' \in BOOLEAN
      BY <1>0, <2>2 DEF GridTypes
    <2>5. /\ view' \in [load : Nat, pages : Nat, icons : SUBSET Orders]
          /\ view'.load <= Len(loads) /\ view'.pages \in PageCounts \union {0} /\ size' \in Limits
      <3>1. CASE UNCHANGED <<size, view>>
        BY <1>0, <3>1 DEF GridTypes
      <3>2. ASSUME NEW pages \in PageCounts,
                   view' = [load |-> i, pages |-> pages, icons |-> Icons(pages)],
                   size' = IF pages > 0 THEN loads[i].limit ELSE size
            PROVE  /\ view' \in [load : Nat, pages : Nat, icons : SUBSET Orders]
                   /\ view'.load <= Len(loads) /\ view'.pages \in PageCounts \union {0} /\ size' \in Limits
        <4>1. i \in Nat /\ i <= Len(loads) /\ pages \in Nat /\ loads[i].limit \in Limits
          BY <1>0, LoadsAre, GridAssumption DEF GridLoad
        <4>2. Icons(pages) \in SUBSET Orders
          BY <1>0 DEF Icons, GridTypes
        <4>3. size' \in Limits
          BY <1>0, <3>2, <4>1 DEF GridTypes
        <4>4. QED
          BY <3>2, <4>1, <4>2, <4>3
      <3>3. QED
        BY <2>2, <3>1, <3>2
    <2>6. GridTypes'
      BY <1>0, <2>1, <2>3, <2>4, <2>5 DEF GridTypes
    <2>7. QED
      BY <1>0, <1>5, <2>1, <2>6 DEF Types, ModalTypes, PageTypeOK, FiltersTypeOK, modalVars, filtersVars
  <1>6. CASE ModalStep /\ UNCHANGED <<gridVars, filtersVars>>
    <2>1. ModalTypes'
      BY <1>0, <1>6, ModalKeepsTypes
    <2>2. QED
      BY <1>0, <1>6, <2>1 DEF Types, GridTypes, FiltersTypeOK, gridVars, filtersVars
  <1>7. CASE UNCHANGED vars
    BY <1>0, <1>7 DEF vars, pageVars, gridVars, filtersVars, modalVars,
                      Types, ModalTypes, PageTypeOK, GridTypes, FiltersTypeOK
  <1>8. QED
    BY <1>2, <1>3, <1>4, <1>5, <1>6, <1>7, Steps

\* The page as it is served has the right types.
LEMMA TypesInit == Init => Types
  <1> SUFFICES ASSUME Init PROVE Types
    OBVIOUS
  <1>1. ModalTypes
    BY ModalTypesInit DEF Init
  <1>2. GridTypes
    <2>1. loads \in Seq(GridLoad) /\ Len(loads) = 0
      BY EmptySeq DEF Init, GridInit
    <2>2. size \in Limits
      BY DEF Init, GridInit, Limits, DefaultLimit
    <2>3. view \in [load : Nat, pages : Nat, icons : SUBSET Orders] /\ view.load = 0 /\ view.pages = 0
      BY DEF Init, GridInit
    <2>4. order \in Orders /\ filter \in Texts /\ loader \in BOOLEAN /\ alert \in BOOLEAN
      BY GridAssumption DEF Init, GridInit
    <2>5. QED
      BY <2>1, <2>2, <2>3, <2>4 DEF GridTypes
  <1>3. FiltersTypeOK
    BY GridAssumption DEF Init, FiltersInit, FiltersTypeOK
  <1>4. QED
    BY <1>1, <1>2, <1>3 DEF Types

\* Every variable has its type.
THEOREM TypeCorrect == Spec => []TypeOK
  <1>1. Types /\ [Next]_vars => Types'
    BY TypesStep
  <1>2. QED
    BY <1>1, TypesInit, TypesImply, PTL DEF Spec

\* Whatever page is shown, and however many pages there are by then, get_pages
\* links the two first, the two last and those around the page.
THEOREM LinksAreComplete == Spec => []LinksComplete
  <1>1. Types /\ [Next]_vars => Types'
    BY TypesStep
  <1>2. Types => LinksComplete
    BY LinksImplied DEF Types
  <1>3. QED
    BY <1>1, <1>2, TypesInit, PTL DEF Spec

-----------------------------------------------------------------------------
(* What the steps do to the requests *)

\* A request is asked for, by the script or by a click.
Asked(request) ==
    /\ Load(1, request) /\ request.order = order' /\ request.state = "sent"
    /\ request.alone => InFlight = {}
    /\ \/ request.click = 0 /\ UNCHANGED clicks
       \/ request.click = clicks' /\ clicks' = clicks + 1
    /\ request.kind = "file" => UNCHANGED <<order, size>>
    /\ UNCHANGED <<view, saves>>

\* What a step may do to the newest request, to the answers and to what is shown.
LEMMA Moves ==
    ASSUME Types, [Next]_vars
    PROVE  \/ \E request \in GridLoad : Asked(request)
           \/ UNCHANGED <<order, size, loads, view, loader>>
              /\ (ModalStep \/ (UNCHANGED saves /\ (UNCHANGED clicks \/ Click)))
           \/ GridAnswer /\ UNCHANGED <<clicks, saves>>
  <1> DEFINE Goal ==
           \/ \E request \in GridLoad : Asked(request)
           \/ UNCHANGED <<order, size, loads, view, loader>>
              /\ (ModalStep \/ (UNCHANGED saves /\ (UNCHANGED clicks \/ Click)))
           \/ GridAnswer /\ UNCHANGED <<clicks, saves>>
  <1>1. ASSUME Ready PROVE Goal
    <2>1. PICK request \in GridLoad :
              /\ Load(1, request) /\ request.kind = "rows" /\ request.order = order'
              /\ request.click = 0 /\ request.state = "sent"
              /\ request.alone => InFlight = {}
      BY <1>1, ReadyAsks
    <2>2. UNCHANGED <<clicks, view, saves>>
      BY <1>1, ReadyAsks DEF modalVars
    <2>3. Asked(request)
      BY <2>1, <2>2 DEF Asked
    <2>4. QED
      BY <2>3
  <1>2. ASSUME GridUse, UNCHANGED <<filtersVars, modalVars>> PROVE Goal
    <2>1. /\ order' \in Orders /\ UNCHANGED <<view, saves>>
          /\ \/ Click /\ \E kind \in {"rows", "file"} :
                            Asks(kind) /\ (kind = "file" => UNCHANGED <<order, size>>)
             \/ UNCHANGED <<clicks, order, size, loads, loader>>
      BY <1>2, GridUses DEF modalVars
    <2>2. ASSUME Click, NEW kind \in {"rows", "file"}, Asks(kind),
                 kind = "file" => UNCHANGED <<order, size>>
          PROVE  Goal
      <3>1. clicks' = clicks + 1
        BY <2>1, <2>2, UseAsks
      <3>2. PICK request \in GridLoad :
                /\ Load(1, request) /\ request.kind = kind /\ request.order = order'
                /\ request.click = clicks' /\ request.state = "sent"
                /\ request.alone => InFlight = {}
        BY <2>1, <2>2, UseAsks
      <3>3. Asked(request)
        BY <2>1, <2>2, <3>1, <3>2 DEF Asked
      <3>4. QED
        BY <3>3
    <2>3. QED
      BY <2>1, <2>2
  <1>3. ASSUME FiltersUse, UNCHANGED <<gridVars, modalVars>> PROVE Goal
    <2>1. Click
      BY <1>3 DEF FiltersUse, Collapse, PageFilterApply, PageGridExport, PageFilterClear
    <2>2. QED
      BY <1>3, <2>1 DEF gridVars, modalVars
  <1>4. ASSUME GridAnswer, UNCHANGED <<filtersVars, modalVars>> PROVE Goal
    BY <1>4, GridAnswers DEF modalVars
  <1>5. ASSUME ModalStep, UNCHANGED <<gridVars, filtersVars>> PROVE Goal
    BY <1>5 DEF gridVars
  <1>6. ASSUME UNCHANGED vars PROVE Goal
    BY <1>6 DEF vars, gridVars, modalVars, pageVars
  <1>7. QED
    BY <1>1, <1>2, <1>3, <1>4, <1>5, <1>6, Steps

-----------------------------------------------------------------------------
(* One request for a click *)

\* Each request carries the click that led to it (0: none), no later one than the
\* last, and no two the same.
ClicksOK ==
    /\ \A i \in DOMAIN loads : loads[i].click <= clicks
    /\ \A i \in DOMAIN saves : saves[i].click <= clicks
    /\ \A i, j \in DOMAIN loads : i # j /\ loads[i].click # 0 => loads[i].click # loads[j].click
    /\ \A i, j \in DOMAIN saves : i # j => saves[i].click # saves[j].click
    /\ \A i \in DOMAIN loads, j \in DOMAIN saves : loads[i].click # saves[j].click

\* The requests and saves that stay keep their clicks.
LEMMA ClicksStep ==
    ASSUME Types, ClicksOK, [Next]_vars
    PROVE  ClicksOK'
  <1>0. /\ DOMAIN loads = 1 .. Len(loads) /\ Len(loads) \in Nat
        /\ saves \in Seq(Save) /\ DOMAIN saves = 1 .. Len(saves) /\ Len(saves) \in Nat
        /\ \A i \in DOMAIN loads : loads[i].click \in Nat
        /\ \A i \in DOMAIN saves : saves[i].click \in Nat \ {0}
        /\ clicks \in Nat /\ PageTypeOK
    <2>1. saves \in Seq(Save) /\ clicks \in Nat /\ PageTypeOK
      BY PageAssumption DEF Types, ModalTypes, PageTypeOK
    <2>2. DOMAIN saves = 1 .. Len(saves) /\ Len(saves) \in Nat /\ \A i \in DOMAIN saves : saves[i] \in Save
      BY <2>1, LenProperties, ElementOfSeq
    <2>3. \A i \in DOMAIN saves : saves[i].click \in Nat \ {0}
      BY <2>2, PageAssumption DEF Save
    <2>4. \A i \in DOMAIN loads : loads[i].click \in Nat
      BY LoadsAre, PageAssumption DEF Types, GridLoad
    <2>5. QED
      BY <2>1, <2>2, <2>3, <2>4, LoadsAre DEF Types
  <1>1. ASSUME NEW request \in GridLoad, Asked(request) PROVE ClicksOK'
    <2>1. /\ DOMAIN loads' = 1 .. Len(loads) + 1 /\ loads'[Len(loads) + 1] = request
          /\ \A i \in DOMAIN loads : loads'[i].click = loads[i].click
      BY <1>1, LoadAdds DEF Asked, Types
    <2>2. UNCHANGED saves /\ (\/ request.click = 0 /\ clicks' = clicks
                              \/ request.click = clicks' /\ clicks' = clicks + 1)
      BY <1>1 DEF Asked
    <2>3. \A i \in DOMAIN loads' : i \in DOMAIN loads \/ i = Len(loads) + 1
      BY <1>0, <2>1
    <2> DEFINE n == Len(loads) + 1
    <2>4. /\ \A i \in DOMAIN loads : loads'[i].click = loads[i].click
          /\ loads'[n].click = request.click /\ n \notin DOMAIN loads
      BY <1>0, <2>1
    <2> HIDE DEF n
    <2>5. \A i \in DOMAIN loads' : loads'[i].click <= clicks'
      BY <1>0, <2>2, <2>3, <2>4 DEF ClicksOK, n
    <2>6. \A i \in DOMAIN saves' : saves'[i].click <= clicks'
      BY <1>0, <2>2 DEF ClicksOK
    <2>7. ASSUME NEW i \in DOMAIN loads', NEW j \in DOMAIN loads', i # j, loads'[i].click # 0
          PROVE  loads'[i].click # loads'[j].click
      <3>1. CASE i \in DOMAIN loads /\ j \in DOMAIN loads
        BY <2>4, <2>7, <3>1 DEF ClicksOK
      <3>2. CASE i = n /\ j \in DOMAIN loads
        BY <1>0, <2>2, <2>4, <2>7, <3>2 DEF ClicksOK
      <3>3. CASE i \in DOMAIN loads /\ j = n
        BY <1>0, <2>2, <2>4, <2>7, <3>3 DEF ClicksOK
      <3>4. QED
        BY <2>3, <2>7, <3>1, <3>2, <3>3 DEF n
    <2>8. ASSUME NEW i \in DOMAIN loads', NEW j \in DOMAIN saves'
          PROVE  loads'[i].click # saves'[j].click
      <3>1. CASE i \in DOMAIN loads
        BY <2>2, <2>4, <3>1 DEF ClicksOK
      <3>2. CASE i = n
        BY <1>0, <2>2, <2>4, <3>2 DEF ClicksOK
      <3>3. QED
        BY <2>3, <3>1, <3>2 DEF n
    <2>9. \A i, j \in DOMAIN saves' : i # j => saves'[i].click # saves'[j].click
      BY <2>2 DEF ClicksOK
    <2>10. QED
      BY <2>5, <2>6, <2>7, <2>8, <2>9 DEF ClicksOK
  <1>2. ASSUME UNCHANGED loads, DOMAIN saves' = DOMAIN saves,
               \A i \in DOMAIN saves : saves'[i].click = saves[i].click, clicks' \in {clicks, clicks + 1}
        PROVE  ClicksOK'
    <2>1. \A c \in Nat : c <= clicks => c <= clicks'
      BY <1>0, <1>2
    <2>2. QED
      BY <1>0, <1>2, <2>1 DEF ClicksOK
  <1>3. ASSUME ModalSubmit, UNCHANGED loads PROVE ClicksOK'
    <2>1. /\ DOMAIN saves' = 1 .. Len(saves) + 1 /\ saves'[Len(saves) + 1] = Sending
          /\ \A i \in DOMAIN saves : saves'[i] = saves[i]
      BY <1>3, SubmitAdds DEF Types
    <2>2. Sending.click = clicks' /\ clicks' = clicks + 1
      BY <1>0, <1>3, ClickCounts DEF Sending, ModalSubmit
    <2> DEFINE n == Len(saves) + 1
    <2>3. /\ \A i \in DOMAIN saves' : i \in DOMAIN saves \/ i = n
          /\ \A i \in DOMAIN saves : saves'[i].click = saves[i].click
          /\ saves'[n].click = clicks + 1
      BY <1>0, <2>1, <2>2
    <2> HIDE DEF n
    <2>4. \A i \in DOMAIN loads' : loads'[i].click <= clicks'
      BY <1>0, <1>3, <2>2 DEF ClicksOK
    <2>5. \A i \in DOMAIN saves' : saves'[i].click <= clicks'
      BY <1>0, <2>2, <2>3 DEF ClicksOK
    <2>6. ASSUME NEW i \in DOMAIN saves', NEW j \in DOMAIN saves', i # j
          PROVE  saves'[i].click # saves'[j].click
      <3>1. CASE i \in DOMAIN saves /\ j \in DOMAIN saves
        BY <2>3, <2>6, <3>1 DEF ClicksOK
      <3>2. CASE i = n /\ j \in DOMAIN saves
        BY <1>0, <2>3, <3>2 DEF ClicksOK
      <3>3. CASE i \in DOMAIN saves /\ j = n
        BY <1>0, <2>3, <3>3 DEF ClicksOK
      <3>4. QED
        BY <2>3, <2>6, <3>1, <3>2, <3>3
    <2>7. ASSUME NEW i \in DOMAIN loads', NEW j \in DOMAIN saves'
          PROVE  loads'[i].click # saves'[j].click
      <3>1. CASE j \in DOMAIN saves
        BY <1>3, <2>3, <3>1 DEF ClicksOK
      <3>2. CASE j = n
        BY <1>0, <1>3, <2>3, <3>2 DEF ClicksOK
      <3>3. QED
        BY <2>3, <3>1, <3>2
    <2>8. \A i, j \in DOMAIN loads' : i # j /\ loads'[i].click # 0 => loads'[i].click # loads'[j].click
      BY <1>3 DEF ClicksOK
    <2>9. QED
      BY <2>4, <2>5, <2>6, <2>7, <2>8 DEF ClicksOK
  <1>4. ASSUME ModalStep, UNCHANGED loads PROVE ClicksOK'
    <2>1. CASE ModalSubmit
      BY <1>3, <1>4, <2>1
    <2>2. ASSUME NEW i \in DOMAIN saves,
                 ModalServe(i) \/ ModalSaved(i) \/ ModalRefused(i) \/ ModalLost(i)
          PROVE  ClicksOK'
      <3>1. PICK state \in {"sent", "done", "refused", "saved", "failed", "lost"} : SetState(i, state)
        BY <2>2 DEF ModalServe, ModalSaved, ModalRefused, ModalLost
      <3>2. /\ DOMAIN saves' = DOMAIN saves /\ saves'[i] = [saves[i] EXCEPT !.state = state]
            /\ \A j \in DOMAIN saves : j # i => saves'[j] = saves[j]
        BY <3>1, StateSet DEF Types
      <3>3. saves[i] \in Save
        BY <1>0, ElementOfSeq
      <3>4. saves'[i].click = saves[i].click
        BY <3>2, <3>3 DEF Save
      <3>5. UNCHANGED clicks
        BY <2>2 DEF ModalServe, ModalSaved, ModalRefused, ModalLost, pageVars
      <3>6. QED
        BY <1>2, <1>4, <3>2, <3>4, <3>5
    <2>3. CASE \/ \E button \in Buttons : ModalOpen(button)
               \/ \E o \in openings : FormLoaded(o) \/ FormFailed(o)
               \/ Faded \/ Close
      <3>1. UNCHANGED saves /\ (UNCHANGED clicks \/ Click)
        BY <2>3 DEF ModalOpen, FormLoaded, FormFailed, Faded, Close, pageVars
      <3>2. clicks' \in {clicks, clicks + 1}
        BY <1>0, <3>1, ClickCounts
      <3>3. QED
        BY <1>2, <1>4, <3>1, <3>2
    <2>4. QED
      BY <1>4, <2>1, <2>2, <2>3 DEF ModalStep
  <1>5. ASSUME GridAnswer, UNCHANGED <<clicks, saves>> PROVE ClicksOK'
    <2>1. PICK i \in DOMAIN loads, state \in {"shown", "saved", "refused", "broken"} : Settle(i, state)
      BY <1>5, GridAnswers
    <2>2. DOMAIN loads' = DOMAIN loads /\ \A j \in DOMAIN loads : loads'[j].click = loads[j].click
      BY <2>1, Settles DEF Types
    <2>3. QED
      BY <1>5, <2>2 DEF ClicksOK
  <1>6. CASE UNCHANGED <<loads, saves>> /\ (UNCHANGED clicks \/ Click)
    <2>1. clicks' \in {clicks, clicks + 1}
      BY <1>0, <1>6, ClickCounts
    <2>2. QED
      BY <1>2, <1>6, <2>1
  <1>7. QED
    BY <1>1, <1>4, <1>5, <1>6, Moves

\* The invariant gives the property the run checks.
LEMMA ClicksImply == Types /\ ClicksOK => OneRequestPerClick
  <1> SUFFICES ASSUME Types, ClicksOK PROVE OneRequestPerClick
    OBVIOUS
  <1> DEFINE clicked == loads \o saves
             n == Len(loads)
             m == Len(saves)
             All == GridLoad \union Save
  <1>1. loads \in Seq(GridLoad) /\ saves \in Seq(Save)
    BY DEF Types, ModalTypes, GridTypes
  <1>2. loads \in Seq(All) /\ saves \in Seq(All)
    <2>1. n \in Nat /\ loads \in [1 .. n -> GridLoad] /\ m \in Nat /\ saves \in [1 .. m -> Save]
      BY <1>1, LenProperties
    <2>2. loads \in [1 .. n -> All] /\ saves \in [1 .. m -> All]
      BY <2>1
    <2>3. QED
      BY <2>1, <2>2, SeqDef
  <1>3. n \in Nat /\ m \in Nat /\ DOMAIN loads = 1 .. n /\ DOMAIN saves = 1 .. m
    BY <1>1, LenProperties
  <1>4. /\ clicked \in Seq(All) /\ Len(clicked) = n + m
        /\ \A i \in 1 .. n + m : clicked[i] = IF i <= n THEN loads[i] ELSE saves[i - n]
    BY <1>2, ConcatProperties
  <1>5. DOMAIN clicked = 1 .. n + m
    BY <1>4, LenProperties
  <1> HIDE DEF clicked, n, m, All
  <1>6. \A i \in 1 .. n + m : \/ i \in DOMAIN loads /\ clicked[i] = loads[i]
                              \/ i - n \in DOMAIN saves /\ clicked[i] = saves[i - n]
    BY <1>3, <1>4
  <1>7. ASSUME NEW i \in 1 .. n + m, NEW j \in 1 .. n + m, i # j, clicked[i].click # 0
        PROVE  clicked[i].click # clicked[j].click
    <2>1. CASE i \in DOMAIN loads /\ clicked[i] = loads[i] /\ j \in DOMAIN loads /\ clicked[j] = loads[j]
      BY <1>7, <2>1 DEF ClicksOK
    <2>2. CASE /\ i - n \in DOMAIN saves /\ clicked[i] = saves[i - n]
               /\ j - n \in DOMAIN saves /\ clicked[j] = saves[j - n]
      <3>1. i - n # j - n
        BY <1>3, <1>7
      <3>2. QED
        BY <2>2, <3>1 DEF ClicksOK
    <2>3. CASE /\ i \in DOMAIN loads /\ clicked[i] = loads[i]
               /\ j - n \in DOMAIN saves /\ clicked[j] = saves[j - n]
      BY <2>3 DEF ClicksOK
    <2>4. CASE /\ i - n \in DOMAIN saves /\ clicked[i] = saves[i - n]
               /\ j \in DOMAIN loads /\ clicked[j] = loads[j]
      BY <2>4 DEF ClicksOK
    <2>5. QED
      BY <1>6, <2>1, <2>2, <2>3, <2>4
  <1>8. QED
    BY <1>5, <1>7 DEF OneRequestPerClick, clicked

\* A click leads to one request for rows and one save at most, however often
\* common.js has bound its handlers: the first of them to run stops the others.
THEOREM OneRequestForAClick == Spec => []OneRequestPerClick
  <1>1. Types /\ ClicksOK /\ [Next]_vars => Types' /\ ClicksOK'
    BY TypesStep, ClicksStep
  <1>2. Init => Types /\ ClicksOK
    BY TypesInit DEF Init, GridInit, ModalInit, ClicksOK
  <1>3. QED
    BY <1>1, <1>2, ClicksImply, PTL DEF Spec

-----------------------------------------------------------------------------
(* The quiet grid *)

Newest(l) == l \in RowsLoads /\ \A j \in RowsLoads : j <= l

\* While the newest request for rows is alone, no other answer can come in
\* between: the table keeps its order until the answer is there, and what is
\* shown then stays until the next request.
QuietOK ==
    /\ RowsLoads # {} => \E l \in RowsLoads : Newest(l)
    /\ \A l \in RowsLoads : Newest(l) /\ loads[l].alone =>
          /\ InFlight \subseteq {l}
          /\ loads[l].state = "sent" => loader /\ order = loads[l].order
          /\ loads[l].state = "shown" =>
                /\ view.load = l /\ ~loader /\ order = loads[l].order
                /\ view.pages > 0 => view.icons = {loads[l].order} /\ size = loads[l].limit

\* Every step keeps a table with nothing on its way as its last request asked.
LEMMA QuietStep ==
    ASSUME Types, QuietOK, [Next]_vars
    PROVE  QuietOK'
  <1>0. DOMAIN loads = 1 .. Len(loads) /\ Len(loads) \in Nat /\ GridTypes
    BY LoadsAre DEF Types
  <1>1. ASSUME NEW request \in GridLoad, Asked(request) PROVE QuietOK'
    <2> DEFINE n == Len(loads) + 1
    <2>1. /\ DOMAIN loads' = 1 .. n /\ loads'[n] = request
          /\ \A i \in DOMAIN loads :
                /\ loads'[i].kind = loads[i].kind /\ loads'[i].state = loads[i].state
                /\ loads'[i].order = loads[i].order /\ loads'[i].limit = loads[i].limit
                /\ loads'[i].alone => loads[i].alone
          /\ request.kind = "rows" => loader'
          /\ request.kind = "file" => loader' = loader
      BY <1>0, <1>1, LoadAdds DEF Asked
    <2>2. /\ request.order = order' /\ request.state = "sent" /\ (request.alone => InFlight = {})
          /\ (request.kind = "file" => UNCHANGED <<order, size>>) /\ UNCHANGED view
      BY <1>1 DEF Asked
    <2>3. /\ \A i \in DOMAIN loads' : i \in DOMAIN loads \/ i = n
          /\ n \in DOMAIN loads' /\ n \notin DOMAIN loads /\ DOMAIN loads \subseteq DOMAIN loads'
          /\ \A i \in DOMAIN loads : i <= n /\ ~(n <= i)
          /\ n <= n
      BY <1>0, <2>1
    <2> HIDE DEF n
    <2>4. CASE request.kind = "rows"
      <3>1. n \in RowsLoads' /\ \A l \in RowsLoads' : l <= n
        BY <2>1, <2>3, <2>4 DEF RowsLoads
      <3>2. \A l \in RowsLoads' : Newest(l)' => l = n
        BY <2>3, <3>1 DEF Newest, RowsLoads
      <3>3. request.alone => InFlight' \subseteq {n}
        BY <2>1, <2>2, <2>3 DEF InFlight
      <3>4. QED
        BY <2>1, <2>2, <2>4, <3>1, <3>2, <3>3 DEF QuietOK, Newest
    <2>5. CASE request.kind = "file"
      <3>1. RowsLoads' = RowsLoads
        BY <2>1, <2>3, <2>5 DEF RowsLoads
      <3>2. InFlight' = InFlight
        BY <2>1, <2>3, <2>5 DEF InFlight
      <3>3. \A l \in RowsLoads : Newest(l)' <=> Newest(l)
        BY <3>1 DEF Newest
      <3>4. \A l \in RowsLoads : l \in DOMAIN loads
        BY DEF RowsLoads
      <3>5. QED
        BY <2>1, <2>2, <2>5, <3>1, <3>2, <3>3, <3>4 DEF QuietOK
    <2>6. QED
      BY <2>4, <2>5 DEF GridLoad
  <1>2. CASE UNCHANGED <<order, size, loads, view, loader>>
    BY <1>2 DEF QuietOK, Newest, RowsLoads, InFlight
  <1>3. ASSUME GridAnswer PROVE QuietOK'
    <2>1. PICK i \in DOMAIN loads, state \in {"shown", "saved", "refused", "broken"} :
              /\ Settle(i, state)
              /\ \/ /\ i \in InFlight /\ state = "shown" /\ loader' = FALSE /\ alert' = alert
                    /\ \E pages \in PageCounts :
                          /\ view' = [load |-> i, pages |-> pages, icons |-> Icons(pages)]
                          /\ size' = IF pages > 0 THEN loads[i].limit ELSE size
                 \/ /\ i \in InFlight /\ state \in {"refused", "broken"}
                    /\ loader' \in {loader, FALSE} /\ alert' \in {alert, TRUE}
                    /\ UNCHANGED <<size, view>>
                 \/ /\ loads[i].kind = "file" /\ state \in {"saved", "refused"}
                    /\ UNCHANGED <<size, view, loader, alert>>
      BY <1>3, GridAnswers
    <2>2. order' = order
      BY <1>3, GridAnswers
    <2>3. /\ DOMAIN loads' = DOMAIN loads /\ loads'[i].state = state
          /\ \A j \in DOMAIN loads : j # i => loads'[j] = loads[j]
          /\ \A j \in DOMAIN loads :
                /\ loads'[j].kind = loads[j].kind /\ loads'[j].order = loads[j].order
                /\ loads'[j].limit = loads[j].limit /\ loads'[j].alone = loads[j].alone
      BY <1>0, <2>1, Settles
    <2>4. RowsLoads' = RowsLoads
      BY <2>3 DEF RowsLoads
    <2>5. InFlight' \subseteq InFlight
      BY <2>1, <2>3 DEF InFlight
    <2>6. \A l \in RowsLoads : Newest(l)' <=> Newest(l)
      BY <2>4 DEF Newest
    <2>7. ASSUME NEW l \in RowsLoads, Newest(l), loads'[l].alone
          PROVE  /\ InFlight' \subseteq {l}
                 /\ loads'[l].state = "sent" => loader' /\ order' = loads'[l].order
                 /\ loads'[l].state = "shown" =>
                       /\ view'.load = l /\ ~loader' /\ order' = loads'[l].order
                       /\ view'.pages > 0 => view'.icons = {loads'[l].order} /\ size' = loads'[l].limit
      <3>1. l \in DOMAIN loads /\ loads[l].kind = "rows" /\ loads[l].alone
        BY <2>3, <2>7 DEF RowsLoads
      <3>2. /\ InFlight \subseteq {l}
            /\ loads[l].state = "sent" => loader /\ order = loads[l].order
            /\ loads[l].state = "shown" =>
                  /\ view.load = l /\ ~loader /\ order = loads[l].order
                  /\ view.pages > 0 => view.icons = {loads[l].order} /\ size = loads[l].limit
        BY <2>7, <3>1 DEF QuietOK
      <3>3. CASE i \in InFlight /\ state = "shown"
        <4>1. i = l /\ loads[l].state = "sent"
          BY <3>2, <3>3 DEF InFlight
        <4>2. order = loads[l].order
          BY <3>2, <4>1
        <4>3. loads[i].kind # "file"
          BY <3>3 DEF InFlight
        <4>4. loader' = FALSE
              /\ \E pages \in PageCounts :
                    /\ view' = [load |-> i, pages |-> pages, icons |-> Icons(pages)]
                    /\ size' = IF pages > 0 THEN loads[i].limit ELSE size
          BY <2>1, <3>3, <4>3
        <4>5. view'.load = l /\ (view'.pages > 0 => view'.icons = {loads[l].order} /\ size' = loads[l].limit)
          BY <4>1, <4>2, <4>4 DEF Icons
        <4>6. QED
          BY <2>2, <2>3, <2>5, <3>1, <3>2, <3>3, <4>1, <4>2, <4>4, <4>5
      <3>4. CASE i \in InFlight /\ state \in {"refused", "broken"}
        <4>1. i = l
          BY <3>2, <3>4
        <4>2. QED
          BY <2>3, <2>5, <3>2, <3>4, <4>1
      <3>5. CASE loads[i].kind = "file" /\ UNCHANGED <<size, view, loader, alert>>
        <4>1. i # l
          BY <3>1, <3>5
        <4>2. loads'[l] = loads[l]
          BY <2>3, <3>1, <4>1
        <4>3. QED
          BY <2>2, <2>5, <3>2, <3>5, <4>2
      <3>6. QED
        BY <2>1, <3>3, <3>4, <3>5
    <2>8. QED
      BY <2>3, <2>4, <2>6, <2>7 DEF QuietOK
  <1>4. QED
    BY <1>1, <1>2, <1>3, Moves

\* The invariant gives the property the run checks.
LEMMA QuietImplies == Types /\ QuietOK => QuietGridIsConsistent
  <1> SUFFICES ASSUME Types, QuietOK, RowsLoads # {}, loads[Last].alone
               PROVE  /\ loads[Last].state = "sent" => loader
                      /\ loads[Last].state = "shown" =>
                           /\ view.load = Last /\ ~loader
                           /\ order = loads[Last].order
                           /\ view.pages > 0 => view.icons = {loads[Last].order} /\ size = loads[Last].limit
    BY DEF QuietGridIsConsistent
  <1>1. \E l \in RowsLoads : \A j \in RowsLoads : j <= l
    BY DEF QuietOK, Newest
  <1>2. Last \in RowsLoads /\ \A j \in RowsLoads : j <= Last
    BY <1>1 DEF Last
  <1>3. Newest(Last)
    BY <1>2 DEF Newest
  <1>4. QED
    BY <1>2, <1>3 DEF QuietOK

\* Whatever came before, a load of rows that is alone in flight puts everything
\* right: rows, icons, controls and table tell the same afterwards, and the
\* loader is shown until then (load_grid_table_data).
THEOREM QuietGridIsRight == Spec => []QuietGridIsConsistent
  <1>1. Types /\ QuietOK /\ [Next]_vars => Types' /\ QuietOK'
    BY TypesStep, QuietStep
  <1>2. Init => Types /\ QuietOK
    <2>1. loads = <<>> => RowsLoads = {}
      BY DEF RowsLoads
    <2>2. QED
      BY <2>1, TypesInit DEF Init, GridInit, QuietOK
  <1>3. QED
    BY <1>1, <1>2, QuietImplies, PTL DEF Spec
=============================================================================
