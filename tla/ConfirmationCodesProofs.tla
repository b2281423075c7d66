---------------------- MODULE ConfirmationCodesProofs ----------------------
(***************************************************************************)
(* What holds of ConfirmationCodes for any number of handlers and codes,   *)
(* all limits and every clock.                                             *)
(***************************************************************************)
EXTENDS ConfirmationCodes, FiniteSetTheorems, TLAPS

-----------------------------------------------------------------------------
(* Type correctness *)

\* The rows that a coroutine is about to change exist.
LocalsOK ==
    \A h \in Handlers :
        /\ pc[h] \in {"cancel", "commit"} => last[h] \in Created
        /\ pc[h] = "confirm" => last[h] \in stored

TypeInv == TypeOK /\ LocalsOK

\* A coroutine that ends leaves the others alone.
LEMMA EndLocals ==
    ASSUME TypeInv, NEW h \in Handlers, End(h)
    PROVE  /\ pc' \in [Handlers -> Labels] /\ pc'[h] = "idle"
           /\ dt' \in [Handlers -> Nat]
           /\ last' \in [Handlers -> Created \union {NoId}]
           /\ group' \in [Handlers -> Nat]
           /\ clearing' \in [Handlers -> SUBSET stored]
           /\ canceling' \in [Handlers -> SUBSET stored]
           /\ \A q \in Handlers \ {h} : pc'[q] = pc[q] /\ last'[q] = last[q]
  <1>1. pc' \in [Handlers -> Labels] /\ pc'[h] = "idle"
    BY DEF TypeInv, TypeOK, End, Goto, Labels
  <1>2. dt' \in [Handlers -> Nat] /\ group' \in [Handlers -> Nat]
    BY DEF TypeInv, TypeOK, End, NoGroup
  <1>3. last' \in [Handlers -> Created \union {NoId}]
    BY DEF TypeInv, TypeOK, End
  <1>4. clearing' \in [Handlers -> SUBSET stored] /\ canceling' \in [Handlers -> SUBSET stored]
    BY DEF TypeInv, TypeOK, End
  <1>5. \A q \in Handlers \ {h} : pc'[q] = pc[q] /\ last'[q] = last[q]
    BY DEF TypeInv, TypeOK, End, Goto
  <1>6. QED
    BY <1>1, <1>2, <1>3, <1>4, <1>5

\* A request that ends without a trace
LEMMA EndType ==
    ASSUME TypeInv, NEW h \in Handlers, End(h), UNCHANGED <<now, tables>>
    PROVE  TypeInv'
  <1>1. Created' = Created
    BY DEF tables, Created
  <1>2. TypeOK'
    BY <1>1, EndLocals DEF TypeInv, TypeOK, tables
  <1>3. LocalsOK'
    BY <1>1, EndLocals DEF TypeInv, LocalsOK, tables
  <1>4. QED
    BY <1>2, <1>3 DEF TypeInv

\* A code exists if it is committed.
LEMMA StoredIsCode ==
    ASSUME TypeInv, NEW c \in stored
    PROVE  c \in Ids /\ c \in Created /\ codes[c] \in Code /\ codes[c].group \in Nat
  BY DEF TypeInv, TypeOK, Created, Code

\* The next group has a number.
LEMMA NextGroupType ==
    ASSUME NEW g \in Nat, NEW n, NEW interval
    PROVE  NextGroup(g, n, interval) \subseteq Nat
  BY DEF NextGroup, NoGroup

\* A step of h that only moves it on, within the types of its locals
LEMMA LocalStep ==
    ASSUME TypeInv, NEW h \in Handlers, NEW label \in Labels \ {"cancel", "commit", "confirm"},
           Goto(h, label), UNCHANGED <<now, tables, canceling>>,
           dt' \in [Handlers -> Nat], group' \in [Handlers -> Nat],
           last' \in [Handlers -> Created \union {NoId}],
           \A q \in Handlers \ {h} : last'[q] = last[q],
           clearing' \in [Handlers -> SUBSET stored]
    PROVE  TypeInv'
  <1>1. Created' = Created
    BY DEF tables, Created
  <1>2. /\ pc' \in [Handlers -> Labels] /\ pc'[h] = label
        /\ \A q \in Handlers \ {h} : pc'[q] = pc[q]
    BY DEF TypeInv, TypeOK, Goto
  <1>3. TypeOK'
    BY <1>1, <1>2 DEF TypeInv, TypeOK, tables
  <1>4. LocalsOK'
    BY <1>1, <1>2 DEF TypeInv, LocalsOK, tables
  <1>5. QED
    BY <1>3, <1>4 DEF TypeInv

\* What the commit leaves of a row is a row.
LEMMA CommitRows ==
    ASSUME TypeInv, NEW h \in Handlers, Commit(h)
    PROVE  /\ codes' \in [Ids -> Code \union {NoCode}]
           /\ Created' = Created
           /\ \A c \in Ids : c \notin stored => codes'[c] = codes[c]
           /\ \A c \in stored : codes'[c].status = CanceledStatus(h, c)
  <1>1. ASSUME NEW c \in stored
        PROVE  /\ codes'[c] \in Code /\ codes'[c] # NoCode
               /\ codes'[c].status = CanceledStatus(h, c)
    <2>1. codes[c] \in Code /\ c \in Ids
      BY StoredIsCode
    <2>2. codes'[c] = [codes[c] EXCEPT !.status = CanceledStatus(h, c),
                                       !.group = IF c \in clearing[h] THEN NoGroup ELSE @]
      BY <2>1 DEF Commit
    <2>3. CanceledStatus(h, c) \in Statuses
      BY <2>1 DEF CanceledStatus, Code, Statuses
    <2>4. codes'[c] = [created |-> codes[c].created,
                       group |-> IF c \in clearing[h] THEN NoGroup ELSE codes[c].group,
                       status |-> CanceledStatus(h, c)]
      BY <2>1, <2>2 DEF Code
    <2>5. codes'[c] \in Code /\ codes'[c].status = CanceledStatus(h, c)
      BY <2>1, <2>3, <2>4 DEF Code, NoGroup
    <2>6. codes'[c] # NoCode
      <3>1. codes'[c].status # NoCode.status
        BY <2>3, <2>5 DEF NoCode, Statuses
      <3>2. QED
        BY <3>1
    <2>7. QED
      BY <2>5, <2>6
  <1>2. \A c \in Ids : c \notin stored => codes'[c] = codes[c]
    BY DEF Commit
  <1>3. codes' \in [Ids -> Code \union {NoCode}]
    <2>1. codes' = [c \in Ids |-> codes'[c]]
      BY DEF Commit
    <2>2. \A c \in Ids : codes'[c] \in Code \union {NoCode}
      BY <1>1, <1>2 DEF TypeInv, TypeOK
    <2>3. QED
      BY <2>1, <2>2
  <1>4. Created' = Created
    <2>1. \A c \in stored : c \in Created
      BY StoredIsCode
    <2>2. \A c \in Ids : codes'[c] # NoCode <=> codes[c] # NoCode
      BY <1>1, <1>2, <2>1 DEF Created
    <2>3. QED
      BY <2>2 DEF Created
  <1>5. QED
    BY <1>1, <1>2, <1>3, <1>4

\* TypeInv is inductive.
LEMMA TypeStep == TypeInv /\ [Next]_vars => TypeInv'
  <1> SUFFICES ASSUME TypeInv, [Next]_vars
               PROVE  TypeInv'
    OBVIOUS
  <1>0. CASE UNCHANGED vars
    BY <1>0 DEF TypeInv, TypeOK, LocalsOK, vars, Created
  <1>1. CASE Tick
    <2>1. now' \in Nat
      BY <1>1, CodeBoundAssumption DEF Tick, TypeInv, TypeOK
    <2>2. QED
      BY <1>1, <2>1 DEF Tick, TypeInv, TypeOK, LocalsOK, tables, Created
  <1>2. ASSUME NEW h \in Handlers, RequestCode(h)
        PROVE  TypeInv'
    <2>1. dt' \in [Handlers -> Nat]
      BY <1>2 DEF RequestCode, TypeInv, TypeOK
    <2>2. QED
      BY <1>2, <2>1, LocalStep DEF RequestCode, TypeInv, TypeOK, Labels
  <1>3. ASSUME NEW h \in Handlers, SelectLast(h)
        PROVE  TypeInv'
    <2> USE <1>3
    <2>1. CASE End(h)
      BY <2>1, EndType DEF SelectLast
    <2>2. CASE group' = [group EXCEPT ![h] = 1] /\ Goto(h, "insert")
               /\ UNCHANGED <<dt, last, clearing, canceling>>
      <3>1. group' \in [Handlers -> Nat]
        BY <2>2 DEF TypeInv, TypeOK
      <3>2. QED
        BY <2>2, <3>1, LocalStep DEF SelectLast, TypeInv, TypeOK, Labels
    <2>3. CASE Goto(h, "reset") /\ UNCHANGED <<dt, last, group, clearing, canceling>>
      BY <2>3, LocalStep DEF SelectLast, TypeInv, TypeOK, Labels
    <2>4. ASSUME NEW c \in Latest,
                 last' = [last EXCEPT ![h] = c], group' = [group EXCEPT ![h] = codes[c].group],
                 Goto(h, "count"), UNCHANGED <<dt, clearing, canceling>>
          PROVE  TypeInv'
      <3>1. c \in Created /\ codes[c].group \in Nat
        BY StoredIsCode DEF Latest
      <3>2. /\ group' \in [Handlers -> Nat]
            /\ last' \in [Handlers -> Created \union {NoId}]
            /\ \A q \in Handlers \ {h} : last'[q] = last[q]
        BY <2>4, <3>1 DEF TypeInv, TypeOK
      <3>3. QED
        BY <2>4, <3>2, LocalStep DEF SelectLast, TypeInv, TypeOK, Labels
    <2>5. QED
      BY <2>1, <2>2, <2>3, <2>4 DEF SelectLast
  <1>4. ASSUME NEW h \in Handlers, Reset(h)
        PROVE  TypeInv'
    <2>1. clearing' \in [Handlers -> SUBSET stored]
      BY <1>4 DEF Reset, TypeInv, TypeOK
    <2>2. QED
      BY <1>4, <2>1, LocalStep DEF Reset, TypeInv, TypeOK, Labels
  <1>5. ASSUME NEW h \in Handlers, CountGroup(h)
        PROVE  TypeInv'
    <2>1. CASE End(h)
      BY <1>5, <2>1, EndType DEF CountGroup
    <2>2. CASE ~End(h)
      <3>1. PICK n \in NextGroup(group[h], Cardinality(InGroup(group[h])), Interval(h, last[h])) :
               group' = [group EXCEPT ![h] = n]
        BY <1>5, <2>2 DEF CountGroup
      <3>2. group[h] \in Nat
        BY DEF TypeInv, TypeOK
      <3>3. n \in Nat
        BY <3>2, NextGroupType
      <3>4. group' \in [Handlers -> Nat]
        BY <3>1, <3>3 DEF TypeInv, TypeOK
      <3>5. QED
        BY <1>5, <2>2, <3>4, LocalStep DEF CountGroup, TypeInv, TypeOK, Labels
    <2>3. QED
      BY <2>1, <2>2
  <1>6. ASSUME NEW h \in Handlers, Insert(h)
        PROVE  TypeInv'
    <2>1. PICK c \in FreshId :
             /\ codes' = [codes EXCEPT ![c] =
                             [created |-> now, group |-> group[h], status |-> "created"]]
             /\ last' = [last EXCEPT ![h] = c]
      BY <1>6 DEF Insert
    <2>2. c \in Ids /\ c \notin Created
      BY DEF FreshId
    <2>3. [created |-> now, group |-> group[h], status |-> "created"] \in Code
      BY DEF TypeInv, TypeOK, Code, Statuses
    <2>4. codes' \in [Ids -> Code \union {NoCode}]
      BY <2>1, <2>3 DEF TypeInv, TypeOK
    <2>5. codes'[c] # NoCode
      <3>1. codes'[c].status = "created"
        BY <2>1, <2>2 DEF TypeInv, TypeOK
      <3>2. NoCode.status = "none"
        BY DEF NoCode
      <3>3. QED
        BY <3>1, <3>2
    <2>6. Created' = Created \union {c}
      BY <2>1, <2>2, <2>5 DEF Created, TypeInv, TypeOK
    <2>7. /\ last' \in [Handlers -> Created' \union {NoId}] /\ last'[h] = c
          /\ \A q \in Handlers \ {h} : last'[q] = last[q]
      BY <2>1, <2>6 DEF TypeInv, TypeOK
    <2>8. /\ pc' \in [Handlers -> Labels] /\ pc'[h] = "cancel"
          /\ \A q \in Handlers \ {h} : pc'[q] = pc[q]
      BY <1>6 DEF Insert, Goto, TypeInv, TypeOK, Labels
    <2>9. TypeOK'
      BY <1>6, <2>4, <2>6, <2>7, <2>8 DEF Insert, TypeInv, TypeOK
    <2>10. LocalsOK'
      BY <1>6, <2>6, <2>7, <2>8 DEF Insert, TypeInv, LocalsOK
    <2>11. QED
      BY <2>9, <2>10 DEF TypeInv
  <1>7. ASSUME NEW h \in Handlers, Cancel(h)
        PROVE  TypeInv'
    <2>1. Created' = Created
      BY <1>7 DEF Cancel, tables, Created
    <2>2. canceling' \in [Handlers -> SUBSET stored]
      BY <1>7 DEF Cancel, TypeInv, TypeOK
    <2>3. /\ pc' \in [Handlers -> Labels] /\ pc[h] = "cancel" /\ pc'[h] = "commit"
          /\ \A q \in Handlers \ {h} : pc'[q] = pc[q]
      BY <1>7 DEF Cancel, Goto, TypeInv, TypeOK, Labels
    <2>4. TypeOK'
      BY <1>7, <2>1, <2>2, <2>3 DEF Cancel, TypeInv, TypeOK, tables
    <2>5. LocalsOK'
      BY <1>7, <2>1, <2>3 DEF Cancel, TypeInv, LocalsOK, tables
    <2>6. QED
      BY <2>4, <2>5 DEF TypeInv
  <1>8. ASSUME NEW h \in Handlers, Commit(h)
        PROVE  TypeInv'
    <2>1. End(h) /\ stored' = stored \union {last[h]} /\ UNCHANGED <<now, uses>>
      BY <1>8 DEF Commit
    <2>2. last[h] \in Created
      BY <1>8 DEF Commit, TypeInv, LocalsOK
    <2>3. codes' \in [Ids -> Code \union {NoCode}] /\ Created' = Created
      BY <1>8, CommitRows
    <2>4. stored \subseteq stored' /\ stored' \subseteq Created'
      BY <2>1, <2>2, <2>3 DEF TypeInv, TypeOK
    <2>5. /\ clearing' \in [Handlers -> SUBSET stored']
          /\ canceling' \in [Handlers -> SUBSET stored']
      BY <2>1, <2>4, EndLocals
    <2>6. TypeOK'
      BY <2>1, <2>3, <2>4, <2>5, EndLocals DEF TypeInv, TypeOK
    <2>7. LocalsOK'
      BY <2>1, <2>3, <2>4, EndLocals DEF TypeInv, LocalsOK
    <2>8. QED
      BY <2>6, <2>7 DEF TypeInv
  <1>9. ASSUME NEW h \in Handlers, SignIn(h)
        PROVE  TypeInv'
    <2>1. dt' \in [Handlers -> Nat]
      BY <1>9 DEF SignIn, TypeInv, TypeOK
    <2>2. QED
      BY <1>9, <2>1, LocalStep DEF SignIn, TypeInv, TypeOK, Labels
  <1>10. ASSUME NEW h \in Handlers, VerifyConfirmationCode(h)
         PROVE  TypeInv'
    <2>1. CASE End(h)
      BY <1>10, <2>1, EndType DEF VerifyConfirmationCode
    <2>2. CASE ~End(h)
      <3>1. PICK c \in stored : /\ last' = [last EXCEPT ![h] = c]
                                /\ Goto(h, "confirm")
                                /\ UNCHANGED <<dt, group, clearing, canceling>>
        BY <1>10, <2>2 DEF VerifyConfirmationCode
      <3>2. Created' = Created /\ UNCHANGED <<now, tables>>
        BY <1>10 DEF VerifyConfirmationCode, tables, Created
      <3>3. /\ last' \in [Handlers -> Created \union {NoId}] /\ last'[h] = c
            /\ \A q \in Handlers \ {h} : last'[q] = last[q]
        BY <3>1 DEF TypeInv, TypeOK
      <3>4. /\ pc' \in [Handlers -> Labels] /\ pc'[h] = "confirm"
            /\ \A q \in Handlers \ {h} : pc'[q] = pc[q]
        BY <3>1 DEF Goto, TypeInv, TypeOK, Labels
      <3>5. TypeOK'
        BY <3>1, <3>2, <3>3, <3>4 DEF TypeInv, TypeOK, tables
      <3>6. LocalsOK'
        BY <3>1, <3>2, <3>3, <3>4 DEF TypeInv, LocalsOK, tables
      <3>7. QED
        BY <3>5, <3>6 DEF TypeInv
    <2>3. QED
      BY <2>1, <2>2
  <1>11. ASSUME NEW h \in Handlers, Confirm(h)
         PROVE  TypeInv'
    <2>1. End(h) /\ UNCHANGED <<now, stored>>
      BY <1>11 DEF Confirm
    <2>2. last[h] \in stored /\ last[h] \in Created /\ last[h] \in Ids /\ codes[last[h]] \in Code
      <3>1. last[h] \in stored
        BY <1>11 DEF Confirm, TypeInv, LocalsOK
      <3>2. QED
        BY <3>1, StoredIsCode
    <2>3. codes' = [codes EXCEPT ![last[h]] = [codes[last[h]] EXCEPT !.status = "confirmed"]]
      BY <1>11 DEF Confirm
    <2>4. [codes[last[h]] EXCEPT !.status = "confirmed"] \in Code
      BY <2>2 DEF Code, Statuses
    <2>5. codes' \in [Ids -> Code \union {NoCode}]
      BY <2>3, <2>4 DEF TypeInv, TypeOK
    <2>6. codes'[last[h]] # NoCode
      <3>1. codes'[last[h]].status = "confirmed"
        BY <2>2, <2>3 DEF TypeInv, TypeOK, Code
      <3>2. NoCode.status = "none"
        BY DEF NoCode
      <3>3. QED
        BY <3>1, <3>2
    <2>7. Created' = Created
      BY <2>2, <2>3, <2>6 DEF Created, TypeInv, TypeOK
    <2>8. uses' \in [Ids -> Nat]
      <3>1. uses \in [Ids -> Nat]
        BY DEF TypeInv, TypeOK
      <3>2. uses' = [uses EXCEPT ![last[h]] = @ + 1]
        BY <1>11 DEF Confirm
      <3>3. QED
        BY <2>2, <3>1, <3>2
    <2>9. TypeOK'
      BY <2>1, <2>5, <2>7, <2>8, EndLocals DEF TypeInv, TypeOK
    <2>10. LocalsOK'
      BY <2>1, <2>7, EndLocals DEF TypeInv, LocalsOK
    <2>11. QED
      BY <2>9, <2>10 DEF TypeInv
  <1>12. ASSUME NEW h \in Handlers, Rollback(h)
         PROVE  TypeInv'
    BY <1>12, EndType DEF Rollback
  <1>13. QED
    BY <1>0, <1>1, <1>2, <1>3, <1>4, <1>5, <1>6, <1>7, <1>8, <1>9, <1>10, <1>11, <1>12
       DEF Next, Handle

\* The rows of the table are rows and the coroutines refer to rows that exist.
THEOREM CodesTypeCorrect == Spec => []TypeOK
  <1>1. Init => TypeInv
    BY DEF Init, TypeInv, TypeOK, LocalsOK, Created, NoGroup, Labels
  <1>2. TypeInv => TypeOK
    BY DEF TypeInv
  <1>3. QED
    BY <1>1, <1>2, TypeStep, PTL DEF Spec

-----------------------------------------------------------------------------
(* The use of a code *)

\* The requests that have read c as created and will confirm it
Confirming(c) == {h \in Handlers : pc[h] = "confirm" /\ last[h] = c}

\* Each of them counts: a code cannot be used more often.
UsesInv ==
    \A c \in Ids : uses[c] + Cardinality(Confirming(c)) <= Cardinality(Handlers)

\* A code that was used is a confirmed row.
ConfirmedInv ==
    \A c \in Ids : uses[c] > 0 => c \in stored /\ codes[c].status = "confirmed"

\* The requests are finitely many.
LEMMA ConfirmingFinite ==
    ASSUME NEW c
    PROVE  /\ IsFiniteSet(Confirming(c)) /\ Cardinality(Confirming(c)) \in Nat
           /\ Cardinality(Confirming(c)) <= Cardinality(Handlers)
           /\ Cardinality(Handlers) \in Nat
  <1>1. Confirming(c) \in SUBSET Handlers /\ IsFiniteSet(Handlers)
    BY CodeBoundAssumption DEF Confirming
  <1>2. IsFiniteSet(Confirming(c)) /\ Cardinality(Confirming(c)) <= Cardinality(Handlers)
    BY <1>1, FS_Subset
  <1>3. QED
    BY <1>1, <1>2, FS_CardinalityType

\* The same, of the next state
LEMMA ConfirmingFinitePrime ==
    ASSUME NEW c
    PROVE  /\ IsFiniteSet(Confirming(c)') /\ Cardinality(Confirming(c)') \in Nat
           /\ Cardinality(Confirming(c)') <= Cardinality(Handlers)
  <1>1. Confirming(c)' \in SUBSET Handlers /\ IsFiniteSet(Handlers)
    BY CodeBoundAssumption DEF Confirming
  <1>2. IsFiniteSet(Confirming(c)') /\ Cardinality(Confirming(c)') <= Cardinality(Handlers)
    BY <1>1, FS_Subset
  <1>3. QED
    BY <1>2, FS_CardinalityType

\* What neither uses a code nor begins to keeps the bound.
LEMMA ConfirmingShrinks ==
    ASSUME TypeInv, NEW c \in Ids, Confirming(c)' \subseteq Confirming(c), uses'[c] = uses[c],
           uses[c] + Cardinality(Confirming(c)) <= Cardinality(Handlers)
    PROVE  uses'[c] + Cardinality(Confirming(c)') <= Cardinality(Handlers)
  <1>1. Cardinality(Confirming(c)') <= Cardinality(Confirming(c))
    BY ConfirmingFinite, FS_Subset
  <1>2. uses[c] \in Nat
    BY DEF TypeInv, TypeOK
  <1>3. QED
    BY <1>1, <1>2, ConfirmingFinite, ConfirmingFinitePrime

\* What does not touch the tables and begins no confirmation
LEMMA QuietStep ==
    ASSUME TypeInv, UsesInv, ConfirmedInv, UNCHANGED tables,
           \A q \in Handlers : pc'[q] = "confirm" => pc[q] = "confirm" /\ last'[q] = last[q]
    PROVE  UsesInv' /\ ConfirmedInv'
  <1>1. ASSUME NEW c \in Ids
        PROVE  uses'[c] + Cardinality(Confirming(c)') <= Cardinality(Handlers)
    <2>1. Confirming(c)' \subseteq Confirming(c)
      BY DEF Confirming
    <2>2. QED
      BY <2>1, ConfirmingShrinks DEF UsesInv, tables
  <1>2. UsesInv'
    BY <1>1 DEF UsesInv
  <1>3. ConfirmedInv'
    BY DEF ConfirmedInv, tables
  <1>4. QED
    BY <1>2, <1>3

\* The bound on uses is kept by every step.
LEMMA UsesStep == TypeInv /\ UsesInv /\ ConfirmedInv /\ [Next]_vars => UsesInv' /\ ConfirmedInv'
  <1> SUFFICES ASSUME TypeInv, UsesInv, ConfirmedInv, [Next]_vars
               PROVE  UsesInv' /\ ConfirmedInv'
    OBVIOUS
  <1> DEFINE Quiet(q) == pc'[q] = "confirm" => pc[q] = "confirm" /\ last'[q] = last[q]
  <1>a. ASSUME NEW h \in Handlers, End(h), NEW q \in Handlers
        PROVE  Quiet(q)
    BY <1>a, EndLocals
  <1>b. ASSUME NEW h \in Handlers, NEW label \in Labels, label # "confirm", Goto(h, label),
               UNCHANGED last, NEW q \in Handlers
        PROVE  Quiet(q)
    BY <1>b DEF Goto, TypeInv, TypeOK
  <1>c. ASSUME NEW h \in Handlers, NEW label \in Labels, label # "confirm", Goto(h, label),
               NEW c, last' = [last EXCEPT ![h] = c], NEW q \in Handlers
        PROVE  Quiet(q)
    BY <1>c DEF Goto, TypeInv, TypeOK
  <1>0. CASE UNCHANGED vars
    BY <1>0, QuietStep DEF vars, tables
  <1>1. CASE Tick
    BY <1>1, QuietStep DEF Tick
  <1>2. ASSUME NEW h \in Handlers, RequestCode(h) \/ SignIn(h)
        PROVE  UsesInv' /\ ConfirmedInv'
    <2>1. \A q \in Handlers : Quiet(q)
      BY <1>2, <1>b DEF RequestCode, SignIn, Labels
    <2>2. QED
      BY <1>2, <2>1, QuietStep DEF RequestCode, SignIn
  <1>3. ASSUME NEW h \in Handlers, SelectLast(h)
        PROVE  UsesInv' /\ ConfirmedInv'
    <2>1. \/ End(h)
          \/ (Goto(h, "insert") \/ Goto(h, "reset")) /\ UNCHANGED last
          \/ \E c \in Latest : Goto(h, "count") /\ last' = [last EXCEPT ![h] = c]
      BY <1>3 DEF SelectLast
    <2>2. \A q \in Handlers : Quiet(q)
      BY <2>1, <1>a, <1>b, <1>c DEF Labels
    <2>3. QED
      BY <1>3, <2>2, QuietStep DEF SelectLast
  <1>4. ASSUME NEW h \in Handlers, Reset(h) \/ Cancel(h)
        PROVE  UsesInv' /\ ConfirmedInv'
    <2>1. \A q \in Handlers : Quiet(q)
      BY <1>4, <1>b DEF Reset, Cancel, Labels
    <2>2. QED
      BY <1>4, <2>1, QuietStep DEF Reset, Cancel
  <1>5. ASSUME NEW h \in Handlers, CountGroup(h)
        PROVE  UsesInv' /\ ConfirmedInv'
    <2>1. End(h) \/ (Goto(h, "insert") /\ UNCHANGED last)
      BY <1>5 DEF CountGroup
    <2>2. \A q \in Handlers : Quiet(q)
      BY <2>1, <1>a, <1>b DEF Labels
    <2>3. QED
      BY <1>5, <2>2, QuietStep DEF CountGroup
  <1>6. ASSUME NEW h \in Handlers, Insert(h)
        PROVE  UsesInv' /\ ConfirmedInv'
    <2>1. PICK c \in FreshId :
             /\ codes' = [codes EXCEPT ![c] =
                             [created |-> now, group |-> group[h], status |-> "created"]]
             /\ last' = [last EXCEPT ![h] = c]
      BY <1>6 DEF Insert
    <2>2. \A q \in Handlers : Quiet(q)
      BY <1>6, <2>1, <1>c DEF Insert, Labels
    <2>3. ASSUME NEW d \in Ids
          PROVE  uses'[d] + Cardinality(Confirming(d)') <= Cardinality(Handlers)
      <3>1. Confirming(d)' \subseteq Confirming(d)
        BY <2>2 DEF Confirming
      <3>2. uses'[d] = uses[d]
        BY <1>6 DEF Insert
      <3>3. QED
        BY <3>1, <3>2, ConfirmingShrinks DEF UsesInv
    <2>4. \A d \in stored : codes'[d] = codes[d]
      BY <2>1, StoredIsCode DEF FreshId, TypeInv, TypeOK
    <2>5. QED
      BY <1>6, <2>3, <2>4 DEF Insert, UsesInv, ConfirmedInv
  <1>7. ASSUME NEW h \in Handlers, Commit(h)
        PROVE  UsesInv' /\ ConfirmedInv'
    <2>1. End(h) /\ stored \subseteq stored' /\ uses' = uses
      BY <1>7 DEF Commit
    <2>2. \A q \in Handlers : Quiet(q)
      BY <2>1, <1>a
    <2>3. ASSUME NEW d \in Ids
          PROVE  uses'[d] + Cardinality(Confirming(d)') <= Cardinality(Handlers)
      <3>1. Confirming(d)' \subseteq Confirming(d)
        BY <2>2 DEF Confirming
      <3>2. QED
        BY <2>1, <3>1, ConfirmingShrinks DEF UsesInv
    <2>4. ASSUME NEW d \in stored, codes[d].status = "confirmed"
          PROVE  codes'[d].status = "confirmed"
      <3>1. codes'[d].status = CanceledStatus(h, d)
        BY <1>7, CommitRows
      <3>2. QED
        BY <2>4, <3>1 DEF CanceledStatus
    <2>5. QED
      BY <2>1, <2>3, <2>4 DEF UsesInv, ConfirmedInv
  <1>8. ASSUME NEW h \in Handlers, VerifyConfirmationCode(h)
        PROVE  UsesInv' /\ ConfirmedInv'
    <2>1. UNCHANGED tables
      BY <1>8 DEF VerifyConfirmationCode
    <2>2. CASE End(h)
      BY <2>1, <2>2, <1>a, QuietStep
    <2>3. CASE ~End(h)
      <3>1. PICK c \in stored : /\ codes[c].status = "created"
                                /\ last' = [last EXCEPT ![h] = c]
                                /\ Goto(h, "confirm")
        BY <1>8, <2>3 DEF VerifyConfirmationCode
      <3>2. c \in Ids
        BY StoredIsCode
      <3>3. uses[c] = 0
        <4>1. ~(uses[c] > 0)
          BY <3>1, <3>2 DEF ConfirmedInv
        <4>2. uses[c] \in Nat
          BY <3>2 DEF TypeInv, TypeOK
        <4>3. QED
          BY <4>1, <4>2
      <3>4. ASSUME NEW d \in Ids
            PROVE  uses'[d] + Cardinality(Confirming(d)') <= Cardinality(Handlers)
        <4>1. CASE d = c
          <5>1. uses'[d] = 0
            BY <2>1, <3>3, <4>1 DEF tables
          <5>2. QED
            BY <5>1, ConfirmingFinitePrime
        <4>2. CASE d # c
          <5>1. Confirming(d)' \subseteq Confirming(d)
            BY <3>1, <4>2 DEF Confirming, Goto, TypeInv, TypeOK
          <5>2. QED
            BY <2>1, <5>1, ConfirmingShrinks DEF UsesInv, tables
        <4>3. QED
          BY <4>1, <4>2
      <3>5. QED
        BY <2>1, <3>4 DEF UsesInv, ConfirmedInv, tables
    <2>4. QED
      BY <2>2, <2>3
  <1>9. ASSUME NEW h \in Handlers, Confirm(h)
        PROVE  UsesInv' /\ ConfirmedInv'
    <2> DEFINE c == last[h]
    <2>1. /\ pc[h] = "confirm" /\ End(h) /\ stored' = stored
          /\ codes' = [codes EXCEPT ![c] = [codes[c] EXCEPT !.status = "confirmed"]]
          /\ uses' = [uses EXCEPT ![c] = @ + 1]
      BY <1>9 DEF Confirm
    <2>2. c \in stored /\ c \in Ids /\ codes[c] \in Code
      BY <2>1, StoredIsCode DEF TypeInv, LocalsOK
    <2>3. \A q \in Handlers : Quiet(q)
      BY <2>1, <1>a
    <2>4. codes'[c].status = "confirmed" /\ \A d \in Ids \ {c} : codes'[d] = codes[d]
      BY <2>1, <2>2 DEF TypeInv, TypeOK, Code
    <2>5. uses \in [Ids -> Nat]
      BY DEF TypeInv, TypeOK
    <2>6. uses'[c] = uses[c] + 1 /\ uses[c] \in Nat /\ \A d \in Ids \ {c} : uses'[d] = uses[d]
      BY <2>1, <2>2, <2>5
    <2>7. ASSUME NEW d \in Ids
          PROVE  uses'[d] + Cardinality(Confirming(d)') <= Cardinality(Handlers)
      <3>1. Confirming(d)' \subseteq Confirming(d)
        BY <2>3 DEF Confirming
      <3>2. CASE d # c
        BY <2>6, <3>1, <3>2, ConfirmingShrinks DEF UsesInv
      <3>3. CASE d = c
        <4>1. h \in Confirming(d)
          BY <2>1, <3>3 DEF Confirming
        <4>2. Confirming(d)' \subseteq Confirming(d) \ {h}
          <5>1. pc'[h] = "idle"
            BY <2>1, EndLocals
          <5>2. \A q \in Confirming(d)' : q # h
            BY <5>1 DEF Confirming
          <5>3. QED
            BY <3>1, <5>2
        <4>3. /\ IsFiniteSet(Confirming(d) \ {h})
              /\ Cardinality(Confirming(d) \ {h}) = Cardinality(Confirming(d)) - 1
          BY <4>1, ConfirmingFinite, FS_RemoveElement
        <4>4. Cardinality(Confirming(d)') <= Cardinality(Confirming(d)) - 1
          BY <4>2, <4>3, FS_Subset
        <4>5. uses[d] + Cardinality(Confirming(d)) <= Cardinality(Handlers)
          BY DEF UsesInv
        <4>6. uses'[d] = uses[d] + 1 /\ uses[d] \in Nat
          BY <2>6, <3>3
        <4>7. QED
          BY <4>4, <4>5, <4>6, ConfirmingFinite, ConfirmingFinitePrime
      <3>4. QED
        BY <3>2, <3>3
    <2>8. ConfirmedInv'
      BY <2>1, <2>2, <2>4, <2>6 DEF ConfirmedInv
    <2>9. QED
      BY <2>7, <2>8 DEF UsesInv
  <1>10. ASSUME NEW h \in Handlers, Rollback(h)
         PROVE  UsesInv' /\ ConfirmedInv'
    BY <1>10, <1>a, QuietStep DEF Rollback
  <1>11. QED
    BY <1>0, <1>1, <1>2, <1>3, <1>4, <1>5, <1>6, <1>7, <1>8, <1>9, <1>10 DEF Next, Handle

\* The inductive invariant that the theorems below follow from.
LEMMA UsesInvCorrect == Spec => [](TypeInv /\ UsesInv /\ ConfirmedInv)
  <1>1. Init => TypeInv
    BY DEF Init, TypeInv, TypeOK, LocalsOK, Created, NoGroup, Labels
  <1>2. Init /\ TypeInv => UsesInv
    <2> SUFFICES ASSUME Init, NEW c \in Ids
                 PROVE  uses[c] + Cardinality(Confirming(c)) <= Cardinality(Handlers)
      BY DEF UsesInv
    <2>1. uses[c] = 0
      BY DEF Init
    <2>2. QED
      BY <2>1, ConfirmingFinite
  <1>3. Init => ConfirmedInv
    BY DEF Init, ConfirmedInv
  <1>4. QED
    BY <1>1, <1>2, <1>3, TypeStep, UsesStep, PTL DEF Spec

\* The status is read at one await and written several later: a code is used
\* no more often than there are requests at one time.
THEOREM UsesAreBounded == Spec => []UsesBound
  <1>1. TypeInv /\ UsesInv => UsesBound
    <2> SUFFICES ASSUME TypeInv, UsesInv, NEW c \in Ids
                 PROVE  uses[c] <= Cardinality(Handlers)
      BY DEF UsesBound
    <2>1. uses[c] + Cardinality(Confirming(c)) <= Cardinality(Handlers)
      BY DEF UsesInv
    <2>2. uses \in [Ids -> Nat]
      BY DEF TypeInv, TypeOK
    <2>3. QED
      BY <2>1, <2>2, ConfirmingFinite
  <1>2. QED
    BY <1>1, UsesInvCorrect, PTL

\* A code that was used is never seen as created or canceled again, whichever
\* cancellation is under way.
THEOREM UseIsKept == Spec => ConfirmedForever
  <1>1. TypeInv /\ UsesInv /\ ConfirmedInv /\ [Next]_vars =>
           [\A c \in Ids : uses[c] > 0 => codes'[c].status = "confirmed"]_vars
    <2> SUFFICES ASSUME TypeInv, UsesInv, ConfirmedInv, [Next]_vars,
                        NEW c \in Ids, uses[c] > 0
                 PROVE  codes'[c].status = "confirmed" \/ UNCHANGED vars
      OBVIOUS
    <2>1. ConfirmedInv'
      BY UsesStep
    <2>2. uses'[c] > 0
      <3>1. uses \in [Ids -> Nat]
        BY DEF TypeInv, TypeOK
      <3>2. uses' = uses \/ \E h \in Handlers : uses' = [uses EXCEPT ![last[h]] = @ + 1]
        BY DEF Next, Handle, vars, tables, Tick, RequestCode, SelectLast, Reset, CountGroup,
           Insert, Cancel, Commit, SignIn, VerifyConfirmationCode, Confirm, Rollback
      <3>3. QED
        BY <3>1, <3>2
    <2>3. QED
      BY <2>1, <2>2 DEF ConfirmedInv
  <1>2. QED
    BY <1>1, UsesInvCorrect, PTL DEF Spec, ConfirmedForever
-----------------------------------------------------------------------------
(* A code that is left *)

Inserted(h) == pc[h] \in {"cancel", "commit"}

\* A code that is not committed is of one request only, and nothing has changed it.
PendingInv ==
    \A h \in Handlers : Inserted(h) =>
        /\ last[h] \notin stored
        /\ codes[last[h]].status = "created"
        /\ \A q \in Handlers \ {h} : Inserted(q) => last[q] # last[h]

LeftInv == PendingInv /\ SomeCodeLeft

\* What does not touch the tables and inserts nothing
LEMMA QuietLeft ==
    ASSUME TypeInv, LeftInv, UNCHANGED tables,
           \A q \in Handlers : Inserted(q)' => Inserted(q) /\ last'[q] = last[q]
    PROVE  LeftInv'
  <1>1. PendingInv'
    BY DEF LeftInv, PendingInv, tables
  <1>2. SomeCodeLeft'
    BY DEF LeftInv, SomeCodeLeft, tables
  <1>3. QED
    BY <1>1, <1>2 DEF LeftInv

\* Every step leaves a code that is not canceled.
LEMMA LeftStep == TypeInv /\ LeftInv /\ [Next]_vars => LeftInv'
  <1> SUFFICES ASSUME TypeInv, LeftInv, [Next]_vars
               PROVE  LeftInv'
    OBVIOUS
  <1> DEFINE Quiet(q) == Inserted(q)' => Inserted(q) /\ last'[q] = last[q]
  <1>a. ASSUME NEW h \in Handlers, End(h), NEW q \in Handlers
        PROVE  Quiet(q)
    BY <1>a, EndLocals DEF Inserted
  <1>b. ASSUME NEW h \in Handlers, NEW label \in Labels \ {"cancel", "commit"}, Goto(h, label),
               UNCHANGED last \/ (\E c : last' = [last EXCEPT ![h] = c]), NEW q \in Handlers
        PROVE  Quiet(q)
    BY <1>b DEF Goto, Inserted, TypeInv, TypeOK
  <1>0. CASE UNCHANGED vars
    BY <1>0, QuietLeft DEF vars, tables, Inserted
  <1>1. CASE Tick
    BY <1>1, QuietLeft DEF Tick, Inserted
  <1>2. ASSUME NEW h \in Handlers, RequestCode(h) \/ SignIn(h) \/ Reset(h)
        PROVE  LeftInv'
    <2>1. \A q \in Handlers : Quiet(q)
      BY <1>2, <1>b DEF RequestCode, SignIn, Reset, Labels
    <2>2. QED
      BY <1>2, <2>1, QuietLeft DEF RequestCode, SignIn, Reset
  <1>3. ASSUME NEW h \in Handlers, SelectLast(h)
        PROVE  LeftInv'
    <2>1. \/ End(h)
          \/ (Goto(h, "insert") \/ Goto(h, "reset")) /\ UNCHANGED last
          \/ \E c \in Latest : Goto(h, "count") /\ last' = [last EXCEPT ![h] = c]
      BY <1>3 DEF SelectLast
    <2>2. \A q \in Handlers : Quiet(q)
      BY <2>1, <1>a, <1>b DEF Labels
    <2>3. QED
      BY <1>3, <2>2, QuietLeft DEF SelectLast
  <1>4. ASSUME NEW h \in Handlers, CountGroup(h)
        PROVE  LeftInv'
    <2>1. End(h) \/ (Goto(h, "insert") /\ UNCHANGED last)
      BY <1>4 DEF CountGroup
    <2>2. \A q \in Handlers : Quiet(q)
      BY <2>1, <1>a, <1>b DEF Labels
    <2>3. QED
      BY <1>4, <2>2, QuietLeft DEF CountGroup
  <1>5. ASSUME NEW h \in Handlers, Insert(h)
        PROVE  LeftInv'
    <2>1. PICK c \in FreshId :
             /\ codes' = [codes EXCEPT ![c] =
                             [created |-> now, group |-> group[h], status |-> "created"]]
             /\ last' = [last EXCEPT ![h] = c]
      BY <1>5 DEF Insert
    <2>2. /\ c \in Ids /\ c \notin Created /\ c \notin stored
          /\ \A d \in stored : codes'[d] = codes[d]
      BY <2>1, StoredIsCode DEF FreshId, TypeInv, TypeOK
    <2>3. /\ codes'[c].status = "created" /\ last'[h] = c /\ stored' = stored
          /\ \A d \in Ids \ {c} : codes'[d] = codes[d]
          /\ \A q \in Handlers \ {h} : last'[q] = last[q] /\ pc'[q] = pc[q]
      BY <1>5, <2>1, <2>2 DEF Insert, Goto, TypeInv, TypeOK
    <2>4. \A q \in Handlers : Inserted(q) => last[q] \in Ids /\ last[q] # c
      BY <2>2 DEF Inserted, TypeInv, LocalsOK, Created
    <2>5. PendingInv'
      BY <2>2, <2>3, <2>4 DEF LeftInv, PendingInv, Inserted
    <2>6. SomeCodeLeft'
      BY <2>2, <2>3 DEF LeftInv, SomeCodeLeft
    <2>7. QED
      BY <2>5, <2>6 DEF LeftInv
  <1>6. ASSUME NEW h \in Handlers, Cancel(h)
        PROVE  LeftInv'
    <2>1. \A q \in Handlers : Quiet(q)
      BY <1>6 DEF Cancel, Goto, Inserted, TypeInv, TypeOK
    <2>2. QED
      BY <1>6, <2>1, QuietLeft DEF Cancel
  <1>7. ASSUME NEW h \in Handlers, Commit(h)
        PROVE  LeftInv'
    <2>1. End(h) /\ stored' = stored \union {last[h]} /\ Inserted(h)
      BY <1>7 DEF Commit, Inserted
    <2>2. /\ last[h] \in Ids /\ last[h] \notin stored /\ codes[last[h]].status = "created"
          /\ \A q \in Handlers \ {h} : Inserted(q) => last[q] # last[h]
      BY <2>1 DEF LeftInv, PendingInv, Inserted, TypeInv, LocalsOK, Created
    <2>3. \A q \in Handlers : Inserted(q)' => q # h /\ Inserted(q) /\ last'[q] = last[q]
      <3>1. pc'[h] = "idle"
        BY <2>1, EndLocals
      <3>2. QED
        BY <2>1, <3>1, <1>a DEF Inserted
    <2>4. \A c \in Ids : c \notin stored => codes'[c] = codes[c]
      BY <1>7, CommitRows
    <2>5. PendingInv'
      <3>1. \A q \in Handlers : Inserted(q) => last[q] \in Ids
        BY DEF Inserted, TypeInv, LocalsOK, Created
      <3>2. QED
        BY <2>1, <2>2, <2>3, <2>4, <3>1 DEF LeftInv, PendingInv
    <2>6. SomeCodeLeft'
      <3>1. last[h] \in stored' /\ codes'[last[h]].status = "created"
        BY <2>1, <2>2, <2>4
      <3>2. QED
        BY <3>1 DEF SomeCodeLeft
    <2>7. QED
      BY <2>5, <2>6 DEF LeftInv
  <1>8. ASSUME NEW h \in Handlers, VerifyConfirmationCode(h)
        PROVE  LeftInv'
    <2>1. End(h) \/ (Goto(h, "confirm") /\ \E c \in stored : last' = [last EXCEPT ![h] = c])
      BY <1>8 DEF VerifyConfirmationCode
    <2>2. \A q \in Handlers : Quiet(q)
      BY <2>1, <1>a, <1>b DEF Labels
    <2>3. QED
      BY <1>8, <2>2, QuietLeft DEF VerifyConfirmationCode
  <1>9. ASSUME NEW h \in Handlers, Confirm(h)
        PROVE  LeftInv'
    <2>1. /\ End(h) /\ stored' = stored
          /\ codes' = [codes EXCEPT ![last[h]] = [codes[last[h]] EXCEPT !.status = "confirmed"]]
      BY <1>9 DEF Confirm
    <2>2. last[h] \in stored /\ last[h] \in Ids /\ codes[last[h]] \in Code
      BY <1>9, StoredIsCode DEF Confirm, TypeInv, LocalsOK
    <2>3. codes'[last[h]].status = "confirmed" /\ \A c \in Ids \ {last[h]} : codes'[c] = codes[c]
      BY <2>1, <2>2 DEF TypeInv, TypeOK, Code
    <2>4. PendingInv'
      <3>1. \A q \in Handlers : Inserted(q) => last[q] \in Ids /\ last[q] # last[h]
        BY <2>2 DEF LeftInv, PendingInv, Inserted, TypeInv, LocalsOK, Created
      <3>2. QED
        BY <2>1, <2>3, <3>1, <1>a DEF LeftInv, PendingInv
    <2>5. SomeCodeLeft'
      BY <2>1, <2>2, <2>3 DEF SomeCodeLeft
    <2>6. QED
      BY <2>4, <2>5 DEF LeftInv
  <1>10. ASSUME NEW h \in Handlers, Rollback(h)
         PROVE  LeftInv'
    BY <1>10, <1>a, QuietLeft DEF Rollback
  <1>11. QED
    BY <1>0, <1>1, <1>2, <1>3, <1>4, <1>5, <1>6, <1>7, <1>8, <1>9, <1>10 DEF Next, Handle

\* However requests overlap and fail, they do not cancel one another's codes so
\* that none is left: the one that is committed last was canceled by nobody.
THEOREM SomeCodeIsLeft == Spec => []SomeCodeLeft
  <1>1. Init => TypeInv
    BY DEF Init, TypeInv, TypeOK, LocalsOK, Created, NoGroup, Labels
  <1>2. Init => LeftInv
    BY DEF Init, LeftInv, PendingInv, SomeCodeLeft, Inserted
  <1>3. LeftInv => SomeCodeLeft
    BY DEF LeftInv
  <1>4. QED
    BY <1>1, <1>2, <1>3, TypeStep, LeftStep, PTL DEF Spec

-----------------------------------------------------------------------------
(* The codes that can be used *)

\* Each usable code has a request of its own that is answerable for it: not
\* one that is about to cancel the codes it saw and did not see this one, for
\* it will bring a code itself.
OwnersInv ==
    \E owner \in [Usable -> Handlers] :
        /\ \A c, d \in Usable : owner[c] = owner[d] => c = d
        /\ \A h \in Handlers : pc[h] = "commit" =>
              \A c \in Usable \ canceling[h] : owner[c] # h

\* A step that makes no code usable and lets no request escape its duty
LEMMA QuietOwners ==
    ASSUME OwnersInv, Usable' \subseteq Usable,
           \A q \in Handlers : pc'[q] = "commit" =>
              \/ pc[q] = "commit" /\ canceling'[q] = canceling[q]
              \/ Usable' \subseteq canceling'[q]
    PROVE  OwnersInv'
  <1>1. PICK owner \in [Usable -> Handlers] :
           /\ \A c, d \in Usable : owner[c] = owner[d] => c = d
           /\ \A h \in Handlers : pc[h] = "commit" =>
                 \A c \in Usable \ canceling[h] : owner[c] # h
    BY DEF OwnersInv
  <1> DEFINE rest == [c \in Usable' |-> owner[c]]
  <1>2. rest \in [Usable' -> Handlers] /\ \A c \in Usable' : rest[c] = owner[c]
    BY <1>1
  <1>3. \A c, d \in Usable' : rest[c] = rest[d] => c = d
    BY <1>1, <1>2
  <1>4. \A h \in Handlers : pc'[h] = "commit" =>
           \A c \in Usable' \ canceling'[h] : rest[c] # h
    BY <1>1, <1>2
  <1>5. QED
    BY <1>2, <1>3, <1>4 DEF OwnersInv

\* The code that is committed takes the place of those that its request cancels.
LEMMA CommitOwners ==
    ASSUME TypeInv, OwnersInv, NEW h \in Handlers, Commit(h)
    PROVE  OwnersInv'
  <1> DEFINE new == last[h]
  <1>1. PICK owner \in [Usable -> Handlers] :
           /\ \A c, d \in Usable : owner[c] = owner[d] => c = d
           /\ \A q \in Handlers : pc[q] = "commit" =>
                 \A c \in Usable \ canceling[q] : owner[c] # q
    BY DEF OwnersInv
  <1>2. pc[h] = "commit" /\ End(h) /\ stored' = stored \union {new}
    BY DEF Commit
  <1>3. \A c \in stored : codes'[c].status = CanceledStatus(h, c)
    BY CommitRows
  <1>4. \A c \in Usable' : c # new => c \in Usable \ canceling[h]
    <2> SUFFICES ASSUME NEW c \in stored', codes'[c].status = "created", c # new
                 PROVE  c \in Usable \ canceling[h]
      BY DEF Usable
    <2>1. c \in stored
      BY <1>2
    <2>2. CanceledStatus(h, c) = "created"
      BY <1>3, <2>1
    <2>3. codes[c].status = "created" /\ c \notin canceling[h]
      BY <2>2 DEF CanceledStatus
    <2>4. QED
      BY <2>1, <2>3 DEF Usable
  <1> DEFINE next == [c \in Usable' |-> IF c = new THEN h ELSE owner[c]]
  <1>5. \A c \in Usable' : /\ c = new => next[c] = h
                           /\ c # new => next[c] = owner[c] /\ owner[c] \in Handlers /\ owner[c] # h
    BY <1>1, <1>2, <1>4
  <1>6. next \in [Usable' -> Handlers]
    BY <1>5
  <1>7. \A c, d \in Usable' : next[c] = next[d] => c = d
    <2> SUFFICES ASSUME NEW c \in Usable', NEW d \in Usable', next[c] = next[d]
                 PROVE  c = d
      OBVIOUS
    <2>1. CASE c = new \/ d = new
      BY <1>5, <2>1
    <2>2. CASE c # new /\ d # new
      BY <1>1, <1>4, <1>5, <2>2
    <2>3. QED
      BY <2>1, <2>2
  <1>8. ASSUME NEW q \in Handlers, pc'[q] = "commit", NEW c \in Usable' \ canceling'[q]
        PROVE  next[c] # q
    <2>1. q # h /\ pc[q] = "commit" /\ canceling'[q] = canceling[q]
      BY <1>2, <1>8 DEF End, Goto, TypeInv, TypeOK
    <2>2. CASE c = new
      BY <1>5, <2>1, <2>2
    <2>3. CASE c # new
      BY <1>1, <1>4, <1>5, <1>8, <2>1, <2>3
    <2>4. QED
      BY <2>2, <2>3
  <1> HIDE DEF next
  <1>9. QED
    BY <1>6, <1>7, <1>8 DEF OwnersInv

\* OwnersInv is kept by every step.
LEMMA OwnersStep == TypeInv /\ OwnersInv /\ [Next]_vars => OwnersInv'
  <1> SUFFICES ASSUME TypeInv, OwnersInv, [Next]_vars
               PROVE  OwnersInv'
    OBVIOUS
  <1> DEFINE Quiet(q) == pc'[q] = "commit" => pc[q] = "commit" /\ canceling'[q] = canceling[q]
  <1>a. ASSUME UNCHANGED tables, \A q \in Handlers : Quiet(q)
        PROVE  OwnersInv'
    <2>1. Usable' = Usable
      BY <1>a DEF tables, Usable
    <2>2. QED
      BY <1>a, <2>1, QuietOwners
  <1>b. ASSUME NEW h \in Handlers, End(h), NEW q \in Handlers
        PROVE  Quiet(q)
    BY <1>b DEF End, Goto, TypeInv, TypeOK
  <1>c. ASSUME NEW h \in Handlers, NEW label \in Labels \ {"commit"}, Goto(h, label),
               UNCHANGED canceling, NEW q \in Handlers
        PROVE  Quiet(q)
    BY <1>c DEF Goto, TypeInv, TypeOK
  <1>0. CASE UNCHANGED vars
    BY <1>0, <1>a DEF vars, tables
  <1>1. CASE Tick
    BY <1>1, <1>a DEF Tick
  <1>2. ASSUME NEW h \in Handlers, RequestCode(h) \/ SignIn(h) \/ Reset(h)
        PROVE  OwnersInv'
    BY <1>2, <1>a, <1>c DEF RequestCode, SignIn, Reset, Labels
  <1>3. ASSUME NEW h \in Handlers, SelectLast(h)
        PROVE  OwnersInv'
    <2>1. \/ End(h)
          \/ (Goto(h, "insert") \/ Goto(h, "reset") \/ Goto(h, "count")) /\ UNCHANGED canceling
      BY <1>3 DEF SelectLast
    <2>2. \A q \in Handlers : Quiet(q)
      BY <2>1, <1>b, <1>c DEF Labels
    <2>3. QED
      BY <1>3, <2>2, <1>a DEF SelectLast
  <1>4. ASSUME NEW h \in Handlers, CountGroup(h)
        PROVE  OwnersInv'
    <2>1. End(h) \/ (Goto(h, "insert") /\ UNCHANGED canceling)
      BY <1>4 DEF CountGroup
    <2>2. \A q \in Handlers : Quiet(q)
      BY <2>1, <1>b, <1>c DEF Labels
    <2>3. QED
      BY <1>4, <2>2, <1>a DEF CountGroup
  <1>5. ASSUME NEW h \in Handlers, Insert(h)
        PROVE  OwnersInv'
    <2>1. PICK c \in FreshId : codes' = [codes EXCEPT ![c] =
                             [created |-> now, group |-> group[h], status |-> "created"]]
      BY <1>5 DEF Insert
    <2>2. \A d \in stored : codes'[d] = codes[d]
      BY <2>1, StoredIsCode DEF FreshId, TypeInv, TypeOK
    <2>3. Usable' = Usable
      BY <1>5, <2>2 DEF Insert, Usable
    <2>4. \A q \in Handlers : Quiet(q)
      BY <1>5, <1>c DEF Insert, Labels
    <2>5. QED
      BY <2>3, <2>4, QuietOwners
  <1>6. ASSUME NEW h \in Handlers, Cancel(h)
        PROVE  OwnersInv'
    <2>1. Usable' = Usable /\ canceling'[h] = Usable
      BY <1>6 DEF Cancel, tables, Usable, TypeInv, TypeOK
    <2>2. \A q \in Handlers \ {h} : Quiet(q)
      BY <1>6 DEF Cancel, Goto, TypeInv, TypeOK
    <2>3. QED
      BY <2>1, <2>2, QuietOwners
  <1>7. ASSUME NEW h \in Handlers, Commit(h)
        PROVE  OwnersInv'
    BY <1>7, CommitOwners
  <1>8. ASSUME NEW h \in Handlers, VerifyConfirmationCode(h)
        PROVE  OwnersInv'
    <2>1. End(h) \/ (Goto(h, "confirm") /\ UNCHANGED canceling)
      BY <1>8 DEF VerifyConfirmationCode
    <2>2. \A q \in Handlers : Quiet(q)
      BY <2>1, <1>b, <1>c DEF Labels
    <2>3. QED
      BY <1>8, <2>2, <1>a DEF VerifyConfirmationCode
  <1>9. ASSUME NEW h \in Handlers, Confirm(h)
        PROVE  OwnersInv'
    <2>1. /\ End(h) /\ stored' = stored
          /\ codes' = [codes EXCEPT ![last[h]] = [codes[last[h]] EXCEPT !.status = "confirmed"]]
      BY <1>9 DEF Confirm
    <2>2. last[h] \in stored /\ last[h] \in Ids /\ codes[last[h]] \in Code
      BY <1>9, StoredIsCode DEF Confirm, TypeInv, LocalsOK
    <2>3. codes'[last[h]].status = "confirmed" /\ \A c \in Ids \ {last[h]} : codes'[c] = codes[c]
      BY <2>1, <2>2 DEF TypeInv, TypeOK, Code
    <2>4. Usable' \subseteq Usable
      BY <2>1, <2>3, StoredIsCode DEF Usable
    <2>5. \A q \in Handlers : Quiet(q)
      BY <2>1, <1>b
    <2>6. QED
      BY <2>4, <2>5, QuietOwners
  <1>10. ASSUME NEW h \in Handlers, Rollback(h)
         PROVE  OwnersInv'
    BY <1>10, <1>a, <1>b DEF Rollback
  <1>11. QED
    BY <1>0, <1>1, <1>2, <1>3, <1>4, <1>5, <1>6, <1>7, <1>8, <1>9, <1>10 DEF Next, Handle

\* after_entity_create cancels what it sees; what it does not see is of a
\* request that overlaps: as many codes can be used, at most, as there are
\* requests at one time, whichever fail.
THEOREM UsableCodesAreBounded == Spec => []UsableCodesBound
  <1>1. Init => TypeInv
    BY DEF Init, TypeInv, TypeOK, LocalsOK, Created, NoGroup, Labels
  <1>2. Init => OwnersInv
    <2> SUFFICES ASSUME Init
                 PROVE  OwnersInv
      OBVIOUS
    <2>1. Usable = {} /\ \A h \in Handlers : pc[h] = "idle"
      BY DEF Init, Usable
    <2> DEFINE none == [c \in {} |-> CHOOSE h \in Handlers : TRUE]
    <2>2. none \in [{} -> Handlers]
      OBVIOUS
    <2>3. QED
      BY <2>1, <2>2 DEF OwnersInv
  <1>3. OwnersInv => UsableCodesBound
    <2> SUFFICES ASSUME OwnersInv
                 PROVE  Cardinality(Usable) <= Cardinality(Handlers)
      BY DEF UsableCodesBound
    <2>1. PICK owner \in [Usable -> Handlers] :
             \A c, d \in Usable : owner[c] = owner[d] => c = d
      BY DEF OwnersInv
    <2>2. owner \in Injection(Usable, Handlers)
      BY <2>1 DEF Injection, IsInjective
    <2>3. QED
      BY <2>2, FS_Injection, CodeBoundAssumption
  <1>4. QED
    BY <1>1, <1>2, <1>3, TypeStep, OwnersStep, PTL DEF Spec

-----------------------------------------------------------------------------
(* The clock and the numbers of the codes *)

\* The times that requests and codes can have
Ticks == {k * Step : k \in Nat}

TimesInv ==
    /\ now \in Ticks
    /\ \A h \in Handlers : dt[h] \in Ticks /\ dt[h] <= now
    /\ \A c \in Created : codes[c].created \in Ticks /\ codes[c].created <= now

\* Codes are numbered in the order of their creation, those that were rolled
\* back included.
NumbersInv ==
    /\ \A c \in Created : \A d \in Ids : d < c => d \in Created
    /\ \A c, d \in Created : c < d => codes[c].created <= codes[d].created

ClockInv == TimesInv /\ NumbersInv

\* No request falls exactly on a limit.
OffLimits == \A k \in Nat : k * Step \notin {SameGroupTimeout, GroupTimeout, LimitTimeout}

\* What lies between two ticks is none of the limits.
LEMMA NotOnALimit ==
    ASSUME OffLimits, NEW x \in Ticks, NEW y \in Ticks
    PROVE  x - y \notin {SameGroupTimeout, GroupTimeout, LimitTimeout}
  <1>1. PICK i \in Nat : x = i * Step
    BY DEF Ticks
  <1>2. PICK j \in Nat : y = j * Step
    BY DEF Ticks
  <1>3. Step \in Nat
    BY CodeBoundAssumption
  <1>4. CASE i >= j
    <2>1. i - j \in Nat /\ (i - j) * Step = x - y
      BY <1>1, <1>2, <1>3, <1>4
    <2>2. (i - j) * Step \notin {SameGroupTimeout, GroupTimeout, LimitTimeout}
      BY <2>1 DEF OffLimits
    <2>3. QED
      BY <2>1, <2>2
  <1>5. CASE i < j
    <2>1. j - i \in Nat /\ (j - i) * Step = y - x
      BY <1>1, <1>2, <1>3, <1>5
    <2>2. (j - i) * Step \in Nat
      <3>1. \A a, b \in Nat : a * b \in Nat
        OBVIOUS
      <3>2. QED
        BY <2>1, <3>1, <1>3
    <2>3. y - x >= 0 /\ x \in Int /\ y \in Int
      BY <2>1, <2>2, <1>1, <1>2, <1>3
    <2>4. QED
      BY <2>3, LimitsAssumption
  <1>6. QED
    BY <1>1, <1>2, <1>4, <1>5

\* A code that exists keeps the time of its creation.
LEMMA CreatedStep ==
    ASSUME TypeInv, [Next]_vars
    PROVE  /\ \A c \in Created : c \in Created' /\ codes'[c].created = codes[c].created
           /\ \/ Created' = Created
              \/ \E c \in FreshId : Created' = Created \union {c} /\ codes'[c].created = now
           /\ now' = now \/ now' = now + Step
           /\ \A h \in Handlers : dt'[h] \in {dt[h], 0, now}
  <1> DEFINE Goal == /\ \A c \in Created : c \in Created' /\ codes'[c].created = codes[c].created
                     /\ \/ Created' = Created
                        \/ \E c \in FreshId : Created' = Created \union {c} /\ codes'[c].created = now
  <1>a. ASSUME UNCHANGED codes
        PROVE  Goal
    BY <1>a DEF Created
  <1>1. ASSUME NEW h \in Handlers, Insert(h)
        PROVE  Goal
    <2>1. PICK c \in FreshId : codes' = [codes EXCEPT ![c] =
                             [created |-> now, group |-> group[h], status |-> "created"]]
      BY <1>1 DEF Insert
    <2>2. c \in Ids /\ c \notin Created
      BY DEF FreshId
    <2>3. /\ codes'[c] = [created |-> now, group |-> group[h], status |-> "created"]
          /\ \A d \in Ids \ {c} : codes'[d] = codes[d]
      BY <2>1, <2>2 DEF TypeInv, TypeOK
    <2>4. codes'[c].created = now /\ codes'[c] # NoCode
      <3>1. codes'[c].status = "created" /\ codes'[c].created = now
        BY <2>3
      <3>2. NoCode.status = "none"
        BY DEF NoCode
      <3>3. QED
        BY <3>1, <3>2
    <2>5. Created' = Created \union {c}
      BY <2>2, <2>3, <2>4 DEF Created
    <2>6. \A d \in Created : codes'[d].created = codes[d].created
      BY <2>2, <2>3 DEF Created
    <2>7. QED
      BY <2>4, <2>5, <2>6
  <1>2. ASSUME NEW h \in Handlers, Commit(h)
        PROVE  Goal
    <2>1. Created' = Created /\ \A c \in Ids : c \notin stored => codes'[c] = codes[c]
      BY <1>2, CommitRows
    <2>2. ASSUME NEW c \in stored
          PROVE  codes'[c].created = codes[c].created
      <3>1. c \in Ids /\ codes[c] \in Code
        BY StoredIsCode
      <3>2. codes'[c] = [codes[c] EXCEPT !.status = CanceledStatus(h, c),
                                         !.group = IF c \in clearing[h] THEN NoGroup ELSE @]
        BY <1>2, <3>1 DEF Commit
      <3>3. QED
        BY <3>1, <3>2 DEF Code
    <2>3. \A c \in Created : c \in Ids
      BY DEF Created
    <2>4. QED
      BY <2>1, <2>2, <2>3
  <1>3. ASSUME NEW h \in Handlers, Confirm(h)
        PROVE  Goal
    <2>1. codes' = [codes EXCEPT ![last[h]] = [codes[last[h]] EXCEPT !.status = "confirmed"]]
      BY <1>3 DEF Confirm
    <2>2. last[h] \in stored /\ last[h] \in Ids /\ codes[last[h]] \in Code /\ last[h] \in Created
      BY <1>3, StoredIsCode DEF Confirm, TypeInv, LocalsOK
    <2>3. /\ codes'[last[h]] = [codes[last[h]] EXCEPT !.status = "confirmed"]
          /\ \A c \in Ids \ {last[h]} : codes'[c] = codes[c]
      BY <2>1, <2>2 DEF TypeInv, TypeOK
    <2>4. /\ codes'[last[h]].status = "confirmed"
          /\ codes'[last[h]].created = codes[last[h]].created
      BY <2>2, <2>3 DEF Code
    <2>5. codes'[last[h]] # NoCode
      <3>1. NoCode.status = "none"
        BY DEF NoCode
      <3>2. QED
        BY <2>4, <3>1
    <2>6. Created' = Created
      BY <2>2, <2>3, <2>5 DEF Created
    <2>7. QED
      BY <2>3, <2>4, <2>6 DEF Created
  <1>4. Goal
    BY <1>a, <1>1, <1>2, <1>3
       DEF Next, Handle, vars, tables, Tick, RequestCode, SelectLast, Reset, CountGroup,
           Cancel, SignIn, VerifyConfirmationCode, Rollback
  <1>5. now' = now \/ now' = now + Step
    BY DEF Next, Handle, vars, tables, Tick, RequestCode, SelectLast, Reset, CountGroup, Insert,
           Cancel, Commit, SignIn, VerifyConfirmationCode, Confirm, Rollback
  <1>6. \/ dt' = dt \/ \E h \in Handlers : \E t \in {0, now} : dt' = [dt EXCEPT ![h] = t]
    BY DEF Next, Handle, vars, tables, Tick, RequestCode, SelectLast, Reset, CountGroup, Insert,
           Cancel, Commit, SignIn, VerifyConfirmationCode, Confirm, Rollback, End
  <1>7. \A h \in Handlers : dt'[h] \in {dt[h], 0, now}
    BY <1>6 DEF TypeInv, TypeOK
  <1>8. QED
    BY <1>4, <1>5, <1>7

\* The identifier of a new row is higher than all before it.
LEMMA FreshIsLast ==
    ASSUME TypeInv, NumbersInv, NEW c \in FreshId, NEW d \in Created
    PROVE  d < c
  <1>1. c \in Ids /\ c \in Nat /\ c \notin Created /\ d \in Ids /\ d \in Nat
    BY CodeBoundAssumption DEF FreshId, Created
  <1>2. ~(c < d)
    BY <1>1 DEF NumbersInv
  <1>3. QED
    BY <1>1, <1>2

\* Every time is one that the clock has shown.
LEMMA ClockStep == TypeInv /\ ClockInv /\ [Next]_vars => ClockInv'
  <1> SUFFICES ASSUME TypeInv, ClockInv, [Next]_vars
               PROVE  ClockInv'
    OBVIOUS
  <1>0. /\ Step \in Nat /\ now \in Nat /\ 0 \in Ticks /\ 0 <= now
        /\ \A h \in Handlers : dt[h] \in Nat
        /\ \A c \in Created : c \in Ids /\ c \in Nat /\ codes[c].created \in Nat
    <2>1. \A c \in Created : c \in Ids /\ c \in Nat /\ codes[c] \in Code
      BY CodeBoundAssumption DEF Created, TypeInv, TypeOK
    <2>2. 0 \in Ticks
      <3>1. 0 = 0 * Step
        BY CodeBoundAssumption
      <3>2. QED
        BY <3>1 DEF Ticks
    <2>3. QED
      BY <2>1, <2>2, CodeBoundAssumption DEF TypeInv, TypeOK, Code
  <1>1. now' \in Ticks /\ now <= now'
    <2>1. PICK k \in Nat : now = k * Step
      BY DEF ClockInv, TimesInv, Ticks
    <2>2. now + Step = (k + 1) * Step /\ k + 1 \in Nat
      BY <1>0, <2>1
    <2>3. now + Step \in Ticks
      BY <2>2 DEF Ticks
    <2>4. QED
      BY <1>0, <2>3, CreatedStep DEF ClockInv, TimesInv
  <1>2. /\ \A c \in Created : c \in Created' /\ codes'[c].created = codes[c].created
        /\ \/ Created' = Created
           \/ \E c \in FreshId : Created' = Created \union {c} /\ codes'[c].created = now
    BY CreatedStep
  <1>3. now' \in Nat
    BY <1>0, CreatedStep
  <1>4. ASSUME NEW h \in Handlers
        PROVE  dt'[h] \in Ticks /\ dt'[h] <= now'
    <2>1. dt'[h] \in Ticks /\ dt'[h] \in Nat /\ dt'[h] <= now
      BY <1>0, CreatedStep DEF ClockInv, TimesInv
    <2>2. QED
      BY <1>0, <1>1, <1>3, <2>1
  <1>5. ASSUME NEW c \in Created'
        PROVE  codes'[c].created \in Ticks /\ codes'[c].created <= now'
    <2>1. codes'[c].created \in Ticks /\ codes'[c].created \in Nat /\ codes'[c].created <= now
      BY <1>0, <1>2 DEF ClockInv, TimesInv
    <2>2. QED
      BY <1>0, <1>1, <1>3, <2>1
  <1>6. TimesInv'
    BY <1>1, <1>4, <1>5 DEF TimesInv
  <1>7. CASE Created' = Created
    <2>1. NumbersInv'
      BY <1>2, <1>7 DEF ClockInv, NumbersInv
    <2>2. QED
      BY <1>6, <2>1 DEF ClockInv
  <1>8. ASSUME NEW c \in FreshId, Created' = Created \union {c}, codes'[c].created = now
        PROVE  ClockInv'
    <2>1. c \in Ids /\ c \in Nat /\ c \notin Created /\ \A d \in Ids : d < c => d \in Created
      BY CodeBoundAssumption DEF FreshId
    <2>2. \A d \in Created : d < c
      BY FreshIsLast DEF ClockInv
    <2>3. \A x \in Created' : \A d \in Ids : d < x => d \in Created'
      BY <1>8, <2>1 DEF ClockInv, NumbersInv
    <2>4. ASSUME NEW x \in Created', NEW d \in Created', x < d
          PROVE  codes'[x].created <= codes'[d].created
      <3>1. CASE x \in Created /\ d \in Created
        BY <1>2, <2>4, <3>1 DEF ClockInv, NumbersInv
      <3>2. CASE x \in Created /\ d = c
        BY <1>2, <1>8, <3>2 DEF ClockInv, TimesInv
      <3>3. CASE x = c
        <4>1. d = c \/ d < c
          BY <1>8, <2>2
        <4>2. FALSE
          BY <1>0, <1>8, <2>1, <2>4, <3>3, <4>1
        <4>3. QED
          BY <4>2
      <3>4. QED
        BY <1>8, <3>1, <3>2, <3>3
    <2>5. NumbersInv'
      BY <2>3, <2>4 DEF NumbersInv
    <2>6. QED
      BY <1>6, <2>5 DEF ClockInv
  <1>9. QED
    BY <1>2, <1>7, <1>8

\* The clock starts at a tick.
LEMMA ClockInit == Init => ClockInv
  <1> SUFFICES ASSUME Init
               PROVE  ClockInv
    OBVIOUS
  <1>1. 0 = 0 * Step
    BY CodeBoundAssumption
  <1>2. Created = {} /\ now = 0 /\ \A h \in Handlers : dt[h] = 0
    BY DEF Init, Created
  <1>3. QED
    BY <1>1, <1>2 DEF ClockInv, TimesInv, NumbersInv, Ticks

-----------------------------------------------------------------------------
(* The rows that a step leaves and those that a commit changes *)

\* No code appears among the stored ones or gets another group.
SameRows ==
    /\ stored' = stored
    /\ \A c \in stored : codes'[c].group = codes[c].group /\ codes'[c].created = codes[c].created

\* Only a commit changes what a query on groups and times finds.
LEMMA RowsStep ==
    ASSUME TypeInv, [Next]_vars
    PROVE  SameRows \/ \E h \in Handlers : Commit(h)
  <1>1. \A c \in stored : c \in Created /\ c \in Ids /\ codes[c] \in Code
    BY StoredIsCode
  <1>2. \A c \in stored : codes'[c].created = codes[c].created
    BY <1>1, CreatedStep
  <1>3. ASSUME NEW h \in Handlers, Insert(h)
        PROVE  SameRows
    <2>1. PICK c \in FreshId : codes' = [codes EXCEPT ![c] =
                             [created |-> now, group |-> group[h], status |-> "created"]]
      BY <1>3 DEF Insert
    <2>2. \A d \in stored : codes'[d] = codes[d]
      BY <1>1, <2>1 DEF FreshId, TypeInv, TypeOK
    <2>3. QED
      BY <1>3, <2>2 DEF Insert, SameRows
  <1>4. ASSUME NEW h \in Handlers, Confirm(h)
        PROVE  SameRows
    <2>1. /\ codes' = [codes EXCEPT ![last[h]] = [codes[last[h]] EXCEPT !.status = "confirmed"]]
          /\ stored' = stored /\ last[h] \in stored
      BY <1>4 DEF Confirm, TypeInv, LocalsOK
    <2>2. \A d \in Ids : codes'[d] = IF d = last[h] THEN [codes[d] EXCEPT !.status = "confirmed"]
                                     ELSE codes[d]
      BY <2>1 DEF TypeInv, TypeOK
    <2>3. \A d \in stored : codes'[d].group = codes[d].group
      BY <1>1, <2>2 DEF Code
    <2>4. QED
      BY <1>2, <2>1, <2>3 DEF SameRows
  <1>5. ASSUME UNCHANGED <<codes, stored>>
        PROVE  SameRows
    BY <1>5 DEF SameRows
  <1>6. QED
    BY <1>3, <1>4, <1>5
       DEF Next, Handle, vars, tables, Tick, RequestCode, SelectLast, Reset, CountGroup,
           Cancel, SignIn, VerifyConfirmationCode, Rollback

\* A commit adds the new row and clears the groups that its request has reset.
LEMMA CommitGroups ==
    ASSUME TypeInv, NEW h \in Handlers, Commit(h)
    PROVE  /\ stored' = stored \union {last[h]} /\ last[h] \in Created
           /\ last[h] \notin stored => codes'[last[h]] = codes[last[h]]
           /\ \A c \in stored : /\ codes'[c].created = codes[c].created
                                /\ codes'[c].group = IF c \in clearing[h] THEN NoGroup ELSE codes[c].group
  <1>1. stored' = stored \union {last[h]} /\ last[h] \in Created /\ last[h] \in Ids
    BY DEF Commit, TypeInv, LocalsOK, Created
  <1>2. \A c \in Ids : c \notin stored => codes'[c] = codes[c]
    BY CommitRows
  <1>3. ASSUME NEW c \in stored
        PROVE  /\ codes'[c].created = codes[c].created
               /\ codes'[c].group = IF c \in clearing[h] THEN NoGroup ELSE codes[c].group
    <2>1. c \in Ids /\ codes[c] \in Code
      BY StoredIsCode
    <2>2. codes'[c] = [codes[c] EXCEPT !.status = CanceledStatus(h, c),
                                       !.group = IF c \in clearing[h] THEN NoGroup ELSE @]
      BY <2>1 DEF Commit
    <2>3. QED
      BY <2>1, <2>2 DEF Code
  <1>4. QED
    BY <1>1, <1>2, <1>3

\* The last code is one.
LEMMA LatestIsOne ==
    ASSUME TypeInv, NEW c \in Latest, NEW d \in Latest
    PROVE  c = d
  <1>1. c \in stored /\ d \in stored /\ c <= d /\ d <= c
    BY DEF Latest
  <1>2. c \in Nat /\ d \in Nat
    BY <1>1, StoredIsCode, CodeBoundAssumption
  <1>3. QED
    BY <1>1, <1>2

\* The codes of a group are finitely many, and so are those that are stored.
LEMMA StoredFinite ==
    ASSUME TypeInv
    PROVE  /\ IsFiniteSet(stored)
           /\ \A S \in SUBSET stored : IsFiniteSet(S) /\ Cardinality(S) \in Nat
  <1>1. stored \in SUBSET Ids /\ IsFiniteSet(Ids)
    BY CodeBoundAssumption DEF TypeInv, TypeOK, Created
  <1>2. IsFiniteSet(stored)
    BY <1>1, FS_Subset
  <1>3. ASSUME NEW S \in SUBSET stored
        PROVE  IsFiniteSet(S) /\ Cardinality(S) \in Nat
    <2>1. IsFiniteSet(S)
      BY <1>2, FS_Subset
    <2>2. QED
      BY <2>1, FS_CardinalityType
  <1>4. QED
    BY <1>2, <1>3

\* One code more in a set of codes
LEMMA OneMore ==
    ASSUME NEW S, IsFiniteSet(S), NEW c, c \notin S
    PROVE  /\ IsFiniteSet(S \union {c}) /\ Cardinality(S \union {c}) = Cardinality(S) + 1
           /\ Cardinality(S) \in Nat
  <1>1. IsFiniteSet(S \union {c}) /\ Cardinality(S \union {c}) = Cardinality(S) + 1
    BY FS_AddElement
  <1>2. QED
    BY <1>1, FS_CardinalityType

-----------------------------------------------------------------------------
(* One request at a time: what a request has found out *)

Serial == \A h, q \in Handlers : h = q

Begun(h) == pc[h] \in {"insert", "cancel", "commit"}

\* The new code begins the first group,
Begins(h) ==
    /\ group[h] = 1 /\ clearing[h] = {}
    /\ \A c \in stored : codes[c].group = NoGroup

\* continues the last group,
Continues(h) ==
    /\ clearing[h] = {}
    /\ \E l \in Latest :
        /\ codes[l].group # NoGroup /\ group[h] = codes[l].group
        /\ Interval(h, l) > SameGroupTimeout
        /\ Cardinality(InGroup(codes[l].group)) < Attempts

\* begins the next one,
Follows(h) ==
    /\ clearing[h] = {}
    /\ \E l \in Latest :
        /\ codes[l].group # NoGroup /\ codes[l].group < Groups /\ group[h] = codes[l].group + 1
        /\ Interval(h, l) > GroupTimeout

\* or resets them all.
Resets(h) ==
    /\ group[h] = NoGroup
    /\ clearing[h] = {c \in stored : codes[c].group # NoGroup}
    /\ \E l \in Latest : codes[l].group # NoGroup /\ Interval(h, l) > LimitTimeout

Decided(h) == Begins(h) \/ Continues(h) \/ Follows(h) \/ Resets(h)

\* What is known of a request at each of its awaits
RequestOK(h) ==
    /\ pc[h] # "idle" => \A c \in stored : codes[c].created <= dt[h]
    /\ pc[h] \in {"idle", "select", "verify", "confirm"} => group[h] = NoGroup /\ clearing[h] = {}
    /\ pc[h] = "count" =>
        /\ last[h] \in Latest /\ clearing[h] = {}
        /\ codes[last[h]].group # NoGroup /\ group[h] = codes[last[h]].group
        /\ Interval(h, last[h]) >= SameGroupTimeout /\ Interval(h, last[h]) <= LimitTimeout
    /\ pc[h] = "reset" =>
        /\ group[h] = NoGroup /\ clearing[h] = {}
        /\ \E l \in Latest : codes[l].group # NoGroup /\ Interval(h, l) > LimitTimeout
    /\ Begun(h) => Decided(h)
    /\ Inserted(h) =>
        /\ last[h] \notin stored
        /\ codes[last[h]].group = group[h] /\ codes[last[h]].created >= dt[h]
        /\ \A c \in stored : c < last[h]

RequestsInv == \A h \in Handlers : RequestOK(h)

\* The last code is of the highest group: after a code without one, no group is left.
HighestInv ==
    /\ stored # {} => Latest # {}
    /\ \A l \in Latest : \A c \in stored : codes[c].group <= codes[l].group

SerialInv == TypeInv /\ ClockInv /\ RequestsInv /\ HighestInv

\* What is the same when no row has changed
LEMMA SameRowsSame ==
    ASSUME TypeInv, SameRows
    PROVE  /\ Latest' = Latest
           /\ \A g : InGroup(g)' = InGroup(g)
           /\ HighestInv => HighestInv'
  <1>1. Latest' = Latest /\ \A l \in Latest : l \in stored
    BY DEF SameRows, Latest
  <1>2. \A g : InGroup(g)' = InGroup(g)
    BY DEF SameRows, InGroup
  <1>3. HighestInv => HighestInv'
    BY <1>1 DEF HighestInv, SameRows
  <1>4. QED
    BY <1>1, <1>2, <1>3

\* A request that has decided is still right.
LEMMA SameDecision ==
    ASSUME TypeInv, SameRows, NEW h, UNCHANGED <<dt, group, clearing>>, Decided(h)
    PROVE  Decided(h)'
  <1>1. Latest' = Latest /\ \A l \in Latest : l \in stored
    BY DEF SameRows, Latest
  <1>2. \A l \in Latest : Interval(h, l)' = Interval(h, l) /\ codes'[l].group = codes[l].group
    BY <1>1 DEF Interval, SameRows
  <1>3. Begins(h) => Begins(h)'
    BY DEF Begins, SameRows
  <1>4. Continues(h) => Continues(h)'
    <2> SUFFICES ASSUME Continues(h)
                 PROVE  Continues(h)'
      OBVIOUS
    <2>1. PICK l \in Latest : /\ codes[l].group # NoGroup /\ group[h] = codes[l].group
                              /\ Interval(h, l) > SameGroupTimeout
                              /\ Cardinality(InGroup(codes[l].group)) < Attempts
      BY DEF Continues
    <2>2. InGroup(codes[l].group)' = InGroup(codes[l].group)
      BY <1>2 DEF InGroup, SameRows
    <2>3. QED
      BY <1>1, <1>2, <2>1, <2>2 DEF Continues
  <1>5. Follows(h) => Follows(h)'
    BY <1>1, <1>2 DEF Follows
  <1>6. Resets(h) => Resets(h)'
    <2>1. {c \in stored : codes[c].group # NoGroup}' = {c \in stored : codes[c].group # NoGroup}
      BY DEF SameRows
    <2>2. QED
      BY <1>1, <1>2, <2>1 DEF Resets
  <1>7. QED
    BY <1>3, <1>4, <1>5, <1>6 DEF Decided

\* A request that is over knows nothing.
LEMMA EndRequest ==
    ASSUME TypeInv, NEW h \in Handlers, End(h)
    PROVE  RequestOK(h)'
  <1>1. pc'[h] = "idle" /\ group'[h] = NoGroup /\ clearing'[h] = {}
    BY DEF End, Goto, TypeInv, TypeOK
  <1>2. QED
    BY <1>1 DEF RequestOK, Begun, Inserted

\* The limits, and what a request compares them with
LEMMA IntervalIs ==
    ASSUME TypeInv, NEW h \in Handlers, NEW c \in stored
    PROVE  /\ Interval(h, c) = dt[h] - codes[c].created /\ Interval(h, c) \in Int
           /\ dt[h] \in Nat /\ codes[c].created \in Nat /\ codes[c].group \in Nat
           /\ {SameGroupTimeout, GroupTimeout, LimitTimeout} \subseteq Nat
  <1>1. codes[c] \in Code
    BY StoredIsCode
  <1>2. QED
    BY <1>1, LimitsAssumption DEF Interval, Code, TypeInv, TypeOK

\* Off the limits, a count ends in one of the two groups that it may end in.
LEMMA CountDecides ==
    ASSUME OffLimits, SerialInv, NEW h \in Handlers, CountGroup(h), ~End(h)
    PROVE  Decided(h)'
  <1> DEFINE l == last[h]
             size == Cardinality(InGroup(group[h]))
  <1>1. /\ l \in Latest /\ clearing[h] = {}
        /\ codes[l].group # NoGroup /\ group[h] = codes[l].group
        /\ Interval(h, l) >= SameGroupTimeout /\ Interval(h, l) <= LimitTimeout
    BY DEF CountGroup, SerialInv, RequestsInv, RequestOK
  <1>2. PICK n \in NextGroup(group[h], size, Interval(h, l)) : group' = [group EXCEPT ![h] = n]
    BY DEF CountGroup
  <1>3. UNCHANGED <<codes, stored, dt, last, clearing>> /\ group'[h] = n
    BY <1>2 DEF CountGroup, tables, SerialInv, TypeInv, TypeOK
  <1>4. l \in stored /\ l \in Created
    BY <1>1, StoredIsCode DEF Latest, SerialInv
  <1>5. /\ Interval(h, l) # SameGroupTimeout /\ Interval(h, l) # GroupTimeout
        /\ Interval(h, l) # LimitTimeout
    <2>1. dt[h] \in Ticks /\ codes[l].created \in Ticks
      BY <1>4 DEF SerialInv, ClockInv, TimesInv
    <2>2. QED
      BY <2>1, NotOnALimit DEF Interval
  <1>6. /\ Interval(h, l) \in Int /\ group[h] \in Nat /\ group[h] # NoGroup
        /\ {SameGroupTimeout, GroupTimeout, LimitTimeout} \subseteq Nat
    BY <1>1, <1>4, IntervalIs DEF SerialInv, TypeInv, TypeOK
  <1>7. \/ n = group[h] /\ size < Attempts /\ Interval(h, l) > SameGroupTimeout
        \/ n = group[h] + 1 /\ group[h] < Groups /\ Interval(h, l) > GroupTimeout
    <2> DEFINE t == Interval(h, l)
    <2>1. \/ SameGroupTimeout < t /\ t < GroupTimeout
          \/ GroupTimeout < t /\ t < LimitTimeout
      BY <1>1, <1>5, <1>6
    <2>2. ~(SameGroupTimeout < t /\ t < GroupTimeout) \/ ~(GroupTimeout < t /\ t < LimitTimeout)
      BY <1>6
    <2>3. CASE SameGroupTimeout < t /\ t < GroupTimeout
      <3>1. NextGroup(group[h], size, t) = IF size < Attempts THEN {group[h]} ELSE {}
        BY <2>2, <2>3 DEF NextGroup
      <3>2. QED
        BY <1>2, <1>6, <2>3, <3>1
    <2>4. CASE GroupTimeout < t /\ t < LimitTimeout
      <3>1. NextGroup(group[h], size, t) =
               IF size < Attempts THEN {group[h]} ELSE IF group[h] < Groups THEN {group[h] + 1} ELSE {}
        BY <2>2, <2>4 DEF NextGroup
      <3>2. SameGroupTimeout < t
        BY <1>6, <2>4, LimitsAssumption
      <3>3. QED
        BY <1>2, <1>6, <2>4, <3>1, <3>2
    <2>5. QED
      BY <2>1, <2>3, <2>4
  <1>8. Latest' = Latest /\ Interval(h, l)' = Interval(h, l) /\ InGroup(codes[l].group)' = InGroup(group[h])
    BY <1>1, <1>3 DEF Latest, Interval, InGroup
  <1>9. CASE n = group[h] /\ size < Attempts /\ Interval(h, l) > SameGroupTimeout
    <2>1. Continues(h)'
      <3>1. /\ codes'[l].group # NoGroup /\ group'[h] = codes'[l].group /\ l \in Latest'
            /\ Interval(h, l)' > SameGroupTimeout /\ clearing'[h] = {}
            /\ Cardinality(InGroup(codes[l].group)') < Attempts
        BY <1>1, <1>3, <1>8, <1>9
      <3>2. QED
        BY <1>3, <3>1 DEF Continues
    <2>2. QED
      BY <2>1 DEF Decided
  <1>10. CASE n = group[h] + 1 /\ group[h] < Groups /\ Interval(h, l) > GroupTimeout
    <2>1. Follows(h)'
      BY <1>1, <1>3, <1>8, <1>10 DEF Follows
    <2>2. QED
      BY <2>1 DEF Decided
  <1>11. QED
    BY <1>7, <1>9, <1>10

\* What a request knows at one await it still knows at the next.
LEMMA RequestStep ==
    ASSUME OffLimits, SerialInv, NEW h \in Handlers, Handle(h), [Next]_vars
    PROVE  RequestOK(h)'
  <1>0. /\ RequestOK(h) /\ TypeInv
        /\ \A c \in stored : c \in Created /\ codes[c].group \in Nat
    BY StoredIsCode DEF SerialInv, RequestsInv
  <1>1. CASE RequestCode(h) \/ SignIn(h)
    <2>1. /\ pc[h] = "idle" /\ pc'[h] \in {"select", "verify"} /\ dt'[h] = now
          /\ UNCHANGED <<codes, stored, group, clearing>>
      BY <1>0, <1>1 DEF RequestCode, SignIn, Goto, tables, TypeInv, TypeOK
    <2>2. \A c \in stored : codes[c].created <= now
      BY <1>0 DEF SerialInv, ClockInv, TimesInv
    <2>3. QED
      BY <1>0, <2>1, <2>2 DEF RequestOK, Begun, Inserted
  <1>2. CASE SelectLast(h) /\ ~End(h)
    <2>1. /\ pc[h] = "select" /\ UNCHANGED <<codes, stored, dt, clearing>>
          /\ group[h] = NoGroup /\ clearing[h] = {} /\ \A c \in stored : codes[c].created <= dt[h]
      BY <1>0, <1>2 DEF SelectLast, tables, RequestOK
    <2>2. CASE group' = [group EXCEPT ![h] = 1] /\ Goto(h, "insert")
               /\ (stored = {} \/ \E c \in Latest : codes[c].group = NoGroup)
      <3>1. group'[h] = 1 /\ pc'[h] = "insert"
        BY <1>0, <2>2 DEF Goto, TypeInv, TypeOK
      <3>2. \A c \in stored : codes[c].group = NoGroup
        BY <1>0, <2>2 DEF SerialInv, HighestInv, NoGroup
      <3>3. Begins(h)'
        BY <2>1, <3>1, <3>2 DEF Begins
      <3>4. QED
        BY <2>1, <3>1, <3>3 DEF RequestOK, Begun, Inserted, Decided
    <2>3. ASSUME NEW c \in Latest, codes[c].group # NoGroup, Interval(h, c) > LimitTimeout,
                 Goto(h, "reset"), UNCHANGED group
          PROVE  RequestOK(h)'
      <3>1. pc'[h] = "reset" /\ Latest' = Latest /\ Interval(h, c)' = Interval(h, c)
        BY <1>0, <2>1, <2>3 DEF Goto, Latest, Interval, TypeInv, TypeOK
      <3>2. QED
        BY <2>1, <2>3, <3>1 DEF RequestOK, Begun, Inserted
    <2>4. ASSUME NEW c \in Latest, codes[c].group # NoGroup, ~(Interval(h, c) > LimitTimeout),
                 ~(Interval(h, c) < SameGroupTimeout), last' = [last EXCEPT ![h] = c],
                 group' = [group EXCEPT ![h] = codes[c].group], Goto(h, "count")
          PROVE  RequestOK(h)'
      <3>1. /\ pc'[h] = "count" /\ last'[h] = c /\ group'[h] = codes[c].group
            /\ Latest' = Latest /\ Interval(h, c)' = Interval(h, c)
        BY <1>0, <2>1, <2>4 DEF Goto, Latest, Interval, TypeInv, TypeOK
      <3>2. Interval(h, c) >= SameGroupTimeout /\ Interval(h, c) <= LimitTimeout
        <4>1. c \in stored
          BY DEF Latest
        <4>2. QED
          BY <1>0, <2>4, <4>1, IntervalIs
      <3>3. QED
        BY <2>1, <2>4, <3>1, <3>2 DEF RequestOK, Begun, Inserted
    <2>5. QED
      BY <1>2, <2>2, <2>3, <2>4 DEF SelectLast
  <1>3. CASE Reset(h)
    <2>1. /\ pc[h] = "reset" /\ pc'[h] = "insert" /\ UNCHANGED <<codes, stored, dt, group>>
          /\ clearing'[h] = {c \in stored : codes[c].group # NoGroup}
      BY <1>0, <1>3 DEF Reset, Goto, tables, TypeInv, TypeOK
    <2>2. PICK l \in Latest : codes[l].group # NoGroup /\ Interval(h, l) > LimitTimeout
      BY <1>0, <2>1 DEF RequestOK
    <2>3. Latest' = Latest /\ Interval(h, l)' = Interval(h, l)
      BY <2>1 DEF Latest, Interval
    <2>4. Resets(h)'
      BY <1>0, <2>1, <2>2, <2>3 DEF Resets, RequestOK
    <2>5. QED
      BY <1>0, <2>1, <2>4 DEF RequestOK, Begun, Inserted, Decided
  <1>4. CASE CountGroup(h) /\ ~End(h)
    <2>1. pc[h] = "count" /\ pc'[h] = "insert" /\ UNCHANGED <<codes, stored, dt>>
      BY <1>0, <1>4 DEF CountGroup, Goto, tables, TypeInv, TypeOK
    <2>2. Decided(h)'
      BY <1>4, CountDecides
    <2>3. QED
      BY <1>0, <2>1, <2>2 DEF RequestOK, Begun, Inserted
  <1>5. CASE Insert(h)
    <2>1. PICK c \in FreshId :
             /\ codes' = [codes EXCEPT ![c] =
                             [created |-> now, group |-> group[h], status |-> "created"]]
             /\ last' = [last EXCEPT ![h] = c]
      BY <1>5 DEF Insert
    <2>2. c \in Ids /\ c \notin Created /\ c \notin stored /\ \A d \in stored : d < c
      BY <1>0, FreshIsLast DEF FreshId, SerialInv, ClockInv
    <2>3. /\ pc[h] = "insert" /\ pc'[h] = "cancel" /\ last'[h] = c
          /\ UNCHANGED <<stored, dt, group, clearing>>
          /\ codes'[c].group = group[h] /\ codes'[c].created = now
          /\ \A d \in stored : codes'[d] = codes[d]
      BY <1>0, <1>5, <2>1, <2>2 DEF Insert, Goto, TypeInv, TypeOK, Created
    <2>4. SameRows
      BY <2>3 DEF SameRows
    <2>5. Decided(h)'
      BY <1>0, <2>3, <2>4, SameDecision DEF RequestOK, Begun
    <2>6. now >= dt[h]
      BY <1>0 DEF SerialInv, ClockInv, TimesInv, TypeInv, TypeOK
    <2>7. QED
      BY <1>0, <2>2, <2>3, <2>5, <2>6 DEF RequestOK, Begun, Inserted
  <1>6. CASE Cancel(h)
    <2>1. /\ pc[h] = "cancel" /\ pc'[h] = "commit"
          /\ UNCHANGED <<codes, stored, last, dt, group, clearing>>
      BY <1>0, <1>6 DEF Cancel, Goto, tables, TypeInv, TypeOK
    <2>2. Decided(h)'
      BY <1>0, <2>1, SameDecision DEF RequestOK, Begun, SameRows
    <2>3. QED
      BY <1>0, <2>1, <2>2 DEF RequestOK, Begun, Inserted
  <1>7. CASE VerifyConfirmationCode(h) /\ ~End(h)
    <2>1. /\ pc[h] = "verify" /\ pc'[h] = "confirm"
          /\ UNCHANGED <<codes, stored, dt, group, clearing>>
      BY <1>0, <1>7 DEF VerifyConfirmationCode, Goto, tables, TypeInv, TypeOK
    <2>2. QED
      BY <1>0, <2>1 DEF RequestOK, Begun, Inserted
  <1>8. CASE End(h)
    BY <1>0, <1>8, EndRequest
  <1>9. QED
    BY <1>1, <1>2, <1>3, <1>4, <1>5, <1>6, <1>7, <1>8 DEF Handle, Commit, Confirm, Rollback

\* A commit makes the new code the last one.
LEMMA CommitIsLast ==
    ASSUME SerialInv, NEW h \in Handlers, Commit(h), NEW new, new = last[h]
    PROVE  /\ new \notin stored /\ stored' = stored \union {new} /\ new \in Nat
           /\ Latest' = {new} /\ Decided(h)
           /\ \A c \in stored : c < new /\ c \in Nat
           /\ codes'[new].group = group[h] /\ group[h] \in Nat
           /\ codes'[new].created \in Nat /\ codes'[new].created >= dt[h] /\ dt[h] \in Nat
           /\ \A c \in stored : /\ codes'[c].created = codes[c].created
                                /\ codes[c].created \in Nat /\ codes[c].created <= dt[h]
                                /\ codes[c].group \in Nat
                                /\ codes'[c].group = IF c \in clearing[h] THEN NoGroup ELSE codes[c].group
  <1>1. TypeInv /\ RequestOK(h) /\ pc[h] = "commit"
    BY DEF SerialInv, RequestsInv, Commit
  <1>2. /\ stored' = stored \union {new} /\ new \in Created
        /\ new \notin stored => codes'[new] = codes[new]
        /\ \A c \in stored : /\ codes'[c].created = codes[c].created
                             /\ codes'[c].group = IF c \in clearing[h] THEN NoGroup ELSE codes[c].group
    BY <1>1, CommitGroups
  <1>3. /\ new \notin stored /\ codes[new].group = group[h] /\ codes[new].created >= dt[h]
        /\ Decided(h) /\ \A c \in stored : c < new /\ codes[c].created <= dt[h]
    BY <1>1 DEF RequestOK, Begun, Inserted
  <1>4. codes[new] \in Code /\ new \in Nat /\ group[h] \in Nat /\ dt[h] \in Nat
    BY <1>1, <1>2, CodeBoundAssumption DEF Created, TypeInv, TypeOK
  <1>5. \A c \in stored : codes[c] \in Code /\ c \in Nat
    BY <1>1, StoredIsCode, CodeBoundAssumption
  <1>6. Latest' = {new}
    <2>1. \A c \in stored' : c <= new
      BY <1>2, <1>3, <1>4, <1>5
    <2>2. \A c \in stored : ~(new <= c)
      BY <1>3, <1>4, <1>5
    <2>3. QED
      BY <1>2, <2>1, <2>2 DEF Latest
  <1>7. QED
    BY <1>2, <1>3, <1>4, <1>5, <1>6 DEF Code

\* What the four kinds of codes do to the groups
LEMMA CommitKinds ==
    ASSUME SerialInv, NEW h \in Handlers, Commit(h), NEW new, new = last[h]
    PROVE  /\ \/ Begins(h) \/ Continues(h) \/ Follows(h) \/ Resets(h)
           /\ Resets(h) => \A c \in stored' : codes'[c].group = NoGroup
           /\ ~Resets(h) =>
                 /\ \A c \in stored : codes'[c].group = codes[c].group
                 /\ \A g : InGroup(g)' = InGroup(g) \union (IF g = group[h] THEN {new} ELSE {})
                 /\ group[h] # NoGroup
  <1>0. /\ stored' = stored \union {new}
        /\ codes'[new].group = group[h] /\ Decided(h)
        /\ \A c \in stored : codes'[c].group = IF c \in clearing[h] THEN NoGroup ELSE codes[c].group
        /\ \A c \in stored : codes[c].group \in Nat
    BY CommitIsLast
  <1>1. Resets(h) => \A c \in stored' : codes'[c].group = NoGroup
    BY <1>0 DEF Resets
  <1>2. ASSUME ~Resets(h)
        PROVE  /\ \A c \in stored : codes'[c].group = codes[c].group
               /\ group[h] # NoGroup
    <2>1. clearing[h] = {}
      BY <1>0, <1>2 DEF Decided, Begins, Continues, Follows
    <2>2. group[h] # NoGroup
      <3>1. CASE Begins(h)
        BY <3>1 DEF Begins, NoGroup
      <3>2. CASE Continues(h)
        BY <3>2 DEF Continues
      <3>3. CASE Follows(h)
        BY <3>3, <1>0 DEF Follows, NoGroup, Latest
      <3>4. QED
        BY <1>0, <1>2, <3>1, <3>2, <3>3 DEF Decided
    <2>3. QED
      BY <1>0, <2>1, <2>2
  <1>3. ASSUME ~Resets(h), NEW g
        PROVE  InGroup(g)' = InGroup(g) \union (IF g = group[h] THEN {new} ELSE {})
    BY <1>0, <1>2, <1>3 DEF InGroup
  <1>4. QED
    BY <1>0, <1>1, <1>2, <1>3 DEF Decided

\* The last code stays of the highest group.
LEMMA CommitHighest ==
    ASSUME SerialInv, NEW h \in Handlers, Commit(h)
    PROVE  HighestInv'
  <1> DEFINE new == last[h]
  <1>1. /\ stored' = stored \union {new} /\ Latest' = {new}
        /\ codes'[new].group = group[h] /\ group[h] \in Nat
        /\ \A c \in stored : codes[c].group \in Nat
    BY CommitIsLast
  <1>2. /\ \/ Begins(h) \/ Continues(h) \/ Follows(h) \/ Resets(h)
        /\ Resets(h) => \A c \in stored' : codes'[c].group = NoGroup
        /\ ~Resets(h) => \A c \in stored : codes'[c].group = codes[c].group
    BY CommitKinds
  <1>3. \A l \in Latest : l \in stored /\ \A c \in stored : codes[c].group <= codes[l].group
    BY DEF SerialInv, HighestInv, Latest
  <1>4. ASSUME NEW c \in stored
        PROVE  codes'[c].group <= group[h]
    <2>1. CASE Resets(h)
      BY <1>1, <1>2, <2>1 DEF NoGroup
    <2>2. CASE Begins(h) /\ ~Resets(h)
      BY <1>2, <2>2 DEF Begins, NoGroup
    <2>3. CASE Continues(h) /\ ~Resets(h)
      BY <1>2, <1>3, <2>3 DEF Continues
    <2>4. CASE Follows(h) /\ ~Resets(h)
      <3>1. PICK l \in Latest : group[h] = codes[l].group + 1
        BY <2>4 DEF Follows
      <3>2. codes[c].group <= codes[l].group /\ codes[l].group \in Nat /\ codes[c].group \in Nat
        BY <1>1, <1>3
      <3>3. QED
        BY <1>2, <2>4, <3>1, <3>2
    <2>5. QED
      BY <1>2, <2>1, <2>2, <2>3, <2>4
  <1>5. QED
    BY <1>1, <1>4 DEF HighestInv

\* One request at a time, off the limits: SerialInv is inductive.
LEMMA SerialStep ==
    ASSUME Serial, OffLimits
    PROVE  SerialInv /\ [Next]_vars => SerialInv'
  <1> SUFFICES ASSUME SerialInv, [Next]_vars
               PROVE  SerialInv'
    OBVIOUS
  <1>1. TypeInv' /\ ClockInv'
    BY TypeStep, ClockStep DEF SerialInv
  <1>2. RequestsInv'
    <2>1. CASE UNCHANGED <<codes, stored, pc, dt, last, group, clearing>>
      <3>1. ASSUME NEW h \in Handlers
            PROVE  RequestOK(h)'
        <4>1. RequestOK(h)
          BY DEF SerialInv, RequestsInv
        <4>2. SameRows
          BY <2>1 DEF SameRows
        <4>3. Decided(h) => Decided(h)'
          <5>1. ASSUME Decided(h)
                PROVE  Decided(h)'
            BY <2>1, <4>2, <5>1, SameDecision DEF SerialInv
          <5>2. QED
            BY <5>1
        <4>4. /\ Latest' = Latest /\ \A l \in Latest : Interval(h, l)' = Interval(h, l)
              /\ Interval(h, last[h])' = Interval(h, last[h])
              /\ (Begun(h)' <=> Begun(h)) /\ (Inserted(h)' <=> Inserted(h))
          BY <2>1 DEF Latest, Interval, Begun, Inserted
        <4>5. (pc[h] # "idle" => \A c \in stored : codes[c].created <= dt[h])'
          BY <2>1, <4>1 DEF RequestOK
        <4>6. (pc[h] = "count" =>
                 /\ last[h] \in Latest /\ clearing[h] = {}
                 /\ codes[last[h]].group # NoGroup /\ group[h] = codes[last[h]].group
                 /\ Interval(h, last[h]) >= SameGroupTimeout /\ Interval(h, last[h]) <= LimitTimeout)'
          BY <2>1, <4>1, <4>4 DEF RequestOK
        <4>7. (pc[h] = "reset" =>
                 /\ group[h] = NoGroup /\ clearing[h] = {}
                 /\ \E l \in Latest : codes[l].group # NoGroup /\ Interval(h, l) > LimitTimeout)'
          BY <2>1, <4>1, <4>4 DEF RequestOK
        <4>8. (Begun(h) => Decided(h))'
          BY <4>1, <4>3, <4>4 DEF RequestOK
        <4>9. (Inserted(h) =>
                 /\ last[h] \notin stored
                 /\ codes[last[h]].group = group[h] /\ codes[last[h]].created >= dt[h]
                 /\ \A c \in stored : c < last[h])'
          BY <2>1, <4>1, <4>4 DEF RequestOK
        <4>10. (pc[h] \in {"idle", "select", "verify", "confirm"} =>
                  group[h] = NoGroup /\ clearing[h] = {})'
          BY <2>1, <4>1 DEF RequestOK
        <4>11. QED
          BY <4>5, <4>6, <4>7, <4>8, <4>9, <4>10 DEF RequestOK
      <3>2. QED
        BY <3>1 DEF RequestsInv
    <2>2. ASSUME NEW h \in Handlers, Handle(h)
          PROVE  RequestsInv'
      <3>1. RequestOK(h)'
        BY <2>2, RequestStep
      <3>2. \A q \in Handlers : q = h
        BY DEF Serial
      <3>3. QED
        BY <3>1, <3>2 DEF RequestsInv
    <2>3. QED
      BY <2>1, <2>2 DEF Next, vars, Tick, tables
  <1>3. HighestInv'
    <2>1. CASE SameRows
      BY <2>1, SameRowsSame DEF SerialInv
    <2>2. QED
      BY <2>1, RowsStep, CommitHighest DEF SerialInv
  <1>4. QED
    BY <1>1, <1>2, <1>3 DEF SerialInv

\* It holds at first.
LEMMA SerialInit == Init => SerialInv
  <1> SUFFICES ASSUME Init
               PROVE  SerialInv
    OBVIOUS
  <1>1. TypeInv
    BY DEF Init, TypeInv, TypeOK, LocalsOK, Created, NoGroup, Labels
  <1>2. ClockInv
    BY ClockInit
  <1>3. RequestsInv
    BY DEF Init, RequestsInv, RequestOK, Begun, Inserted
  <1>4. HighestInv
    BY DEF Init, HighestInv, Latest
  <1>5. QED
    BY <1>1, <1>2, <1>3, <1>4 DEF SerialInv

-----------------------------------------------------------------------------
(* One request at a time: the counters that the rows implement *)

\* What CodeLimit sees of the rows, when there is a last one
LEMMA Counters ==
    ASSUME TypeInv, NEW l, Latest = {l}
    PROVE  /\ stored # {} /\ LastGroup = codes[l].group
           /\ (CHOOSE c \in Latest : TRUE) = l
  <1>1. l \in stored
    BY DEF Latest
  <1>2. (CHOOSE c \in Latest : TRUE) = l
    OBVIOUS
  <1>3. QED
    BY <1>1, <1>2 DEF LastGroup

\* A commit is one of the four steps of CodeLimit.
LEMMA CommitCounts ==
    ASSUME SerialInv, NEW h \in Handlers, Commit(h)
    PROVE  Abstract!Next
  <1> DEFINE new == last[h]
             at == IF stored = {} THEN -1 ELSE codes[CHOOSE c \in Latest : TRUE].created
             at1 == IF stored' = {} THEN -1 ELSE codes'[CHOOSE c \in Latest' : TRUE].created
             count == IF LastGroup = NoGroup THEN 0 ELSE Cardinality(InGroup(LastGroup))
             count1 == IF LastGroup' = NoGroup THEN 0 ELSE Cardinality(InGroup(LastGroup)')
  <1>0. TypeInv /\ TypeInv'
    <2>1. [Next]_vars
      BY DEF Next, Handle
    <2>2. QED
      BY <2>1, TypeStep DEF SerialInv
  <1>1. /\ stored' = stored \union {new} /\ Latest' = {new} /\ new \notin stored
        /\ codes'[new].group = group[h] /\ group[h] \in Nat
        /\ codes'[new].created \in Nat /\ codes'[new].created >= dt[h] /\ dt[h] \in Nat
        /\ \A c \in stored : /\ codes[c].created \in Nat /\ codes[c].created <= dt[h]
                             /\ codes[c].group \in Nat
    BY CommitIsLast
  <1>2. stored' # {} /\ LastGroup' = group[h] /\ at1 = codes'[new].created
    <2>1. (CHOOSE c \in Latest' : TRUE) = new
      BY <1>1
    <2>2. stored' # {}
      BY <1>1
    <2>3. LastGroup' = group[h]
      BY <1>1, <2>1, <2>2 DEF LastGroup
    <2>4. QED
      BY <2>1, <2>2, <2>3
  <1>3. /\ \/ Begins(h) \/ Continues(h) \/ Follows(h) \/ Resets(h)
        /\ ~Resets(h) => /\ \A g : InGroup(g)' = InGroup(g) \union (IF g = group[h] THEN {new} ELSE {})
                         /\ group[h] # NoGroup
    BY CommitKinds
  <1>4. ASSUME NEW l \in Latest
        PROVE  /\ LastGroup = codes[l].group /\ at = codes[l].created
               /\ l \in stored /\ codes[l].created \in Nat /\ codes[l].group \in Nat
               /\ Interval(h, l) = dt[h] - codes[l].created
               /\ \A c \in stored : codes[c].group <= codes[l].group
    <2>1. Latest = {l}
      BY <1>0, LatestIsOne
    <2>2. l \in stored
      BY DEF Latest
    <2>3. \A c \in stored : codes[c].group <= codes[l].group
      BY DEF SerialInv, HighestInv
    <2>4. LastGroup = codes[l].group /\ at = codes[l].created
      BY <1>0, <2>1, Counters
    <2>5. QED
      BY <1>1, <2>2, <2>3, <2>4 DEF Interval
  <1>5. /\ LimitTimeout \in Nat /\ GroupTimeout \in Nat /\ SameGroupTimeout \in Nat
    BY LimitsAssumption
  <1> HIDE DEF at, at1, count, count1
  <1>6. CASE Begins(h) /\ ~Resets(h)
    <2>1. group[h] = 1 /\ \A c \in stored : codes[c].group = NoGroup
      BY <1>6 DEF Begins
    <2>2. LastGroup = 0
      <3>1. CASE stored = {}
        BY <3>1 DEF LastGroup, NoGroup
      <3>2. CASE stored # {}
        <4>1. PICK l \in Latest : TRUE
          BY <3>2 DEF SerialInv, HighestInv
        <4>2. QED
          BY <1>4, <2>1, <4>1 DEF NoGroup
      <3>3. QED
        BY <3>1, <3>2
    <2>3. at1 >= at
      <3>1. CASE stored = {}
        BY <1>1, <1>2, <3>1 DEF at
      <3>2. CASE stored # {}
        <4>1. PICK l \in Latest : TRUE
          BY <3>2 DEF SerialInv, HighestInv
        <4>2. codes[l].created <= dt[h] /\ at = codes[l].created /\ codes[l].created \in Nat
          BY <1>1, <1>4, <4>1
        <4>3. QED
          BY <1>1, <1>2, <4>2
      <3>3. QED
        BY <3>1, <3>2
    <2>4. count1 = 1
      <3>1. InGroup(1)' = {new}
        BY <1>3, <1>6, <2>1 DEF InGroup, NoGroup
      <3>2. InGroup(LastGroup)' = {new}
        BY <1>2, <2>1, <3>1 DEF InGroup
      <3>3. QED
        BY <1>2, <2>1, <3>2, FS_Singleton DEF count1, NoGroup
    <2>5. Abstract!First
      BY <1>2, <2>1, <2>2, <2>3, <2>4 DEF Abstract!First, at, at1, count1
    <2>6. QED
      BY <2>5 DEF Abstract!Next
  <1>7. CASE Continues(h) /\ ~Resets(h)
    <2>1. PICK l \in Latest : /\ codes[l].group # NoGroup /\ group[h] = codes[l].group
                              /\ Interval(h, l) > SameGroupTimeout
                              /\ Cardinality(InGroup(codes[l].group)) < Attempts
      BY <1>7 DEF Continues
    <2>2. at1 > at + SameGroupTimeout
      BY <1>1, <1>2, <1>4, <1>5, <2>1
    <2>3. InGroup(LastGroup)' = InGroup(LastGroup) \union {new} /\ LastGroup = group[h]
      <3>1. LastGroup = group[h]
        BY <1>4, <2>1
      <3>2. {c \in stored' : codes'[c].group = group[h]} = InGroup(group[h]) \union {new}
        <4>1. \A g : {c \in stored' : codes'[c].group = g} = InGroup(g)'
          BY DEF InGroup
        <4>2. {c \in stored' : codes'[c].group = group[h]} =
                 InGroup(group[h]) \union (IF group[h] = group[h] THEN {new} ELSE {})
          BY <1>3, <1>7, <4>1
        <4>3. QED
          BY <4>2
      <3>3. InGroup(LastGroup)' = {c \in stored' : codes'[c].group = group[h]}
        BY <1>2 DEF InGroup
      <3>4. QED
        BY <3>1, <3>2, <3>3
    <2>4. count1 = count + 1 /\ count < Attempts /\ LastGroup > 0
      <3>1. IsFiniteSet(InGroup(LastGroup)) /\ new \notin InGroup(LastGroup)
        BY <1>0, <1>1, StoredFinite DEF InGroup
      <3>2. Cardinality(InGroup(LastGroup) \union {new}) = Cardinality(InGroup(LastGroup)) + 1
        BY <3>1, OneMore
      <3>3. group[h] # 0
        BY <2>1 DEF NoGroup
      <3>4. count = Cardinality(InGroup(LastGroup))
        BY <2>3, <3>3 DEF count, NoGroup
      <3>5. count1 = Cardinality(InGroup(LastGroup)')
        BY <1>2, <3>3 DEF count1, NoGroup
      <3>6. Cardinality(InGroup(LastGroup)) < Attempts
        BY <1>4, <2>1
      <3>7. count1 = count + 1
        BY <2>3, <3>2, <3>4, <3>5
      <3>8. LastGroup > 0
        BY <1>1, <2>3, <3>3
      <3>9. QED
        BY <3>4, <3>6, <3>7, <3>8
    <2>5. Abstract!Again
      BY <1>2, <2>2, <2>3, <2>4 DEF Abstract!Again, at, at1, count, count1
    <2>6. QED
      BY <2>5 DEF Abstract!Next
  <1>8. CASE Follows(h) /\ ~Resets(h)
    <2>1. PICK l \in Latest : /\ codes[l].group # NoGroup /\ codes[l].group < Groups
                              /\ group[h] = codes[l].group + 1
                              /\ Interval(h, l) > GroupTimeout
      BY <1>8 DEF Follows
    <2>2. at1 > at + GroupTimeout
      BY <1>1, <1>2, <1>4, <1>5, <2>1
    <2>3. LastGroup > 0 /\ LastGroup < Groups /\ LastGroup' = LastGroup + 1
      BY <1>2, <1>4, <2>1 DEF NoGroup
    <2>4. count1 = 1
      <3>1. {c \in stored : codes[c].group = group[h]} = {}
        BY <1>4, <2>1
      <3>2. {c \in stored' : codes'[c].group = group[h]} = {new}
        <4>1. \A g : {c \in stored' : codes'[c].group = g} = InGroup(g)'
          BY DEF InGroup
        <4>2. {c \in stored' : codes'[c].group = group[h]} =
                 InGroup(group[h]) \union (IF group[h] = group[h] THEN {new} ELSE {})
          BY <1>3, <1>8, <4>1
        <4>3. QED
          BY <3>1, <4>2 DEF InGroup
      <3>3. InGroup(LastGroup)' = {new}
        BY <1>2, <3>2 DEF InGroup
      <3>4. QED
        BY <1>2, <1>3, <1>8, <3>3, FS_Singleton DEF count1
    <2>5. Abstract!NextGroup
      BY <2>2, <2>3, <2>4 DEF Abstract!NextGroup, at, at1, count1
    <2>6. QED
      BY <2>5 DEF Abstract!Next
  <1>9. CASE Resets(h)
    <2>1. PICK l \in Latest : Interval(h, l) > LimitTimeout
      BY <1>9 DEF Resets
    <2>2. at1 > at + LimitTimeout
      BY <1>1, <1>2, <1>4, <1>5, <2>1
    <2>3. LastGroup' = 0 /\ count1 = 0
      BY <1>2, <1>9 DEF Resets, NoGroup, count1
    <2>4. Abstract!Reset
      BY <2>2, <2>3 DEF Abstract!Reset, at, at1, count1
    <2>5. QED
      BY <2>4 DEF Abstract!Next
  <1>10. QED
    BY <1>3, <1>6, <1>7, <1>8, <1>9

\* Rows that are counted anew with each request are a limit all the same: one
\* request at a time, the queries do what CodeLimit does with its counters.
THEOREM RowsImplementCounters ==
    ASSUME Serial, OffLimits
    PROVE  Spec => CodeLimitSpec
  <1>1. Init => Abstract!Init
    BY DEF Init, Abstract!Init, LastGroup, NoGroup
  <1>2. SerialInv /\ [Next]_vars => [Abstract!Next]_(Abstract!vars)
    <2> SUFFICES ASSUME SerialInv, [Next]_vars
                 PROVE  [Abstract!Next]_(Abstract!vars)
      OBVIOUS
    <2>1. CASE SameRows
      <3>1. Latest' = Latest /\ \A g : InGroup(g)' = InGroup(g)
        BY <2>1, SameRowsSame DEF SerialInv
      <3>2. stored # {} => (CHOOSE c \in Latest : TRUE) \in stored
        BY DEF SerialInv, HighestInv, Latest
      <3>3. LastGroup' = LastGroup
        BY <2>1, <3>1, <3>2 DEF LastGroup, SameRows
      <3>4. UNCHANGED Abstract!vars
        <4>1. (IF stored = {} THEN -1 ELSE codes[CHOOSE c \in Latest : TRUE].created)' =
                 IF stored = {} THEN -1 ELSE codes[CHOOSE c \in Latest : TRUE].created
          BY <2>1, <3>1, <3>2 DEF SameRows
        <4>2. InGroup(LastGroup)' = InGroup(LastGroup)
          BY <2>1, <3>3 DEF InGroup, SameRows
        <4>3. QED
          BY <3>3, <4>1, <4>2 DEF Abstract!vars
      <3>5. QED
        BY <3>4
    <2>2. QED
      BY <2>1, RowsStep, CommitCounts DEF SerialInv
  <1>3. QED
    BY <1>1, <1>2, SerialInit, SerialStep, PTL DEF Spec, CodeLimitSpec, Abstract!Spec

-----------------------------------------------------------------------------
(* One request at a time: the pauses between codes *)

\* A new code keeps its distance from the last one, and that one from those before.
LEMMA CommitSpacing ==
    ASSUME SerialInv, Spacing, NEW h \in Handlers, Commit(h)
    PROVE  Spacing'
  <1> DEFINE new == last[h]
  <1>1. /\ stored' = stored \union {new} /\ new \in Nat
        /\ \A c \in stored : c < new /\ c \in Nat
        /\ codes'[new].group = group[h]
        /\ codes'[new].created \in Nat /\ codes'[new].created >= dt[h] /\ dt[h] \in Nat
        /\ \A c \in stored : /\ codes'[c].created = codes[c].created /\ codes[c].created \in Nat
                             /\ codes[c].group \in Nat
    BY CommitIsLast
  <1>2. /\ \/ Begins(h) \/ Continues(h) \/ Follows(h) \/ Resets(h)
        /\ Resets(h) => \A c \in stored' : codes'[c].group = NoGroup
        /\ ~Resets(h) => \A c \in stored : codes'[c].group = codes[c].group
    BY CommitKinds
  <1>3. /\ SameGroupTimeout \in Nat /\ GroupTimeout \in Nat /\ SameGroupTimeout < GroupTimeout
    BY LimitsAssumption
  <1>4. ASSUME NEW l \in Latest, NEW c \in stored, codes[l].group # NoGroup, codes[c].group # NoGroup
        PROVE  /\ Interval(h, l) = dt[h] - codes[l].created /\ l \in stored
               /\ codes[c].created <= codes[l].created
               /\ codes[c].group < codes[l].group => codes[l].created > codes[c].created + GroupTimeout
    <2>1. l \in stored /\ c <= l
      BY DEF Latest
    <2>2. c \in Created /\ l \in Created
      BY <2>1, StoredIsCode DEF SerialInv
    <2>3. CASE c = l
      BY <1>1, <2>1, <2>3 DEF Interval
    <2>4. CASE c # l
      <3>1. c < l
        BY <1>1, <2>1, <2>4
      <3>2. QED
        BY <1>4, <2>1, <2>2, <3>1 DEF SerialInv, ClockInv, NumbersInv, Spacing, Interval
    <2>5. QED
      BY <2>3, <2>4
  <1>5. CASE Resets(h)
    BY <1>2, <1>5 DEF Spacing
  <1>6. ASSUME ~Resets(h), NEW c \in stored, codes[c].group # NoGroup
        PROVE  /\ codes'[new].created > codes[c].created + SameGroupTimeout
               /\ codes[c].group < group[h] => codes'[new].created > codes[c].created + GroupTimeout
    <2>1. CASE Begins(h)
      BY <1>6, <2>1 DEF Begins
    <2>2. CASE Continues(h)
      <3>1. PICK l \in Latest : /\ codes[l].group # NoGroup /\ group[h] = codes[l].group
                                /\ Interval(h, l) > SameGroupTimeout
        BY <2>2 DEF Continues
      <3>2. /\ Interval(h, l) = dt[h] - codes[l].created /\ codes[l].created \in Nat
            /\ codes[c].created \in Nat /\ codes[c].created <= codes[l].created
            /\ codes[c].group < codes[l].group => codes[l].created > codes[c].created + GroupTimeout
        BY <1>1, <1>4, <1>6, <3>1
      <3>3. QED
        BY <1>1, <1>3, <3>1, <3>2
    <2>3. CASE Follows(h)
      <3>1. PICK l \in Latest : codes[l].group # NoGroup /\ Interval(h, l) > GroupTimeout
        BY <2>3 DEF Follows
      <3>2. /\ Interval(h, l) = dt[h] - codes[l].created /\ codes[l].created \in Nat
            /\ codes[c].created \in Nat /\ codes[c].created <= codes[l].created
        BY <1>1, <1>4, <1>6, <3>1
      <3>3. QED
        BY <1>1, <1>3, <3>1, <3>2
    <2>4. QED
      BY <1>2, <1>6, <2>1, <2>2, <2>3
  <1>7. ASSUME ~Resets(h), NEW c \in stored', NEW d \in stored',
               codes'[c].group # NoGroup, codes'[d].group # NoGroup, c < d
        PROVE  /\ codes'[d].created > codes'[c].created + SameGroupTimeout
               /\ codes'[c].group < codes'[d].group => codes'[d].created > codes'[c].created + GroupTimeout
    <2>1. c \in stored
      BY <1>1, <1>7
    <2>2. CASE d \in stored
      BY <1>1, <1>2, <1>7, <2>1, <2>2 DEF Spacing
    <2>3. CASE d = new
      BY <1>1, <1>2, <1>6, <1>7, <2>1, <2>3
    <2>4. QED
      BY <1>1, <2>2, <2>3
  <1>8. CASE ~Resets(h)
    BY <1>7, <1>8 DEF Spacing
  <1>9. QED
    BY <1>5, <1>8

\* One request at a time, off the limits: the codes of a group are
\* SameGroupTimeout apart and the groups GroupTimeout.
THEOREM CodesKeepTheirDistance ==
    ASSUME Serial, OffLimits
    PROVE  Spec => []Spacing
  <1>1. Init => Spacing
    BY DEF Init, Spacing
  <1>2. SerialInv /\ Spacing /\ [Next]_vars => Spacing'
    <2> SUFFICES ASSUME SerialInv, Spacing, [Next]_vars
                 PROVE  Spacing'
      OBVIOUS
    <2>1. CASE SameRows
      BY <2>1 DEF SameRows, Spacing
    <2>2. QED
      BY <2>1, RowsStep, CommitSpacing DEF SerialInv
  <1>3. QED
    BY <1>1, <1>2, SerialInit, SerialStep, PTL DEF Spec

-----------------------------------------------------------------------------
(* One request at a time: the codes of a control period *)

\* The codes that no group counts (the code that reset the groups and all
\* before it), and those since then
Old == {c \in stored : codes[c].group = NoGroup}
Current == {c \in stored : codes[c].group # NoGroup}

\* The codes before a reset are out of the control period of the code that
\* brought it; those since then are in full groups, but for the last one.
EpochInv ==
    /\ \A u \in Old : \A e \in Current : u < e
    /\ \A u \in Old : \/ \A o \in Old : o <= u
                      \/ \E r \in Old : codes[r].created > codes[u].created + LimitTimeout
    /\ \A l \in Latest : codes[l].group # NoGroup =>
        /\ codes[l].group <= Groups
        /\ Cardinality(InGroup(codes[l].group)) <= Attempts
        /\ Cardinality(Current) <=
              Attempts * (codes[l].group - 1) + Cardinality(InGroup(codes[l].group))

PeriodInv == SerialInv /\ EpochInv /\ PeriodBound

\* Groups that are full, but for the last one
LEMMA FullGroups ==
    ASSUME NEW a \in Nat, NEW g \in Nat, NEW m \in Nat, NEW k \in Nat, NEW n \in Nat,
           1 <= g, g <= m, k <= a, n <= a * (g - 1) + k
    PROVE  n <= a * m
  <1>1. PICK j \in Nat : m = g + j
    <2>1. m - g \in Nat /\ m = g + (m - g)
      OBVIOUS
    <2>2. QED
      BY <2>1
  <1>2. a * (g - 1) + a = a * g /\ a * m = a * g + a * j
    BY <1>1
  <1>3. a * j \in Nat /\ a * g \in Nat /\ a * (g - 1) \in Int
    <2>1. \A x, y \in Nat : x * y \in Nat
      OBVIOUS
    <2>2. \A x, y \in Int : x * y \in Int
      OBVIOUS
    <2>3. QED
      BY <2>1, <2>2
  <1>4. QED
    BY <1>2, <1>3

\* What is still the same when no row has changed
LEMMA SamePeriods ==
    ASSUME TypeInv, SameRows, EpochInv, PeriodBound
    PROVE  EpochInv' /\ PeriodBound'
  <1>1. Latest' = Latest /\ \A l \in Latest : l \in stored
    BY DEF SameRows, Latest
  <1>2. Old' = Old /\ Current' = Current /\ \A c \in Old : c \in stored
    BY DEF SameRows, Old, Current
  <1>3. ASSUME NEW l \in Latest
        PROVE  /\ codes'[l].group = codes[l].group
               /\ InGroup(codes[l].group)' = InGroup(codes[l].group)
    BY <1>1 DEF SameRows, InGroup
  <1>4. \A c \in Old : codes'[c].created = codes[c].created
    BY <1>2 DEF SameRows
  <1>5. EpochInv'
    BY <1>1, <1>2, <1>3, <1>4 DEF EpochInv
  <1>6. ASSUME NEW c \in stored
        PROVE  Period(c)' = Period(c)
    BY DEF SameRows, Period
  <1>7. PeriodBound'
    BY <1>6 DEF SameRows, PeriodBound
  <1>8. QED
    BY <1>5, <1>7

\* A new code that resets the groups is the last of the old ones; any other
\* comes to the current ones, and the groups before its own are full.
LEMMA CommitEpoch ==
    ASSUME SerialInv, EpochInv, NEW h \in Handlers, Commit(h)
    PROVE  EpochInv'
  <1>n. PICK new : new = last[h]
    OBVIOUS
  <1> DEFINE g == group[h]
  <1>0. TypeInv /\ Attempts \in Nat /\ Attempts >= 1 /\ Groups \in Nat /\ Groups >= 1 /\ LimitTimeout \in Nat
    BY LimitsAssumption DEF SerialInv
  <1>1. /\ stored' = stored \union {new} /\ Latest' = {new} /\ new \in Nat /\ new \notin stored
        /\ \A c \in stored : c < new /\ c \in Nat
        /\ codes'[new].group = g /\ g \in Nat
        /\ codes'[new].created \in Nat /\ codes'[new].created >= dt[h] /\ dt[h] \in Nat
        /\ \A c \in stored : /\ codes'[c].created = codes[c].created /\ codes[c].created \in Nat
                             /\ codes[c].group \in Nat
    BY <1>n, CommitIsLast
  <1>2. /\ \/ Begins(h) \/ Continues(h) \/ Follows(h) \/ Resets(h)
        /\ Resets(h) => \A c \in stored' : codes'[c].group = NoGroup
        /\ ~Resets(h) => /\ \A c \in stored : codes'[c].group = codes[c].group
                         /\ \A i : InGroup(i)' = InGroup(i) \union (IF i = g THEN {new} ELSE {})
                         /\ g # NoGroup
    BY <1>n, CommitKinds
  <1>3. CASE Resets(h)
    <2>1. PICK l \in Latest : Interval(h, l) > LimitTimeout
      BY <1>3 DEF Resets
    <2>2. l \in stored /\ l \in Created /\ \A c \in stored : c <= l /\ c \in Created
      BY <1>0, StoredIsCode DEF Latest
    <2>3. \A c \in stored : codes[c].created <= codes[l].created
      <3> SUFFICES ASSUME NEW c \in stored
                   PROVE  codes[c].created <= codes[l].created
        OBVIOUS
      <3>1. CASE c = l
        BY <1>1, <2>2, <3>1
      <3>2. CASE c # l
        <4>1. c < l
          BY <1>1, <2>2, <3>2
        <4>2. QED
          BY <2>2, <4>1 DEF SerialInv, ClockInv, NumbersInv
      <3>3. QED
        BY <3>1, <3>2
    <2>4. \A c \in stored : codes'[new].created > codes'[c].created + LimitTimeout
      <3>1. codes'[new].created > codes[l].created + LimitTimeout
        BY <1>0, <1>1, <2>1, <2>2 DEF Interval
      <3>2. QED
        BY <1>0, <1>1, <2>2, <2>3, <3>1
    <2>5. Old' = stored' /\ Current' = {}
      BY <1>2, <1>3 DEF Old, Current
    <2>6. \A u \in Old' : \/ \A o \in Old' : o <= u
                          \/ \E r \in Old' : codes'[r].created > codes'[u].created + LimitTimeout
      <3>1. \A o \in Old' : o <= new
        BY <1>1, <2>5
      <3>2. QED
        BY <1>1, <2>4, <2>5, <3>1
    <2>7. codes'[new].group = NoGroup
      BY <1>1, <1>2, <1>3
    <2>8. QED
      BY <1>1, <2>5, <2>6, <2>7 DEF EpochInv
  <1>4. CASE ~Resets(h)
    <2>1. /\ \A c \in stored : codes'[c].group = codes[c].group
          /\ InGroup(g) \union {new} = {c \in stored' : codes'[c].group = g}
          /\ g # NoGroup
      <3>1. \A i : {c \in stored' : codes'[c].group = i} = InGroup(i)'
        BY DEF InGroup
      <3>2. {c \in stored' : codes'[c].group = g} = InGroup(g) \union (IF g = g THEN {new} ELSE {})
        BY <1>2, <1>4, <3>1
      <3>3. QED
        BY <1>2, <1>4, <3>2
    <2>2. Old' = Old /\ Current' = Current \union {new}
      BY <1>1, <2>1 DEF Old, Current
    <2>3. \A u \in Old' : \A e \in Current' : u < e
      BY <1>1, <2>2 DEF EpochInv, Old
    <2>4. \A u \in Old : u \in stored /\ codes'[u].created = codes[u].created
      BY <1>1 DEF Old
    <2>5. \A u \in Old' : \/ \A o \in Old' : o <= u
                          \/ \E r \in Old' : codes'[r].created > codes'[u].created + LimitTimeout
      BY <2>2, <2>4 DEF EpochInv
    <2>6. /\ IsFiniteSet(Current) /\ new \notin Current /\ Cardinality(Current) \in Nat
          /\ Cardinality(Current') = Cardinality(Current) + 1
      <3>1. IsFiniteSet(Current) /\ new \notin Current
        BY <1>0, <1>1, StoredFinite DEF Current
      <3>2. QED
        BY <2>2, <3>1, OneMore
    <2>7. /\ IsFiniteSet(InGroup(g)) /\ new \notin InGroup(g) /\ Cardinality(InGroup(g)) \in Nat
          /\ Cardinality(InGroup(g) \union {new}) = Cardinality(InGroup(g)) + 1
      <3>1. IsFiniteSet(InGroup(g)) /\ new \notin InGroup(g)
        BY <1>0, <1>1, StoredFinite DEF InGroup
      <3>2. QED
        BY <3>1, OneMore
    <2> DEFINE n == Cardinality(InGroup(g) \union {new})
    <2>8. g <= Groups /\ n <= Attempts /\ Cardinality(Current') <= Attempts * (g - 1) + n
      <3>1. CASE Begins(h)
        <4>1. g = 1 /\ Current = {} /\ InGroup(g) = {}
          BY <3>1 DEF Begins, Current, InGroup, NoGroup
        <4>2. Cardinality(Current) = 0 /\ Cardinality(InGroup(g)) = 0
          BY <4>1, FS_EmptySet
        <4>3. Attempts * (g - 1) = 0
          BY <1>0, <4>1
        <4>4. QED
          BY <1>0, <2>6, <2>7, <4>1, <4>2, <4>3
      <3>2. CASE Continues(h)
        <4>1. PICK l \in Latest : /\ codes[l].group # NoGroup /\ g = codes[l].group
                                  /\ Cardinality(InGroup(codes[l].group)) < Attempts
          BY <3>2 DEF Continues
        <4>2. /\ g <= Groups
              /\ Cardinality(Current) <= Attempts * (g - 1) + Cardinality(InGroup(g))
          BY <4>1 DEF EpochInv
        <4>3. Attempts * (g - 1) \in Int
          <5>1. \A x, y \in Int : x * y \in Int
            OBVIOUS
          <5>2. QED
            BY <1>0, <1>1, <5>1
        <4>4. Cardinality(InGroup(g)) < Attempts
          BY <4>1
        <4>5. QED
          BY <1>0, <2>6, <2>7, <4>2, <4>3, <4>4
      <3>3. CASE Follows(h)
        <4>1. PICK l \in Latest : /\ codes[l].group # NoGroup /\ codes[l].group < Groups
                                  /\ g = codes[l].group + 1
          BY <3>3 DEF Follows
        <4>2. l \in stored /\ codes[l].group \in Nat
              /\ \A c \in stored : codes[c].group <= codes[l].group
          BY <1>1, <4>1 DEF Latest, SerialInv, HighestInv
        <4>3. InGroup(g) = {}
          BY <1>1, <4>1, <4>2 DEF InGroup
        <4>4. Cardinality(InGroup(g)) = 0
          BY <4>3, FS_EmptySet
        <4> DEFINE f == codes[l].group
        <4>5. /\ Cardinality(InGroup(f)) <= Attempts
              /\ Cardinality(Current) <= Attempts * (f - 1) + Cardinality(InGroup(f))
          BY <4>1 DEF EpochInv
        <4>6. Cardinality(InGroup(f)) \in Nat
          BY <1>0, StoredFinite DEF InGroup
        <4>7. f \in Nat /\ g = f + 1
          BY <4>1, <4>2
        <4> HIDE DEF f
        <4>8. Attempts * (f - 1) + Attempts = Attempts * (g - 1) /\ Attempts * (f - 1) \in Int
          <5>1. \A x, y \in Int : x * y \in Int
            OBVIOUS
          <5>2. Attempts * (f - 1) \in Int
            BY <1>0, <4>7, <5>1
          <5>3. Attempts * (f - 1) + Attempts = Attempts * f
            BY <1>0, <4>7
          <5>4. g - 1 = f
            BY <4>7
          <5>5. QED
            BY <5>2, <5>3, <5>4
        <4>9. g <= Groups
          BY <1>0, <4>1, <4>2
        <4>10. QED
          BY <1>0, <2>6, <2>7, <4>4, <4>5, <4>6, <4>8, <4>9
      <3>4. QED
        BY <1>2, <1>4, <3>1, <3>2, <3>3
    <2> HIDE DEF n
    <2>9. /\ codes'[new].group = g
          /\ n = Cardinality({c \in stored' : codes'[c].group = codes'[new].group})
      BY <1>1, <2>1 DEF n
    <2>10. \A l \in Latest' : codes'[l].group # NoGroup =>
              /\ codes'[l].group <= Groups
              /\ Cardinality(InGroup(codes[l].group)') <= Attempts
              /\ Cardinality(Current') <=
                   Attempts * (codes'[l].group - 1) + Cardinality(InGroup(codes[l].group)')
      <3>1. InGroup(codes[new].group)' = {c \in stored' : codes'[c].group = codes'[new].group}
        BY DEF InGroup
      <3>2. QED
        BY <1>1, <2>8, <2>9, <3>1
    <2>11. QED
      BY <2>3, <2>5, <2>10 DEF EpochInv
  <1>5. QED
    BY <1>3, <1>4

\* No window of LimitTimeout gets more than the codes of the groups and one.
LEMMA CommitPeriod ==
    ASSUME PeriodInv, NEW h \in Handlers, Commit(h)
    PROVE  PeriodBound'
  <1>n. PICK new : new = last[h]
    OBVIOUS
  <1> DEFINE most == Attempts * Groups
  <1>0. /\ TypeInv /\ Attempts \in Nat /\ Groups \in Nat /\ LimitTimeout \in Nat
        /\ SerialInv /\ EpochInv /\ PeriodBound /\ EpochInv'
    BY LimitsAssumption, CommitEpoch DEF SerialInv, PeriodInv
  <1>m. most \in Nat
    <2>1. \A x, y \in Nat : x * y \in Nat
      OBVIOUS
    <2>2. QED
      BY <1>0, <2>1
  <1>1. /\ stored' = stored \union {new} /\ Latest' = {new} /\ new \in Nat /\ new \notin stored
        /\ \A c \in stored : c < new /\ c \in Nat
        /\ codes'[new].group = group[h] /\ group[h] \in Nat
        /\ codes'[new].created \in Nat /\ codes'[new].created >= dt[h] /\ dt[h] \in Nat
        /\ \A c \in stored : /\ codes'[c].created = codes[c].created /\ codes[c].created \in Nat
                             /\ codes[c].group \in Nat /\ codes[c].created <= dt[h]
    BY <1>0, <1>n, CommitIsLast
  <1>2. /\ Resets(h) => \A c \in stored' : codes'[c].group = NoGroup
        /\ ~Resets(h) => /\ \A c \in stored : codes'[c].group = codes[c].group
                         /\ group[h] # NoGroup
    BY <1>0, <1>n, CommitKinds
  <1>3. \A c, d \in stored' : /\ codes'[c].created \in Nat
                              /\ c <= d => codes'[c].created <= codes'[d].created
    <2>1. \A c, d \in stored : c <= d => codes[c].created <= codes[d].created
      <3> SUFFICES ASSUME NEW c \in stored, NEW d \in stored, c <= d
                   PROVE  codes[c].created <= codes[d].created
        OBVIOUS
      <3>1. c \in Created /\ d \in Created
        BY <1>0, StoredIsCode
      <3>2. c = d \/ c < d
        BY <1>1
      <3>3. QED
        BY <1>0, <1>1, <3>1, <3>2 DEF SerialInv, ClockInv, NumbersInv
    <2>2. \A c \in stored : codes'[c].created <= codes'[new].created /\ ~(new <= c)
      BY <1>1
    <2>3. QED
      BY <1>1, <2>1, <2>2
  <1>4. ASSUME NEW c \in stored, codes'[new].created > codes'[c].created + LimitTimeout
        PROVE  Cardinality(Period(c)') <= most + 1
    <2>1. Period(c)' = Period(c)
      BY <1>0, <1>1, <1>4 DEF Period
    <2>2. QED
      BY <1>0, <2>1 DEF PeriodBound
  <1>5. ASSUME Resets(h), NEW c \in stored'
        PROVE  Cardinality(Period(c)') <= most + 1
    <2>1. PICK l \in Latest : Interval(h, l) > LimitTimeout
      BY <1>5 DEF Resets
    <2>2. l \in stored /\ \A d \in stored : d <= l
      BY DEF Latest
    <2>3. codes'[new].created > codes'[l].created + LimitTimeout
      BY <1>0, <1>1, <2>1, <2>2 DEF Interval
    <2>4. \A d \in stored : codes'[new].created > codes'[d].created + LimitTimeout
      BY <1>0, <1>1, <1>3, <2>2, <2>3
    <2>5. CASE c \in stored
      BY <1>4, <2>4, <2>5
    <2>6. CASE c = new
      <3>1. Period(c)' \subseteq {new}
        <4> SUFFICES ASSUME NEW d \in stored', codes'[new].created <= codes'[d].created
                     PROVE  d = new
          BY <2>6 DEF Period
        <4>1. CASE d \in stored
          <5>1. codes'[d].created \in Nat /\ codes'[new].created \in Nat
            BY <1>1, <4>1
          <5>2. codes'[new].created > codes'[d].created + LimitTimeout
            BY <2>4, <4>1
          <5>3. QED
            BY <1>0, <5>1, <5>2
        <4>2. QED
          BY <1>1, <4>1
      <3>2. Cardinality(Period(c)') <= 1
        <4>1. IsFiniteSet({new}) /\ Cardinality({new}) = 1
          BY FS_Singleton
        <4>2. QED
          BY <3>1, <4>1, FS_Subset
      <3>3. Cardinality(Period(c)') \in Nat
        <4>1. IsFiniteSet(Period(c)')
          BY <3>1, FS_Singleton, FS_Subset
        <4>2. QED
          BY <4>1, FS_CardinalityType
      <3>4. QED
        BY <1>m, <3>2, <3>3
    <2>7. QED
      BY <1>1, <2>5, <2>6
  <1>6. ASSUME ~Resets(h), NEW c \in stored'
        PROVE  Cardinality(Period(c)') <= most + 1
    <2>1. /\ Old' = Old /\ Current' = Current \union {new} /\ new \in Current'
          /\ Old \subseteq stored /\ Old \intersect Current' = {}
      BY <1>1, <1>2, <1>6 DEF Old, Current
    <2>2. IsFiniteSet(Current') /\ Cardinality(Current') \in Nat /\ Cardinality(Current') <= most
      <3>1. IsFiniteSet(Current') /\ Cardinality(Current') \in Nat
        <4>1. IsFiniteSet(Current) /\ new \notin Current
          BY <1>0, <1>1, StoredFinite DEF Current
        <4>2. IsFiniteSet(Current')
          BY <2>1, <4>1, OneMore
        <4>3. QED
          BY <4>2, FS_CardinalityType
      <3> DEFINE g == codes'[new].group
                 k == Cardinality(InGroup(codes[new].group)')
      <3>2. g \in Nat /\ 1 <= g
        BY <1>1, <1>2, <1>6 DEF NoGroup
      <3>3. /\ g <= Groups /\ k <= Attempts
            /\ Cardinality(Current') <= Attempts * (g - 1) + k
        BY <1>0, <1>1, <3>2 DEF EpochInv, NoGroup
      <3>4. k \in Nat
        <4>1. IsFiniteSet(stored')
          BY <1>0, <1>1, StoredFinite, OneMore
        <4>2. InGroup(codes[new].group)' \subseteq stored'
          BY DEF InGroup
        <4>3. IsFiniteSet(InGroup(codes[new].group)')
          BY <4>1, <4>2, FS_Subset
        <4>4. QED
          BY <4>3, FS_CardinalityType
      <3> HIDE DEF g, k
      <3>5. QED
        BY <1>0, <3>1, <3>2, <3>3, <3>4, FullGroups
    <2>3. CASE c \in Old /\ \E r \in Old : codes[r].created > codes[c].created + LimitTimeout
      <3>1. codes'[new].created > codes'[c].created + LimitTimeout
        BY <1>0, <1>1, <1>3, <2>1, <2>3
      <3>2. QED
        BY <1>4, <2>1, <2>3, <3>1
    <2>4. CASE ~(c \in Old /\ \E r \in Old : codes[r].created > codes[c].created + LimitTimeout)
      <3>1. ASSUME NEW d \in Old, d \in Period(c)'
            PROVE  \A o \in Old : o <= d
        <4> SUFFICES ASSUME NEW r \in Old, codes[r].created > codes[d].created + LimitTimeout
                     PROVE  FALSE
          BY <1>0 DEF EpochInv
        <4>1. codes'[c].created <= codes'[d].created
          BY <3>1 DEF Period
        <4>2. /\ codes'[r].created > codes'[c].created + LimitTimeout
              /\ codes'[r].created = codes[r].created /\ codes[r].created \in Nat
          BY <1>0, <1>1, <1>3, <2>1, <4>1
        <4>3. CASE c \in Old
          BY <1>1, <2>1, <2>4, <4>2, <4>3
        <4>4. CASE c \in Current'
          <5>1. r <= c
            <6>1. r < c
              BY <1>0, <2>1, <4>4 DEF EpochInv
            <6>2. r \in Nat /\ c \in Nat
              BY <1>1, <2>1
            <6>3. QED
              BY <6>1, <6>2
          <5>2. codes'[r].created <= codes'[c].created
            BY <1>1, <1>3, <2>1, <5>1
          <5>3. QED
            BY <1>0, <1>3, <4>2, <5>2
        <4>5. c \in Old \/ c \in Current'
          BY <2>1 DEF Old, Current
        <4>6. QED
          BY <4>3, <4>4, <4>5
      <3>2. Period(c)' \subseteq Current' \union Old
        BY <2>1 DEF Period, Old, Current
      <3>3. CASE Period(c)' \subseteq Current'
        <4>1. IsFiniteSet(Period(c)') /\ Cardinality(Period(c)') <= Cardinality(Current')
          BY <2>2, <3>3, FS_Subset
        <4>2. Cardinality(Period(c)') \in Nat
          BY <4>1, FS_CardinalityType
        <4>3. QED
          BY <1>m, <2>2, <4>1, <4>2
      <3>4. ASSUME NEW d \in Old, d \in Period(c)'
            PROVE  Cardinality(Period(c)') <= most + 1
        <4>1. Period(c)' \subseteq Current' \union {d}
          <5> SUFFICES ASSUME NEW e \in Old, e \in Period(c)'
                       PROVE  e = d
            BY <3>2
          <5>1. e <= d /\ d <= e /\ e \in Nat /\ d \in Nat
            BY <1>1, <2>1, <3>1, <3>4
          <5>2. QED
            BY <5>1
        <4>2. /\ IsFiniteSet(Current' \union {d})
              /\ Cardinality(Current' \union {d}) = Cardinality(Current') + 1
          BY <2>1, <2>2, OneMore
        <4>3. IsFiniteSet(Period(c)') /\ Cardinality(Period(c)') <= Cardinality(Current' \union {d})
          BY <4>1, <4>2, FS_Subset
        <4>4. Cardinality(Period(c)') \in Nat
          BY <4>3, FS_CardinalityType
        <4>5. QED
          BY <1>m, <2>2, <4>2, <4>3, <4>4
      <3>5. QED
        BY <3>2, <3>3, <3>4
    <2>5. QED
      BY <2>3, <2>4
  <1>7. QED
    BY <1>5, <1>6 DEF PeriodBound

\* One request at a time, off the limits: a control period has no more codes
\* than its groups, but for the one that resets them.
THEOREM PeriodIsBounded ==
    ASSUME Serial, OffLimits
    PROVE  Spec => []PeriodBound
  <1>1. Init => EpochInv /\ PeriodBound
    BY DEF Init, EpochInv, PeriodBound, Old, Current, Latest
  <1>2. PeriodInv /\ [Next]_vars => EpochInv' /\ PeriodBound'
    <2> SUFFICES ASSUME PeriodInv, [Next]_vars
                 PROVE  EpochInv' /\ PeriodBound'
      OBVIOUS
    <2>1. TypeInv /\ SerialInv /\ EpochInv /\ PeriodBound
      BY DEF PeriodInv, SerialInv
    <2>2. CASE SameRows
      BY <2>1, <2>2, SamePeriods
    <2>3. ASSUME NEW h \in Handlers, Commit(h)
          PROVE  EpochInv' /\ PeriodBound'
      BY <2>1, <2>3, CommitEpoch, CommitPeriod
    <2>4. QED
      BY <2>1, <2>2, <2>3, RowsStep
  <1>3. QED
    BY <1>1, <1>2, SerialInit, SerialStep, PTL DEF Spec, PeriodInv

-----------------------------------------------------------------------------
(* Requests that overlap: the codes of a group *)

\* Nothing is ever reset: the clock stays within one control period.
OnePeriod == MaxTime <= LimitTimeout

\* What is known of a request, whatever the others do
HandlerOK(h) ==
    /\ clearing[h] = {} /\ pc[h] # "reset"
    /\ pc[h] = "count" =>
        /\ last[h] \in stored /\ group[h] = codes[last[h]].group
        /\ Interval(h, last[h]) >= SameGroupTimeout
    /\ Begun(h) => group[h] \in 1 .. Groups
    /\ Inserted(h) => codes[last[h]].group = group[h]

GroupsInv ==
    /\ now <= MaxTime
    /\ \A c \in Created : codes[c].group \in 1 .. Groups
    /\ \A h \in Handlers : HandlerOK(h)

\* The requests that add a code to group g, or may decide to when they have
\* counted the group before it
Towards(g) ==
    {h \in Handlers : \/ Begun(h) /\ group[h] = g
                      \/ pc[h] = "count" /\ group[h] + 1 = g}

\* Whoever decides for a group has counted less than Attempts codes, or has
\* seen that the last code is of the group before: those that come after it
\* are requests that overlap.
SizeInv ==
    InOrder => \A g \in Nat \ {0} :
        Cardinality(InGroup(g)) + Cardinality(Towards(g)) < Attempts + Cardinality(Handlers)

OverlapInv == TypeInv /\ ClockInv /\ LeftInv /\ GroupsInv

\* A step leaves the locals of the other requests alone.
LEMMA OthersKeep ==
    ASSUME TypeInv, NEW h \in Handlers, Handle(h), NEW q \in Handlers, q # h
    PROVE  /\ pc'[q] = pc[q] /\ dt'[q] = dt[q] /\ last'[q] = last[q]
           /\ group'[q] = group[q] /\ clearing'[q] = clearing[q]
  <1>1. CASE End(h)
    BY <1>1 DEF End, Goto, TypeInv, TypeOK
  <1>2. CASE RequestCode(h) \/ SignIn(h) \/ Reset(h) \/ Cancel(h)
    BY <1>2 DEF RequestCode, SignIn, Reset, Cancel, Goto, TypeInv, TypeOK
  <1>3. CASE Insert(h)
    BY <1>3 DEF Insert, Goto, TypeInv, TypeOK
  <1>4. CASE SelectLast(h) /\ ~End(h)
    BY <1>4 DEF SelectLast, Goto, TypeInv, TypeOK
  <1>5. CASE CountGroup(h) /\ ~End(h)
    BY <1>5 DEF CountGroup, Goto, TypeInv, TypeOK
  <1>6. CASE VerifyConfirmationCode(h) /\ ~End(h)
    BY <1>6 DEF VerifyConfirmationCode, Goto, TypeInv, TypeOK
  <1>7. QED
    BY <1>1, <1>2, <1>3, <1>4, <1>5, <1>6 DEF Handle, Commit, Confirm, Rollback

\* Without a reset a code keeps its group.
LEMMA GroupsKept ==
    ASSUME OverlapInv, [Next]_vars
    PROVE  /\ \A c \in Created : /\ c \in Created' /\ codes'[c].group = codes[c].group
                                 /\ codes'[c].created = codes[c].created
           /\ stored \subseteq stored'
  <1>1. \A c \in Created : c \in Created' /\ codes'[c].created = codes[c].created
    BY CreatedStep DEF OverlapInv
  <1>2. TypeInv /\ \A c \in stored : c \in Created
    BY StoredIsCode DEF OverlapInv
  <1> DEFINE Goal == (\A c \in Created : codes'[c].group = codes[c].group) /\ stored \subseteq stored'
  <1>3. ASSUME NEW h \in Handlers, Insert(h)
        PROVE  Goal
    <2>1. PICK c \in FreshId : codes' = [codes EXCEPT ![c] =
                             [created |-> now, group |-> group[h], status |-> "created"]]
      BY <1>3 DEF Insert
    <2>2. \A d \in Created : codes'[d] = codes[d]
      BY <1>2, <2>1 DEF FreshId, TypeInv, TypeOK, Created
    <2>3. QED
      BY <1>3, <2>2 DEF Insert
  <1>4. ASSUME NEW h \in Handlers, Commit(h)
        PROVE  Goal
    <2>1. clearing[h] = {}
      BY DEF OverlapInv, GroupsInv, HandlerOK
    <2>2. \A c \in stored : codes'[c].group = codes[c].group
      BY <1>2, <1>4, <2>1, CommitGroups
    <2>3. \A c \in Ids : c \notin stored => codes'[c] = codes[c]
      BY <1>2, <1>4, CommitRows
    <2>4. stored \subseteq stored'
      BY <1>4 DEF Commit
    <2>5. QED
      BY <2>2, <2>3, <2>4 DEF Created
  <1>5. ASSUME NEW h \in Handlers, Confirm(h)
        PROVE  Goal
    <2>1. /\ codes' = [codes EXCEPT ![last[h]] = [codes[last[h]] EXCEPT !.status = "confirmed"]]
          /\ stored' = stored /\ last[h] \in stored
      BY <1>2, <1>5 DEF Confirm, TypeInv, LocalsOK
    <2>2. codes[last[h]] \in Code /\ last[h] \in Ids
      BY <1>2, <2>1, StoredIsCode
    <2>3. \A d \in Ids : codes'[d] = IF d = last[h] THEN [codes[d] EXCEPT !.status = "confirmed"]
                                     ELSE codes[d]
      BY <1>2, <2>1 DEF TypeInv, TypeOK
    <2>4. \A d \in Ids : codes'[d].group = codes[d].group
      BY <2>2, <2>3 DEF Code
    <2>5. QED
      BY <2>1, <2>4 DEF Created
  <1>6. ASSUME UNCHANGED <<codes, stored>>
        PROVE  Goal
    BY <1>6
  <1>7. Goal
    BY <1>3, <1>4, <1>5, <1>6
       DEF Next, Handle, vars, tables, Tick, RequestCode, SelectLast, Reset, CountGroup,
           Cancel, SignIn, VerifyConfirmationCode, Rollback
  <1>8. QED
    BY <1>1, <1>7

\* Within one period and off the limits, a count has two results.
LEMMA CountChooses ==
    ASSUME OffLimits, OnePeriod, OverlapInv, NEW h \in Handlers, CountGroup(h), ~End(h)
    PROVE  /\ group[h] \in 1 .. Groups
           /\ \/ group'[h] = group[h] /\ Cardinality(InGroup(group[h])) < Attempts
              \/ group'[h] = group[h] + 1 /\ group[h] < Groups
           /\ pc[h] = "count" /\ pc'[h] = "insert" /\ UNCHANGED <<codes, stored, clearing>>
  <1> DEFINE l == last[h]
             t == Interval(h, l)
             size == Cardinality(InGroup(group[h]))
  <1>1. /\ TypeInv /\ pc[h] = "count" /\ l \in stored /\ group[h] = codes[l].group
        /\ t >= SameGroupTimeout
    BY DEF CountGroup, OverlapInv, GroupsInv, HandlerOK
  <1>2. PICK n \in NextGroup(group[h], size, t) : group' = [group EXCEPT ![h] = n]
    BY DEF CountGroup
  <1>3. group'[h] = n /\ pc'[h] = "insert" /\ UNCHANGED <<codes, stored, clearing>>
    BY <1>1, <1>2 DEF CountGroup, Goto, tables, TypeInv, TypeOK
  <1>4. l \in Created /\ group[h] \in 1 .. Groups
    BY <1>1, StoredIsCode DEF OverlapInv, GroupsInv
  <1>5. /\ t \in Int /\ dt[h] \in Nat /\ codes[l].created \in Nat /\ t = dt[h] - codes[l].created
        /\ SameGroupTimeout \in Nat /\ GroupTimeout \in Nat /\ LimitTimeout \in Nat
    BY <1>1, IntervalIs
  <1>6. t # SameGroupTimeout /\ t # GroupTimeout /\ t # LimitTimeout
    <2>1. dt[h] \in Ticks /\ codes[l].created \in Ticks
      BY <1>4 DEF OverlapInv, ClockInv, TimesInv
    <2>2. QED
      BY <2>1, <1>5, NotOnALimit
  <1>7. t <= LimitTimeout
    <2>1. dt[h] <= now /\ now <= MaxTime /\ now \in Nat /\ MaxTime \in Nat
      BY <1>1, CodeBoundAssumption DEF OverlapInv, ClockInv, TimesInv, GroupsInv, TypeInv, TypeOK
    <2>2. QED
      BY <1>5, <2>1 DEF OnePeriod
  <1> HIDE DEF t
  <1>8. \/ n = group[h] /\ size < Attempts
        \/ n = group[h] + 1 /\ group[h] < Groups
    <2>1. CASE SameGroupTimeout < t /\ t < GroupTimeout
      <3>1. NextGroup(group[h], size, t) = IF size < Attempts THEN {group[h]} ELSE {}
        BY <1>5, <2>1 DEF NextGroup
      <3>2. QED
        BY <1>2, <3>1
    <2>2. CASE GroupTimeout < t /\ t < LimitTimeout
      <3>1. NextGroup(group[h], size, t) =
               IF size < Attempts THEN {group[h]} ELSE IF group[h] < Groups THEN {group[h] + 1} ELSE {}
        BY <1>5, <2>2 DEF NextGroup
      <3>2. QED
        BY <1>2, <3>1
    <2>3. QED
      BY <1>1, <1>5, <1>6, <1>7, <2>1, <2>2
  <1>9. QED
    BY <1>1, <1>3, <1>4, <1>8

\* What a request knows it still knows after its own step.
LEMMA HandlerStep ==
    ASSUME OffLimits, OnePeriod, OverlapInv, NEW h \in Handlers, Handle(h)
    PROVE  HandlerOK(h)'
  <1>0. TypeInv /\ HandlerOK(h)
    BY DEF OverlapInv, GroupsInv
  <1>1. CASE End(h)
    <2>1. pc'[h] = "idle" /\ clearing'[h] = {}
      BY <1>0, <1>1 DEF End, Goto, TypeInv, TypeOK
    <2>2. QED
      BY <2>1 DEF HandlerOK, Begun, Inserted
  <1>2. CASE RequestCode(h) \/ SignIn(h)
    <2>1. pc'[h] \in {"select", "verify"} /\ clearing' = clearing
      BY <1>0, <1>2 DEF RequestCode, SignIn, Goto, TypeInv, TypeOK
    <2>2. QED
      BY <1>0, <2>1 DEF HandlerOK, Begun, Inserted
  <1>3. CASE SelectLast(h) /\ ~End(h)
    <2>1. UNCHANGED <<codes, stored, dt, clearing>>
      BY <1>3 DEF SelectLast, tables
    <2>2. CASE group' = [group EXCEPT ![h] = 1] /\ Goto(h, "insert")
      <3>1. group'[h] = 1 /\ pc'[h] = "insert" /\ 1 \in 1 .. Groups
        BY <1>0, <2>2, LimitsAssumption DEF Goto, TypeInv, TypeOK
      <3>2. QED
        BY <1>0, <2>1, <3>1 DEF HandlerOK, Begun, Inserted
    <2>3. ASSUME NEW c \in Latest, Interval(h, c) > LimitTimeout
          PROVE  FALSE
      <3>1. c \in stored
        BY DEF Latest
      <3>2. dt[h] <= now /\ now <= MaxTime /\ now \in Nat /\ MaxTime \in Nat
        BY <1>0, CodeBoundAssumption DEF OverlapInv, ClockInv, TimesInv, GroupsInv, TypeInv, TypeOK
      <3>3. QED
        BY <1>0, <2>3, <3>1, <3>2, IntervalIs DEF OnePeriod
    <2>4. ASSUME NEW c \in Latest, ~(Interval(h, c) < SameGroupTimeout),
                 last' = [last EXCEPT ![h] = c],
                 group' = [group EXCEPT ![h] = codes[c].group], Goto(h, "count")
          PROVE  HandlerOK(h)'
      <3>1. c \in stored /\ Interval(h, c) >= SameGroupTimeout
        <4>1. c \in stored
          BY DEF Latest
        <4>2. QED
          BY <1>0, <2>4, <4>1, IntervalIs
      <3>2. /\ pc'[h] = "count" /\ last'[h] = c /\ group'[h] = codes[c].group
            /\ Interval(h, c)' = Interval(h, c)
        BY <1>0, <2>1, <2>4 DEF Goto, Interval, TypeInv, TypeOK
      <3>3. QED
        BY <1>0, <2>1, <3>1, <3>2 DEF HandlerOK, Begun, Inserted
    <2>5. QED
      BY <1>3, <2>2, <2>3, <2>4 DEF SelectLast
  <1>4. CASE Reset(h)
    BY <1>0, <1>4 DEF Reset, HandlerOK
  <1>5. CASE CountGroup(h) /\ ~End(h)
    <2>1. /\ pc'[h] = "insert" /\ clearing' = clearing /\ group[h] \in 1 .. Groups
          /\ \/ group'[h] = group[h]
             \/ group'[h] = group[h] + 1 /\ group[h] < Groups
      BY <1>5, CountChooses
    <2>2. group'[h] \in 1 .. Groups
      BY <2>1, LimitsAssumption
    <2>3. QED
      BY <1>0, <2>1, <2>2 DEF HandlerOK, Begun, Inserted
  <1>6. CASE Insert(h)
    <2>1. PICK c \in FreshId :
             /\ codes' = [codes EXCEPT ![c] =
                             [created |-> now, group |-> group[h], status |-> "created"]]
             /\ last' = [last EXCEPT ![h] = c]
      BY <1>6 DEF Insert
    <2>2. /\ pc[h] = "insert" /\ pc'[h] = "cancel" /\ last'[h] = c
          /\ UNCHANGED <<group, clearing>> /\ codes'[c].group = group[h]
      BY <1>0, <1>6, <2>1 DEF Insert, Goto, FreshId, TypeInv, TypeOK
    <2>3. QED
      BY <1>0, <2>2 DEF HandlerOK, Begun, Inserted
  <1>7. CASE Cancel(h)
    <2>1. /\ pc[h] = "cancel" /\ pc'[h] = "commit" /\ UNCHANGED <<codes, last, group, clearing>>
      BY <1>0, <1>7 DEF Cancel, Goto, tables, TypeInv, TypeOK
    <2>2. QED
      BY <1>0, <2>1 DEF HandlerOK, Begun, Inserted
  <1>8. CASE VerifyConfirmationCode(h) /\ ~End(h)
    <2>1. pc'[h] = "confirm" /\ clearing' = clearing
      BY <1>0, <1>8 DEF VerifyConfirmationCode, Goto, TypeInv, TypeOK
    <2>2. QED
      BY <1>0, <2>1 DEF HandlerOK, Begun, Inserted
  <1>9. QED
    BY <1>1, <1>2, <1>3, <1>4, <1>5, <1>6, <1>7, <1>8 DEF Handle, Commit, Confirm, Rollback

\* GroupsInv is kept by every step within one control period.
LEMMA GroupsStep ==
    ASSUME OffLimits, OnePeriod, OverlapInv, [Next]_vars
    PROVE  GroupsInv'
  <1>0. TypeInv /\ ClockInv
    BY DEF OverlapInv
  <1>1. now' <= MaxTime
    BY DEF OverlapInv, GroupsInv, Next, Handle, vars, tables, Tick, RequestCode, SelectLast, Reset,
           CountGroup, Insert, Cancel, Commit, SignIn, VerifyConfirmationCode, Confirm, Rollback
  <1>2. \A c \in Created : /\ c \in Created' /\ codes'[c].group = codes[c].group
                           /\ codes'[c].created = codes[c].created
    BY GroupsKept
  <1>3. \A c \in Created' : codes'[c].group \in 1 .. Groups
    <2>1. CASE Created' = Created
      BY <1>2, <2>1 DEF OverlapInv, GroupsInv
    <2>2. ASSUME NEW h \in Handlers, Insert(h)
          PROVE  \A c \in Created' : codes'[c].group \in 1 .. Groups
      <3>1. PICK c \in FreshId : codes' = [codes EXCEPT ![c] =
                             [created |-> now, group |-> group[h], status |-> "created"]]
        BY <2>2 DEF Insert
      <3>2. group[h] \in 1 .. Groups
        BY <2>2 DEF Insert, OverlapInv, GroupsInv, HandlerOK, Begun
      <3>3. codes'[c].group = group[h] /\ \A d \in Ids : d # c => codes'[d] = codes[d]
        BY <1>0, <3>1 DEF FreshId, TypeInv, TypeOK
      <3>4. \A d \in Created' : d = c \/ d \in Created
        BY <3>3 DEF Created
      <3>5. QED
        BY <1>2, <3>2, <3>3, <3>4 DEF OverlapInv, GroupsInv
    <2>3. Created' = Created \/ \E h \in Handlers : Insert(h)
      <3>1. ASSUME NEW h \in Handlers, Commit(h)
            PROVE  Created' = Created
        BY <1>0, <3>1, CommitRows
      <3>2. ASSUME NEW h \in Handlers, Confirm(h)
            PROVE  Created' = Created
        <4>1. UNCHANGED <<now, stored>> /\ last[h] \in Created /\ codes' = [codes EXCEPT ![last[h]].status = "confirmed"]
          BY <1>0, <3>2, StoredIsCode DEF Confirm, TypeInv, LocalsOK
        <4>2. \A c \in Ids : c # last[h] => codes'[c] = codes[c]
          BY <1>0, <4>1 DEF TypeInv, TypeOK
        <4>3. QED
          BY <1>2, <4>1, <4>2 DEF Created
      <3>3. CASE codes' = codes
        BY <3>3 DEF Created
      <3>4. QED
        BY <3>1, <3>2, <3>3 DEF Next, Handle, vars, tables, Tick, RequestCode, SelectLast, Reset,
           CountGroup, Cancel, SignIn, VerifyConfirmationCode, Rollback
    <2>4. QED
      BY <2>1, <2>2, <2>3
  <1>4. ASSUME NEW q \in Handlers, pc'[q] = pc[q], dt'[q] = dt[q], last'[q] = last[q],
               group'[q] = group[q], clearing'[q] = clearing[q]
        PROVE  HandlerOK(q)'
    <2>1. HandlerOK(q) /\ (Begun(q)' <=> Begun(q)) /\ (Inserted(q)' <=> Inserted(q))
      BY <1>4 DEF OverlapInv, GroupsInv, Begun, Inserted
    <2>2. pc[q] = "count" => last[q] \in Created /\ last[q] \in stored'
      BY <1>0, <2>1, StoredIsCode, GroupsKept DEF HandlerOK
    <2>3. Inserted(q) => last[q] \in Created
      BY <1>0 DEF Inserted, TypeInv, LocalsOK
    <2>4. pc[q] = "count" => Interval(q, last[q])' = Interval(q, last[q])
      BY <1>2, <1>4, <2>2 DEF Interval
    <2>5. QED
      BY <1>2, <1>4, <2>1, <2>2, <2>3, <2>4 DEF HandlerOK
  <1>5. ASSUME NEW h \in Handlers, Handle(h), NEW q \in Handlers
        PROVE  HandlerOK(q)'
    <2>1. CASE q = h
      BY <1>5, <2>1, HandlerStep
    <2>2. CASE q # h
      BY <1>0, <1>4, <1>5, <2>2, OthersKeep
    <2>3. QED
      BY <2>1, <2>2
  <1>6. ASSUME UNCHANGED <<pc, dt, last, group, clearing>>, NEW q \in Handlers
        PROVE  HandlerOK(q)'
    BY <1>4, <1>6
  <1>7. \A q \in Handlers : HandlerOK(q)'
    BY <1>5, <1>6 DEF Next, vars, Tick
  <1>8. QED
    BY <1>1, <1>3, <1>7 DEF GroupsInv

\* The requests that are on their way to a group are finitely many, and so are
\* its codes.
LEMMA TowardsFinite ==
    ASSUME TypeInv, NEW g
    PROVE  /\ IsFiniteSet(Towards(g)) /\ Cardinality(Towards(g)) \in Nat
           /\ Cardinality(Towards(g)) <= Cardinality(Handlers) /\ Cardinality(Handlers) \in Nat
           /\ IsFiniteSet(InGroup(g)) /\ Cardinality(InGroup(g)) \in Nat
  <1>1. Towards(g) \in SUBSET Handlers /\ IsFiniteSet(Handlers)
    BY CodeBoundAssumption DEF Towards
  <1>2. IsFiniteSet(Towards(g)) /\ Cardinality(Towards(g)) <= Cardinality(Handlers)
    BY <1>1, FS_Subset
  <1>3. Cardinality(Towards(g)) \in Nat /\ Cardinality(Handlers) \in Nat
    BY <1>1, <1>2, FS_CardinalityType
  <1>4. IsFiniteSet(InGroup(g)) /\ Cardinality(InGroup(g)) \in Nat
    BY StoredFinite DEF InGroup
  <1>5. QED
    BY <1>2, <1>3, <1>4

\* The same, of the requests after a step
LEMMA TowardsFinitePrime ==
    ASSUME NEW g
    PROVE  /\ Cardinality(Towards(g)') \in Nat
           /\ Cardinality(Towards(g)') <= Cardinality(Handlers)
  <1>1. Towards(g)' \in SUBSET Handlers /\ IsFiniteSet(Handlers)
    BY CodeBoundAssumption DEF Towards
  <1>2. IsFiniteSet(Towards(g)') /\ Cardinality(Towards(g)') <= Cardinality(Handlers)
    BY <1>1, FS_Subset
  <1>3. QED
    BY <1>2, FS_CardinalityType

\* A request may set out for a group that has fewer codes than Attempts.
LEMMA SizeKept ==
    ASSUME TypeInv, SizeInv, SameRows,
           InOrder => \A g \in Nat \ {0} :
               Towards(g)' \subseteq Towards(g) \/ Cardinality(InGroup(g)) < Attempts
    PROVE  SizeInv'
  <1>1. InOrder' => InOrder
    BY DEF InOrder, SameRows
  <1>2. ASSUME InOrder, NEW g \in Nat \ {0}
        PROVE  Cardinality(InGroup(g)') + Cardinality(Towards(g)') < Attempts + Cardinality(Handlers)
    <2>1. InGroup(g)' = InGroup(g)
      BY DEF InGroup, SameRows
    <2>2. /\ Cardinality(InGroup(g)) + Cardinality(Towards(g)) < Attempts + Cardinality(Handlers)
          /\ Attempts \in Nat
      BY <1>2, LimitsAssumption DEF SizeInv
    <2>3. CASE Towards(g)' \subseteq Towards(g)
      <3>1. Cardinality(Towards(g)') <= Cardinality(Towards(g))
        BY <2>3, TowardsFinite, FS_Subset
      <3>2. QED
        BY <2>1, <2>2, <3>1, TowardsFinite, TowardsFinitePrime
    <2>4. CASE Cardinality(InGroup(g)) < Attempts
      BY <2>1, <2>2, <2>4, TowardsFinite, TowardsFinitePrime
    <2>5. QED
      BY <1>2, <2>3, <2>4
  <1>3. QED
    BY <1>1, <1>2 DEF SizeInv

\* A request that sets out for no other group than before
LEMMA NobodySetsOut ==
    ASSUME TypeInv, NEW h \in Handlers, Handle(h),
           \/ pc'[h] \notin {"insert", "cancel", "commit", "count"}
           \/ Begun(h) /\ Begun(h)' /\ group'[h] = group[h],
           NEW g
    PROVE  Towards(g)' \subseteq Towards(g)
  <1> SUFFICES ASSUME NEW q \in Handlers, q \in Towards(g)'
               PROVE  q \in Towards(g)
    BY DEF Towards
  <1>1. CASE q = h
    BY <1>1 DEF Towards, Begun
  <1>2. CASE q # h
    <2>1. pc'[q] = pc[q] /\ group'[q] = group[q]
      BY <1>2, OthersKeep
    <2>2. QED
      BY <2>1 DEF Towards, Begun
  <1>3. QED
    BY <1>1, <1>2

\* Only the request that makes the step can set out for a group.
LEMMA OneSetsOut ==
    ASSUME TypeInv, NEW h \in Handlers, Handle(h), NEW g, h \notin Towards(g)'
    PROVE  Towards(g)' \subseteq Towards(g)
  <1> SUFFICES ASSUME NEW q \in Handlers, q \in Towards(g)'
               PROVE  q \in Towards(g)
    BY DEF Towards
  <1>1. q # h
    OBVIOUS
  <1>2. pc'[q] = pc[q] /\ group'[q] = group[q]
    BY <1>1, OthersKeep
  <1>3. QED
    BY <1>2 DEF Towards, Begun

\* A commit adds the code of a request that was on its way to the group.
LEMMA CommitSize ==
    ASSUME OverlapInv, SizeInv, NEW h \in Handlers, Commit(h)
    PROVE  SizeInv'
  <1>0. TypeInv /\ HandlerOK(h) /\ Handle(h) /\ [Next]_vars
    BY DEF OverlapInv, GroupsInv, Handle, Next
  <1>n. PICK new : new = last[h]
    OBVIOUS
  <1>1. /\ pc[h] = "commit" /\ clearing[h] = {} /\ Inserted(h) /\ Begun(h)
        /\ codes[new].group = group[h]
    BY <1>0, <1>n DEF Commit, HandlerOK, Inserted, Begun
  <1>2. new \notin stored
    BY <1>n, <1>1 DEF OverlapInv, LeftInv, PendingInv
  <1>3. /\ stored' = stored \union {new}
        /\ codes'[new].group = group[h]
        /\ \A c \in stored : codes'[c].group = codes[c].group
    BY <1>0, <1>n, <1>1, <1>2, CommitGroups
  <1>4. InOrder' => InOrder
    BY <1>3 DEF InOrder
  <1>5. pc'[h] = "idle"
    BY <1>0, EndLocals DEF Commit
  <1>6. ASSUME InOrder, NEW g \in Nat \ {0}
        PROVE  Cardinality(InGroup(g)') + Cardinality(Towards(g)') < Attempts + Cardinality(Handlers)
    <2>1. h \notin Towards(g)' /\ Towards(g)' \subseteq Towards(g)
      <3>1. h \notin Towards(g)'
        BY <1>5 DEF Towards, Begun
      <3>2. QED
        BY <1>0, <3>1, OneSetsOut
    <2>2. /\ Cardinality(InGroup(g)) + Cardinality(Towards(g)) < Attempts + Cardinality(Handlers)
          /\ Attempts \in Nat
      BY <1>6, LimitsAssumption DEF SizeInv
    <2>3. CASE g # group[h]
      <3>1. InGroup(g)' = InGroup(g)
        BY <1>2, <1>3, <2>3 DEF InGroup
      <3>2. Cardinality(Towards(g)') <= Cardinality(Towards(g))
        BY <1>0, <2>1, TowardsFinite, FS_Subset
      <3>3. QED
        BY <1>0, <2>2, <3>1, <3>2, TowardsFinite, TowardsFinitePrime
    <2>4. CASE g = group[h]
      <3>1. InGroup(g)' = InGroup(g) \union {new} /\ new \notin InGroup(g)
        BY <1>2, <1>3, <2>4 DEF InGroup
      <3>2. Cardinality(InGroup(g)') = Cardinality(InGroup(g)) + 1
        BY <1>0, <3>1, TowardsFinite, OneMore
      <3>3. h \in Towards(g) /\ Towards(g)' \subseteq Towards(g) \ {h}
        BY <1>1, <2>1, <2>4 DEF Towards
      <3>4. /\ IsFiniteSet(Towards(g) \ {h})
            /\ Cardinality(Towards(g) \ {h}) = Cardinality(Towards(g)) - 1
        BY <1>0, <3>3, TowardsFinite, FS_RemoveElement
      <3>5. Cardinality(Towards(g)') <= Cardinality(Towards(g)) - 1
        BY <3>3, <3>4, FS_Subset
      <3>6. QED
        BY <1>0, <2>2, <3>2, <3>5, TowardsFinite, TowardsFinitePrime
    <2>5. QED
      BY <2>3, <2>4
  <1>7. QED
    BY <1>4, <1>6 DEF SizeInv

\* SizeInv is kept by every step within one control period.
LEMMA SizeStep ==
    ASSUME OffLimits, OnePeriod, OverlapInv, SizeInv, [Next]_vars
    PROVE  SizeInv'
  <1>0. TypeInv /\ Attempts \in Nat /\ Attempts >= 1
    BY LimitsAssumption DEF OverlapInv
  <1>1. CASE UNCHANGED <<codes, stored, pc, group>>
    <2>1. \A g : Towards(g)' = Towards(g)
      BY <1>1 DEF Towards, Begun
    <2>2. SameRows
      BY <1>1 DEF SameRows
    <2>3. QED
      BY <1>0, <2>1, <2>2, SizeKept
  <1>2. ASSUME NEW h \in Handlers, Commit(h)
        PROVE  SizeInv'
    BY <1>2, CommitSize
  <1>3. ASSUME NEW h \in Handlers, Handle(h), SameRows
        PROVE  SizeInv'
    <2>1. CASE \/ pc'[h] \notin {"insert", "cancel", "commit", "count"}
               \/ Begun(h) /\ Begun(h)' /\ group'[h] = group[h]
      BY <1>0, <1>3, <2>1, NobodySetsOut, SizeKept
    <2>2. CASE CountGroup(h) /\ ~End(h)
      <3>1. /\ \/ group'[h] = group[h] /\ Cardinality(InGroup(group[h])) < Attempts
               \/ group'[h] = group[h] + 1
            /\ pc[h] = "count" /\ pc'[h] = "insert"
        BY <2>2, CountChooses
      <3>2. ASSUME NEW g
            PROVE  Towards(g)' \subseteq Towards(g) \/ Cardinality(InGroup(g)) < Attempts
        <4>1. CASE h \notin Towards(g)'
          BY <1>0, <1>3, <4>1, OneSetsOut
        <4>2. CASE h \in Towards(g)'
          <5>1. group'[h] = g
            BY <3>1, <4>2 DEF Towards, Begun
          <5>2. CASE g = group[h] + 1
            <6>1. h \in Towards(g)
              BY <3>1, <5>2 DEF Towards
            <6>2. Towards(g)' \subseteq Towards(g)
              <7> SUFFICES ASSUME NEW q \in Handlers, q \in Towards(g)', q # h
                           PROVE  q \in Towards(g)
                BY <6>1 DEF Towards
              <7>1. pc'[q] = pc[q] /\ group'[q] = group[q]
                BY <1>0, <1>3, OthersKeep
              <7>2. QED
                BY <7>1 DEF Towards, Begun
            <6>3. QED
              BY <6>2
          <5>3. QED
            BY <3>1, <5>1, <5>2
        <4>3. QED
          BY <4>1, <4>2
      <3>3. QED
        BY <1>0, <1>3, <3>2, SizeKept
    <2>3. CASE SelectLast(h) /\ ~End(h) /\ pc'[h] # "reset"
      <3>1. /\ UNCHANGED <<codes, stored>>
            /\ \A c \in stored : codes[c].group \in 1 .. Groups /\ c \in Nat
        BY <1>0, <2>3, StoredIsCode, CodeBoundAssumption DEF SelectLast, tables, OverlapInv, GroupsInv
      <3>2. \/ group'[h] = 1 /\ pc'[h] = "insert" /\ stored = {}
            \/ \E c \in Latest : group'[h] = codes[c].group /\ pc'[h] = "count"
        <4>1. \A c \in Latest : codes[c].group # NoGroup
          BY <3>1 DEF Latest, NoGroup
        <4>2. QED
          BY <1>0, <2>3, <4>1 DEF SelectLast, Goto, TypeInv, TypeOK
      <3>3. ASSUME InOrder, NEW g \in Nat \ {0}, h \in Towards(g)'
            PROVE  InGroup(g) = {}
        <4>1. CASE stored = {}
          BY <4>1 DEF InGroup
        <4>2. ASSUME NEW c \in Latest, group'[h] = codes[c].group, pc'[h] = "count"
              PROVE  InGroup(g) = {}
          <5>1. g = codes[c].group + 1
            BY <3>3, <4>2 DEF Towards, Begun
          <5>2. c \in stored /\ \A d \in stored : d <= c
            BY DEF Latest
          <5> SUFFICES ASSUME NEW d \in InGroup(g)
                       PROVE  FALSE
            OBVIOUS
          <5>3. d \in stored /\ codes[d].group = g
            BY DEF InGroup
          <5>4. d < c
            BY <3>1, <5>1, <5>2, <5>3
          <5>5. codes[d].group <= codes[c].group
            BY <3>1, <3>3, <5>2, <5>3, <5>4 DEF InOrder, NoGroup
          <5>6. QED
            BY <3>1, <5>1, <5>2, <5>3, <5>5
        <4>3. QED
          BY <3>2, <4>1, <4>2
      <3>4. ASSUME InOrder, NEW g \in Nat \ {0}
            PROVE  Towards(g)' \subseteq Towards(g) \/ Cardinality(InGroup(g)) < Attempts
        <4>1. CASE h \notin Towards(g)'
          BY <1>0, <1>3, <4>1, OneSetsOut
        <4>2. CASE h \in Towards(g)'
          BY <1>0, <3>3, <3>4, <4>2, FS_EmptySet
        <4>3. QED
          BY <4>1, <4>2
      <3>5. QED
        BY <1>0, <1>3, <3>4, SizeKept
    <2>4. \/ pc'[h] \notin {"insert", "cancel", "commit", "count"}
          \/ Begun(h) /\ Begun(h)' /\ group'[h] = group[h]
          \/ CountGroup(h) /\ ~End(h)
          \/ SelectLast(h) /\ ~End(h) /\ pc'[h] # "reset"
      <3>1. CASE End(h)
        BY <1>0, <3>1 DEF End, Goto, TypeInv, TypeOK
      <3>2. CASE RequestCode(h) \/ SignIn(h) \/ (VerifyConfirmationCode(h) /\ ~End(h))
        BY <1>0, <3>2 DEF RequestCode, SignIn, VerifyConfirmationCode, Goto, TypeInv, TypeOK
      <3>3. CASE Insert(h) \/ Cancel(h)
        BY <1>0, <3>3 DEF Insert, Cancel, Goto, Begun, TypeInv, TypeOK
      <3>4. CASE Reset(h)
        BY <3>4 DEF Reset, OverlapInv, GroupsInv, HandlerOK
      <3>5. CASE SelectLast(h) /\ ~End(h)
        <4>1. CASE pc'[h] = "reset"
          BY <4>1
        <4>2. QED
          BY <3>5, <4>1
      <3>6. QED
        BY <1>3, <3>1, <3>2, <3>3, <3>4, <3>5 DEF Handle, Commit, Confirm, Rollback
    <2>5. QED
      BY <2>1, <2>2, <2>3, <2>4
  <1>4. QED
    BY <1>0, <1>1, <1>2, <1>3, RowsStep DEF Next, vars, Tick, tables

\* However requests overlap and fail within a control period: the number of
\* groups is limited, and as long as the codes come in the order of their
\* groups, a group has at most one code more for each request that overlaps.
THEOREM GroupsAreBounded ==
    ASSUME OffLimits, OnePeriod
    PROVE  Spec => []GroupSizeBound
  <1> DEFINE Inv == OverlapInv /\ SizeInv
  <1>1. Init => Inv
    <2> SUFFICES ASSUME Init
                 PROVE  Inv
      OBVIOUS
    <2>1. TypeInv
      BY DEF Init, TypeInv, TypeOK, LocalsOK, Created, NoGroup, Labels
    <2>2. LeftInv
      BY DEF Init, LeftInv, PendingInv, SomeCodeLeft, Inserted
    <2>3. GroupsInv
      BY CodeBoundAssumption DEF Init, GroupsInv, HandlerOK, Begun, Inserted, Created
    <2>4. SizeInv
      <3> SUFFICES ASSUME NEW g \in Nat \ {0}
                   PROVE  Cardinality(InGroup(g)) + Cardinality(Towards(g))
                             < Attempts + Cardinality(Handlers)
        BY DEF SizeInv
      <3>1. InGroup(g) = {} /\ Towards(g) = {}
        BY DEF Init, InGroup, Towards, Begun
      <3>2. Cardinality(InGroup(g)) = 0 /\ Cardinality(Towards(g)) = 0
        BY <3>1, FS_EmptySet
      <3>3. Cardinality(Handlers) \in Nat
        BY <2>1, TowardsFinite
      <3>4. QED
        BY <3>2, <3>3, LimitsAssumption
    <2>5. QED
      BY <2>1, <2>2, <2>3, <2>4, ClockInit DEF OverlapInv
  <1>2. Inv /\ [Next]_vars => Inv'
    <2> SUFFICES ASSUME Inv, [Next]_vars
                 PROVE  Inv'
      OBVIOUS
    <2>1. TypeInv' /\ ClockInv' /\ LeftInv'
      BY TypeStep, ClockStep, LeftStep DEF OverlapInv
    <2>2. GroupsInv' /\ SizeInv'
      BY GroupsStep, SizeStep
    <2>3. QED
      BY <2>1, <2>2 DEF OverlapInv
  <1>3. Inv => GroupSizeBound
    <2> SUFFICES ASSUME Inv, NEW c \in stored
                 PROVE  /\ codes[c].group <= Groups
                        /\ InOrder => Cardinality(InGroup(codes[c].group)) < Attempts + Cardinality(Handlers)
      BY DEF GroupSizeBound
    <2>1. TypeInv /\ codes[c].group \in 1 .. Groups
      BY StoredIsCode DEF OverlapInv, GroupsInv
    <2> DEFINE g == codes[c].group
    <2>2. g \in Nat \ {0} /\ g <= Groups /\ Attempts \in Nat
      BY <2>1, LimitsAssumption
    <2> HIDE DEF g
    <2>3. ASSUME InOrder
          PROVE  Cardinality(InGroup(g)) < Attempts + Cardinality(Handlers)
      <3>1. Cardinality(InGroup(g)) + Cardinality(Towards(g)) < Attempts + Cardinality(Handlers)
        BY <2>2, <2>3 DEF SizeInv
      <3>2. QED
        BY <2>1, <2>2, <3>1, TowardsFinite
    <2>4. QED
      BY <2>2, <2>3 DEF g
  <1>4. QED
    BY <1>1, <1>2, <1>3, PTL DEF Spec
=============================================================================
