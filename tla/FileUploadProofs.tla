-------------------------- MODULE FileUploadProofs --------------------------
(***************************************************************************)
(* What holds of FileUpload for every set of uploads, however many are in  *)
(* flight at a time and however many faults there are: the rows without a  *)
(* file, the files without a row, and the rows of a field can be counted.  *)
(***************************************************************************)
EXTENDS FileUpload, FiniteSetTheorems, TLAPS

-----------------------------------------------------------------------------
(* The steps after SELECT, each with the faults it may meet *)

Locals == <<dataVars, index, row, old, overlaps>>
Faulty == faults' = faults + 1 /\ faults < MaxFaults /\ moves' = moves

RemoveStep(r) ==
    /\ step[r] = "remove" /\ UNCHANGED <<Locals, rows>>
    /\ \/ /\ Goto(r, "put") /\ objects' = objects \ Removed(r) /\ faults' = faults
          /\ moves' = IF bucket[old[r]] # bucket[r] THEN moves + 1 ELSE moves
       \/ /\ Goto(r, "put") \/ Goto(r, "failed")
          /\ objects' \in {objects, objects \ Removed(r)} /\ Faulty

PutStep(r) ==
    /\ step[r] = "put" /\ UNCHANGED <<Locals, rows>>
    /\ \/ Goto(r, "commit") /\ objects' = objects \union {New(r)} /\ UNCHANGED <<faults, moves>>
       \/ Goto(r, "failed") /\ objects' \in {objects, objects \union {New(r)}} /\ Faulty

CommitStep(r) ==
    /\ step[r] = "commit" /\ UNCHANGED <<Locals, objects>>
    /\ \/ Goto(r, "done") /\ rows' = Stored(r) /\ UNCHANGED <<faults, moves>>
       \/ (Goto(r, "withdraw") \/ Goto(r, "failed")) /\ rows' \in {rows, Stored(r)} /\ Faulty

WithdrawStep(r) ==
    /\ step[r] = "withdraw" /\ Goto(r, "failed") /\ UNCHANGED <<Locals, rows>>
    /\ \/ objects' = objects \ {New(r)} /\ UNCHANGED <<faults, moves>>
       \/ objects' \in {objects, objects \ {New(r)}} /\ Faulty

CutStep(r) ==
    step[r] = "select" /\ Goto(r, "failed") /\ UNCHANGED <<Locals, rows, objects>> /\ Faulty

Labels == {"new", "select", "remove", "put", "commit", "withdraw", "done", "failed"}

\* Every step is one of these.
LEMMA Steps ==
    ASSUME step \in [Requests -> Labels], Next
    PROVE  \E r \in Requests :
              \/ Begin(r) \/ Select(r) \/ RemoveStep(r) \/ PutStep(r)
              \/ CommitStep(r) \/ WithdrawStep(r) \/ CutStep(r)
  <1>1. PICK r \in Requests :
            \/ Begin(r) \/ Select(r) \/ Remove(r) \/ Put(r) \/ Commit(r) \/ Withdraw(r)
            \/ RemoveFails(r) \/ PutFails(r) \/ CommitFails(r) \/ Abort(r)
    BY DEF Next
  <1>2. CASE Begin(r) \/ Select(r)
    BY <1>2
  <1>3. CASE Remove(r) \/ RemoveFails(r)
    <2>1. RemoveStep(r)
      BY <1>3 DEF Remove, RemoveFails, RemoveStep, Fault, Faulty, Locals, dataVars
    <2>2. QED
      BY <2>1
  <1>4. CASE Put(r) \/ PutFails(r)
    <2>1. PutStep(r)
      BY <1>4 DEF Put, PutFails, PutStep, Fault, Faulty, Locals, dataVars
    <2>2. QED
      BY <2>1
  <1>5. CASE Commit(r) \/ CommitFails(r)
    <2>1. CommitStep(r)
      BY <1>5 DEF Commit, CommitFails, CommitStep, Fault, Faulty, Locals, dataVars
    <2>2. QED
      BY <2>1
  <1>6. CASE Withdraw(r)
    <2>1. WithdrawStep(r)
      BY <1>6 DEF Withdraw, WithdrawStep, Locals, dataVars
    <2>2. QED
      BY <2>1
  <1>7. CASE Abort(r)
    <2>1. /\ Goto(r, "failed") /\ UNCHANGED Locals /\ Faulty
          /\ step[r] \in {"select", "remove", "put", "commit", "withdraw"}
      BY <1>7 DEF Abort, Fault, Faulty, Locals, dataVars, InFlight, Labels
    <2>2. PICK reached \in {Reached(r), [objects |-> objects, rows |-> rows]} :
              objects' = reached.objects /\ rows' = reached.rows
      BY <1>7 DEF Abort
    <2>3. CASE step[r] = "select"
      BY <2>1, <2>2, <2>3 DEF Reached, CutStep
    <2>4. CASE step[r] = "remove"
      BY <2>1, <2>2, <2>4 DEF Reached, RemoveStep
    <2>5. CASE step[r] = "put"
      BY <2>1, <2>2, <2>5 DEF Reached, PutStep
    <2>6. CASE step[r] = "commit"
      BY <2>1, <2>2, <2>6 DEF Reached, CommitStep
    <2>7. CASE step[r] = "withdraw"
      BY <2>1, <2>2, <2>7 DEF Reached, WithdrawStep
    <2>8. QED
      BY <2>1, <2>3, <2>4, <2>5, <2>6, <2>7
  <1>8. QED
    BY <1>1, <1>2, <1>3, <1>4, <1>5, <1>6, <1>7

-----------------------------------------------------------------------------
(* Type correctness *)

\* The rows of a field have a greatest index: SELECT max() has an answer.
MaxOK ==
    \A f \in Fields :
        OfField(f) = {} \/ \E x \in OfField(f) : \A y \in OfField(f) : y.index <= x.index

TypeInv == TypeOK /\ MaxOK

NewRow(r) == [id |-> r, field |-> field[r], index |-> index[r], object |-> r]

\* The next index is above all those that the field has.
LEMMA NextIndexAbove ==
    ASSUME TypeInv, NEW f \in Fields
    PROVE  NextIndex(f) \in Nat /\ \A x \in OfField(f) : x.index < NextIndex(f)
  <1>1. CASE OfField(f) = {}
    BY <1>1 DEF NextIndex
  <1>2. CASE OfField(f) # {}
    <2> DEFINE I == {x.index : x \in OfField(f)}
               top == CHOOSE i \in I : \A x \in OfField(f) : x.index <= i
    <2>1. \E i \in I : \A x \in OfField(f) : x.index <= i
      BY <1>2 DEF TypeInv, MaxOK
    <2>2. top \in I /\ \A x \in OfField(f) : x.index <= top
      BY <2>1
    <2>3. \A x \in OfField(f) : x.index \in Nat \union {NoIndex}
      BY DEF TypeInv, TypeOK, OfField, Row
    <2>4. top \in Nat \union {NoIndex}
      BY <2>2, <2>3
    <2>5. NextIndex(f) = 1 + top
      BY <1>2 DEF NextIndex
    <2> HIDE DEF top
    <2>6. QED
      BY <2>2, <2>3, <2>4, <2>5 DEF NoIndex
  <1>3. QED
    BY <1>1, <1>2

\* What a commit makes of the rows.
LEMMA StoredInserts ==
    ASSUME NEW r \in Requests, row[r] = NoRow
    PROVE  Stored(r) = rows \union {NewRow(r)}
  BY DEF Stored, NewRow

\* What the rows of a field are after a row was written in the place of another.
LEMMA StoredReplaces ==
    ASSUME rows \subseteq Row, NEW r \in Requests, row[r] # NoRow
    PROVE  /\ \A x \in rows : x.id # row[r] => x \in Stored(r)
           /\ \A x \in rows : x.id = row[r] =>
                 \E y \in Stored(r) : y.id = x.id /\ y.field = x.field /\ y.index = x.index
                                      /\ y.object = r
           /\ \A y \in Stored(r) :
                 \/ y \in rows /\ y.id # row[r]
                 \/ y.id = row[r] /\ y.object = r /\ y \in Row
                    /\ \E x \in rows : x.id = y.id /\ x.field = y.field /\ x.index = y.index
  <1>1. Stored(r) = {IF x.id = row[r] THEN [x EXCEPT !.object = r] ELSE x : x \in rows}
    BY DEF Stored
  <1>2. ASSUME NEW x \in rows
        PROVE  LET y == [x EXCEPT !.object = r]
               IN  y \in Row /\ y.id = x.id /\ y.field = x.field /\ y.index = x.index
                   /\ y.object = r
    BY <1>2 DEF Row
  <1>3. ASSUME NEW x \in rows, x.id = row[r] PROVE [x EXCEPT !.object = r] \in Stored(r)
    BY <1>1, <1>3
  <1>4. ASSUME NEW x \in rows, x.id # row[r] PROVE x \in Stored(r)
    BY <1>1, <1>4
  <1>5. ASSUME NEW y \in Stored(r)
        PROVE  \/ y \in rows /\ y.id # row[r]
               \/ y.id = row[r] /\ y.object = r /\ y \in Row
                  /\ \E x \in rows : x.id = y.id /\ x.field = y.field /\ x.index = y.index
    <2>1. PICK x \in rows : y = IF x.id = row[r] THEN [x EXCEPT !.object = r] ELSE x
      BY <1>1
    <2>2. QED
      BY <1>2, <2>1
  <1>6. QED
    BY <1>2, <1>3, <1>4, <1>5

\* A write of a row leaves rows of the right shape.
LEMMA StoredTypes ==
    ASSUME TypeInv, NEW r \in Requests
    PROVE  /\ Stored(r) \subseteq Row
           /\ \A f \in Fields :
                 \/ {y \in Stored(r) : y.field = f} = {}
                 \/ \E x \in Stored(r) :
                       x.field = f /\ \A y \in Stored(r) : y.field = f => y.index <= x.index
  <1> DEFINE Top(S, f) == \E x \in S : x.field = f /\ \A y \in S : y.field = f => y.index <= x.index
  <1>0. rows \subseteq Row /\ \A f \in Fields : (\A x \in rows : x.field # f) \/ Top(rows, f)
    BY DEF TypeInv, TypeOK, MaxOK, OfField
  <1>1. CASE row[r] = NoRow
    <2>1. Stored(r) = rows \union {NewRow(r)}
      BY <1>1, StoredInserts
    <2>2. NewRow(r) \in Row /\ NewRow(r).field = field[r] /\ NewRow(r).index = index[r]
      BY DEF NewRow, TypeInv, TypeOK, Row
    <2>3. ASSUME NEW f \in Fields PROVE (\A x \in Stored(r) : x.field # f) \/ Top(Stored(r), f)
      <3>1. CASE f # field[r]
        BY <1>0, <2>1, <2>2, <3>1
      <3>2. CASE f = field[r] /\ \A x \in rows : x.field # f
        <4>1. index[r] <= index[r]
          BY DEF TypeInv, TypeOK, NoIndex
        <4>2. QED
          BY <2>1, <2>2, <3>2, <4>1
      <3>3. CASE f = field[r] /\ Top(rows, f)
        <4>1. PICK x \in rows : x.field = f /\ \A y \in rows : y.field = f => y.index <= x.index
          BY <3>3
        <4>2. \A y \in Stored(r) : y.index \in Int
          BY <1>0, <2>1, <2>2 DEF Row, NoIndex
        <4>3. CASE index[r] <= x.index
          BY <2>1, <2>2, <3>3, <4>1, <4>3
        <4>4. CASE ~(index[r] <= x.index)
          <5>1. \A y \in Stored(r) : y.field = f => y.index <= NewRow(r).index
            BY <2>1, <2>2, <4>1, <4>2, <4>4
          <5>2. QED
            BY <2>1, <2>2, <3>3, <5>1
        <4>5. QED
          BY <4>3, <4>4
      <3>4. QED
        BY <1>0, <3>1, <3>2, <3>3
    <2>4. QED
      BY <1>0, <2>1, <2>2, <2>3
  <1>2. CASE row[r] # NoRow
    <2>1. ASSUME NEW f \in Fields PROVE (\A x \in Stored(r) : x.field # f) \/ Top(Stored(r), f)
      <3>1. CASE \A x \in rows : x.field # f
        BY <1>0, <1>2, <3>1, StoredReplaces
      <3>2. CASE Top(rows, f)
        <4>1. PICK x \in rows : x.field = f /\ \A y \in rows : y.field = f => y.index <= x.index
          BY <3>2
        <4>2. PICK y \in Stored(r) : y.field = x.field /\ y.index = x.index
          BY <1>0, <1>2, <4>1, StoredReplaces
        <4>3. \A z \in Stored(r) : \E w \in rows : w.field = z.field /\ w.index = z.index
          BY <1>0, <1>2, StoredReplaces
        <4>4. QED
          BY <4>1, <4>2, <4>3
      <3>3. QED
        BY <1>0, <3>1, <3>2
    <2>2. Stored(r) \subseteq Row
      BY <1>0, <1>2, StoredReplaces
    <2>3. QED
      BY <2>1, <2>2
  <1>3. QED
    BY <1>1, <1>2

\* The type invariant is inductive.
LEMMA TypeStep == TypeInv /\ [Next]_vars => TypeInv'
  <1> SUFFICES ASSUME TypeInv, [Next]_vars PROVE TypeInv'
    OBVIOUS
  <1>1. CASE UNCHANGED vars
    BY <1>1 DEF vars, dataVars, TypeInv, TypeOK, MaxOK, OfField
  <1>2. ASSUME NEW r \in Requests, NEW l \in Labels, Goto(r, l)
        PROVE  step' \in [Requests -> Labels]
    BY <1>2 DEF Goto, TypeInv, TypeOK, Labels
  <1>3. ASSUME NEW r \in Requests, Begin(r) PROVE TypeInv'
    <2>1. index' \in [Requests -> Nat \union {NoIndex}]
      <3>1. NextIndex(field[r]) \in Nat
        BY NextIndexAbove DEF TypeInv, TypeOK
      <3>2. QED
        BY <1>3, <3>1 DEF Begin, TypeInv, TypeOK
    <2>2. overlaps' \in Nat /\ UNCHANGED <<field, bucket, row, old, rows, objects, moves, faults>>
      BY <1>3 DEF Begin, dataVars, TypeInv, TypeOK
    <2>3. step' \in [Requests -> Labels]
      BY <1>2, <1>3 DEF Begin, Labels
    <2>4. QED
      BY <2>1, <2>2, <2>3 DEF TypeInv, TypeOK, MaxOK, OfField, Labels
  <1>4. ASSUME NEW r \in Requests, Select(r) PROVE TypeInv'
    <2>1. row' \in [Requests -> Requests \union {NoRow}] /\ old' \in [Requests -> Requests \union {NoRow}]
      <3>1. \A x \in Found(r) : x.id \in Requests /\ x.object \in Requests
        BY DEF Found, OfField, TypeInv, TypeOK, Row
      <3>2. QED
        BY <1>4, <3>1 DEF Select, TypeInv, TypeOK
    <2>2. UNCHANGED <<field, bucket, index, rows, objects, overlaps, moves, faults>>
      BY <1>4 DEF Select, dataVars
    <2>3. step' \in [Requests -> Labels]
      BY <1>2, <1>4 DEF Select, Labels
    <2>4. QED
      BY <2>1, <2>2, <2>3 DEF TypeInv, TypeOK, MaxOK, OfField, Labels
  <1>5. ASSUME NEW r \in Requests, UNCHANGED Locals, step' \in [Requests -> Labels],
               rows' \in {rows, Stored(r)}, moves' \in {moves, moves + 1},
               faults' = faults \/ Faulty,
               objects' \in {objects, objects \ Removed(r), objects \union {New(r)},
                             objects \ {New(r)}}
        PROVE  TypeInv'
    <2>1. rows' \subseteq Row /\ MaxOK'
      <3>1. CASE rows' = rows
        BY <1>5, <3>1 DEF TypeInv, TypeOK, MaxOK, OfField
      <3>2. CASE rows' = Stored(r)
        BY <3>2, StoredTypes DEF MaxOK, OfField
      <3>3. QED
        BY <1>5, <3>1, <3>2
    <2>2. New(r) \in [id : Requests, bucket : Buckets]
      BY DEF New, TypeInv, TypeOK
    <2>3. objects' \subseteq [id : Requests, bucket : Buckets]
      BY <1>5, <2>2 DEF TypeInv, TypeOK
    <2>4. moves' \in Nat /\ faults' \in 0 .. MaxFaults
      BY <1>5, FileAssumption DEF TypeInv, TypeOK, Faulty
    <2>5. QED
      BY <1>5, <2>1, <2>3, <2>4 DEF TypeInv, TypeOK, Locals, dataVars, Labels
  <1>6. ASSUME NEW r \in Requests, RemoveStep(r) PROVE TypeInv'
    BY <1>2, <1>5, <1>6 DEF RemoveStep, Faulty, Labels
  <1>7. ASSUME NEW r \in Requests, PutStep(r) PROVE TypeInv'
    BY <1>2, <1>5, <1>7 DEF PutStep, Faulty, Labels
  <1>8. ASSUME NEW r \in Requests, CommitStep(r) PROVE TypeInv'
    BY <1>2, <1>5, <1>8 DEF CommitStep, Faulty, Labels
  <1>9. ASSUME NEW r \in Requests, WithdrawStep(r) \/ CutStep(r) PROVE TypeInv'
    BY <1>2, <1>5, <1>9 DEF WithdrawStep, CutStep, Faulty, Labels
  <1>10. step \in [Requests -> Labels]
    BY DEF TypeInv, TypeOK, Labels
  <1>11. QED
    BY <1>1, <1>3, <1>4, <1>6, <1>7, <1>8, <1>9, <1>10, Steps

\* The initial state has the right types.
LEMMA TypeInit == Init => TypeInv
  BY FileAssumption DEF Init, TypeInv, TypeOK, MaxOK, OfField

\* Every variable keeps its type; in particular the next index always exists.
THEOREM TypeCorrect == Spec => []TypeOK
  <1>1. TypeInv => TypeOK
    BY DEF TypeInv
  <1>2. QED
    BY <1>1, TypeInit, TypeStep, PTL DEF Spec

-----------------------------------------------------------------------------
(* Rows, objects and what the requests know of them *)

\* The request has committed its row, or never will.
Over == {"withdraw", "done", "failed"}

\* A row has the name of the request that inserted it and the object of the
\* one that wrote it last; no two rows have either in common.
RowsOK ==
    /\ \A x, y \in rows : x.id = y.id \/ x.object = y.object => x = y
    /\ \A x \in rows : step[x.id] \in Over /\ step[x.object] \in Over /\ x.field = field[x.id]

\* The row that a request has found is still there. It may have got another
\* object, but no other row will ever have the one it had then.
FoundOK(r) ==
    row[r] # NoRow =>
        /\ old[r] \in Requests /\ step[old[r]] \in Over
        /\ \E x \in rows : x.id = row[r]
        /\ \A x \in rows : x.object = old[r] => x.id = row[r]

LocalsOK ==
    \A r \in Requests :
        /\ step[r] \in {"new", "select"} => row[r] = NoRow
        /\ step[r] = "remove" => row[r] # NoRow
        /\ FoundOK(r)
        /\ step[r] = "commit" => New(r) \in objects
        /\ step[r] = "done" /\ row[r] = NoRow => \E x \in rows : x.id = r

Facts == RowsOK /\ LocalsOK

\* Who moves from one label to the next leaves the others where they are, and
\* does not become undecided again.
LEMMA GotoKeeps ==
    ASSUME TypeInv, NEW r \in Requests, NEW l \in Labels, Goto(r, l),
           step[r] \in Over => l \in Over
    PROVE  /\ step'[r] = l /\ \A q \in Requests : q # r => step'[q] = step[q]
           /\ \A q \in Requests : step[q] \in Over => step'[q] \in Over
  BY DEF Goto, TypeInv, TypeOK

\* A step that changes no row
LEMMA RowsKept ==
    ASSUME TypeInv, Facts, NEW r \in Requests, NEW l \in Labels \ {"new", "select", "remove", "done"},
           Goto(r, l), step[r] \in Over => l \in Over,
           UNCHANGED <<field, bucket, row, old, rows>>,
           l = "commit" => New(r) \in objects',
           \A q \in Requests : q # r /\ step[q] = "commit" => New(q) \in objects'
    PROVE  Facts'
  <1>1. /\ step'[r] = l /\ \A q \in Requests : q # r => step'[q] = step[q]
        /\ \A q \in Requests : step[q] \in Over => step'[q] \in Over
    BY GotoKeeps
  <1>2. \A x \in rows : x.id \in Requests /\ x.object \in Requests
    BY DEF TypeInv, TypeOK, Row
  <1>3. RowsOK'
    BY <1>1, <1>2 DEF Facts, RowsOK
  <1>4. ASSUME NEW q \in Requests PROVE FoundOK(q)'
    BY <1>1 DEF Facts, LocalsOK, FoundOK
  <1>5. \A q \in Requests : New(q)' = New(q)
    BY DEF New
  <1>6. LocalsOK'
    BY <1>1, <1>4, <1>5 DEF Facts, LocalsOK
  <1>7. QED
    BY <1>3, <1>6 DEF Facts

\* What a removal does not remove
LEMMA RemovedIsOld ==
    ASSUME TypeInv, Facts, NEW r \in Requests, step[r] = "remove", NEW o \in Removed(r)
    PROVE  o.id = old[r] /\ step[o.id] \in Over
  BY DEF Removed, Facts, LocalsOK, FoundOK

\* The rows after a commit: that of the request has its object, all others are
\* as they were.
LEMMA CommittedRows ==
    ASSUME TypeInv, Facts, NEW r \in Requests, step[r] = "commit"
    PROVE  LET id == IF row[r] = NoRow THEN r ELSE row[r]
           IN  /\ \E y \in Stored(r) : y.id = id
               /\ \A y \in Stored(r) : y \in Row
               /\ \A y \in Stored(r) : y.id # id => y \in rows /\ y.object # r
               /\ \A y \in Stored(r) : y.id = id => y.object = r /\ y.field = field[id]
               /\ \A x \in rows : x.id # id => x \in Stored(r)
               /\ row[r] = NoRow => \A x \in rows : x.id # id
  <1>1. rows \subseteq Row /\ \A x \in rows : x.id # r /\ x.object # r /\ x.field = field[x.id]
    BY DEF TypeInv, TypeOK, Facts, RowsOK, Over
  <1>2. CASE row[r] = NoRow
    <2>1. Stored(r) = rows \union {NewRow(r)}
      BY <1>2, StoredInserts
    <2>2. NewRow(r).id = r /\ NewRow(r).object = r /\ NewRow(r).field = field[r]
      BY DEF NewRow
    <2>3. Stored(r) \subseteq Row
      BY StoredTypes
    <2>4. QED
      BY <1>1, <1>2, <2>1, <2>2, <2>3
  <1>3. CASE row[r] # NoRow
    <2>1. \E x \in rows : x.id = row[r]
      BY <1>3 DEF Facts, LocalsOK, FoundOK
    <2>2. Stored(r) \subseteq Row
      BY StoredTypes
    <2>3. \A y \in Stored(r) : y.id = row[r] => y.object = r /\ y.field = field[row[r]]
      BY <1>1, <1>3, StoredReplaces
    <2>4. QED
      BY <1>1, <1>3, <2>1, <2>2, <2>3, StoredReplaces
  <1>4. QED
    BY <1>2, <1>3

\* Only one row has the name of the row that is written.
LEMMA OneStored ==
    ASSUME TypeInv, Facts, NEW r \in Requests, step[r] = "commit",
           NEW x \in Stored(r), NEW y \in Stored(r), x.id = y.id,
           x.id = IF row[r] = NoRow THEN r ELSE row[r]
    PROVE  x = y
  <1>1. CASE row[r] = NoRow
    <2>1. \A z \in rows : z.id # r
      BY DEF Facts, RowsOK, Over
    <2>2. QED
      BY <1>1, <2>1, StoredInserts
  <1>2. CASE row[r] # NoRow
    <2>1. Stored(r) = {IF z.id = row[r] THEN [z EXCEPT !.object = r] ELSE z : z \in rows}
      BY <1>2 DEF Stored
    <2>2. \A z \in rows : z \in Row /\ [z EXCEPT !.object = r].id = z.id
      BY DEF TypeInv, TypeOK, Row
    <2>3. PICK v \in rows : x = IF v.id = row[r] THEN [v EXCEPT !.object = r] ELSE v
      BY <2>1
    <2>4. PICK w \in rows : y = IF w.id = row[r] THEN [w EXCEPT !.object = r] ELSE w
      BY <2>1
    <2>5. v.id = row[r] /\ w.id = row[r]
      BY <1>2, <2>2, <2>3, <2>4
    <2>6. v = w
      BY <2>5 DEF Facts, RowsOK
    <2>7. QED
      BY <2>3, <2>4, <2>6
  <1>3. QED
    BY <1>1, <1>2

\* They are invariants.
LEMMA FactsStep == TypeInv /\ Facts /\ [Next]_vars => Facts'
  <1> SUFFICES ASSUME TypeInv, Facts, [Next]_vars PROVE Facts'
    OBVIOUS
  <1>1. CASE UNCHANGED vars
    BY <1>1 DEF vars, dataVars, Facts, RowsOK, LocalsOK, FoundOK, New
  <1>2. \A x \in rows : x.id \in Requests /\ x.object \in Requests
    BY DEF TypeInv, TypeOK, Row
  <1>3. ASSUME NEW r \in Requests, Begin(r) PROVE Facts'
    <2>1. step[r] = "new" /\ Goto(r, "select") /\ UNCHANGED <<field, bucket, row, old, rows, objects>>
      BY <1>3 DEF Begin, dataVars
    <2>2. /\ step'[r] = "select" /\ \A q \in Requests : q # r => step'[q] = step[q]
          /\ \A q \in Requests : step[q] \in Over => step'[q] \in Over
      BY <2>1, GotoKeeps DEF Labels, Over
    <2>3. RowsOK'
      BY <1>2, <2>1, <2>2 DEF Facts, RowsOK
    <2>4. ASSUME NEW q \in Requests PROVE FoundOK(q)'
      BY <2>1, <2>2 DEF Facts, LocalsOK, FoundOK
    <2>5. \A q \in Requests : New(q)' = New(q)
      BY <2>1 DEF New
    <2>6. LocalsOK'
      BY <2>1, <2>2, <2>4, <2>5 DEF Facts, LocalsOK
    <2>7. QED
      BY <2>3, <2>6 DEF Facts
  <1>4. ASSUME NEW r \in Requests, Select(r) PROVE Facts'
    <2>1. CASE Goto(r, "put") /\ UNCHANGED <<row, old>>
      BY <1>4, <2>1, RowsKept DEF Select, dataVars, Labels, Over, Facts, LocalsOK
    <2>2. ASSUME NEW x \in Found(r), row' = [row EXCEPT ![r] = x.id],
                 old' = [old EXCEPT ![r] = x.object], Goto(r, "remove")
          PROVE  Facts'
      <3>1. step[r] = "select" /\ UNCHANGED <<field, bucket, rows, objects>>
        BY <1>4 DEF Select, dataVars
      <3>2. /\ step'[r] = "remove" /\ \A q \in Requests : q # r => step'[q] = step[q]
            /\ \A q \in Requests : step[q] \in Over => step'[q] \in Over
        BY <2>2, <3>1, GotoKeeps DEF Labels, Over
      <3>3. x \in rows /\ x.id \in Requests /\ x.object \in Requests
        BY <1>2 DEF Found, OfField
      <3>4. /\ row'[r] = x.id /\ old'[r] = x.object
            /\ \A q \in Requests : q # r => row'[q] = row[q] /\ old'[q] = old[q]
        BY <2>2 DEF TypeInv, TypeOK
      <3>5. RowsOK'
        BY <1>2, <3>1, <3>2 DEF Facts, RowsOK
      <3>6. FoundOK(r)'
        BY <3>1, <3>2, <3>3, <3>4 DEF Facts, RowsOK, FoundOK
      <3>7. ASSUME NEW q \in Requests, q # r PROVE FoundOK(q)'
        BY <3>1, <3>2, <3>4, <3>7 DEF Facts, LocalsOK, FoundOK
      <3>8. \A q \in Requests : New(q)' = New(q)
        BY <3>1 DEF New
      <3>9. row'[r] # NoRow
        BY <3>3, <3>4, FileAssumption
      <3>10. LocalsOK'
        BY <3>1, <3>2, <3>4, <3>6, <3>7, <3>8, <3>9 DEF Facts, LocalsOK
      <3>11. QED
        BY <3>5, <3>10 DEF Facts
    <2>3. QED
      BY <1>4, <2>1, <2>2 DEF Select
  <1>5. ASSUME NEW r \in Requests, RemoveStep(r) PROVE Facts'
    <2>1. \A q \in Requests : step[q] = "commit" => New(q) \in objects'
      <3> SUFFICES ASSUME NEW q \in Requests, step[q] = "commit" PROVE New(q) \in objects'
        OBVIOUS
      <3>1. New(q) \in objects /\ New(q).id = q
        BY DEF Facts, LocalsOK, New
      <3>2. New(q) \notin Removed(r)
        BY <1>5, <3>1, RemovedIsOld DEF RemoveStep, Over
      <3>3. QED
        BY <1>5, <3>1, <3>2 DEF RemoveStep
    <2>2. QED
      BY <1>5, <2>1, RowsKept DEF RemoveStep, Locals, dataVars, Labels, Over
  <1>6. ASSUME NEW r \in Requests, PutStep(r) PROVE Facts'
    <2>1. \A q \in Requests : step[q] = "commit" => New(q) \in objects'
      BY <1>6 DEF PutStep, Facts, LocalsOK
    <2>2. QED
      BY <1>6, <2>1, RowsKept DEF PutStep, Locals, dataVars, Labels, Over
  <1>7. ASSUME NEW r \in Requests, WithdrawStep(r) PROVE Facts'
    <2>1. \A q \in Requests : q # r /\ step[q] = "commit" => New(q) \in objects'
      BY <1>7 DEF WithdrawStep, Facts, LocalsOK, New
    <2>2. QED
      BY <1>7, <2>1, RowsKept DEF WithdrawStep, Locals, dataVars, Labels, Over
  <1>8. ASSUME NEW r \in Requests, CutStep(r) PROVE Facts'
    BY <1>8, RowsKept DEF CutStep, Locals, dataVars, Labels, Over, Facts, LocalsOK
  <1>9. ASSUME NEW r \in Requests, CommitStep(r) PROVE Facts'
    <2>1. /\ step[r] = "commit" /\ UNCHANGED <<field, bucket, row, old, objects>>
          /\ rows' \in {rows, Stored(r)}
      BY <1>9 DEF CommitStep, Locals, dataVars
    <2>2. CASE rows' = rows /\ (Goto(r, "withdraw") \/ Goto(r, "failed"))
      BY <2>1, <2>2, RowsKept DEF Labels, Over, Facts, LocalsOK
    <2>3. ASSUME NEW l \in Over, rows' = Stored(r), Goto(r, l) PROVE Facts'
      <3> DEFINE id == IF row[r] = NoRow THEN r ELSE row[r]
      <3>1. /\ step'[r] = l /\ \A q \in Requests : q # r => step'[q] = step[q]
            /\ \A q \in Requests : step[q] \in Over => step'[q] \in Over
        BY <2>1, <2>3, GotoKeeps DEF Labels, Over
      <3>2. /\ \E y \in rows' : y.id = id
            /\ \A y \in rows' : y \in Row
            /\ \A y \in rows' : y.id # id => y \in rows /\ y.object # r
            /\ \A y \in rows' : y.id = id => y.object = r /\ y.field = field[id]
            /\ \A x \in rows : x.id # id => x \in rows'
        BY <2>1, <2>3, CommittedRows
      <3>3. id \in Requests /\ step'[id] \in Over
        <4>1. CASE row[r] = NoRow
          BY <2>3, <3>1, <4>1
        <4>2. CASE row[r] # NoRow
          <5>1. PICK x \in rows : x.id = row[r]
            BY <4>2 DEF Facts, LocalsOK, FoundOK
          <5>2. step[x.id] \in Over /\ x.id \in Requests
            BY <1>2 DEF Facts, RowsOK
          <5>3. QED
            BY <3>1, <4>2, <5>1, <5>2
        <4>3. QED
          BY <4>1, <4>2
      <3> HIDE DEF id
      <3>4. ASSUME NEW x \in rows', NEW y \in rows', x.id = y.id \/ x.object = y.object
            PROVE  x = y
        <4>1. x \in Row /\ y \in Row
          BY <3>2
        <4>2. CASE x.id # id /\ y.id # id
          BY <3>2, <3>4, <4>2 DEF Facts, RowsOK
        <4>3. CASE x.id = id /\ y.id # id
          BY <3>2, <3>4, <4>3
        <4>4. CASE x.id # id /\ y.id = id
          BY <3>2, <3>4, <4>4
        <4>5. CASE x.id = id /\ y.id = id
          BY <2>1, <2>3, <4>5, OneStored DEF id
        <4>6. QED
          BY <4>2, <4>3, <4>4, <4>5
      <3>5. RowsOK'
        <4>1. ASSUME NEW x \in rows'
              PROVE  step'[x.id] \in Over /\ step'[x.object] \in Over /\ x.field = field'[x.id]
          <5>1. CASE x.id # id
            BY <1>2, <2>1, <3>1, <3>2, <5>1 DEF Facts, RowsOK
          <5>2. CASE x.id = id
            BY <2>1, <2>3, <3>1, <3>2, <3>3, <5>2
          <5>3. QED
            BY <5>1, <5>2
        <4>2. QED
          BY <3>4, <4>1 DEF RowsOK
      <3>6. ASSUME NEW q \in Requests PROVE FoundOK(q)'
        <4> SUFFICES ASSUME row[q] # NoRow
                     PROVE  /\ old[q] \in Requests /\ step'[old[q]] \in Over
                            /\ \E x \in rows' : x.id = row[q]
                            /\ \A x \in rows' : x.object = old[q] => x.id = row[q]
          BY <2>1 DEF FoundOK
        <4>1. /\ old[q] \in Requests /\ step[old[q]] \in Over
              /\ \E x \in rows : x.id = row[q]
              /\ \A x \in rows : x.object = old[q] => x.id = row[q]
          BY DEF Facts, LocalsOK, FoundOK
        <4>2. old[q] # r
          BY <2>1, <4>1 DEF Over
        <4>3. QED
          BY <3>1, <3>2, <4>1, <4>2
      <3>7. \A q \in Requests : New(q)' = New(q)
        BY <2>1 DEF New
      <3>8. ASSUME NEW q \in Requests, step'[q] = "done", row[q] = NoRow
            PROVE  \E x \in rows' : x.id = q
        <4>1. CASE q = r
          BY <3>2, <3>8, <4>1 DEF id
        <4>2. CASE q # r
          <5>1. \E x \in rows : x.id = q
            BY <3>1, <3>8, <4>2 DEF Facts, LocalsOK
          <5>2. QED
            BY <3>2, <5>1
        <4>3. QED
          BY <4>1, <4>2
      <3>9. LocalsOK'
        BY <2>1, <2>3, <3>1, <3>6, <3>7, <3>8 DEF Facts, LocalsOK, Over
      <3>10. QED
        BY <3>5, <3>9 DEF Facts
    <2>4. QED
      BY <1>9, <2>1, <2>2, <2>3 DEF CommitStep, Over
  <1>10. step \in [Requests -> Labels]
    BY DEF TypeInv, TypeOK, Labels
  <1>11. QED
    BY <1>1, <1>3, <1>4, <1>5, <1>6, <1>7, <1>8, <1>9, <1>10, Steps

\* The initial state satisfies the facts on rows and on requests.
LEMMA FactsInit == Init => Facts
  BY DEF Init, Facts, RowsOK, LocalsOK, FoundOK

-----------------------------------------------------------------------------
(* Counting *)

\* A set that has one member more, at most
LEMMA OneMore ==
    ASSUME NEW S, IsFiniteSet(S), NEW T, NEW x, T \subseteq S \union {x}
    PROVE  IsFiniteSet(T) /\ Cardinality(T) <= Cardinality(S) + 1
  <1>1. Cardinality(S) \in Nat
    BY FS_CardinalityType
  <1>2. /\ IsFiniteSet(S \union {x})
        /\ Cardinality(S \union {x}) <= Cardinality(S) + 1
    BY <1>1, FS_AddElement
  <1>3. IsFiniteSet(T) /\ Cardinality(T) <= Cardinality(S \union {x})
    BY <1>2, FS_Subset
  <1>4. Cardinality(T) \in Nat /\ Cardinality(S \union {x}) \in Nat
    BY <1>2, <1>3, FS_CardinalityType
  <1>5. QED
    BY <1>1, <1>2, <1>3, <1>4

\* The same when what is added may not exist at all
LEMMA OneMoreOf ==
    ASSUME NEW S, IsFiniteSet(S), NEW T, NEW U, T \subseteq S \union U,
           \A x, y \in U : x = y
    PROVE  IsFiniteSet(T) /\ Cardinality(T) <= Cardinality(S) + 1
  <1>1. CASE U = {}
    <2>1. IsFiniteSet(T) /\ Cardinality(T) <= Cardinality(S)
      BY <1>1, FS_Subset
    <2>2. QED
      BY <2>1, FS_CardinalityType
  <1>2. CASE U # {}
    <2>1. PICK x \in U : TRUE
      BY <1>2
    <2>2. T \subseteq S \union {x}
      BY <2>1
    <2>3. QED
      BY <2>2, OneMore
  <1>3. QED
    BY <1>1, <1>2

\* All sets are finite at every time.
FiniteOK == IsFiniteSet(InFlight) /\ IsFiniteSet(rows) /\ IsFiniteSet(objects)

\* Every step keeps the sets that are counted finite.
LEMMA FiniteStep == TypeInv /\ Facts /\ FiniteOK /\ [Next]_vars => FiniteOK'
  <1> SUFFICES ASSUME TypeInv, Facts, FiniteOK, [Next]_vars PROVE FiniteOK'
    OBVIOUS
  <1>1. CASE UNCHANGED vars
    BY <1>1 DEF vars, FiniteOK, InFlight
  <1>2. ASSUME NEW r \in Requests, NEW l \in Labels, Goto(r, l), step[r] \notin Over \union {"new"}
        PROVE  IsFiniteSet(InFlight')
    <2>1. \A q \in Requests : q # r => step'[q] = step[q]
      BY <1>2 DEF Goto, TypeInv, TypeOK
    <2>2. r \in InFlight
      BY <1>2 DEF InFlight, Over
    <2>3. InFlight' \subseteq InFlight
      BY <2>1, <2>2 DEF InFlight
    <2>4. QED
      BY <2>3, FS_Subset DEF FiniteOK
  <1>3. ASSUME NEW r \in Requests PROVE IsFiniteSet(Stored(r))
    <2>1. CASE row[r] = NoRow
      BY <2>1, StoredInserts, FS_AddElement DEF FiniteOK
    <2>2. CASE row[r] # NoRow
      <3> DEFINE New1 == {y \in Stored(r) : y \notin rows}
      <3>1. \A x, y \in New1 : x = y
        <4>1. Stored(r) = {IF x.id = row[r] THEN [x EXCEPT !.object = r] ELSE x : x \in rows}
          BY <2>2 DEF Stored
        <4>2. \A x, y \in rows : x.id = y.id => x = y
          BY DEF Facts, RowsOK
        <4>3. QED
          BY <4>1, <4>2
      <3>2. Stored(r) \subseteq rows \union New1
        OBVIOUS
      <3>3. QED
        BY <3>1, <3>2, OneMoreOf DEF FiniteOK
    <2>3. QED
      BY <2>1, <2>2
  <1>4. ASSUME NEW r \in Requests, Begin(r) PROVE FiniteOK'
    <2>1. InFlight' \subseteq InFlight \union {r}
      BY <1>4 DEF Begin, Goto, InFlight, TypeInv, TypeOK
    <2>2. IsFiniteSet(InFlight')
      BY <2>1, OneMore DEF FiniteOK
    <2>3. QED
      BY <1>4, <2>2 DEF Begin, FiniteOK
  <1>5. ASSUME NEW r \in Requests, Select(r) PROVE FiniteOK'
    BY <1>2, <1>5 DEF Select, Labels, Over, FiniteOK
  <1>6. ASSUME NEW r \in Requests PROVE /\ IsFiniteSet(objects \ Removed(r))
                                        /\ IsFiniteSet(objects \union {New(r)})
                                        /\ IsFiniteSet(objects \ {New(r)})
    BY FS_Subset, FS_AddElement DEF FiniteOK
  <1>7. ASSUME NEW r \in Requests, RemoveStep(r) PROVE FiniteOK'
    BY <1>2, <1>6, <1>7 DEF RemoveStep, Labels, Over, FiniteOK
  <1>8. ASSUME NEW r \in Requests, PutStep(r) PROVE FiniteOK'
    BY <1>2, <1>6, <1>8 DEF PutStep, Labels, Over, FiniteOK
  <1>9. ASSUME NEW r \in Requests, CommitStep(r) PROVE FiniteOK'
    BY <1>2, <1>3, <1>9 DEF CommitStep, Labels, Over, FiniteOK
  <1>10. ASSUME NEW r \in Requests, CutStep(r) PROVE FiniteOK'
    BY <1>2, <1>10 DEF CutStep, Labels, Over, FiniteOK
  <1>11. ASSUME NEW r \in Requests, WithdrawStep(r) PROVE FiniteOK'
    <2>1. InFlight' \subseteq InFlight
      BY <1>11 DEF WithdrawStep, Goto, InFlight, TypeInv, TypeOK
    <2>2. IsFiniteSet(InFlight')
      BY <2>1, FS_Subset DEF FiniteOK
    <2>3. QED
      BY <1>6, <1>11, <2>2 DEF WithdrawStep, FiniteOK
  <1>12. step \in [Requests -> Labels]
    BY DEF TypeInv, TypeOK, Labels
  <1>13. QED
    BY <1>1, <1>4, <1>5, <1>7, <1>8, <1>9, <1>10, <1>11, <1>12, Steps

-----------------------------------------------------------------------------
(* Rows without an object *)

\* The object of the row is gone, or its request is about to remove it.
Bad == {x \in rows : New(x.object) \notin objects \/ step[x.object] = "withdraw"}

Replacing(r) == step[r] \in {"put", "commit"} /\ row[r] # NoRow

\* No request is replacing the row: each of these is due to a fault of its own.
Uncovered == {x \in Bad : \A r \in Requests : Replacing(r) => row[r] # x.id}
UncoveredOK == Cardinality(Uncovered) <= faults

\* A fault leaves one row more uncovered at most.
LEMMA UncoveredKept ==
    ASSUME TypeInv, TypeInv', RowsOK', FiniteOK, FiniteOK', UncoveredOK, NEW n,
           \/ Uncovered' \subseteq Uncovered /\ faults <= faults'
           \/ /\ \A x \in Uncovered' : x \in Uncovered \/ x.id = n
              /\ faults' = faults + 1
    PROVE  UncoveredOK'
  <1>1. IsFiniteSet(Uncovered) /\ IsFiniteSet(Uncovered')
    <2>1. Uncovered \subseteq rows /\ Uncovered' \subseteq rows'
      BY DEF Uncovered, Bad
    <2>2. QED
      BY <2>1, FS_Subset DEF FiniteOK
  <1>2. Cardinality(Uncovered) \in Nat /\ Cardinality(Uncovered') \in Nat
        /\ faults \in Nat /\ faults' \in Nat
    BY <1>1, FS_CardinalityType, FileAssumption DEF TypeInv, TypeOK
  <1>3. CASE Uncovered' \subseteq Uncovered /\ faults <= faults'
    <2>1. Cardinality(Uncovered') <= Cardinality(Uncovered)
      BY <1>1, <1>3, FS_Subset
    <2>2. QED
      BY <1>2, <1>3, <2>1 DEF UncoveredOK
  <1>4. CASE (\A x \in Uncovered' : x \in Uncovered \/ x.id = n) /\ faults' = faults + 1
    <2> DEFINE More == {x \in Uncovered' : x.id = n}
    <2>1. \A x, y \in More : x = y
      BY DEF Uncovered, Bad, RowsOK
    <2>2. Uncovered' \subseteq Uncovered \union More
      BY <1>4
    <2>3. Cardinality(Uncovered') <= Cardinality(Uncovered) + 1
      BY <1>1, <2>1, <2>2, OneMoreOf
    <2>4. QED
      BY <1>2, <1>4, <2>3 DEF UncoveredOK
  <1>5. QED
    BY <1>3, <1>4

\* A row that was there before, and that no request replaces now, was bad and
\* not replaced before.
LEMMA UncoveredBefore ==
    ASSUME TypeInv, Facts, NEW r \in Requests, UNCHANGED bucket, NEW x \in rows, x \in Uncovered',
           \A q \in Requests : q # r => step'[q] = step[q] /\ row'[q] = row[q],
           Replacing(r) => row[r] # x.id,
           x.object = r => step[r] = "withdraw",
           New(x.object) \in objects => New(x.object) \in objects' \/ step[x.object] = "withdraw"
    PROVE  x \in Uncovered
  <1>1. New(x.object)' = New(x.object)
    BY DEF New
  <1>2. x.object \in Requests
    BY DEF TypeInv, TypeOK, Row
  <1>3. x \in Bad
    BY <1>1, <1>2 DEF Uncovered, Bad
  <1>4. \A q \in Requests : q # r /\ Replacing(q) => row[q] # x.id
    BY DEF Uncovered, Replacing
  <1>5. QED
    BY <1>3, <1>4 DEF Uncovered

\* Every step keeps the rows without an object within the number of faults.
LEMMA UncoveredStep ==
    ASSUME TypeInv, TypeInv', Facts, Facts', FiniteOK, FiniteOK', UncoveredOK, [Next]_vars
    PROVE  UncoveredOK'
  <1>0. /\ rows \subseteq Row /\ faults \in Nat
        /\ \A x \in rows : x.object \in Requests /\ step[x.object] \in Over
        /\ \A r \in Requests : New(r).id = r
    BY FileAssumption DEF TypeInv, TypeOK, Row, Facts, RowsOK, New
  <1>1. CASE UNCHANGED vars
    BY <1>1 DEF vars, dataVars, UncoveredOK, Uncovered, Bad, Replacing, New
  <1>2. ASSUME NEW r \in Requests, NEW n,
               \/ (\A x \in Uncovered' : x \in Uncovered) /\ faults' = faults
               \/ (\A x \in Uncovered' : x \in Uncovered \/ x.id = n) /\ Faulty
        PROVE  UncoveredOK'
    <2>1. RowsOK'
      BY DEF Facts
    <2>2. CASE (\A x \in Uncovered' : x \in Uncovered) /\ faults' = faults
      <3>1. Uncovered' \subseteq Uncovered /\ faults <= faults'
        BY <1>0, <2>2
      <3>2. QED
        BY <2>1, <3>1, UncoveredKept
    <2>3. CASE (\A x \in Uncovered' : x \in Uncovered \/ x.id = n) /\ Faulty
      <3>1. faults' = faults + 1
        BY <2>3 DEF Faulty
      <3>2. QED
        BY <2>1, <2>3, <3>1, UncoveredKept
    <2>4. QED
      BY <1>2, <2>2, <2>3
  <1>3. ASSUME NEW r \in Requests, NEW l \in Labels, Goto(r, l)
        PROVE  step'[r] = l /\ \A q \in Requests : q # r => step'[q] = step[q]
    BY <1>3 DEF Goto, TypeInv, TypeOK
  <1>4. ASSUME NEW r \in Requests, Begin(r) PROVE UncoveredOK'
    <2>1. /\ step[r] = "new" /\ step'[r] = "select" /\ UNCHANGED <<bucket, rows, objects, row, faults>>
          /\ \A q \in Requests : q # r => step'[q] = step[q]
      BY <1>3, <1>4 DEF Begin, dataVars, Labels
    <2>2. \A x \in Uncovered' : x \in Uncovered
      BY <1>0, <2>1, UncoveredBefore DEF Uncovered, Bad, Replacing, Over
    <2>3. QED
      BY <1>2, <2>1, <2>2
  <1>5. ASSUME NEW r \in Requests, Select(r) PROVE UncoveredOK'
    <2>1. /\ step[r] = "select" /\ UNCHANGED <<bucket, rows, objects, faults>>
          /\ \A q \in Requests : q # r => row'[q] = row[q]
          /\ Goto(r, "put") \/ Goto(r, "remove")
      BY <1>5 DEF Select, dataVars, TypeInv, TypeOK
    <2>2. \A q \in Requests : q # r => step'[q] = step[q]
      BY <1>3, <2>1 DEF Labels
    <2>3. \A x \in Uncovered' : x \in Uncovered
      BY <1>0, <2>1, <2>2, UncoveredBefore DEF Uncovered, Bad, Replacing, Over
    <2>4. QED
      BY <1>2, <2>1, <2>3
  <1>6. ASSUME NEW r \in Requests, RemoveStep(r) PROVE UncoveredOK'
    <2>1. /\ step[r] = "remove" /\ UNCHANGED <<bucket, rows, row>>
          /\ objects' \in {objects, objects \ Removed(r)}
          /\ \/ step'[r] = "put" /\ faults' = faults
             \/ step'[r] \in {"put", "failed"} /\ Faulty
          /\ \A q \in Requests : q # r => step'[q] = step[q]
      BY <1>3, <1>6 DEF RemoveStep, Locals, dataVars, Labels
    <2>2. ASSUME NEW x \in Uncovered', x.id # row[r] PROVE x \in Uncovered
      <3>1. x \in rows
        BY <2>1 DEF Uncovered, Bad
      <3>2. New(x.object) \notin Removed(r)
        BY <1>0, <2>1, <2>2, <3>1, RemovedIsOld DEF Facts, LocalsOK, FoundOK
      <3>3. QED
        BY <1>0, <2>1, <3>1, <3>2, UncoveredBefore DEF Replacing, Over
    <2>3. ASSUME NEW x \in Uncovered', step'[r] = "put" PROVE x.id # row[r]
      BY <2>1, <2>3 DEF Uncovered, Replacing, Facts, LocalsOK
    <2>4. QED
      BY <1>2, <2>1, <2>2, <2>3
  <1>7. ASSUME NEW r \in Requests, PutStep(r) PROVE UncoveredOK'
    <2>1. /\ step[r] = "put" /\ UNCHANGED <<bucket, rows, row>>
          /\ objects' \in {objects, objects \union {New(r)}}
          /\ \/ step'[r] = "commit" /\ faults' = faults
             \/ step'[r] = "failed" /\ Faulty
          /\ \A q \in Requests : q # r => step'[q] = step[q]
      BY <1>3, <1>7 DEF PutStep, Locals, dataVars, Labels
    <2>2. ASSUME NEW x \in Uncovered', Replacing(r) => x.id # row[r] PROVE x \in Uncovered
      <3>1. x \in rows
        BY <2>1 DEF Uncovered, Bad
      <3>2. QED
        BY <1>0, <2>1, <2>2, <3>1, UncoveredBefore DEF Over
    <2>3. ASSUME NEW x \in Uncovered', step'[r] = "commit", Replacing(r) PROVE x.id # row[r]
      BY <2>1, <2>3 DEF Uncovered, Replacing
    <2>4. QED
      BY <1>2, <2>1, <2>2, <2>3
  <1>8. ASSUME NEW r \in Requests, CommitStep(r) PROVE UncoveredOK'
    <2> DEFINE id == IF row[r] = NoRow THEN r ELSE row[r]
    <2>1. /\ step[r] = "commit" /\ UNCHANGED <<bucket, row, objects>>
          /\ \/ step'[r] = "done" /\ rows' = Stored(r) /\ faults' = faults
             \/ step'[r] \in {"withdraw", "failed"} /\ rows' \in {rows, Stored(r)} /\ Faulty
          /\ \A q \in Requests : q # r => step'[q] = step[q]
      BY <1>3, <1>8 DEF CommitStep, Locals, dataVars, Labels
    <2>2. ASSUME NEW x \in Uncovered', x.id # id PROVE x \in Uncovered
      <3>1. x \in rows /\ x.object # r
        <4>1. CASE rows' = rows
          BY <1>0, <2>1, <4>1 DEF Uncovered, Bad, Over
        <4>2. CASE rows' = Stored(r)
          BY <2>1, <2>2, <4>2, CommittedRows DEF Uncovered, Bad
        <4>3. QED
          BY <2>1, <4>1, <4>2
      <3>2. Replacing(r) => row[r] # x.id
        BY <2>2 DEF Replacing
      <3>3. QED
        BY <2>1, <3>1, <3>2, UncoveredBefore
    <2>3. ASSUME NEW x \in Uncovered', step'[r] = "done", rows' = Stored(r) PROVE x.id # id
      <3> SUFFICES ASSUME x.id = id PROVE FALSE
        OBVIOUS
      <3>1. x.object = r
        BY <2>1, <2>3, CommittedRows DEF Uncovered, Bad
      <3>2. New(r)' = New(r) /\ New(r) \in objects
        BY <2>1 DEF New, Facts, LocalsOK
      <3>3. QED
        BY <2>1, <2>3, <3>1, <3>2 DEF Uncovered, Bad
    <2> HIDE DEF id
    <2>4. CASE step'[r] = "done" /\ rows' = Stored(r) /\ faults' = faults
      BY <1>2, <2>2, <2>3, <2>4
    <2>5. CASE Faulty
      BY <1>2, <2>2, <2>5
    <2>6. QED
      BY <2>1, <2>4, <2>5
  <1>9. ASSUME NEW r \in Requests, WithdrawStep(r) PROVE UncoveredOK'
    <2>1. /\ step[r] = "withdraw" /\ UNCHANGED <<bucket, rows, row>>
          /\ objects' \in {objects, objects \ {New(r)}} /\ (faults' = faults \/ Faulty)
          /\ \A q \in Requests : q # r => step'[q] = step[q]
      BY <1>3, <1>9 DEF WithdrawStep, Locals, dataVars, Labels
    <2>2. ASSUME NEW x \in Uncovered' PROVE x \in Uncovered
      <3>1. x \in rows
        BY <2>1 DEF Uncovered, Bad
      <3>2. x.object # r => New(x.object) # New(r)
        BY <1>0, <3>1
      <3>3. QED
        BY <1>0, <2>1, <3>1, <3>2, UncoveredBefore DEF Replacing
    <2>3. QED
      BY <1>2, <2>1, <2>2
  <1>10. ASSUME NEW r \in Requests, CutStep(r) PROVE UncoveredOK'
    <2>1. /\ step[r] = "select" /\ UNCHANGED <<bucket, rows, row, objects>> /\ Faulty
          /\ \A q \in Requests : q # r => step'[q] = step[q]
      BY <1>3, <1>10 DEF CutStep, Locals, dataVars, Labels
    <2>2. \A x \in Uncovered' : x \in Uncovered
      BY <1>0, <2>1, UncoveredBefore DEF Uncovered, Bad, Replacing, Over
    <2>3. QED
      BY <1>2, <2>1, <2>2
  <1>11. step \in [Requests -> Labels]
    BY DEF TypeInv, TypeOK, Labels
  <1>12. QED
    BY <1>1, <1>4, <1>5, <1>6, <1>7, <1>8, <1>9, <1>10, <1>11, Steps

\* The rows without an object are uncovered, or the row of some request in
\* flight.
LEMMA UncoveredBounds ==
    ASSUME TypeInv, Facts, FiniteOK, UncoveredOK
    PROVE  RowsWithoutObjectBound
  <1> DEFINE Gone == {x \in rows : New(x.object) \notin objects}
             Held == {r \in InFlight : row[r] # NoRow}
             Covered == {x \in Gone : \E r \in Held : row[r] = x.id}
             RowOf == [r \in Held |-> CHOOSE x \in rows : x.id = row[r]]
             Image == {RowOf[r] : r \in Held}
  <1>1. IsFiniteSet(Held) /\ IsFiniteSet(Uncovered)
    <2>1. Held \subseteq InFlight /\ Uncovered \subseteq rows
      BY DEF Uncovered, Bad
    <2>2. QED
      BY <2>1, FS_Subset DEF FiniteOK
  <1>2. IsFiniteSet(Image) /\ Cardinality(Image) <= Cardinality(Held)
    <2>1. RowOf \in Surjection(Held, Image)
      BY DEF Surjection
    <2>2. QED
      BY <1>1, <2>1, FS_Surjection
  <1>3. Covered \subseteq Image
    <2> SUFFICES ASSUME NEW x \in rows, NEW r \in Held, row[r] = x.id PROVE x \in Image
      OBVIOUS
    <2>1. \A y \in rows : y.id = row[r] => y = x
      BY DEF Facts, RowsOK
    <2>2. (CHOOSE y \in rows : y.id = row[r]) = x
      BY <2>1
    <2>3. RowOf[r] = x
      BY <2>2
    <2> HIDE DEF RowOf
    <2>4. QED
      BY <2>3
  <1>4. Gone \subseteq Uncovered \union Covered
    BY DEF Uncovered, Bad, Replacing, InFlight
  <1>5. IsFiniteSet(Covered) /\ Cardinality(Covered) <= Cardinality(Held)
    <2>1. IsFiniteSet(Covered) /\ Cardinality(Covered) <= Cardinality(Image)
      BY <1>2, <1>3, FS_Subset
    <2>2. /\ Cardinality(Covered) \in Nat /\ Cardinality(Image) \in Nat
          /\ Cardinality(Held) \in Nat
      BY <1>1, <1>2, <2>1, FS_CardinalityType
    <2> HIDE DEF Covered, Image, Held
    <2>3. QED
      BY <1>2, <2>1, <2>2
  <1> HIDE DEF Covered, Held, Gone
  <1>6. /\ IsFiniteSet(Uncovered \union Covered)
        /\ Cardinality(Uncovered \union Covered) <= Cardinality(Uncovered) + Cardinality(Covered)
    <2>1. IsFiniteSet(Uncovered \intersect Covered)
      BY <1>1, FS_Intersection
    <2>2. Cardinality(Uncovered \union Covered)
             = Cardinality(Uncovered) + Cardinality(Covered) - Cardinality(Uncovered \intersect Covered)
          /\ IsFiniteSet(Uncovered \union Covered)
      BY <1>1, <1>5, FS_Union
    <2>3. /\ Cardinality(Uncovered \intersect Covered) \in Nat /\ Cardinality(Uncovered) \in Nat
          /\ Cardinality(Covered) \in Nat
      BY <1>1, <1>5, <2>1, FS_CardinalityType
    <2>4. QED
      BY <2>2, <2>3
  <1>7. IsFiniteSet(Gone) /\ Cardinality(Gone) <= Cardinality(Uncovered \union Covered)
    BY <1>4, <1>6, FS_Subset
  <1>8. /\ Cardinality(Gone) \in Nat /\ Cardinality(Uncovered) \in Nat
        /\ Cardinality(Covered) \in Nat /\ Cardinality(Held) \in Nat
        /\ Cardinality(Uncovered \union Covered) \in Nat /\ faults \in Nat
    BY <1>1, <1>5, <1>6, <1>7, FS_CardinalityType, FileAssumption DEF TypeInv, TypeOK
  <1>9. Cardinality(Gone) <= faults + Cardinality(Held)
    BY <1>5, <1>6, <1>7, <1>8 DEF UncoveredOK
  <1>10. QED
    BY <1>9 DEF RowsWithoutObjectBound, Gone, Held

\* Initially nothing is uncovered and everything is finite.
LEMMA FiniteInit == Init => FiniteOK /\ UncoveredOK
  <1> SUFFICES ASSUME Init PROVE FiniteOK /\ UncoveredOK
    OBVIOUS
  <1>1. InFlight = {} /\ rows = {} /\ objects = {} /\ faults = 0 /\ Uncovered = {}
    BY DEF Init, InFlight, Uncovered, Bad
  <1>2. QED
    BY <1>1, FS_EmptySet DEF FiniteOK, UncoveredOK

\* What all counts rest on
FileInv == TypeInv /\ Facts /\ FiniteOK

\* The invariant of the first part of the module, in every reachable state.
LEMMA FileInvariant == Spec => []FileInv
  <1>1. Init => FileInv
    BY TypeInit, FactsInit, FiniteInit DEF FileInv
  <1>2. FileInv /\ [Next]_vars => FileInv'
    BY TypeStep, FactsStep, FiniteStep DEF FileInv
  <1>3. QED
    BY <1>1, <1>2, PTL DEF Spec

\* However many uploads overlap, and wherever they fail: a fault leaves one
\* row without its file at most, and a request in flight covers one.
THEOREM RowsKeepTheirFiles == Spec => []RowsWithoutObjectBound
  <1>1. Init => UncoveredOK
    BY FiniteInit
  <1>2. FileInv /\ FileInv' /\ UncoveredOK /\ [Next]_vars => UncoveredOK'
    BY UncoveredStep DEF FileInv
  <1>3. FileInv /\ UncoveredOK => RowsWithoutObjectBound
    BY UncoveredBounds DEF FileInv
  <1>4. QED
    BY <1>1, <1>2, <1>3, FileInvariant, PTL DEF Spec

-----------------------------------------------------------------------------
(* Objects without a row *)

Causes == faults + overlaps + moves

\* No row refers to the object, and no request is about to let one refer to it
\* or to withdraw it.
Left == {o \in objects \ Referenced : step[o.id] \notin {"commit", "withdraw"}}

\* The request has not removed the object that its commit will replace.
Leaving == {r \in Requests :
    /\ step[r] \in {"put", "commit"} /\ New(old[r]) \in objects
    /\ \E x \in rows : x.id = row[r] /\ x.object = old[r]}

\* The row has got another object since the request read it: the commit will
\* replace one that the request knows nothing of.
Missed == {r \in Requests :
    step[r] \in {"remove", "put", "commit"} /\ \E x \in rows : x.id = row[r] /\ x.object # old[r]}

Working == {r \in Requests : step[r] \in {"select", "remove", "put", "commit"}}

\* The objects that are left, or will be, each have a cause of their own. Of
\* the requests at work one needs none, unless a row has changed under one of
\* them: then two overlap, and the overlap is still unused.
Accounted(left, leaving, missed, working, causes) ==
    /\ Cardinality(left) + Cardinality(leaving) <= causes
    /\ Cardinality(left) + Cardinality(leaving) + Cardinality(working) <= causes + 1
    /\ missed # {} => Cardinality(left) + Cardinality(leaving) + Cardinality(working) <= causes

LeftOK == Accounted(Left, Leaving, Missed, Working, Causes)

\* An object is in the bucket of the request that stored it.
StoredOK == \A o \in objects : o = New(o.id)

\* A set that has one member less, at least
LEMMA OneLess ==
    ASSUME NEW S, IsFiniteSet(S), NEW T, NEW x \in S, T \subseteq S \ {x}
    PROVE  Cardinality(T) + 1 <= Cardinality(S)
  <1>1. Cardinality(S) \in Nat
    BY FS_CardinalityType
  <1>2. IsFiniteSet(S \ {x}) /\ Cardinality(S \ {x}) = Cardinality(S) - 1
    BY FS_RemoveElement
  <1>3. IsFiniteSet(T) /\ Cardinality(T) <= Cardinality(S \ {x})
    BY <1>2, FS_Subset
  <1>4. Cardinality(T) \in Nat
    BY <1>3, FS_CardinalityType
  <1>5. QED
    BY <1>1, <1>2, <1>3, <1>4

\* The ways in which a step changes the account
LEMMA AccountKept ==
    ASSUME NEW l, NEW l2, NEW d, NEW d2, NEW m, NEW m2, NEW w, NEW w2, NEW c \in Nat, NEW c2 \in Nat,
           IsFiniteSet(l), IsFiniteSet(d), IsFiniteSet(w),
           IsFiniteSet(l2), IsFiniteSet(d2), IsFiniteSet(w2), NEW u,
           Accounted(l, d, m, w, c),
           \/ l2 \subseteq l /\ d2 \subseteq d /\ m2 \subseteq m /\ w2 \subseteq w /\ c2 >= c
           \/ l2 \subseteq l \union {u} /\ d2 \subseteq d /\ m2 \subseteq m /\ w2 \subseteq w /\ c2 = c + 1
           \/ l2 \subseteq l /\ d2 \subseteq d \union {u} /\ m2 \subseteq m /\ w2 \subseteq w /\ c2 = c + 1
           \/ l2 \subseteq l /\ d2 \subseteq d /\ m2 \subseteq m /\ w2 \subseteq w \union {u} /\ c2 = c + 1
           \/ l2 \subseteq l /\ d2 = {} /\ m2 = {} /\ w2 \subseteq {u} /\ c2 = c
           \/ /\ c2 >= c /\ \E r \in w : w2 \subseteq w \ {r}
              /\ \/ l2 \subseteq l /\ d2 \subseteq d
                 \/ l2 \subseteq l \union {u} /\ \E r \in d : d2 \subseteq d \ {r}
                 \/ l2 \subseteq l \union {u} /\ d2 \subseteq d /\ m # {}
    PROVE  Accounted(l2, d2, m2, w2, c2)
  <1>1. /\ Cardinality(l) \in Nat /\ Cardinality(d) \in Nat /\ Cardinality(w) \in Nat
        /\ Cardinality(l2) \in Nat /\ Cardinality(d2) \in Nat /\ Cardinality(w2) \in Nat
    BY FS_CardinalityType
  <1>2. /\ l2 \subseteq l => Cardinality(l2) <= Cardinality(l)
        /\ d2 \subseteq d => Cardinality(d2) <= Cardinality(d)
        /\ w2 \subseteq w => Cardinality(w2) <= Cardinality(w)
    BY FS_Subset
  <1>3. /\ l2 \subseteq l \union {u} => Cardinality(l2) <= Cardinality(l) + 1
        /\ d2 \subseteq d \union {u} => Cardinality(d2) <= Cardinality(d) + 1
        /\ w2 \subseteq w \union {u} => Cardinality(w2) <= Cardinality(w) + 1
    BY OneMore
  <1>4. /\ (\E r \in w : w2 \subseteq w \ {r}) => Cardinality(w2) + 1 <= Cardinality(w)
        /\ (\E r \in d : d2 \subseteq d \ {r}) => Cardinality(d2) + 1 <= Cardinality(d)
    BY OneLess
  <1>5. w2 \subseteq {u} => Cardinality(w2) <= 1
    <2>1. IsFiniteSet({}) /\ Cardinality({}) = 0
      BY FS_EmptySet
    <2>2. w2 \subseteq {u} => Cardinality(w2) <= Cardinality({}) + 1
      BY <2>1, OneMore
    <2>3. QED
      BY <2>1, <2>2
  <1>6. d2 = {} => Cardinality(d2) = 0
    BY FS_EmptySet
  <1>7. CASE l2 \subseteq l /\ d2 \subseteq d /\ m2 \subseteq m /\ w2 \subseteq w /\ c2 >= c
    BY <1>1, <1>2, <1>7 DEF Accounted
  <1>8. CASE l2 \subseteq l \union {u} /\ d2 \subseteq d /\ m2 \subseteq m /\ w2 \subseteq w /\ c2 = c + 1
    BY <1>1, <1>2, <1>3, <1>8 DEF Accounted
  <1>9. CASE l2 \subseteq l /\ d2 \subseteq d \union {u} /\ m2 \subseteq m /\ w2 \subseteq w /\ c2 = c + 1
    BY <1>1, <1>2, <1>3, <1>9 DEF Accounted
  <1>10. CASE l2 \subseteq l /\ d2 \subseteq d /\ m2 \subseteq m /\ w2 \subseteq w \union {u} /\ c2 = c + 1
    BY <1>1, <1>2, <1>3, <1>10 DEF Accounted
  <1>11. CASE l2 \subseteq l /\ d2 = {} /\ m2 = {} /\ w2 \subseteq {u} /\ c2 = c
    BY <1>1, <1>2, <1>5, <1>6, <1>11 DEF Accounted
  <1>12. CASE c2 >= c /\ \E r \in w : w2 \subseteq w \ {r}
    <2>1. Cardinality(w2) + 1 <= Cardinality(w)
      BY <1>4, <1>12
    <2>2. CASE l2 \subseteq l /\ d2 \subseteq d
      BY <1>1, <1>2, <1>12, <2>1, <2>2 DEF Accounted
    <2>3. CASE l2 \subseteq l \union {u} /\ \E r \in d : d2 \subseteq d \ {r}
      BY <1>1, <1>3, <1>4, <1>12, <2>1, <2>3 DEF Accounted
    <2>4. CASE l2 \subseteq l \union {u} /\ d2 \subseteq d /\ m # {}
      BY <1>1, <1>2, <1>3, <1>12, <2>1, <2>4 DEF Accounted
    <2>5. QED
      BY <1>8, <1>9, <1>10, <1>11, <2>2, <2>3, <2>4
  <1>13. QED
    BY <1>7, <1>8, <1>9, <1>10, <1>11, <1>12

\* Every step keeps the objects and the rows related as StoredOK says.
LEMMA StoredStep == TypeInv /\ StoredOK /\ [Next]_vars => StoredOK'
  <1> SUFFICES ASSUME TypeInv, StoredOK, [Next]_vars PROVE StoredOK'
    OBVIOUS
  <1>1. CASE UNCHANGED vars
    BY <1>1 DEF vars, dataVars, StoredOK, New
  <1>2. ASSUME NEW r \in Requests, UNCHANGED bucket,
               objects' \in {objects, objects \ Removed(r), objects \union {New(r)},
                             objects \ {New(r)}}
        PROVE  StoredOK'
    BY <1>2 DEF StoredOK, New
  <1>3. step \in [Requests -> Labels]
    BY DEF TypeInv, TypeOK, Labels
  <1>4. ASSUME NEW r \in Requests, Begin(r) \/ Select(r) \/ CommitStep(r) \/ CutStep(r)
        PROVE  UNCHANGED <<bucket, objects>>
    BY <1>4 DEF Begin, Select, CommitStep, CutStep, Locals, dataVars
  <1>5. ASSUME NEW r \in Requests, RemoveStep(r) \/ PutStep(r) \/ WithdrawStep(r)
        PROVE  /\ UNCHANGED bucket
               /\ objects' \in {objects, objects \ Removed(r), objects \union {New(r)},
                                objects \ {New(r)}}
    BY <1>5 DEF RemoveStep, PutStep, WithdrawStep, Locals, dataVars
  <1>6. QED
    BY <1>1, <1>2, <1>3, <1>4, <1>5, Steps

\* What is left, after a step that changes no row: its own object at most.
LEMMA LeftFrom ==
    ASSUME StoredOK', NEW r \in Requests, UNCHANGED <<bucket, rows>>,
           \A q \in Requests : q # r => step'[q] = step[q], TypeInv',
           objects' \subseteq objects \union {New(r)}
    PROVE  /\ Left' \subseteq Left \union {New(r)}
           /\ \/ New(r) \notin objects' \/ step'[r] \in {"commit", "withdraw"}
              \/ New(r) \in objects /\ step[r] \notin {"commit", "withdraw"}
              => Left' \subseteq Left
  <1>1. \A q : New(q)' = New(q)
    BY DEF New
  <1>2. Referenced' = Referenced
    BY <1>1 DEF Referenced
  <1>3. \A o \in objects' : o.id \in Requests /\ o = New(o.id)
    BY <1>1 DEF TypeInv, TypeOK, StoredOK
  <1>4. ASSUME NEW o \in Left', o.id # r PROVE o \in Left
    BY <1>2, <1>3, <1>4 DEF Left, New
  <1>5. ASSUME NEW o \in Left', o.id = r
        PROVE  o = New(r) /\ o \in objects' \ Referenced /\ step'[r] \notin {"commit", "withdraw"}
    BY <1>2, <1>3, <1>5 DEF Left
  <1>6. New(r) \in objects /\ New(r) \notin Referenced /\ step[r] \notin {"commit", "withdraw"}
            => New(r) \in Left
    BY DEF Left, New
  <1>7. QED
    BY <1>4, <1>5, <1>6

\* What the other requests know of the objects and the rows does not change
\* with it.
LEMMA OthersLeave ==
    ASSUME TypeInv, Facts, NEW r \in Requests, UNCHANGED <<bucket, rows, row, old>>,
           \A q \in Requests : q # r => step'[q] = step[q], step[r] \notin Over,
           objects' \subseteq objects \union {New(r)}
    PROVE  /\ Leaving' \subseteq Leaving \union {r} /\ Missed' \subseteq Missed \union {r}
           /\ Working' \subseteq Working \union {r}
           /\ step'[r] \notin {"put", "commit"} \/ step[r] \in {"put", "commit"} => Leaving' \subseteq Leaving
           /\ step'[r] \notin {"remove", "put", "commit"} \/ step[r] \in {"remove", "put", "commit"}
                  => Missed' \subseteq Missed
           /\ step'[r] \notin {"select", "remove", "put", "commit"}
                 \/ step[r] \in {"select", "remove", "put", "commit"} => Working' \subseteq Working
  <1>1. \A q : New(q)' = New(q)
    BY DEF New
  <1>2. ASSUME NEW q \in Requests, New(old[q]) \in objects', \E x \in rows : x.id = row[q]
        PROVE  New(old[q]) \in objects
    <2>1. row[q] # NoRow
      BY <1>2, FileAssumption DEF TypeInv, TypeOK, Row
    <2>2. old[q] # r
      BY <2>1 DEF Facts, LocalsOK, FoundOK
    <2>3. New(old[q]) # New(r)
      BY <2>2 DEF New
    <2>4. QED
      BY <1>2, <2>3
  <1>3. \A q \in Requests : q \in Leaving' /\ (q # r \/ step[r] \in {"put", "commit"}) => q \in Leaving
    BY <1>1, <1>2 DEF Leaving
  <1>4. \A q \in Requests : q \in Missed' /\ (q # r \/ step[r] \in {"remove", "put", "commit"}) => q \in Missed
    BY DEF Missed
  <1>5. \A q \in Requests : q \in Working' /\ (q # r \/ step[r] \in {"select", "remove", "put", "commit"})
                            => q \in Working
    BY DEF Working
  <1>6. /\ Leaving' \subseteq Requests /\ Missed' \subseteq Requests /\ Working' \subseteq Requests
        /\ r \in Leaving' => step'[r] \in {"put", "commit"}
        /\ r \in Missed' => step'[r] \in {"remove", "put", "commit"}
        /\ r \in Working' => step'[r] \in {"select", "remove", "put", "commit"}
    BY DEF Leaving, Missed, Working
  <1>7. QED
    BY <1>3, <1>4, <1>5, <1>6

\* The account after a commit: the row may have had an object that nothing
\* refers to any more, and the request is off work.
LEMMA CommitLeaves ==
    ASSUME TypeInv, TypeInv', Facts, Facts', StoredOK, NEW r \in Requests,
           step[r] = "commit", UNCHANGED <<bucket, row, old, objects>>, rows' = Stored(r),
           \A q \in Requests : q # r => step'[q] = step[q],
           step'[r] \in {"done", "withdraw", "failed"}
    PROVE  /\ \E q \in Working : Working' \subseteq Working \ {q}
           /\ \/ Left' \subseteq Left /\ Leaving' \subseteq Leaving
              \/ \E u : Left' \subseteq Left \union {u} /\ \E q \in Leaving : Leaving' \subseteq Leaving \ {q}
              \/ \E u : Left' \subseteq Left \union {u} /\ Leaving' \subseteq Leaving /\ Missed # {}
  <1> DEFINE id == IF row[r] = NoRow THEN r ELSE row[r]
             Was == {x \in rows : x.id = id}
  <1>0. \A q : New(q)' = New(q)
    BY DEF New
  <1>1. r \in Working /\ Working' \subseteq Working \ {r}
    BY DEF Working
  <1>2. /\ \E y \in rows' : y.id = id
        /\ \A y \in rows' : y.id # id => y \in rows /\ y.object # r
        /\ \A y \in rows' : y.id = id => y.object = r
        /\ \A x \in rows : x.id # id => x \in rows'
        /\ row[r] = NoRow => \A x \in rows : x.id # id
    BY CommittedRows
  <1>3. \A o \in objects : o.id \in Requests /\ o = New(o.id)
    BY DEF TypeInv, TypeOK, StoredOK
  <1>4. New(r) \in Referenced'
    BY <1>0, <1>2 DEF Referenced
  <1> HIDE DEF id
  <1>5. ASSUME NEW o \in Left' PROVE o \in Left \/ \E x \in Was : o = New(x.object)
    <2>1. o.id # r
      BY <1>3, <1>4, <1>5 DEF Left
    <2>2. o \in objects /\ step[o.id] \notin {"commit", "withdraw"} /\ o \notin Referenced'
      BY <1>3, <1>5, <2>1 DEF Left
    <2>3. CASE o \in Referenced
      <3>1. PICK x \in rows : o = New(x.object)
        BY <2>3 DEF Referenced
      <3>2. x.id = id
        BY <1>0, <1>2, <2>2, <3>1 DEF Referenced
      <3>3. QED
        BY <3>1, <3>2
    <2>4. QED
      BY <2>2, <2>3 DEF Left
  <1>6. \A q \in Requests : row[q] # NoRow =>
            /\ old[q] # r
            /\ row[r] = NoRow => row[q] # id
    <2> SUFFICES ASSUME NEW q \in Requests, row[q] # NoRow
                 PROVE  old[q] # r /\ (row[r] = NoRow => row[q] # id)
      OBVIOUS
    <2>1. step[old[q]] \in Over /\ \E x \in rows : x.id = row[q]
      BY DEF Facts, LocalsOK, FoundOK
    <2>2. QED
      BY <1>2, <2>1 DEF Over
  <1>7. ASSUME NEW q \in Leaving' PROVE q \in Leaving /\ q # r /\ row[q] # id
    <2>1. q \in Requests /\ q # r /\ step'[q] = step[q]
      BY <1>7 DEF Leaving
    <2>2. PICK x \in rows' : x.id = row[q] /\ x.object = old[q]
      BY <1>7 DEF Leaving
    <2>3. row[q] # NoRow
      BY <2>2, FileAssumption DEF TypeInv, TypeOK, Row
    <2>4. x.id # id /\ x \in rows
      BY <1>2, <1>6, <2>1, <2>2, <2>3
    <2>5. QED
      BY <1>0, <1>7, <2>1, <2>2, <2>4 DEF Leaving
  <1>8. CASE Was = {}
    BY <1>1, <1>5, <1>7, <1>8
  <1>9. ASSUME NEW x \in Was PROVE
              \/ Left' \subseteq Left
              \/ \E u : Left' \subseteq Left \union {u} /\ \E q \in Leaving : Leaving' \subseteq Leaving \ {q}
              \/ \E u : Left' \subseteq Left \union {u} /\ Missed # {}
    <2>1. \A y \in Was : y = x
      BY <1>9 DEF Facts, RowsOK
    <2>2. Left' \subseteq Left \union {New(x.object)}
      BY <1>5, <2>1
    <2>3. x \in rows /\ x.id = row[r]
      BY <1>2, <1>9 DEF id
    <2>4. CASE New(x.object) \notin objects
      <3>1. New(x.object) \notin Left'
        BY <2>4 DEF Left
      <3>2. QED
        BY <2>2, <3>1
    <2>5. CASE New(x.object) \in objects /\ x.object = old[r]
      <3>1. r \in Leaving
        BY <2>3, <2>5 DEF Leaving
      <3>2. Leaving' \subseteq Leaving \ {r}
        BY <1>7
      <3>3. QED
        BY <2>2, <3>1, <3>2
    <2>6. CASE x.object # old[r]
      <3>1. r \in Missed
        BY <2>3, <2>6 DEF Missed
      <3>2. QED
        BY <2>2, <3>1
    <2>7. QED
      BY <2>4, <2>5, <2>6
  <1>10. Leaving' \subseteq Leaving
    BY <1>7
  <1>11. QED
    BY <1>1, <1>8, <1>9, <1>10

\* Every step gives each object it leaves behind a fault or a request that accounts for it.
LEMMA LeftStep ==
    ASSUME TypeInv, TypeInv', Facts, Facts', FiniteOK, FiniteOK', StoredOK, StoredOK', LeftOK,
           [Next]_vars
    PROVE  LeftOK'
  <1>0. /\ IsFiniteSet(Left) /\ IsFiniteSet(Leaving) /\ IsFiniteSet(Working)
        /\ Leaving \subseteq InFlight /\ Missed \subseteq InFlight /\ Working \subseteq InFlight
        /\ Causes \in Nat
    <2>1. /\ Left \subseteq objects /\ Leaving \subseteq InFlight /\ Working \subseteq InFlight
          /\ Missed \subseteq InFlight
      BY DEF Left, Leaving, Working, Missed, InFlight
    <2>2. QED
      BY <2>1, FS_Subset, FileAssumption DEF FiniteOK, TypeInv, TypeOK, Causes
  <1>1. /\ IsFiniteSet(Left') /\ IsFiniteSet(Leaving') /\ IsFiniteSet(Working') /\ Causes' \in Nat
    <2>1. Left' \subseteq objects' /\ Leaving' \subseteq InFlight' /\ Working' \subseteq InFlight'
      BY DEF Left, Leaving, Working, InFlight
    <2>2. IsFiniteSet(objects') /\ IsFiniteSet(InFlight')
      BY DEF FiniteOK
    <2>3. IsFiniteSet(Left') /\ IsFiniteSet(Leaving') /\ IsFiniteSet(Working')
      BY <2>1, <2>2, FS_Subset
    <2>4. Causes' \in Nat
      <3>1. overlaps' \in Nat /\ moves' \in Nat /\ faults' \in 0 .. MaxFaults
        BY DEF TypeInv, TypeOK
      <3>2. faults' \in Nat
        BY <3>1, FileAssumption
      <3>3. faults' + overlaps' + moves' \in Nat
        <4>1. \A a, b, c \in Nat : a + b + c \in Nat
          OBVIOUS
        <4>2. QED
          BY <3>1, <3>2, <4>1
      <3>4. QED
        BY <3>3 DEF Causes
    <2>5. QED
      BY <2>3, <2>4
  <1> DEFINE Step(u) ==
        \/ Left' \subseteq Left /\ Leaving' \subseteq Leaving /\ Missed' \subseteq Missed
              /\ Working' \subseteq Working /\ Causes' >= Causes
        \/ Left' \subseteq Left \union {u} /\ Leaving' \subseteq Leaving /\ Missed' \subseteq Missed
              /\ Working' \subseteq Working /\ Causes' = Causes + 1
        \/ Left' \subseteq Left /\ Leaving' \subseteq Leaving \union {u} /\ Missed' \subseteq Missed
              /\ Working' \subseteq Working /\ Causes' = Causes + 1
        \/ Left' \subseteq Left /\ Leaving' \subseteq Leaving /\ Missed' \subseteq Missed
              /\ Working' \subseteq Working \union {u} /\ Causes' = Causes + 1
        \/ Left' \subseteq Left /\ Leaving' = {} /\ Missed' = {} /\ Working' \subseteq {u}
              /\ Causes' = Causes
        \/ /\ Causes' >= Causes /\ \E r \in Working : Working' \subseteq Working \ {r}
           /\ \/ Left' \subseteq Left /\ Leaving' \subseteq Leaving
              \/ Left' \subseteq Left \union {u} /\ \E r \in Leaving : Leaving' \subseteq Leaving \ {r}
              \/ Left' \subseteq Left \union {u} /\ Leaving' \subseteq Leaving /\ Missed # {}
  <1>2. ASSUME NEW u, Step(u) PROVE LeftOK'
    BY <1>0, <1>1, <1>2, AccountKept DEF LeftOK
  <1> HIDE DEF Step
  <1>3. Faulty /\ UNCHANGED overlaps => Causes' = Causes + 1
    BY DEF Faulty, Causes, TypeInv, TypeOK
  <1>4. UNCHANGED <<faults, overlaps, moves>> => Causes' = Causes
    BY DEF Causes
  <1>5. ASSUME NEW r \in Requests, NEW l \in Labels, Goto(r, l)
        PROVE  step'[r] = l /\ \A q \in Requests : q # r => step'[q] = step[q]
    BY <1>5 DEF Goto, TypeInv, TypeOK
  <1>6. CASE UNCHANGED vars
    <2>1. UNCHANGED <<Left, Leaving, Missed, Working, Causes>>
      BY <1>6 DEF vars, dataVars, Left, Leaving, Missed, Working, Causes, Referenced, New
    <2>2. QED
      BY <2>1 DEF LeftOK
  <1>7. ASSUME NEW r \in Requests, Begin(r) PROVE LeftOK'
    <2>1. /\ step[r] = "new" /\ step'[r] = "select" /\ \A q \in Requests : q # r => step'[q] = step[q]
          /\ UNCHANGED <<bucket, rows, row, old, objects, moves, faults>>
          /\ overlaps' = IF InFlight = {} THEN overlaps ELSE overlaps + 1
      BY <1>5, <1>7 DEF Begin, dataVars, Labels
    <2>2. /\ Left' \subseteq Left /\ Leaving' \subseteq Leaving /\ Missed' \subseteq Missed
          /\ Working' \subseteq Working \union {r}
      BY <2>1, LeftFrom, OthersLeave DEF Over
    <2>3. CASE InFlight = {}
      <3>1. Leaving' = {} /\ Missed' = {} /\ Working' \subseteq {r}
        BY <1>0, <2>2, <2>3
      <3>2. Step(r)
        BY <1>4, <2>1, <2>2, <2>3, <3>1 DEF Step
      <3>3. QED
        BY <1>2, <3>2
    <2>4. CASE InFlight # {}
      <3>1. Causes' = Causes + 1
        BY <2>1, <2>4 DEF Causes, TypeInv, TypeOK
      <3>2. Step(r)
        BY <2>2, <3>1 DEF Step
      <3>3. QED
        BY <1>2, <3>2
    <2>5. QED
      BY <2>3, <2>4
  <1>8. ASSUME NEW r \in Requests, Select(r) PROVE LeftOK'
    <2>1. /\ step[r] = "select" /\ UNCHANGED <<bucket, rows, objects, overlaps, moves, faults>>
          /\ \A q \in Requests : q # r => row'[q] = row[q] /\ old'[q] = old[q] /\ step'[q] = step[q]
          /\ \/ step'[r] = "put" /\ row'[r] = row[r]
             \/ step'[r] = "remove" /\ \E x \in rows : row'[r] = x.id /\ old'[r] = x.object
      <3>1. CASE Goto(r, "put") /\ UNCHANGED <<row, old>>
        BY <1>5, <1>8, <3>1 DEF Select, dataVars, Labels
      <3>2. ASSUME NEW x \in Found(r), row' = [row EXCEPT ![r] = x.id],
                   old' = [old EXCEPT ![r] = x.object], Goto(r, "remove")
            PROVE  /\ \A q \in Requests : q # r => row'[q] = row[q] /\ old'[q] = old[q]
                                                   /\ step'[q] = step[q]
                   /\ step'[r] = "remove" /\ x \in rows /\ row'[r] = x.id /\ old'[r] = x.object
        BY <1>5, <3>2 DEF Labels, Found, OfField, TypeInv, TypeOK
      <3>3. QED
        BY <1>8, <3>1, <3>2 DEF Select, dataVars
    <2>2. Left' \subseteq Left
      BY <2>1, LeftFrom
    <2>3. \A q : New(q)' = New(q)
      BY <2>1 DEF New
    <2>4. \A x, y \in rows : x.id = y.id => x = y
      BY DEF Facts, RowsOK
    <2>5. row[r] = NoRow /\ \A x \in rows : x.id # NoRow
      BY <2>1, FileAssumption DEF Facts, LocalsOK, TypeInv, TypeOK, Row
    <2>6. Leaving' \subseteq Leaving
      BY <2>1, <2>3, <2>5 DEF Leaving
    <2>7. Missed' \subseteq Missed
      BY <2>1, <2>4, <2>5 DEF Missed
    <2>8. Working' \subseteq Working
      BY <2>1 DEF Working
    <2>9. Step(r)
      BY <1>0, <1>4, <2>1, <2>2, <2>6, <2>7, <2>8 DEF Step
    <2>10. QED
      BY <1>2, <2>9
  <1>9. ASSUME NEW r \in Requests, RemoveStep(r) PROVE LeftOK'
    <2>1. /\ step[r] = "remove" /\ UNCHANGED <<bucket, rows, row, old, overlaps>>
          /\ objects' \in {objects, objects \ Removed(r)} /\ step'[r] \in {"put", "failed"}
          /\ \A q \in Requests : q # r => step'[q] = step[q]
      BY <1>5, <1>9 DEF RemoveStep, Locals, dataVars, Labels
    <2>2. /\ Left' \subseteq Left /\ Leaving' \subseteq Leaving \union {r} /\ Missed' \subseteq Missed
          /\ Working' \subseteq Working
      BY <2>1, LeftFrom, OthersLeave DEF Over
    <2>3. CASE Causes' = Causes + 1
      <3>1. Step(r)
        BY <2>2, <2>3 DEF Step
      <3>2. QED
        BY <1>2, <3>1
    <2>4. CASE objects' = objects \ Removed(r) /\ bucket[old[r]] = bucket[r] /\ UNCHANGED <<faults, moves>>
      <3>1. r \notin Leaving'
        <4>1. New(old[r]) \notin objects'
          BY <2>4 DEF Removed, New
        <4>2. QED
          BY <2>1, <4>1 DEF Leaving, New
      <3>2. Step(r)
        BY <1>0, <1>4, <2>1, <2>2, <2>4, <3>1 DEF Step
      <3>3. QED
        BY <1>2, <3>2
    <2>5. moves' = moves + 1 /\ faults' = faults => Causes' = Causes + 1
      BY <2>1 DEF Causes, TypeInv, TypeOK
    <2>6. QED
      BY <1>3, <1>9, <2>1, <2>3, <2>4, <2>5 DEF RemoveStep
  <1>10. ASSUME NEW r \in Requests, PutStep(r) PROVE LeftOK'
    <2>1. /\ step[r] = "put" /\ UNCHANGED <<bucket, rows, row, old, overlaps>>
          /\ objects' \in {objects, objects \union {New(r)}}
          /\ \/ step'[r] = "commit" /\ UNCHANGED <<faults, moves>>
             \/ step'[r] = "failed" /\ Faulty
          /\ \A q \in Requests : q # r => step'[q] = step[q]
      BY <1>5, <1>10 DEF PutStep, Locals, dataVars, Labels
    <2>2. /\ Left' \subseteq Left \union {New(r)} /\ Leaving' \subseteq Leaving /\ Missed' \subseteq Missed
          /\ Working' \subseteq Working
          /\ step'[r] = "commit" => Left' \subseteq Left
      BY <2>1, LeftFrom, OthersLeave DEF Over
    <2>3. Step(New(r))
      BY <1>0, <1>3, <1>4, <2>1, <2>2 DEF Step
    <2>4. QED
      BY <1>2, <2>3
  <1>11. ASSUME NEW r \in Requests, CommitStep(r) PROVE LeftOK'
    <2>1. /\ step[r] = "commit" /\ UNCHANGED <<bucket, row, old, objects, overlaps>>
          /\ \/ step'[r] = "done" /\ rows' = Stored(r) /\ UNCHANGED <<faults, moves>>
             \/ step'[r] \in {"withdraw", "failed"} /\ rows' \in {rows, Stored(r)} /\ Faulty
          /\ \A q \in Requests : q # r => step'[q] = step[q]
      BY <1>5, <1>11 DEF CommitStep, Locals, dataVars, Labels
    <2>2. Causes' >= Causes
      BY <1>0, <1>3, <1>4, <2>1
    <2>3. CASE rows' = Stored(r)
      <3>1. /\ \E q \in Working : Working' \subseteq Working \ {q}
            /\ \/ Left' \subseteq Left /\ Leaving' \subseteq Leaving
               \/ \E u : Left' \subseteq Left \union {u} /\ \E q \in Leaving : Leaving' \subseteq Leaving \ {q}
               \/ \E u : Left' \subseteq Left \union {u} /\ Leaving' \subseteq Leaving /\ Missed # {}
        BY <2>1, <2>3, CommitLeaves
      <3>2. \E u : Step(u)
        BY <2>2, <3>1 DEF Step
      <3>3. QED
        BY <1>2, <3>2
    <2>4. CASE rows' = rows /\ Faulty
      <3>1. /\ Left' \subseteq Left \union {New(r)} /\ Leaving' \subseteq Leaving
            /\ Missed' \subseteq Missed /\ Working' \subseteq Working
        BY <2>1, <2>4, LeftFrom, OthersLeave DEF Over
      <3>2. Step(New(r))
        BY <1>3, <2>1, <2>4, <3>1 DEF Step
      <3>3. QED
        BY <1>2, <3>2
    <2>5. QED
      BY <2>1, <2>3, <2>4
  <1>12. ASSUME NEW r \in Requests, WithdrawStep(r) PROVE LeftOK'
    <2>1. /\ step[r] = "withdraw" /\ step'[r] = "failed" /\ UNCHANGED <<bucket, rows, row, old, overlaps>>
          /\ \/ objects' = objects \ {New(r)} /\ UNCHANGED <<faults, moves>>
             \/ objects' \in {objects, objects \ {New(r)}} /\ Faulty
          /\ \A q \in Requests : q # r => step'[q] = step[q]
      BY <1>5, <1>12 DEF WithdrawStep, Locals, dataVars, Labels
    <2>2. /\ Left' \subseteq Left \union {New(r)} /\ (New(r) \notin objects' => Left' \subseteq Left)
      BY <2>1, LeftFrom
    <2>3. \A q : New(q)' = New(q)
      BY <2>1 DEF New
    <2>4. Leaving' \subseteq Leaving /\ Missed' \subseteq Missed /\ Working' \subseteq Working
      BY <2>1, <2>3 DEF Leaving, Missed, Working
    <2>5. Step(New(r))
      BY <1>0, <1>3, <1>4, <2>1, <2>2, <2>4 DEF Step
    <2>6. QED
      BY <1>2, <2>5
  <1>13. ASSUME NEW r \in Requests, CutStep(r) PROVE LeftOK'
    <2>1. /\ step[r] = "select" /\ step'[r] = "failed" /\ Faulty
          /\ UNCHANGED <<bucket, rows, row, old, objects, overlaps>>
          /\ \A q \in Requests : q # r => step'[q] = step[q]
      BY <1>5, <1>13 DEF CutStep, Locals, dataVars, Labels
    <2>2. /\ Left' \subseteq Left /\ Leaving' \subseteq Leaving /\ Missed' \subseteq Missed
          /\ Working' \subseteq Working
      BY <2>1, LeftFrom, OthersLeave DEF Over
    <2>3. Step(r)
      BY <1>3, <2>1, <2>2 DEF Step
    <2>4. QED
      BY <1>2, <2>3
  <1>14. step \in [Requests -> Labels]
    BY DEF TypeInv, TypeOK, Labels
  <1>15. QED
    BY <1>6, <1>7, <1>8, <1>9, <1>10, <1>11, <1>12, <1>13, <1>14, Steps

\* An object without a row is left, or in the hands of a request in flight.
LEMMA LeftBounds ==
    ASSUME FileInv, StoredOK, LeftOK
    PROVE  OrphansBound
  <1> DEFINE Orphans == objects \ Referenced
             Held == {r \in InFlight : step[r] \in {"commit", "withdraw"}}
             NewOf == [r \in Held |-> New(r)]
             Image == {NewOf[r] : r \in Held}
  <1>1. IsFiniteSet(Held) /\ IsFiniteSet(Left) /\ IsFiniteSet(Leaving)
    <2>1. Held \subseteq InFlight /\ Left \subseteq objects /\ Leaving \subseteq InFlight
      BY DEF Left, Leaving, InFlight
    <2>2. QED
      BY <2>1, FS_Subset DEF FileInv, FiniteOK
  <1>2. IsFiniteSet(Image) /\ Cardinality(Image) <= Cardinality(Held)
    <2>1. NewOf \in Surjection(Held, Image)
      BY DEF Surjection
    <2>2. QED
      BY <1>1, <2>1, FS_Surjection
  <1>3. Cardinality(Held) <= Cardinality(InFlight)
    BY FS_Subset DEF FileInv, FiniteOK
  <1>4. Orphans \subseteq Left \union Image
    <2> SUFFICES ASSUME NEW o \in Orphans, o \notin Left PROVE o \in Image
      OBVIOUS
    <2>1. o = New(o.id) /\ o.id \in Requests
      BY DEF StoredOK, FileInv, TypeInv, TypeOK
    <2>2. o.id \in Held
      BY <2>1 DEF Left, InFlight
    <2>3. NewOf[o.id] = o
      BY <2>1, <2>2
    <2> HIDE DEF NewOf
    <2>4. QED
      BY <2>2, <2>3
  <1> HIDE DEF Orphans, Held, Image
  <1>5. /\ IsFiniteSet(Left \union Image)
        /\ Cardinality(Left \union Image) <= Cardinality(Left) + Cardinality(Image)
    <2>1. IsFiniteSet(Left \intersect Image)
      BY <1>1, FS_Intersection
    <2>2. /\ Cardinality(Left \union Image)
                = Cardinality(Left) + Cardinality(Image) - Cardinality(Left \intersect Image)
          /\ IsFiniteSet(Left \union Image)
      BY <1>1, <1>2, FS_Union
    <2>3. /\ Cardinality(Left \intersect Image) \in Nat /\ Cardinality(Left) \in Nat
          /\ Cardinality(Image) \in Nat
      BY <1>1, <1>2, <2>1, FS_CardinalityType
    <2>4. QED
      BY <2>2, <2>3
  <1>6. IsFiniteSet(Orphans) /\ Cardinality(Orphans) <= Cardinality(Left \union Image)
    BY <1>4, <1>5, FS_Subset
  <1>7. /\ Cardinality(Orphans) \in Nat /\ Cardinality(Left) \in Nat /\ Cardinality(Leaving) \in Nat
        /\ Cardinality(Image) \in Nat /\ Cardinality(Held) \in Nat
        /\ Cardinality(Left \union Image) \in Nat /\ Cardinality(InFlight) \in Nat
    BY <1>1, <1>2, <1>5, <1>6, FS_CardinalityType DEF FileInv, FiniteOK
  <1>8. Causes \in Nat /\ Cardinality(Left) <= Causes
    <2>1. Causes \in Nat
      BY FileAssumption DEF Causes, FileInv, TypeInv, TypeOK
    <2>2. QED
      BY <1>7, <2>1 DEF LeftOK, Accounted
  <1>9. Cardinality(Orphans) <= Causes + Cardinality(InFlight)
    BY <1>2, <1>3, <1>5, <1>6, <1>7, <1>8
  <1>10. QED
    BY <1>9 DEF OrphansBound, Orphans, Causes

\* Initially no object is left behind.
LEMMA LeftInit == Init => StoredOK /\ LeftOK
  <1> SUFFICES ASSUME Init PROVE StoredOK /\ LeftOK
    OBVIOUS
  <1>1. objects = {} /\ Left = {} /\ Leaving = {} /\ Missed = {} /\ Working = {} /\ Causes = 0
    BY DEF Init, Left, Leaving, Missed, Working, Causes
  <1>2. QED
    BY <1>1, FS_EmptySet DEF StoredOK, LeftOK, Accounted

\* However many uploads overlap, and wherever they fail: every object that no
\* row refers to is that of a request in flight, or has a fault, an overlap or
\* a move of its own to it.
THEOREM ObjectsAreAccountedFor == Spec => []OrphansBound
  <1>1. Init => StoredOK /\ LeftOK
    BY LeftInit
  <1>2. FileInv /\ StoredOK /\ [Next]_vars => StoredOK'
    BY StoredStep DEF FileInv
  <1>3. FileInv /\ FileInv' /\ StoredOK /\ StoredOK' /\ LeftOK /\ [Next]_vars => LeftOK'
    BY LeftStep DEF FileInv
  <1>4. FileInv /\ StoredOK /\ LeftOK => OrphansBound
    BY LeftBounds
  <1>5. QED
    BY <1>1, <1>2, <1>3, <1>4, FileInvariant, PTL DEF Spec

-----------------------------------------------------------------------------
(* The rows of a field *)

\* Only the rows of a multiple field have an index.
IndexOK ==
    /\ \A r \in Requests : field[r] \notin Multiple => index[r] = NoIndex
    /\ \A x \in rows : x.field \notin Multiple => x.index = NoIndex

\* Every step keeps the rows of a field distinguishable.
LEMMA IndexStep == TypeInv /\ Facts /\ IndexOK /\ [Next]_vars => IndexOK'
  <1> SUFFICES ASSUME TypeInv, Facts, IndexOK, [Next]_vars PROVE IndexOK'
    OBVIOUS
  <1>1. CASE UNCHANGED <<field, index, rows>>
    BY <1>1 DEF IndexOK
  <1>2. ASSUME NEW r \in Requests, Begin(r) PROVE IndexOK'
    BY <1>2 DEF Begin, dataVars, IndexOK, TypeInv, TypeOK
  <1>3. ASSUME NEW r \in Requests, UNCHANGED <<field, index>>, rows' = Stored(r)
        PROVE  IndexOK'
    <2>1. CASE row[r] = NoRow
      <3>1. rows' = rows \union {NewRow(r)} /\ NewRow(r).field = field[r] /\ NewRow(r).index = index[r]
        BY <1>3, <2>1, StoredInserts DEF NewRow
      <3>2. QED
        BY <1>3, <3>1 DEF IndexOK
    <2>2. CASE row[r] # NoRow
      <3>1. \A y \in rows' : \E x \in rows : x.field = y.field /\ x.index = y.index
        BY <1>3, <2>2, StoredReplaces DEF TypeInv, TypeOK
      <3>2. QED
        BY <1>3, <3>1 DEF IndexOK
    <2>3. QED
      BY <2>1, <2>2
  <1>4. CASE UNCHANGED vars
    BY <1>1, <1>4 DEF vars, dataVars
  <1>5. ASSUME NEW r \in Requests, Select(r) \/ RemoveStep(r) \/ PutStep(r) \/ WithdrawStep(r) \/ CutStep(r)
        PROVE  UNCHANGED <<field, index, rows>>
    BY <1>5 DEF Select, RemoveStep, PutStep, WithdrawStep, CutStep, Locals, dataVars
  <1>6. ASSUME NEW r \in Requests, CommitStep(r)
        PROVE  UNCHANGED <<field, index>> /\ rows' \in {rows, Stored(r)}
    BY <1>6 DEF CommitStep, Locals, dataVars
  <1>7. step \in [Requests -> Labels]
    BY DEF TypeInv, TypeOK, Labels
  <1>8. QED
    BY <1>1, <1>2, <1>3, <1>4, <1>5, <1>6, <1>7, Steps

\* A single field: the requests that will insert a row, as it looks now
Inserting(f) == {r \in Requests :
    /\ field[r] = f /\ row[r] = NoRow
    /\ step[r] \in {"put", "commit"} \/ (step[r] = "select" /\ OfField(f) = {})}

Single(o, i, c) == Cardinality(o) + Cardinality(i) <= 1 + c

SingleOK == \A f \in Fields \ Multiple : Single(OfField(f), Inserting(f), overlaps)

\* A step that leaves the rows and the requests of a single field alone keeps its invariant.
LEMMA SingleKept ==
    ASSUME NEW o, NEW o2, NEW i, NEW i2, NEW c \in Nat, NEW c2 \in Nat, NEW u,
           IsFiniteSet(o), IsFiniteSet(i), IsFiniteSet(o2), IsFiniteSet(i2), Single(o, i, c),
           \/ Cardinality(o2) <= Cardinality(o) /\ i2 \subseteq i /\ c2 >= c
           \/ o2 = o /\ i2 \subseteq i \union {u} /\ c2 = c + 1
           \/ o2 = {} /\ i2 \subseteq {u} /\ c2 >= c
           \/ o2 \subseteq o \union {u} /\ (\E r \in i : i2 \subseteq i \ {r}) /\ c2 = c
    PROVE  Single(o2, i2, c2)
  <1>1. /\ Cardinality(o) \in Nat /\ Cardinality(i) \in Nat
        /\ Cardinality(o2) \in Nat /\ Cardinality(i2) \in Nat
    BY FS_CardinalityType
  <1>2. i2 \subseteq i => Cardinality(i2) <= Cardinality(i)
    BY FS_Subset
  <1>3. /\ o2 \subseteq o \union {u} => Cardinality(o2) <= Cardinality(o) + 1
        /\ i2 \subseteq i \union {u} => Cardinality(i2) <= Cardinality(i) + 1
    BY OneMore
  <1>4. (\E r \in i : i2 \subseteq i \ {r}) => Cardinality(i2) + 1 <= Cardinality(i)
    BY OneLess
  <1>5. o2 = {} /\ i2 \subseteq {u} => Cardinality(o2) = 0 /\ Cardinality(i2) <= 1
    <2>1. IsFiniteSet({}) /\ Cardinality({}) = 0
      BY FS_EmptySet
    <2>2. i2 \subseteq {u} => Cardinality(i2) <= Cardinality({}) + 1
      BY <2>1, OneMore
    <2>3. QED
      BY <2>1, <2>2
  <1>6. CASE Cardinality(o2) <= Cardinality(o) /\ i2 \subseteq i /\ c2 >= c
    BY <1>1, <1>2, <1>6 DEF Single
  <1>7. CASE o2 = o /\ i2 \subseteq i \union {u} /\ c2 = c + 1
    BY <1>1, <1>3, <1>7 DEF Single
  <1>8. CASE o2 = {} /\ i2 \subseteq {u} /\ c2 >= c
    BY <1>1, <1>5, <1>8 DEF Single
  <1>9. CASE o2 \subseteq o \union {u} /\ (\E r \in i : i2 \subseteq i \ {r}) /\ c2 = c
    BY <1>1, <1>3, <1>4, <1>9 DEF Single
  <1>10. QED
    BY <1>6, <1>7, <1>8, <1>9

\* A multiple field: the requests that have found a row instead of an index of
\* their own, those that have an index but no row yet, and of these the ones
\* whose index has been taken meanwhile
Lost == {r \in Requests : field[r] \in Multiple /\ row[r] # NoRow}
Pending == {r \in Requests :
    field[r] \in Multiple /\ row[r] = NoRow /\ step[r] \in {"select", "put", "commit"}}
Losing == {r \in Pending : step[r] = "select" /\ \E x \in OfField(field[r]) : x.index >= index[r]}

Multi(l, p, d, c) ==
    /\ IsFiniteSet(l) /\ Cardinality(l) <= c
    /\ Cardinality(l) + Cardinality(p) <= c + 1
    /\ d # {} => Cardinality(l) + Cardinality(p) <= c

MultiOK == Multi(Lost, Pending, Losing, overlaps)

\* The same for a field of many files.
LEMMA MultiKept ==
    ASSUME NEW l, NEW l2, NEW p, NEW p2, NEW d, NEW d2, NEW c \in Nat, NEW c2 \in Nat, NEW u,
           IsFiniteSet(p), IsFiniteSet(p2), Multi(l, p, d, c),
           \/ l2 = l /\ p2 \subseteq p /\ d2 \subseteq d /\ c2 = c
           \/ l2 = l /\ p2 \subseteq p \union {u} /\ d2 \subseteq d /\ c2 = c + 1
           \/ l2 = l /\ p2 \subseteq {u} /\ d2 = {} /\ c2 = c
           \/ l2 \subseteq l /\ (\E r \in p : p2 \subseteq p \ {r}) /\ c2 = c
           \/ l2 \subseteq l \union {u} /\ (\E r \in p : p2 \subseteq p \ {r}) /\ d # {} /\ c2 = c
    PROVE  Multi(l2, p2, d2, c2)
  <1>0. IsFiniteSet(l)
    BY DEF Multi
  <1>1. IsFiniteSet(l2) /\ (l2 \subseteq l => Cardinality(l2) <= Cardinality(l))
        /\ (l2 \subseteq l \union {u} => Cardinality(l2) <= Cardinality(l) + 1)
    <2>1. l2 \subseteq l \union {u}
      OBVIOUS
    <2>2. IsFiniteSet(l2) /\ Cardinality(l2) <= Cardinality(l) + 1
      BY <1>0, <2>1, OneMore
    <2>3. l2 \subseteq l => Cardinality(l2) <= Cardinality(l)
      BY <1>0, FS_Subset
    <2>4. QED
      BY <2>2, <2>3
  <1>2. /\ Cardinality(l) \in Nat /\ Cardinality(p) \in Nat
        /\ Cardinality(l2) \in Nat /\ Cardinality(p2) \in Nat
    BY <1>0, <1>1, FS_CardinalityType
  <1>3. p2 \subseteq p => Cardinality(p2) <= Cardinality(p)
    BY FS_Subset
  <1>4. p2 \subseteq p \union {u} => Cardinality(p2) <= Cardinality(p) + 1
    BY OneMore
  <1>5. (\E r \in p : p2 \subseteq p \ {r}) => Cardinality(p2) + 1 <= Cardinality(p)
    BY OneLess
  <1>6. p2 \subseteq {u} => Cardinality(p2) <= 1
    <2>1. IsFiniteSet({}) /\ Cardinality({}) = 0
      BY FS_EmptySet
    <2>2. p2 \subseteq {u} => Cardinality(p2) <= Cardinality({}) + 1
      BY <2>1, OneMore
    <2>3. QED
      BY <2>1, <2>2
  <1>7. CASE l2 = l /\ p2 \subseteq p /\ d2 \subseteq d /\ c2 = c
    BY <1>1, <1>2, <1>3, <1>7 DEF Multi
  <1>8. CASE l2 = l /\ p2 \subseteq p \union {u} /\ d2 \subseteq d /\ c2 = c + 1
    BY <1>1, <1>2, <1>4, <1>8 DEF Multi
  <1>9. CASE l2 = l /\ p2 \subseteq {u} /\ d2 = {} /\ c2 = c
    BY <1>1, <1>2, <1>6, <1>9 DEF Multi
  <1>10. CASE l2 \subseteq l /\ (\E r \in p : p2 \subseteq p \ {r}) /\ c2 = c
    BY <1>1, <1>2, <1>5, <1>10 DEF Multi
  <1>11. CASE l2 \subseteq l \union {u} /\ (\E r \in p : p2 \subseteq p \ {r}) /\ d # {} /\ c2 = c
    BY <1>1, <1>2, <1>5, <1>11 DEF Multi
  <1>12. QED
    BY <1>7, <1>8, <1>9, <1>10, <1>11

\* A commit that replaces an object leaves the fields as many rows as they had.
LEMMA FieldReplaced ==
    ASSUME TypeInv, FiniteOK, NEW r \in Requests, row[r] # NoRow, NEW f
    PROVE  LET after == {y \in Stored(r) : y.field = f}
           IN  /\ Cardinality(after) <= Cardinality(OfField(f))
               /\ after = {} => OfField(f) = {}
               /\ OfField(f) = {} => after = {}
  <1> DEFINE after == {y \in Stored(r) : y.field = f}
             write == [x \in OfField(f) |-> IF x.id = row[r] THEN [x EXCEPT !.object = r] ELSE x]
  <1>1. Stored(r) = {IF x.id = row[r] THEN [x EXCEPT !.object = r] ELSE x : x \in rows}
    BY DEF Stored
  <1>2. \A x \in rows : x \in Row /\ [x EXCEPT !.object = r].field = x.field
    BY DEF TypeInv, TypeOK, Row
  <1>3. \A x \in OfField(f) : x \in rows /\ x.field = f /\ write[x] \in after
    BY <1>1, <1>2 DEF OfField
  <1>4. \A y \in after : \E x \in OfField(f) : write[x] = y
    <2> SUFFICES ASSUME NEW y \in after PROVE \E x \in OfField(f) : write[x] = y
      OBVIOUS
    <2>1. PICK x \in rows : y = IF x.id = row[r] THEN [x EXCEPT !.object = r] ELSE x
      BY <1>1
    <2>2. x \in OfField(f)
      BY <1>2, <2>1 DEF OfField
    <2>3. write[x] = y
      BY <2>1, <2>2
    <2> HIDE DEF write
    <2>4. QED
      BY <2>2, <2>3
  <1>5. write \in Surjection(OfField(f), after)
    <2>1. write \in [OfField(f) -> after]
      BY <1>3
    <2> HIDE DEF write
    <2>2. QED
      BY <1>4, <2>1 DEF Surjection
  <1>6. IsFiniteSet(OfField(f))
    <2>1. OfField(f) \subseteq rows
      BY DEF OfField
    <2>2. QED
      BY <2>1, FS_Subset DEF FiniteOK
  <1>7. Cardinality(after) <= Cardinality(OfField(f))
    BY <1>5, <1>6, FS_Surjection
  <1>8. QED
    BY <1>3, <1>4, <1>7

\* Every step keeps at most one row in a single field.
LEMMA SingleStep ==
    ASSUME TypeInv, TypeInv', Facts, Facts', FiniteOK, FiniteOK', IndexOK, SingleOK, [Next]_vars
    PROVE  SingleOK'
  <1> SUFFICES ASSUME NEW f \in Fields \ Multiple
               PROVE  Single(OfField(f), Inserting(f), overlaps)'
    BY DEF SingleOK
  <1>1. Single(OfField(f), Inserting(f), overlaps)
    BY DEF SingleOK
  <1>2. /\ IsFiniteSet(OfField(f)) /\ IsFiniteSet(Inserting(f)) /\ Inserting(f) \subseteq InFlight
        /\ overlaps \in Nat
    <2>1. OfField(f) \subseteq rows /\ Inserting(f) \subseteq InFlight
      BY DEF OfField, Inserting, InFlight
    <2>2. IsFiniteSet(OfField(f)) /\ IsFiniteSet(Inserting(f))
      BY <2>1, FS_Subset DEF FiniteOK
    <2>3. QED
      BY <2>1, <2>2 DEF TypeInv, TypeOK
  <1>3. IsFiniteSet(OfField(f)') /\ IsFiniteSet(Inserting(f)') /\ overlaps' \in Nat
    <2>1. OfField(f)' \subseteq rows' /\ Inserting(f)' \subseteq InFlight'
      BY DEF OfField, Inserting, InFlight
    <2>2. IsFiniteSet(rows') /\ IsFiniteSet(InFlight')
      BY DEF FiniteOK
    <2>3. IsFiniteSet(OfField(f)') /\ IsFiniteSet(Inserting(f)')
      BY <2>1, <2>2, FS_Subset
    <2>4. QED
      BY <2>3 DEF TypeInv, TypeOK
  <1> DEFINE Step(u) ==
        \/ /\ Cardinality(OfField(f)') <= Cardinality(OfField(f))
           /\ Inserting(f)' \subseteq Inserting(f) /\ overlaps' >= overlaps
        \/ OfField(f)' = OfField(f) /\ Inserting(f)' \subseteq Inserting(f) \union {u}
              /\ overlaps' = overlaps + 1
        \/ OfField(f)' = {} /\ Inserting(f)' \subseteq {u} /\ overlaps' >= overlaps
        \/ OfField(f)' \subseteq OfField(f) \union {u}
              /\ (\E r \in Inserting(f) : Inserting(f)' \subseteq Inserting(f) \ {r})
              /\ overlaps' = overlaps
  <1>4. ASSUME NEW u, Step(u) PROVE Single(OfField(f), Inserting(f), overlaps)'
    <2>1. Single(OfField(f)', Inserting(f)', overlaps')
      BY <1>1, <1>2, <1>3, <1>4, SingleKept
    <2>2. QED
      BY <2>1 DEF Single
  <1>5. ASSUME UNCHANGED <<rows, overlaps>>, Inserting(f)' \subseteq Inserting(f)
        PROVE  Single(OfField(f), Inserting(f), overlaps)'
    <2>1. OfField(f)' = OfField(f)
      BY <1>5 DEF OfField
    <2>2. Cardinality(OfField(f)') <= Cardinality(OfField(f)) /\ overlaps' >= overlaps
      BY <1>2, <1>5, <2>1, FS_CardinalityType
    <2>3. Step(f)
      BY <1>5, <2>2
    <2>4. QED
      BY <1>4, <2>3
  <1> HIDE DEF Step
  <1>6. ASSUME NEW r \in Requests, NEW l \in Labels, Goto(r, l)
        PROVE  step'[r] = l /\ \A q \in Requests : q # r => step'[q] = step[q]
    BY <1>6 DEF Goto, TypeInv, TypeOK
  <1>7. CASE UNCHANGED vars
    BY <1>5, <1>7 DEF vars, dataVars, Inserting, OfField
  <1>8. ASSUME NEW r \in Requests, Begin(r) PROVE Single(OfField(f), Inserting(f), overlaps)'
    <2>1. /\ step[r] = "new" /\ step'[r] = "select" /\ \A q \in Requests : q # r => step'[q] = step[q]
          /\ UNCHANGED <<field, row, rows>>
          /\ overlaps' = IF InFlight = {} THEN overlaps ELSE overlaps + 1
      BY <1>6, <1>8 DEF Begin, dataVars, Labels
    <2>2. OfField(f)' = OfField(f)
      BY <2>1 DEF OfField
    <2>3. Inserting(f)' \subseteq Inserting(f) \union {r}
      BY <2>1, <2>2 DEF Inserting
    <2>4. CASE InFlight # {}
      <3>1. Step(r)
        BY <2>1, <2>2, <2>3, <2>4 DEF Step
      <3>2. QED
        BY <1>4, <3>1
    <2>5. CASE InFlight = {} /\ OfField(f) = {}
      <3>1. Step(r)
        BY <1>2, <2>1, <2>2, <2>3, <2>5 DEF Step
      <3>2. QED
        BY <1>4, <3>1
    <2>6. CASE InFlight = {} /\ OfField(f) # {}
      <3>1. Inserting(f)' \subseteq Inserting(f)
        BY <2>1, <2>2, <2>3, <2>6 DEF Inserting
      <3>2. QED
        BY <1>5, <2>1, <2>6, <3>1
    <2>7. QED
      BY <2>4, <2>5, <2>6
  <1>9. ASSUME NEW r \in Requests, Select(r) PROVE Single(OfField(f), Inserting(f), overlaps)'
    <2>1. /\ step[r] = "select" /\ UNCHANGED <<field, rows, overlaps>>
          /\ \A q \in Requests : q # r => row'[q] = row[q]
          /\ \/ Goto(r, "put") /\ Found(r) = {}
             \/ Goto(r, "remove")
      BY <1>9 DEF Select, dataVars, TypeInv, TypeOK
    <2>2. /\ \A q \in Requests : q # r => step'[q] = step[q]
          /\ (step'[r] = "put" /\ Found(r) = {}) \/ step'[r] = "remove"
      BY <1>6, <2>1 DEF Labels
    <2>3. OfField(f)' = OfField(f)
      BY <2>1 DEF OfField
    <2>4. Inserting(f)' \subseteq Inserting(f) \union {r}
      BY <2>1, <2>2, <2>3 DEF Inserting
    <2>5. r \in Inserting(f)' => r \in Inserting(f)
      <3> SUFFICES ASSUME r \in Inserting(f)' PROVE r \in Inserting(f)
        OBVIOUS
      <3>1. step'[r] = "put" /\ Found(r) = {} /\ field[r] = f
        BY <2>1, <2>2 DEF Inserting
      <3>2. OfField(f) = {}
        BY <3>1 DEF Found, OfField, IndexOK
      <3>3. row[r] = NoRow
        BY <2>1 DEF Facts, LocalsOK
      <3>4. QED
        BY <2>1, <3>1, <3>2, <3>3 DEF Inserting
    <2>6. QED
      BY <1>5, <2>1, <2>4, <2>5
  <1>10. ASSUME NEW r \in Requests, NEW l, Goto(r, l), UNCHANGED <<field, row, rows, overlaps>>,
               l \in {"put", "commit", "withdraw", "done", "failed"},
               step[r] \in {"put", "commit"} \/ l \in Over \/ row[r] # NoRow
        PROVE  Single(OfField(f), Inserting(f), overlaps)'
    <2>1. step'[r] = l /\ \A q \in Requests : q # r => step'[q] = step[q]
      BY <1>6, <1>10 DEF Labels
    <2>2. OfField(f)' = OfField(f)
      BY <1>10 DEF OfField
    <2>3. Inserting(f)' \subseteq Inserting(f)
      BY <1>10, <2>1, <2>2 DEF Inserting, Over
    <2>4. QED
      BY <1>5, <1>10, <2>3
  <1>11. ASSUME NEW r \in Requests, RemoveStep(r) PROVE Single(OfField(f), Inserting(f), overlaps)'
    <2>1. row[r] # NoRow
      BY <1>11 DEF RemoveStep, Facts, LocalsOK
    <2>2. QED
      BY <1>10, <1>11, <2>1 DEF RemoveStep, Locals, dataVars
  <1>12. ASSUME NEW r \in Requests, PutStep(r) \/ WithdrawStep(r) \/ CutStep(r)
         PROVE  Single(OfField(f), Inserting(f), overlaps)'
    <2>1. /\ UNCHANGED <<field, row, rows, overlaps>>
          /\ (step[r] = "put" /\ Goto(r, "commit")) \/ Goto(r, "failed")
      BY <1>12 DEF PutStep, WithdrawStep, CutStep, Locals, dataVars
    <2>2. QED
      BY <1>10, <2>1 DEF Over
  <1>13. ASSUME NEW r \in Requests, CommitStep(r) PROVE Single(OfField(f), Inserting(f), overlaps)'
    <2>1. /\ step[r] = "commit" /\ UNCHANGED <<field, row, overlaps>> /\ rows' \in {rows, Stored(r)}
          /\ \E l \in Over : Goto(r, l)
      BY <1>13 DEF CommitStep, Locals, dataVars, Over
    <2>2. CASE rows' = rows
      BY <1>10, <2>1, <2>2 DEF Over
    <2>3. step'[r] \in Over /\ \A q \in Requests : q # r => step'[q] = step[q]
      BY <1>6, <2>1 DEF Over, Labels
    <2>4. CASE rows' = Stored(r) /\ row[r] # NoRow
      <3>1. /\ Cardinality(OfField(f)') <= Cardinality(OfField(f))
            /\ OfField(f)' = {} => OfField(f) = {}
        BY <2>4, FieldReplaced DEF OfField
      <3>2. Inserting(f)' \subseteq Inserting(f)
        BY <2>1, <2>3, <2>4, <3>1 DEF Inserting, Over
      <3>3. overlaps' >= overlaps
        BY <1>2, <2>1
      <3>4. Step(r)
        BY <3>1, <3>2, <3>3 DEF Step
      <3>5. QED
        BY <1>4, <3>4
    <2>5. CASE rows' = Stored(r) /\ row[r] = NoRow
      <3>1. rows' = rows \union {NewRow(r)} /\ NewRow(r).field = field[r]
        BY <2>5, StoredInserts DEF NewRow
      <3>2. OfField(f)' = {} => OfField(f) = {}
        BY <3>1 DEF OfField
      <3>3. Inserting(f)' \subseteq Inserting(f) \ {r}
        BY <2>1, <2>3, <3>2 DEF Inserting, Over
      <3>4. CASE field[r] = f
        <4>1. r \in Inserting(f)
          BY <2>1, <2>5, <3>4 DEF Inserting
        <4>2. OfField(f)' \subseteq OfField(f) \union {NewRow(r)}
          BY <3>1 DEF OfField
        <4>3. Step(NewRow(r))
          BY <2>1, <3>3, <4>1, <4>2 DEF Step
        <4>4. QED
          BY <1>4, <4>3
      <3>5. CASE field[r] # f
        <4>1. OfField(f)' = OfField(f)
          BY <3>1, <3>5 DEF OfField
        <4>2. Cardinality(OfField(f)') <= Cardinality(OfField(f)) /\ overlaps' >= overlaps
          BY <1>2, <2>1, <4>1, FS_CardinalityType
        <4>3. Step(r)
          BY <3>3, <4>2 DEF Step
        <4>4. QED
          BY <1>4, <4>3
      <3>6. QED
        BY <3>4, <3>5
    <2>6. QED
      BY <2>1, <2>2, <2>4, <2>5
  <1>14. step \in [Requests -> Labels]
    BY DEF TypeInv, TypeOK, Labels
  <1>15. QED
    BY <1>7, <1>8, <1>9, <1>11, <1>12, <1>13, <1>14, Steps

\* Every step keeps every file of a field of many files that no request is replacing.
LEMMA MultiStep ==
    ASSUME TypeInv, TypeInv', Facts, FiniteOK, FiniteOK', MultiOK, [Next]_vars
    PROVE  MultiOK'
  <1>1. IsFiniteSet(Pending) /\ Pending \subseteq InFlight /\ overlaps \in Nat /\ Losing \subseteq Pending
    <2>1. Pending \subseteq InFlight
      BY DEF Pending, InFlight
    <2>2. IsFiniteSet(Pending)
      BY <2>1, FS_Subset DEF FiniteOK
    <2>3. QED
      BY <2>1, <2>2 DEF TypeInv, TypeOK, Losing
  <1>2. IsFiniteSet(Pending') /\ overlaps' \in Nat
    <2>1. Pending' \subseteq InFlight'
      BY DEF Pending, InFlight
    <2>2. IsFiniteSet(InFlight')
      BY DEF FiniteOK
    <2>3. IsFiniteSet(Pending')
      BY <2>1, <2>2, FS_Subset
    <2>4. QED
      BY <2>3 DEF TypeInv, TypeOK
  <1> DEFINE Step(u) ==
        \/ Lost' = Lost /\ Pending' \subseteq Pending /\ Losing' \subseteq Losing /\ overlaps' = overlaps
        \/ Lost' = Lost /\ Pending' \subseteq Pending \union {u} /\ Losing' \subseteq Losing
              /\ overlaps' = overlaps + 1
        \/ Lost' = Lost /\ Pending' \subseteq {u} /\ Losing' = {} /\ overlaps' = overlaps
        \/ Lost' \subseteq Lost /\ (\E r \in Pending : Pending' \subseteq Pending \ {r})
              /\ overlaps' = overlaps
        \/ Lost' \subseteq Lost \union {u} /\ (\E r \in Pending : Pending' \subseteq Pending \ {r})
              /\ Losing # {} /\ overlaps' = overlaps
  <1>3. ASSUME NEW u, Step(u) PROVE MultiOK'
    <2>1. Multi(Lost', Pending', Losing', overlaps')
      BY <1>1, <1>2, <1>3, MultiKept DEF MultiOK
    <2>2. QED
      BY <2>1 DEF MultiOK, Multi
  <1>4. ASSUME Lost' = Lost, Pending' \subseteq Pending, Losing' \subseteq Losing, overlaps' = overlaps
        PROVE  MultiOK'
    BY <1>3, <1>4
  <1> HIDE DEF Step
  <1>5. ASSUME NEW r \in Requests, NEW l \in Labels, Goto(r, l)
        PROVE  step'[r] = l /\ \A q \in Requests : q # r => step'[q] = step[q]
    BY <1>5 DEF Goto, TypeInv, TypeOK
  <1>6. CASE UNCHANGED vars
    BY <1>4, <1>6 DEF vars, dataVars, Lost, Pending, Losing, OfField
  <1>7. ASSUME NEW r \in Requests, Begin(r) PROVE MultiOK'
    <2>1. /\ step[r] = "new" /\ step'[r] = "select" /\ \A q \in Requests : q # r => step'[q] = step[q]
          /\ UNCHANGED <<field, row, rows>>
          /\ overlaps' = IF InFlight = {} THEN overlaps ELSE overlaps + 1
          /\ \A q \in Requests : q # r => index'[q] = index[q]
          /\ field[r] \in Multiple => index'[r] = NextIndex(field[r])
      BY <1>5, <1>7 DEF Begin, dataVars, Labels, TypeInv, TypeOK
    <2>2. Lost' = Lost /\ Pending' \subseteq Pending \union {r}
      BY <2>1 DEF Lost, Pending
    <2>3. r \notin Losing'
      <3> SUFFICES ASSUME r \in Losing' PROVE FALSE
        OBVIOUS
      <3>1. field[r] \in Multiple /\ field[r] \in Fields
        BY <2>1, FileAssumption DEF Losing, Pending
      <3>2. PICK x \in OfField(field[r]) : x.index >= index'[r]
        BY <2>1 DEF Losing, OfField
      <3>3. NextIndex(field[r]) \in Nat /\ x.index < NextIndex(field[r])
        BY <3>1, <3>2, NextIndexAbove
      <3>4. x.index \in Int
        BY DEF TypeInv, TypeOK, Row, OfField, NoIndex
      <3>5. QED
        BY <2>1, <3>1, <3>2, <3>3, <3>4
    <2>4. ASSUME NEW q \in Losing', q # r PROVE q \in Losing
      BY <2>1, <2>4 DEF Losing, Pending, OfField
    <2>5. Losing' \subseteq Losing
      BY <2>3, <2>4
    <2>6. CASE InFlight = {}
      <3>1. Pending' \subseteq {r} /\ Losing' = {}
        BY <1>1, <2>2, <2>5, <2>6
      <3>2. Step(r)
        BY <2>1, <2>2, <2>6, <3>1 DEF Step
      <3>3. QED
        BY <1>3, <3>2
    <2>7. CASE InFlight # {}
      <3>1. Step(r)
        BY <2>1, <2>2, <2>5, <2>7 DEF Step
      <3>2. QED
        BY <1>3, <3>1
    <2>8. QED
      BY <2>6, <2>7
  <1>8. ASSUME NEW r \in Requests, Select(r) PROVE MultiOK'
    <2>1. step[r] = "select" /\ UNCHANGED <<field, index, rows, overlaps>> /\ row[r] = NoRow
      BY <1>8 DEF Select, dataVars, Facts, LocalsOK
    <2>2. ASSUME \A q \in Requests : q # r => step'[q] = step[q], step'[r] # "select",
                 Pending' \subseteq Pending
          PROVE  Losing' \subseteq Losing
      <3> SUFFICES ASSUME NEW q \in Losing' PROVE q \in Losing
        OBVIOUS
      <3>1. /\ q \in Pending /\ q \in Requests /\ step'[q] = "select"
            /\ \E x \in OfField(field[q]) : x.index >= index[q]
        BY <2>1, <2>2 DEF Losing, Pending, OfField
      <3>2. step[q] = "select"
        BY <2>2, <3>1
      <3>3. QED
        BY <3>1, <3>2 DEF Losing
    <2>3. CASE Goto(r, "put") /\ UNCHANGED <<row, old>>
      <3>1. step'[r] = "put" /\ \A q \in Requests : q # r => step'[q] = step[q]
        BY <1>5, <2>3 DEF Labels
      <3>2. Lost' = Lost /\ Pending' \subseteq Pending
        BY <2>1, <2>3, <3>1 DEF Lost, Pending
      <3>3. Losing' \subseteq Losing
        BY <2>2, <3>1, <3>2
      <3>4. QED
        BY <1>4, <2>1, <3>2, <3>3
    <2>4. ASSUME NEW x \in Found(r), row' = [row EXCEPT ![r] = x.id], Goto(r, "remove")
          PROVE  MultiOK'
      <3>1. /\ step'[r] = "remove" /\ \A q \in Requests : q # r => step'[q] = step[q]
            /\ \A q \in Requests : q # r => row'[q] = row[q]
        BY <1>5, <2>4 DEF Labels, TypeInv, TypeOK
      <3>2. CASE field[r] \in Multiple
        <4>1. x.index >= index[r] /\ x \in OfField(field[r])
          BY DEF Found, OfField, TypeInv, TypeOK, NoIndex
        <4>2. r \in Pending /\ r \in Losing
          BY <2>1, <3>2, <4>1 DEF Losing, Pending
        <4>3. Lost' \subseteq Lost \union {r} /\ Pending' \subseteq Pending \ {r}
          BY <2>1, <3>1 DEF Lost, Pending
        <4>4. Step(r)
          BY <2>1, <4>2, <4>3 DEF Step
        <4>5. QED
          BY <1>3, <4>4
      <3>3. CASE field[r] \notin Multiple
        <4>1. Lost' = Lost /\ Pending' \subseteq Pending
          BY <2>1, <3>1, <3>3 DEF Lost, Pending
        <4>2. Losing' \subseteq Losing
          BY <2>2, <3>1, <4>1
        <4>3. QED
          BY <1>4, <2>1, <4>1, <4>2
      <3>4. QED
        BY <3>2, <3>3
    <2>5. QED
      BY <1>8, <2>3, <2>4 DEF Select
  <1>9. ASSUME NEW r \in Requests, NEW l, Goto(r, l), UNCHANGED <<field, index, row, overlaps>>,
               l \in {"put", "commit", "withdraw", "done", "failed"},
               step[r] \in {"put", "commit"} \/ l \in Over \/ row[r] # NoRow,
               \A y \in rows' : y.field \in Multiple =>
                   \E x \in rows : x.field = y.field /\ x.index = y.index
        PROVE  MultiOK'
    <2>1. step'[r] = l /\ \A q \in Requests : q # r => step'[q] = step[q]
      BY <1>5, <1>9 DEF Labels
    <2>2. Lost' = Lost /\ Pending' \subseteq Pending
      BY <1>9, <2>1 DEF Lost, Pending, Over
    <2>3. ASSUME NEW q \in Losing' PROVE q \in Losing
      <3>1. q \in Pending /\ q # r /\ field[q] \in Multiple /\ step[q] = "select"
        BY <1>9, <2>1, <2>2 DEF Losing, Pending
      <3>2. PICK y \in rows' : y.field = field[q] /\ y.index >= index[q]
        BY <1>9 DEF Losing, OfField
      <3>3. QED
        BY <1>9, <3>1, <3>2 DEF Losing, OfField
    <2>4. QED
      BY <1>4, <1>9, <2>2, <2>3
  <1>10. ASSUME NEW r \in Requests, RemoveStep(r) PROVE MultiOK'
    <2>1. row[r] # NoRow
      BY <1>10 DEF RemoveStep, Facts, LocalsOK
    <2>2. QED
      BY <1>9, <1>10, <2>1 DEF RemoveStep, Locals, dataVars
  <1>11. ASSUME NEW r \in Requests, PutStep(r) \/ WithdrawStep(r) \/ CutStep(r) PROVE MultiOK'
    <2>1. /\ UNCHANGED <<field, index, row, rows, overlaps>>
          /\ (step[r] = "put" /\ Goto(r, "commit")) \/ Goto(r, "failed")
      BY <1>11 DEF PutStep, WithdrawStep, CutStep, Locals, dataVars
    <2>2. QED
      BY <1>9, <2>1 DEF Over
  <1>12. ASSUME NEW r \in Requests, CommitStep(r) PROVE MultiOK'
    <2>1. /\ step[r] = "commit" /\ UNCHANGED <<field, index, row, overlaps>>
          /\ rows' \in {rows, Stored(r)} /\ \E l \in Over : Goto(r, l)
      BY <1>12 DEF CommitStep, Locals, dataVars, Over
    <2>2. CASE \A y \in rows' : y.field \in Multiple =>
                   \E x \in rows : x.field = y.field /\ x.index = y.index
      BY <1>9, <2>1, <2>2 DEF Over
    <2>3. CASE rows' = rows
      BY <2>2, <2>3
    <2>4. CASE rows' = Stored(r) /\ row[r] # NoRow
      BY <2>2, <2>4, StoredReplaces DEF TypeInv, TypeOK
    <2>5. CASE rows' = Stored(r) /\ row[r] = NoRow
      <3>1. rows' = rows \union {NewRow(r)} /\ NewRow(r).field = field[r]
        BY <2>5, StoredInserts DEF NewRow
      <3>2. CASE field[r] \notin Multiple
        BY <2>2, <3>1, <3>2
      <3>3. CASE field[r] \in Multiple
        <4>1. step'[r] \in Over /\ \A q \in Requests : q # r => step'[q] = step[q]
          BY <1>5, <2>1 DEF Over, Labels
        <4>2. r \in Pending
          BY <2>1, <2>5, <3>3 DEF Pending
        <4>3. Lost' \subseteq Lost /\ Pending' \subseteq Pending \ {r}
          BY <2>1, <4>1 DEF Lost, Pending, Over
        <4>4. Step(r)
          BY <2>1, <4>2, <4>3 DEF Step
        <4>5. QED
          BY <1>3, <4>4
      <3>4. QED
        BY <3>2, <3>3
    <2>6. QED
      BY <2>1, <2>3, <2>4, <2>5
  <1>13. step \in [Requests -> Labels]
    BY DEF TypeInv, TypeOK, Labels
  <1>14. QED
    BY <1>6, <1>7, <1>8, <1>10, <1>11, <1>12, <1>13, Steps

\* Initially the fields hold their files.
LEMMA FieldsInit == Init => IndexOK /\ SingleOK /\ MultiOK
  <1> SUFFICES ASSUME Init PROVE IndexOK /\ SingleOK /\ MultiOK
    OBVIOUS
  <1>1. /\ rows = {} /\ Lost = {} /\ Pending = {} /\ Losing = {} /\ overlaps = 0
        /\ \A f : OfField(f) = {} /\ Inserting(f) = {}
    BY DEF Init, Lost, Pending, Losing, OfField, Inserting
  <1>2. IndexOK
    BY DEF Init, IndexOK
  <1>3. IsFiniteSet({}) /\ Cardinality({}) = 0
    BY FS_EmptySet
  <1>4. SingleOK
    BY <1>1, <1>3 DEF SingleOK, Single
  <1>5. MultiOK
    BY <1>1, <1>3 DEF MultiOK, Multi
  <1>6. QED
    BY <1>2, <1>4, <1>5

\* The uploads of a multiple field that are done have a row each, but for the
\* lost ones.
LEMMA FieldBounds ==
    ASSUME FileInv, SingleOK, MultiOK
    PROVE  FieldHoldsItsFiles
  <1> SUFFICES ASSUME NEW f \in Fields
               PROVE  IF f \in Multiple
                      THEN Cardinality({r \in Requests : step[r] = "done" /\ field[r] = f})
                              <= Cardinality(OfField(f)) + overlaps
                      ELSE Cardinality(OfField(f)) <= 1 + overlaps
    BY DEF FieldHoldsItsFiles
  <1>1. IsFiniteSet(OfField(f)) /\ Cardinality(OfField(f)) \in Nat /\ overlaps \in Nat
    <2>1. OfField(f) \subseteq rows
      BY DEF OfField
    <2>2. IsFiniteSet(OfField(f))
      BY <2>1, FS_Subset DEF FileInv, FiniteOK
    <2>3. QED
      BY <2>2, FS_CardinalityType DEF FileInv, TypeInv, TypeOK
  <1>2. CASE f \notin Multiple
    <2>1. IsFiniteSet(Inserting(f))
      <3>1. Inserting(f) \subseteq InFlight
        BY DEF Inserting, InFlight
      <3>2. QED
        BY <3>1, FS_Subset DEF FileInv, FiniteOK
    <2>2. Cardinality(Inserting(f)) \in Nat
      BY <2>1, FS_CardinalityType
    <2>3. QED
      BY <1>1, <1>2, <2>2 DEF SingleOK, Single
  <1>3. CASE f \in Multiple
    <2> DEFINE Done == {r \in Requests : step[r] = "done" /\ field[r] = f}
               IdOf == [x \in OfField(f) |-> x.id]
               Ids == {IdOf[x] : x \in OfField(f)}
    <2>1. IsFiniteSet(Ids) /\ Cardinality(Ids) <= Cardinality(OfField(f))
      <3>1. IdOf \in Surjection(OfField(f), Ids)
        BY DEF Surjection
      <3>2. QED
        BY <1>1, <3>1, FS_Surjection
    <2>2. Done \subseteq Ids \union Lost
      <3> SUFFICES ASSUME NEW r \in Done, r \notin Lost PROVE r \in Ids
        OBVIOUS
      <3>1. row[r] = NoRow
        BY <1>3 DEF Lost
      <3>2. PICK x \in rows : x.id = r
        BY <3>1 DEF FileInv, Facts, LocalsOK
      <3>3. x \in OfField(f)
        BY <3>2 DEF OfField, FileInv, Facts, RowsOK
      <3>4. IdOf[x] = r
        BY <3>2, <3>3
      <3> HIDE DEF IdOf
      <3>5. QED
        BY <3>3, <3>4
    <2> HIDE DEF Done, Ids
    <2>3. IsFiniteSet(Lost) /\ Cardinality(Lost) <= overlaps
      BY DEF MultiOK, Multi
    <2>4. /\ IsFiniteSet(Ids \union Lost)
          /\ Cardinality(Ids \union Lost) <= Cardinality(Ids) + Cardinality(Lost)
      <3>1. IsFiniteSet(Ids \intersect Lost)
        BY <2>1, FS_Intersection
      <3>2. /\ Cardinality(Ids \union Lost)
                  = Cardinality(Ids) + Cardinality(Lost) - Cardinality(Ids \intersect Lost)
            /\ IsFiniteSet(Ids \union Lost)
        BY <2>1, <2>3, FS_Union
      <3>3. /\ Cardinality(Ids \intersect Lost) \in Nat /\ Cardinality(Ids) \in Nat
            /\ Cardinality(Lost) \in Nat
        BY <2>1, <2>3, <3>1, FS_CardinalityType
      <3>4. QED
        BY <3>2, <3>3
    <2>5. IsFiniteSet(Done) /\ Cardinality(Done) <= Cardinality(Ids \union Lost)
      BY <2>2, <2>4, FS_Subset
    <2>6. /\ Cardinality(Done) \in Nat /\ Cardinality(Ids) \in Nat /\ Cardinality(Lost) \in Nat
          /\ Cardinality(Ids \union Lost) \in Nat
      BY <2>1, <2>3, <2>4, <2>5, FS_CardinalityType
    <2>7. Cardinality(Done) <= Cardinality(OfField(f)) + overlaps
      BY <1>1, <2>1, <2>3, <2>4, <2>5, <2>6
    <2>8. QED
      BY <1>3, <2>7 DEF Done
  <1>4. QED
    BY <1>2, <1>3

\* However many uploads overlap, and wherever they fail: a single field gets
\* one row too many for each overlap at most, and a multiple field loses one
\* file to it at most.
THEOREM FieldsHoldTheirFiles == Spec => []FieldHoldsItsFiles
  <1>1. Init => IndexOK /\ SingleOK /\ MultiOK
    BY FieldsInit
  <1>2. FileInv /\ IndexOK /\ [Next]_vars => IndexOK'
    BY IndexStep DEF FileInv
  <1>3. FileInv /\ FileInv' /\ IndexOK /\ SingleOK /\ [Next]_vars => SingleOK'
    BY SingleStep DEF FileInv
  <1>4. FileInv /\ FileInv' /\ MultiOK /\ [Next]_vars => MultiOK'
    BY MultiStep DEF FileInv
  <1>5. FileInv /\ SingleOK /\ MultiOK => FieldHoldsItsFiles
    BY FieldBounds
  <1>6. QED
    BY <1>1, <1>2, <1>3, <1>4, <1>5, FileInvariant, PTL DEF Spec
=============================================================================
