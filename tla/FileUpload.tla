----------------------------- MODULE FileUpload -----------------------------
(***************************************************************************)
(* FileService.upload: the file of a field of one entity is an object in a *)
(* bucket of MinIO and a row of the table files. An upload removes the old *)
(* object, stores the new one under a new name, and then commits the row;  *)
(* the two stores know nothing of each other.                              *)
(***************************************************************************)
EXTENDS Integers, FiniteSets

CONSTANTS
    Requests,  \* the uploads
    NoRow,     \* no row was found
    Fields,    \* media_fields and multiple_media_fields of the model
    Multiple,  \* multiple_media_fields: each upload gets the next index
    Buckets,   \* images and other files
    MaxInFlight, \* bound on the requests in flight
    MaxFaults  \* bound on the faults

ASSUME FileAssumption ==
    /\ Multiple \subseteq Fields /\ NoRow \notin Requests
    /\ MaxInFlight \in Nat /\ MaxFaults \in Nat

\* A row and an object have the name of the request that has made them.
VARIABLES
    step,    \* step[r]: the await that the request is suspended at
    field,   \* field[r]: the field it uploads to
    bucket,  \* bucket[r]: the bucket of its file, by its type
    index,   \* index[r]: entity_field_index
    row,     \* row[r]: the row it has found
    old,     \* old[r]: the object of that row, as it was read
    rows,    \* the committed rows: field, index and object by their names
    objects, \* the objects in their buckets
    overlaps, \* how many requests came while another was in flight (history)
    moves,   \* how many files replaced one of the other bucket (history)
    faults   \* the number of faults (history, and the bound)

vars == <<step, field, bucket, index, row, old, rows, objects, overlaps, moves, faults>>
dataVars == <<field, bucket>>

NoIndex == -1
Row == [id : Requests, field : Fields, index : Nat \union {NoIndex}, object : Requests]

Init ==
    /\ step = [r \in Requests |-> "new"]
    /\ field \in [Requests -> Fields] /\ bucket \in [Requests -> Buckets]
    /\ index = [r \in Requests |-> NoIndex]
    /\ row = [r \in Requests |-> NoRow]
    /\ old = [r \in Requests |-> NoRow]
    /\ rows = {} /\ objects = {}
    /\ overlaps = 0 /\ moves = 0 /\ faults = 0

InFlight == {r \in Requests : step[r] \notin {"new", "done", "failed"}}
Goto(r, label) == step' = [step EXCEPT ![r] = label]
Fault == faults < MaxFaults /\ faults' = faults + 1

OfField(f) == {x \in rows : x.field = f}

\* Variant with a fault: always the first index
NextIndexFirst(f) == 0

\* SELECT max(entity_field_index) + 1 of a multiple field
NextIndex(f) ==
    IF OfField(f) = {} THEN 0
    ELSE 1 + CHOOSE i \in {x.index : x \in OfField(f)} : \A x \in OfField(f) : x.index <= i

\* check_data, then the index, as the committed rows have it now
Begin(r) ==
    /\ step[r] = "new" /\ Cardinality(InFlight) < MaxInFlight
    /\ index' = [index EXCEPT ![r] = IF field[r] \in Multiple THEN NextIndex(field[r]) ELSE NoIndex]
    /\ overlaps' = IF InFlight = {} THEN overlaps ELSE overlaps + 1
    /\ Goto(r, "select")
    /\ UNCHANGED <<dataVars, row, old, rows, objects, moves, faults>>

\* The rows of the field and the index
Found(r) == {x \in OfField(field[r]) : x.index = index[r]}

\* The row, one of them if there are several; without one there is nothing to
\* remove.
Select(r) ==
    /\ step[r] = "select"
    /\ \/ /\ Found(r) = {}
          /\ Goto(r, "put")
          /\ UNCHANGED <<row, old>>
       \/ \E x \in Found(r) :
             /\ row' = [row EXCEPT ![r] = x.id]
             /\ old' = [old EXCEPT ![r] = x.object]
             /\ Goto(r, "remove")
    /\ UNCHANGED <<dataVars, index, rows, objects, overlaps, moves, faults>>

\* Variant with a fault: the old object stays
RemovedNothing(r) == {}

\* Variant with a fault: the object of any row of the field is removed
RemovedField(r) == {o \in objects : \E x \in OfField(field[r]) : o.id = x.object}

\* What remove_object removes: the old object, if it is in the bucket of the
\* new one. (MinIO answers the removal of an object that is not there as a
\* success.)
Removed(r) == {o \in objects : o = [id |-> old[r], bucket |-> bucket[r]]}

Remove(r) ==
    /\ step[r] = "remove"
    /\ objects' = objects \ Removed(r)
    /\ moves' = IF bucket[old[r]] # bucket[r] THEN moves + 1 ELSE moves
    /\ Goto(r, "put")
    /\ UNCHANGED <<dataVars, index, row, old, rows, overlaps, faults>>

\* An error of MinIO is suppressed. The object may be gone nevertheless.
RemoveFails(r) ==
    /\ step[r] = "remove" /\ Fault
    /\ objects' \in {objects, objects \ Removed(r)}
    /\ Goto(r, "put")
    /\ UNCHANGED <<dataVars, index, row, old, rows, overlaps, moves>>

New(r) == [id |-> r, bucket |-> bucket[r]]

Put(r) ==
    /\ step[r] = "put"
    /\ objects' = objects \union {New(r)}
    /\ Goto(r, "commit")
    /\ UNCHANGED <<dataVars, index, row, old, rows, overlaps, moves, faults>>

\* 409. The object may have been stored nevertheless.
PutFails(r) ==
    /\ step[r] = "put" /\ Fault
    /\ objects' \in {objects, objects \union {New(r)}}
    /\ Goto(r, "failed")
    /\ UNCHANGED <<dataVars, index, row, old, rows, overlaps, moves>>

\* The row is inserted, or that one which was found refers to the new object.
Stored(r) ==
    IF row[r] = NoRow
    THEN rows \union {[id |-> r, field |-> field[r], index |-> index[r], object |-> r]}
    ELSE {IF x.id = row[r] THEN [x EXCEPT !.object = r] ELSE x : x \in rows}

Commit(r) ==
    /\ step[r] = "commit"
    /\ rows' = Stored(r)
    /\ Goto(r, "done")
    /\ UNCHANGED <<dataVars, index, row, old, objects, overlaps, moves, faults>>

\* commit_and_refresh_entity raises: the commit did not happen, or it did and
\* the refresh failed. The new object is to be removed.
CommitFails(r) ==
    /\ step[r] = "commit" /\ Fault
    /\ rows' \in {rows, Stored(r)}
    /\ Goto(r, "withdraw")
    /\ UNCHANGED <<dataVars, index, row, old, objects, overlaps, moves>>

Withdraw(r) ==
    /\ step[r] = "withdraw"
    /\ objects' = objects \ {New(r)}
    /\ Goto(r, "failed")
    /\ UNCHANGED <<dataVars, index, row, old, rows, overlaps, moves, faults>>

\* What the call has done that a request is waiting for, when the answer does
\* not come
Reached(r) ==
    CASE step[r] = "remove"   -> [objects |-> objects \ Removed(r), rows |-> rows]
      [] step[r] = "put"      -> [objects |-> objects \union {New(r)}, rows |-> rows]
      [] step[r] = "commit"   -> [objects |-> objects, rows |-> Stored(r)]
      [] step[r] = "withdraw" -> [objects |-> objects \ {New(r)}, rows |-> rows]
      [] OTHER                -> [objects |-> objects, rows |-> rows]

\* The request is cut off: its process dies, or an await raises what nothing
\* catches.
Abort(r) ==
    /\ r \in InFlight /\ Fault
    /\ \E reached \in {Reached(r), [objects |-> objects, rows |-> rows]} :
          objects' = reached.objects /\ rows' = reached.rows
    /\ Goto(r, "failed")
    /\ UNCHANGED <<dataVars, index, row, old, overlaps, moves>>

Next == \E r \in Requests :
    \/ Begin(r) \/ Select(r) \/ Remove(r) \/ Put(r) \/ Commit(r) \/ Withdraw(r)
    \/ RemoveFails(r) \/ PutFails(r) \/ CommitFails(r) \/ Abort(r)

Spec == Init /\ [][Next]_vars

-----------------------------------------------------------------------------
(* Properties *)

\* Every variable has its type.
TypeOK ==
    /\ step \in [Requests -> {"new", "select", "remove", "put", "commit", "withdraw", "done", "failed"}]
    /\ field \in [Requests -> Fields] /\ bucket \in [Requests -> Buckets]
    /\ index \in [Requests -> Nat \union {NoIndex}]
    /\ row \in [Requests -> Requests \union {NoRow}] /\ old \in [Requests -> Requests \union {NoRow}]
    /\ rows \subseteq Row
    /\ objects \subseteq [id : Requests, bucket : Buckets]
    /\ overlaps \in Nat /\ moves \in Nat /\ faults \in 0 .. MaxFaults

Referenced == {New(x.object) : x \in rows}

\* A row whose object is gone is one that an upload is replacing at this time,
\* or one that a fault has left so: an upload that fails after it has removed
\* the old object leaves a row without a file, and each fault one at most.
RowsWithoutObjectBound ==
    Cardinality({x \in rows : New(x.object) \notin objects})
        <= faults + Cardinality({r \in InFlight : row[r] # NoRow})

\* An object that no row refers to is one that an upload has just stored, or
\* was left by a fault, by an upload that overlapped another, or by a file of
\* the other bucket that was replaced: one for each.
OrphansBound ==
    Cardinality(objects \ Referenced) <= faults + overlaps + moves + Cardinality(InFlight)

\* However they overlap, a single field gets no more than one row for each
\* overlap too many, and a multiple one loses no more than one file to it.
FieldHoldsItsFiles ==
    \A f \in Fields :
        IF f \in Multiple
        THEN Cardinality({r \in Requests : step[r] = "done" /\ field[r] = f})
                <= Cardinality(OfField(f)) + overlaps
        ELSE Cardinality(OfField(f)) <= 1 + overlaps
=============================================================================
