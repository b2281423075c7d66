------------------------- MODULE ConfirmationCodes -------------------------
(***************************************************************************)
(* The codes that a user receives by email to sign in: the rate limit that *)
(* UserAuthorizationCodeService puts on their creation, the cancellation   *)
(* of the earlier ones and their use by UserService.sign_in.               *)
(*                                                                         *)
(* One device and one login are modelled: every query of this code is      *)
(* restricted to them. The database runs at READ COMMITTED: what a request *)
(* writes is seen by the others when its session is committed, after the   *)
(* response was made, and an UPDATE finds the rows that were committed     *)
(* when it ran. Each await of a query is the end of an action.             *)
(***************************************************************************)
EXTENDS Integers, FiniteSets

CONSTANTS
    Handlers,    \* the coroutines that serve these requests, at most so many at a time
    Ids,         \* codes, numbered: a bound on the codes created in a run
    NoId,        \* "no code" in the locals of a coroutine
    Attempts,    \* ..._limit_same_group_attempts
    Groups,      \* ..._limit_group_count
    SameGroupTimeout, \* ..._limit_same_group_attempts_timeout (120 s)
    GroupTimeout,     \* ..._limit_group_timeout (600 s)
    LimitTimeout,     \* ..._limit_timeout (24 h)
    CodeLifetime,     \* backend_user_confirmation_code_lifetime (1 h)
    Step,        \* how far the clock moves at once: with an even Step and odd
                 \* timeouts no request falls exactly on a limit
    MaxTime,     \* bound on the clock
    Faults       \* whether a request may fail between two awaits

ASSUME LimitsAssumption ==
    /\ Attempts \in Nat \ {0} /\ Groups \in Nat \ {0}
    /\ {SameGroupTimeout, GroupTimeout, LimitTimeout, CodeLifetime} \subseteq Nat
    /\ 0 < SameGroupTimeout
    /\ SameGroupTimeout < GroupTimeout /\ GroupTimeout < LimitTimeout
ASSUME CodeBoundAssumption ==
    /\ Step \in Nat \ {0} /\ MaxTime \in Nat /\ Faults \in BOOLEAN
    /\ Ids \subseteq Nat /\ NoId \notin Ids
    /\ IsFiniteSet(Handlers) /\ IsFiniteSet(Ids)

VARIABLES
    now,       \* the wall clock
    codes,     \* codes[c]: the row of user_authorization_codes with identifier c
    stored,    \* the rows that are committed
    uses,      \* uses[c]: how often c was used to sign in (history)
    pc,        \* pc[h]: the await the handler is suspended at
    dt,        \* dt[h]: the utcnow() that its request began with
    last,      \* last[h]: the code that was selected
    group,     \* group[h]: entity_create_additional_fields["group_number"]
    clearing,  \* clearing[h]: the rows whose group_number its transaction has reset
    canceling  \* canceling[h]: the rows that its transaction has canceled

vars == <<now, codes, stored, uses, pc, dt, last, group, clearing, canceling>>
tables == <<codes, stored, uses>>

NoGroup == 0 \* NULL: the table has a CHECK (group_number > 0)
NoCode == [status |-> "none"]
Statuses == {"created", "confirmed", "canceled"}
Code == [created : Nat, group : Nat, status : Statuses]

Created == {c \in Ids : codes[c] # NoCode}

Init ==
    /\ now = 0
    /\ codes = [c \in Ids |-> NoCode]
    /\ stored = {}
    /\ uses = [c \in Ids |-> 0]
    /\ pc = [h \in Handlers |-> "idle"]
    /\ dt = [h \in Handlers |-> 0]
    /\ last = [h \in Handlers |-> NoId]
    /\ group = [h \in Handlers |-> NoGroup]
    /\ clearing = [h \in Handlers |-> {}]
    /\ canceling = [h \in Handlers |-> {}]

Goto(h, label) == pc' = [pc EXCEPT ![h] = label]

\* The session is closed and the locals are gone.
End(h) ==
    /\ Goto(h, "idle")
    /\ dt' = [dt EXCEPT ![h] = 0]
    /\ last' = [last EXCEPT ![h] = NoId]
    /\ group' = [group EXCEPT ![h] = NoGroup]
    /\ clearing' = [clearing EXCEPT ![h] = {}]
    /\ canceling' = [canceling EXCEPT ![h] = {}]

Tick ==
    /\ now + Step <= MaxTime
    /\ now' = now + Step
    /\ UNCHANGED <<tables, pc, dt, last, group, clearing, canceling>>

-----------------------------------------------------------------------------
(* create, with entity_validate and after_entity_create *)

\* A code is requested. The user exists and is not deleted, the device is
\* registered and linked to him; otherwise the request ends with no effect
\* on the codes.
RequestCode(h) ==
    /\ pc[h] = "idle"
    /\ dt' = [dt EXCEPT ![h] = now]
    /\ Goto(h, "select")
    /\ UNCHANGED <<now, tables, last, group, clearing, canceling>>

\* ORDER BY created_on DESC, the first row: codes are numbered in the order of
\* created_on, which the microseconds of the real clock tell apart.
Latest == {c \in stored : \A d \in stored : d <= c}

Interval(h, c) == dt[h] - codes[c].created

\* The last code, and what needs no more than its group and its age: no limit
\* without a group, all groups reset after LimitTimeout, too early a request.
SelectLast(h) ==
    /\ pc[h] = "select"
    /\ \/ /\ stored = {}
          /\ group' = [group EXCEPT ![h] = 1]
          /\ Goto(h, "insert")
          /\ UNCHANGED <<dt, last, clearing, canceling>>
       \/ \E c \in Latest :
            IF codes[c].group = NoGroup
            THEN /\ group' = [group EXCEPT ![h] = 1]
                 /\ Goto(h, "insert")
                 /\ UNCHANGED <<dt, last, clearing, canceling>>
            ELSE IF Interval(h, c) > LimitTimeout
            THEN /\ Goto(h, "reset")
                 /\ UNCHANGED <<dt, last, group, clearing, canceling>>
            ELSE IF Interval(h, c) < SameGroupTimeout
            THEN End(h)
            ELSE /\ last' = [last EXCEPT ![h] = c]
                 /\ group' = [group EXCEPT ![h] = codes[c].group]
                 /\ Goto(h, "count")
                 /\ UNCHANGED <<dt, clearing, canceling>>
    /\ UNCHANGED <<now, tables>>

\* Variant with a fault: the groups are left as they are
ResetNothing(h) ==
    /\ pc[h] = "reset"
    /\ Goto(h, "insert")
    /\ UNCHANGED <<now, tables, dt, last, group, clearing, canceling>>

\* The new code has no group either.
Reset(h) ==
    /\ pc[h] = "reset"
    /\ clearing' = [clearing EXCEPT ![h] = {c \in stored : codes[c].group # NoGroup}]
    /\ Goto(h, "insert")
    /\ UNCHANGED <<now, tables, dt, last, group, canceling>>

InGroup(g) == {c \in stored : codes[c].group = g}

\* Variants with a fault: a group may have one code more; the last group may
\* be followed by another; a full group may be followed by the next at once
NextGroupOneMore(g, n, interval) ==
    CASE SameGroupTimeout < interval /\ interval < GroupTimeout ->
           IF n <= Attempts THEN {g} ELSE {}
      [] GroupTimeout < interval /\ interval < LimitTimeout ->
           IF n <= Attempts THEN {g} ELSE IF g < Groups THEN {g + 1} ELSE {}
      [] OTHER -> {NoGroup}
NextGroupUnlimited(g, n, interval) ==
    CASE SameGroupTimeout < interval /\ interval < GroupTimeout ->
           IF n < Attempts THEN {g} ELSE {}
      [] GroupTimeout < interval /\ interval < LimitTimeout ->
           IF n < Attempts THEN {g} ELSE {g + 1}
      [] OTHER -> {NoGroup}

NextGroupEarly(g, n, interval) ==
    CASE SameGroupTimeout < interval /\ interval < LimitTimeout ->
           IF n < Attempts THEN {g} ELSE IF g < Groups THEN {g + 1} ELSE {}
      [] OTHER -> {NoGroup}

\* The group of a code that is requested interval after the last one, of group
\* g, which has n codes; the empty set for 409. An interval that equals one of
\* the limits is none of the cases, and the code gets no group.
NextGroup(g, n, interval) ==
    CASE SameGroupTimeout < interval /\ interval < GroupTimeout ->
           IF n < Attempts THEN {g} ELSE {}
      [] GroupTimeout < interval /\ interval < LimitTimeout ->
           IF n < Attempts THEN {g} ELSE IF g < Groups THEN {g + 1} ELSE {}
      [] OTHER -> {NoGroup}

CountGroup(h) ==
    /\ pc[h] = "count"
    /\ LET g == group[h]
           next == NextGroup(g, Cardinality(InGroup(g)), Interval(h, last[h]))
       IN \/ /\ next = {}
             /\ End(h)
          \/ /\ \E n \in next : group' = [group EXCEPT ![h] = n]
             /\ Goto(h, "insert")
             /\ UNCHANGED <<dt, last, clearing, canceling>>
    /\ UNCHANGED <<now, tables>>

FreshId == {c \in Ids \ Created : \A d \in Ids \ Created : c <= d}

\* flush: the row is inserted, created_on is the time of the flush.
Insert(h) ==
    /\ pc[h] = "insert"
    /\ \E c \in FreshId :
        /\ codes' = [codes EXCEPT ![c] =
                        [created |-> now, group |-> group[h], status |-> "created"]]
        /\ last' = [last EXCEPT ![h] = c]
    /\ Goto(h, "cancel")
    /\ UNCHANGED <<now, stored, uses, dt, group, clearing, canceling>>

\* Variant with a fault: the earlier codes are left alone
CancelNothing(h) ==
    /\ pc[h] = "cancel"
    /\ Goto(h, "commit")
    /\ UNCHANGED <<now, tables, dt, last, group, clearing, canceling>>

\* after_entity_create; the code is then sent by email.
Cancel(h) ==
    /\ pc[h] = "cancel"
    /\ canceling' = [canceling EXCEPT ![h] = {c \in stored : codes[c].status = "created"}]
    /\ Goto(h, "commit")
    /\ UNCHANGED <<now, tables, dt, last, group, clearing>>

\* Variant with a fault: the UPDATE does not look at the status
CanceledStatusAlways(h, c) ==
    IF c \in canceling[h] THEN "canceled" ELSE codes[c].status

\* A row that another transaction has changed meanwhile is looked at again.
CanceledStatus(h, c) ==
    IF c \in canceling[h] /\ codes[c].status = "created" THEN "canceled" ELSE codes[c].status

\* Variant with a fault: the UPDATE does not except the new code
CommitCancelsOwn(h) ==
    /\ pc[h] = "commit"
    /\ stored' = stored \union {last[h]}
    /\ codes' = [c \in Ids |->
                    IF c = last[h] THEN [codes[c] EXCEPT !.status = "canceled"]
                    ELSE IF c \in stored
                    THEN [codes[c] EXCEPT !.status = CanceledStatus(h, c),
                                          !.group = IF c \in clearing[h] THEN NoGroup ELSE @]
                    ELSE codes[c]]
    /\ End(h)
    /\ UNCHANGED <<now, uses>>

\* The middleware commits the session: all its rows are seen at once.
Commit(h) ==
    /\ pc[h] = "commit"
    /\ stored' = stored \union {last[h]}
    /\ codes' = [c \in Ids |->
                    IF c \in stored
                    THEN [codes[c] EXCEPT !.status = CanceledStatus(h, c),
                                          !.group = IF c \in clearing[h] THEN NoGroup ELSE @]
                    ELSE codes[c]]
    /\ End(h)
    /\ UNCHANGED <<now, uses>>

-----------------------------------------------------------------------------
(* UserService.sign_in, with verify_confirmation_code *)

SignIn(h) ==
    /\ pc[h] = "idle"
    /\ dt' = [dt EXCEPT ![h] = now]
    /\ Goto(h, "verify")
    /\ UNCHANGED <<now, tables, last, group, clearing, canceling>>

\* The user has entered some code that was created for him; it is refused
\* unless it is neither used nor canceled nor expired.
VerifyConfirmationCode(h) ==
    /\ pc[h] = "verify"
    /\ \E c \in stored :
        IF codes[c].status = "created" /\ Interval(h, c) <= CodeLifetime
        THEN /\ last' = [last EXCEPT ![h] = c]
             /\ Goto(h, "confirm")
             /\ UNCHANGED <<dt, group, clearing, canceling>>
        ELSE End(h)
    /\ UNCHANGED <<now, tables>>

\* Variant with a fault: the status is not set
ConfirmNothing(h) ==
    /\ pc[h] = "confirm"
    /\ uses' = [uses EXCEPT ![last[h]] = @ + 1]
    /\ End(h)
    /\ UNCHANGED <<now, codes, stored>>

\* The tokens were generated: the row is updated by its primary key.
Confirm(h) ==
    /\ pc[h] = "confirm"
    /\ codes' = [codes EXCEPT ![last[h]].status = "confirmed"]
    /\ uses' = [uses EXCEPT ![last[h]] = @ + 1]
    /\ End(h)
    /\ UNCHANGED <<now, stored>>

\* An exception (RabbitMQ, Redis, PostgreSQL), a cancelled request or the
\* death of the process: the session is rolled back.
Rollback(h) ==
    /\ Faults \/ pc[h] = "verify"
    /\ pc[h] # "idle"
    /\ End(h)
    /\ UNCHANGED <<now, tables>>

Handle(h) ==
    \/ RequestCode(h) \/ SelectLast(h) \/ Reset(h) \/ CountGroup(h)
    \/ Insert(h) \/ Cancel(h) \/ Commit(h)
    \/ SignIn(h) \/ VerifyConfirmationCode(h) \/ Confirm(h)
    \/ Rollback(h)

Next == Tick \/ \E h \in Handlers : Handle(h)

Spec == Init /\ [][Next]_vars

-----------------------------------------------------------------------------
(* Properties *)

Labels == {"idle", "select", "reset", "count", "insert", "cancel", "commit", "verify", "confirm"}

\* Every variable has its type.
TypeOK ==
    /\ now \in Nat
    /\ codes \in [Ids -> Code \union {NoCode}]
    /\ stored \subseteq Created
    /\ uses \in [Ids -> Nat]
    /\ pc \in [Handlers -> Labels]
    /\ dt \in [Handlers -> Nat]
    /\ last \in [Handlers -> Created \union {NoId}]
    /\ group \in [Handlers -> Nat]
    /\ clearing \in [Handlers -> SUBSET stored]
    /\ canceling \in [Handlers -> SUBSET stored]

Usable == {c \in stored : codes[c].status = "created"}

\* after_entity_create cancels the codes that it sees; a request that overlaps
\* is not seen. So many codes can be used to sign in, at most, as requests
\* overlap: one, if none do.
UsableCodesBound == Cardinality(Usable) <= Cardinality(Handlers)

\* Two requests that overlap, and cancel what they see of one another, never
\* cancel both codes: once a code was sent, there is one that is not canceled,
\* whatever failed meanwhile.
SomeCodeLeft == stored # {} => \E c \in stored : codes[c].status # "canceled"

\* verify_confirmation_code reads the status long before sign_in writes it.
\* Still a code is used no more often than requests overlap.
UsesBound == \A c \in Ids : uses[c] <= Cardinality(Handlers)

\* A code that was used stays confirmed: the cancellation by a request that
\* overlaps does not hide that somebody has signed in with it.
ConfirmedForever ==
    [][\A c \in Ids : uses[c] > 0 => codes'[c].status = "confirmed"]_vars

\* The groups follow one another as the codes were created. A request that has
\* counted its group before the next one begins, and inserts its code after
\* that, breaks the order.
InOrder ==
    \A c, d \in stored :
        codes[c].group # NoGroup /\ codes[d].group # NoGroup /\ c < d => codes[c].group <= codes[d].group

\* The limit on the codes of a group counts the rows of the requests that are
\* over: each request that overlaps adds one at most, unless one of them was so
\* slow that the last code is again one of an earlier group. The limit on the
\* groups holds in any case. (Within one control period: a request that lasts
\* longer than that could miss a reset, too.)
GroupSizeBound ==
    \A c \in stored : codes[c].group # NoGroup =>
        /\ codes[c].group <= Groups
        /\ InOrder => Cardinality(InGroup(codes[c].group)) < Attempts + Cardinality(Handlers)

\* Two codes of the same group are SameGroupTimeout apart, and a group does
\* not begin before GroupTimeout has passed since the one before it ended.
\* (One request at a time.)
Spacing ==
    \A c, d \in stored :
        /\ codes[c].group # NoGroup /\ codes[d].group # NoGroup
        /\ c < d
        => /\ codes[d].created > codes[c].created + SameGroupTimeout
           /\ codes[c].group < codes[d].group =>
                codes[d].created > codes[c].created + GroupTimeout

\* Codes that were created within one control period
Period(c) ==
    {d \in stored : /\ codes[c].created <= codes[d].created
                    /\ codes[d].created <= codes[c].created + LimitTimeout}

\* However requests are timed, a control period has at most one code more than
\* its groups (limit_same_group_attempts times limit_group_count, settings.py):
\* the one that resets them and that no group counts. (One request at a time.)
PeriodBound == \A c \in stored : Cardinality(Period(c)) <= Attempts * Groups + 1

\* The rows, seen as the counters of CodeLimit
LastGroup == IF stored = {} THEN NoGroup ELSE codes[CHOOSE c \in Latest : TRUE].group

Abstract == INSTANCE CodeLimit WITH
    at <- IF stored = {} THEN -1 ELSE codes[CHOOSE c \in Latest : TRUE].created,
    number <- LastGroup,
    count <- IF LastGroup = NoGroup THEN 0 ELSE Cardinality(InGroup(LastGroup))

\* Counting rows does what two counters and the time of the last code would
\* do: rows of a group that was reset or rolled back never count. (One request
\* at a time, none exactly on a limit.)
CodeLimitSpec == Abstract!Spec
=============================================================================
