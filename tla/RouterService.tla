--------------------------- MODULE RouterService ---------------------------
(***************************************************************************)
(* The requests to one router of one server process. The middleware gives  *)
(* each request a session; base_router_initial_service stores the service  *)
(* that works with it in the router, which all requests share. create_api  *)
(* takes it from there after the awaits of the CSRF check and of the form, *)
(* whose choices may have used it already; a list takes it at once and     *)
(* again, later, for the items of its columns. BaseModelService.create     *)
(* checks that the row is unique and inserts it; no table has a constraint *)
(* for it.                                                                 *)
(*                                                                         *)
(* A row has the name of the request that creates it, its unique fields    *)
(* together are its key. PostgreSQL runs at READ COMMITTED: a session sees *)
(* what is committed and what it has flushed itself. An AsyncSession that  *)
(* was closed begins a new transaction when it is used again.              *)
(***************************************************************************)
EXTENDS Integers, FiniteSets

CONSTANTS
    Requests,   \* each for the form of a new row, or for a list
    Keys,       \* the values of entity_unique_fields
    NoKey,      \* of a request that creates nothing
    Nobody,     \* the owner of the service before the first request
    Concurrency \* bound on the requests in flight

ASSUME RouterAssumption ==
    /\ IsFiniteSet(Requests) /\ Nobody \notin Requests
    /\ NoKey \notin Keys /\ Concurrency \in Nat \ {0}

VARIABLES
    stage,    \* stage[r]: the await that r is suspended at, or its answer
    key,      \* key[r]: what r is to create
    service,  \* instance.service, by the request whose session it has
    using,    \* using[r]: the service (and session) that r took from the router last
    pending,  \* pending[s]: the rows flushed in the session of s and not committed
    table     \* the committed rows

routerVars == <<stage, key, service, using, pending, table>>

RouterInit ==
    /\ stage = [r \in Requests |-> "new"]
    /\ key = [r \in Requests |-> NoKey]
    /\ service = Nobody
    /\ using = [r \in Requests |-> Nobody]
    /\ pending = [r \in Requests |-> {}]
    /\ table = {}

InFlight == {r \in Requests : stage[r] \notin {"new", "ok", "error"}}

At(r, label) == stage[r] = label
Move(r, label) == stage' = [stage EXCEPT ![r] = label]

\* db_async_session_middleware opens the session of r; async_wrapper replaces
\* the service that the router had.
Begin(r, k) ==
    /\ At(r, "new") /\ Cardinality(InFlight) < Concurrency
    /\ Move(r, "form")
    /\ key' = [key EXCEPT ![r] = k]
    /\ service' = r
    /\ UNCHANGED <<using, pending, table>>

\* r goes on to label with the service s.
Use(r, s, label) ==
    /\ using' = [using EXCEPT ![r] = s]
    /\ Move(r, label)
    /\ UNCHANGED <<key, service, pending, table>>

\* list_api retrieves its rows at once, with no await before it.
List(r) == At(r, "form") /\ key[r] = NoKey /\ Use(r, r, "list")

\* The items of a column that is filtered by a relation (the state of a category,
\* the module of a property): self.service is read again, for each such column.
ListColumns(r) == At(r, "list") /\ Use(r, service, "list")

Listed(r) == At(r, "list") /\ Use(r, using[r], "answer")

\* create_form_fill reads self.service for the choices of the form, if it has any.
FillForm(r) == At(r, "form") /\ key[r] # NoKey /\ Use(r, service, "fill")

\* The form of create_api is there and valid: self.service is read now.
Create(r) ==
    /\ (At(r, "form") /\ key[r] # NoKey) \/ At(r, "fill")
    /\ Use(r, service, "check")

\* Variant with a fault: the query does not see what others have committed
VisibleOfSession(r) == pending[using[r]]

\* The rows that a query of r sees
Visible(r) == table \union pending[using[r]]

Conflicts(r) == \E q \in Visible(r) : key[q] = key[r]

CheckUnique(r) ==
    /\ At(r, "check") /\ ~Conflicts(r)
    /\ Move(r, "insert")
    /\ UNCHANGED <<key, service, using, pending, table>>

\* session.add and the flush, after entity_validate and before_entity_create
InsertRow(r) ==
    /\ At(r, "insert")
    /\ pending' = [pending EXCEPT ![using[r]] = @ \union {r}]
    /\ Move(r, "refresh")
    /\ UNCHANGED <<key, service, using, table>>

\* session.refresh, which raises when the session no longer has the row
Refresh(r) ==
    /\ At(r, "refresh") /\ r \in pending[using[r]]
    /\ Move(r, "answer")
    /\ UNCHANGED <<key, service, using, pending, table>>

-----------------------------------------------------------------------------
(* The end of the request in db_async_session_middleware *)

\* Variant with a fault: an answer with success leaves the flushed rows
RespondUncommitted(r) ==
    /\ At(r, "answer")
    /\ Move(r, "ok")
    /\ pending' = [pending EXCEPT ![r] = {}]
    /\ UNCHANGED <<key, service, using, table>>

\* The status is 200 or 201: whatever was flushed in the session of r is
\* committed, and the session closed.
Respond(r) ==
    /\ At(r, "answer")
    /\ Move(r, "ok")
    /\ table' = table \union pending[r]
    /\ pending' = [pending EXCEPT ![r] = {}]
    /\ UNCHANGED <<key, service, using>>

\* Another status, or an exception: the session of r is rolled back and closed.
\* A statement that failed takes the transaction of its session along (lost).
Fail(r, lost) ==
    /\ Move(r, "error")
    /\ pending' = [s \in Requests |-> IF s \in lost \union {r} THEN {} ELSE pending[s]]
    /\ UNCHANGED <<key, service, using, table>>

\* The form is invalid, the row exists, or it can't be refreshed.
Refuse(r) ==
    /\ \/ At(r, "form") \/ At(r, "fill")
       \/ At(r, "check") /\ Conflicts(r)
       \/ At(r, "refresh") /\ r \notin pending[using[r]]
    /\ Fail(r, {})

\* At any await the request may be cut off, or its statement fail. Two tasks
\* that use one session at the same time fail in this way, too.
Break(r) ==
    /\ r \in InFlight
    /\ \E lost \in SUBSET ({using[r]} \intersect Requests) : Fail(r, lost)

RouterNext ==
    \E r \in Requests :
        \/ \E k \in Keys \union {NoKey} : Begin(r, k)
        \/ List(r) \/ ListColumns(r) \/ Listed(r)
        \/ FillForm(r) \/ Create(r) \/ CheckUnique(r) \/ InsertRow(r)
        \/ Refresh(r) \/ Respond(r) \/ Refuse(r) \/ Break(r)

RouterSpec == RouterInit /\ [][RouterNext]_routerVars

-----------------------------------------------------------------------------
(* Properties *)

Working == {"list", "fill", "check", "insert", "refresh", "answer"}

\* Every variable has its type, and whoever works has a service.
RouterTypeOK ==
    /\ stage \in [Requests ->
         {"new", "form", "list", "fill", "check", "insert", "refresh", "answer", "ok", "error"}]
    /\ key \in [Requests -> Keys \union {NoKey}]
    /\ service \in Requests \union {Nobody}
    /\ using \in [Requests -> Requests \union {Nobody}]
    /\ \A r \in Requests : stage[r] \in Working => using[r] # Nobody
    /\ pending \in [Requests -> SUBSET Requests]
    /\ table \in SUBSET Requests

\* Those that took the service of another request last: the router never gives
\* a request its own service back.
Strays == {r \in Requests : using[r] \notin {r, Nobody}}

\* The session s was rolled back: its own request failed, or another one that
\* worked with it.
RolledBack(s) == \E q \in Requests : stage[q] = "error" /\ (q = s \/ using[q] = s)

\* What an answer tells, whoever takes whose service: a row is in the table only
\* by the success of the request in whose session it was written, even if that
\* is not the one that wrote it; and a row answered with success is in the table,
\* unless the session it was written in was rolled back or, being that of another
\* request, has yet to be committed. So a request that works with its own service
\* is told the truth, as long as nobody who fails has taken its service.
RowsFollowTheirSession ==
    \A r \in Requests : key[r] # NoKey =>
        /\ r \in table => using[r] \in Requests /\ stage[using[r]] = "ok"
        /\ stage[r] = "ok" /\ r \notin table =>
               \/ RolledBack(using[r])
               \/ using[r] # r /\ r \in pending[using[r]]

\* Uniqueness is checked before the insert, so requests that overlap break it: each
\* key has at most as many rows as requests overlap, and one more for each
\* request that has taken the service of another.
SameKeyBound ==
    \A k \in Keys :
        Cardinality({r \in table : key[r] = k}) <= Concurrency + Cardinality(Strays)

\* The docstring of db_async_session_middleware: an own session for each request
OwnSession == Strays = {}
=============================================================================
