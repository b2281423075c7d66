--------------------------- MODULE EmailMessages ---------------------------
(***************************************************************************)
(* The way of an email: BaseService.send_email inserts a row of the table  *)
(* email_messages and publishes the message to RabbitMQ, the middleware    *)
(* then commits the session of the request (or rolls it back); a worker of *)
(* app_queue_processing sends the mail over SMTP, writes the result to the *)
(* row and acknowledges the message.                                       *)
(*                                                                         *)
(* A session is what has_uncommitted_changes sees of it: whether it has    *)
(* changed objects that are not flushed, and whether a flush has written   *)
(* some in this transaction (after_flush fires only then). A statement     *)
(* that is executed directly is neither.                                   *)
(***************************************************************************)
EXTENDS Integers, FiniteSets

CONSTANTS
    Messages,   \* one request each, which sends one mail
    Workers,    \* the worker processes of the queue (worker_count)
    NoWorker,   \* the owner of a message that no worker has
    RetryLimit, \* smtp_retry_limit
    MaxFaults   \* bound on the faults of a run: crashes, exceptions, lost answers

ASSUME EmailAssumption ==
    /\ RetryLimit \in Nat \ {0} /\ MaxFaults \in Nat
    /\ NoWorker \notin Workers /\ Workers # {}

VARIABLES
    request, \* request[m]: where the request that sends m is
    session, \* session[m]: its session
    row,     \* row[m]: the committed row of email_messages, by its is_sent
    place,   \* place[m]: where the broker has the message
    worker,  \* worker[w]: is the process running?
    owner,   \* owner[m]: the worker that m was delivered to
    task,    \* task[m]: the await the callback is suspended at
    attempt, \* attempt[m]: the number of the attempt to send
    result,  \* result[m]: what came of the attempts
    mails,   \* mails[m]: how often the recipient gets the mail (history)
    faults   \* the number of faults so far (history, and the bound)

vars == <<request, session, row, place, worker, owner, task, attempt, result, mails, faults>>
requestVars == <<request, session>>
taskVars == <<owner, task, attempt, result>>

NewSession == [changed |-> FALSE, flushed |-> FALSE]
NoRow == "no row"
Results == {"none", "sent", "refused", "exhausted"}

Init ==
    /\ request = [m \in Messages |-> "new"]
    /\ session = [m \in Messages |-> NewSession]
    /\ row = [m \in Messages |-> NoRow]
    /\ place = [m \in Messages |-> "none"]
    /\ worker = [w \in Workers |-> "up"]
    /\ owner = [m \in Messages |-> NoWorker]
    /\ task = [m \in Messages |-> "none"]
    /\ attempt = [m \in Messages |-> 0]
    /\ result = [m \in Messages |-> "none"]
    /\ mails = [m \in Messages |-> 0]
    /\ faults = 0

Fault == faults < MaxFaults /\ faults' = faults + 1

-----------------------------------------------------------------------------
(* common/helpers/database.py *)

Add(s) == [s EXCEPT !.changed = TRUE]

\* log_flush is called when there was something to flush.
Flush(s) == IF s.changed THEN [changed |-> FALSE, flushed |-> TRUE] ELSE s

\* An UPDATE that is not the flush of an object
Execute(s) == s

\* Variant with a fault: only the objects of the session are looked at
HasChangedObjects(s) == s.changed

HasUncommittedChanges(s) == s.changed \/ s.flushed

-----------------------------------------------------------------------------
(* BaseService.send_email and db_async_session_middleware *)

\* The row is added and flushed: the request sees it, the others do not.
Insert(m) ==
    /\ request[m] = "new"
    /\ session' = [session EXCEPT ![m] = Flush(Add(@))]
    /\ request' = [request EXCEPT ![m] = "publish"]
    /\ UNCHANGED <<row, place, worker, taskVars, mails, faults>>

\* async_publish_message returns when the broker has confirmed the message.
Publish(m) ==
    /\ request[m] = "publish"
    /\ place' = [place EXCEPT ![m] = "ready"]
    /\ request' = [request EXCEPT ![m] = "commit"]
    /\ UNCHANGED <<session, row, worker, taskVars, mails, faults>>

\* The response is 200 or 201.
CommitRequest(m) ==
    /\ request[m] = "commit"
    /\ row' = IF HasUncommittedChanges(session[m])
              THEN [row EXCEPT ![m] = "is_sent = false"]
              ELSE row
    /\ session' = [session EXCEPT ![m] = NewSession]
    /\ request' = [request EXCEPT ![m] = "done"]
    /\ UNCHANGED <<place, worker, taskVars, mails, faults>>

\* The publication, what the request does after it or the commit fails: an
\* error is answered and the session rolled back. A publication may fail
\* although the broker has the message.
RollbackRequest(m) ==
    /\ request[m] \in {"publish", "commit"}
    /\ Fault
    /\ place' \in IF request[m] = "publish" THEN {place, [place EXCEPT ![m] = "ready"]}
                                           ELSE {place}
    /\ session' = [session EXCEPT ![m] = NewSession]
    /\ request' = [request EXCEPT ![m] = "failed"]
    /\ UNCHANGED <<row, worker, taskVars, mails>>

-----------------------------------------------------------------------------
(* BaseWorkerRMQ.on_message_pre_processing, EmailMessageWorkerRMQ *)

\* smtplib blocks the event loop of the worker: none of its other callbacks
\* runs before all the attempts are over.
Free(w) == \A m \in Messages : owner[m] = w => task[m] # "send"

Runs(m, label) == task[m] = label /\ (label = "send" \/ Free(owner[m]))

Goto(m, label) == task' = [task EXCEPT ![m] = label]

\* Variant with a fault: the message is acknowledged when it is delivered
DeliverNoAck(m, w) ==
    /\ place[m] = "ready" /\ worker[w] = "up" /\ Free(w)
    /\ place' = [place EXCEPT ![m] = "acked"]
    /\ owner' = [owner EXCEPT ![m] = w]
    /\ Goto(m, "send")
    /\ attempt' = [attempt EXCEPT ![m] = 1]
    /\ result' = [result EXCEPT ![m] = "none"]
    /\ UNCHANGED <<requestVars, row, worker, mails, faults>>

Deliver(m, w) ==
    /\ place[m] = "ready" /\ worker[w] = "up" /\ Free(w)
    /\ place' = [place EXCEPT ![m] = "unacked"]
    /\ owner' = [owner EXCEPT ![m] = w]
    /\ Goto(m, "send")
    /\ attempt' = [attempt EXCEPT ![m] = 1]
    /\ result' = [result EXCEPT ![m] = "none"]
    /\ UNCHANGED <<requestVars, row, worker, mails, faults>>

\* Variants with a fault: one attempt too many; no break after a success
NextAttemptOneMore(m, outcome) ==
    IF outcome = "exhausted" /\ attempt[m] <= RetryLimit
    THEN attempt' = [attempt EXCEPT ![m] = @ + 1] /\ UNCHANGED <<result, task>>
    ELSE result' = [result EXCEPT ![m] = outcome] /\ Goto(m, "update") /\ UNCHANGED attempt
NextAttemptAlways(m, outcome) ==
    IF attempt[m] < RetryLimit
    THEN attempt' = [attempt EXCEPT ![m] = @ + 1] /\ UNCHANGED <<result, task>>
    ELSE result' = [result EXCEPT ![m] = outcome] /\ Goto(m, "update") /\ UNCHANGED attempt

\* Success and the SMTP codes of not_retry_smtp_codes leave the loop.
NextAttempt(m, outcome) ==
    IF outcome = "exhausted" /\ attempt[m] < RetryLimit
    THEN attempt' = [attempt EXCEPT ![m] = @ + 1] /\ UNCHANGED <<result, task>>
    ELSE result' = [result EXCEPT ![m] = outcome] /\ Goto(m, "update") /\ UNCHANGED attempt

\* One attempt: the mail is accepted, refused for good, or fails this time.
Send(m) ==
    /\ Runs(m, "send")
    /\ \/ mails' = [mails EXCEPT ![m] = @ + 1] /\ NextAttempt(m, "sent")
       \/ \E outcome \in {"refused", "exhausted"} :
             UNCHANGED mails /\ NextAttempt(m, outcome)
    /\ UNCHANGED <<requestVars, row, place, worker, owner, faults>>

\* The mail is accepted, but the connection breaks before quit() is answered:
\* send_email returns a failure, and the loop goes on.
SendUnanswered(m) ==
    /\ Runs(m, "send")
    /\ Fault
    /\ mails' = [mails EXCEPT ![m] = @ + 1]
    /\ NextAttempt(m, "exhausted")
    /\ UNCHANGED <<requestVars, row, place, worker, owner>>

\* What of the session of the worker the UPDATE and the flush leave to commit
WorkerSession == Flush(Execute(NewSession))

\* UPDATE and flush, then the end of get_sa_async_session. A row that is not
\* committed yet is not found.
Update(m) ==
    /\ Runs(m, "update")
    /\ row' = IF HasUncommittedChanges(WorkerSession) /\ row[m] # NoRow
              THEN [row EXCEPT ![m] = IF result[m] = "sent" THEN "is_sent = true"
                                                           ELSE "is_sent = false"]
              ELSE row
    /\ Goto(m, "ack")
    /\ UNCHANGED <<requestVars, place, worker, owner, attempt, result, mails, faults>>

Ack(m) ==
    /\ Runs(m, "ack")
    /\ place' = [place EXCEPT ![m] = IF @ = "unacked" THEN "acked" ELSE @]
    /\ Goto(m, "none")
    /\ owner' = [owner EXCEPT ![m] = NoWorker]
    /\ UNCHANGED <<requestVars, row, worker, attempt, result, mails, faults>>

\* Variant with a fault: nack(requeue=False)
NackDrop(m) ==
    /\ Runs(m, "update")
    /\ Fault
    /\ place' = [place EXCEPT ![m] = IF @ = "unacked" THEN "dropped" ELSE @]
    /\ Goto(m, "none")
    /\ owner' = [owner EXCEPT ![m] = NoWorker]
    /\ UNCHANGED <<requestVars, row, worker, attempt, result, mails>>

\* The database raises: nack(requeue=True).
Nack(m) ==
    /\ Runs(m, "update")
    /\ Fault
    /\ place' = [place EXCEPT ![m] = IF @ = "unacked" THEN "ready" ELSE @]
    /\ Goto(m, "none")
    /\ owner' = [owner EXCEPT ![m] = NoWorker]
    /\ UNCHANGED <<requestVars, row, worker, attempt, result, mails>>

\* The worker process dies, or loses its connection: the broker puts back what
\* it has not acknowledged.
Crash(w) ==
    /\ worker[w] = "up"
    /\ Fault
    /\ worker' = [worker EXCEPT ![w] = "down"]
    /\ place' = [m \in Messages |->
                    IF owner[m] = w /\ place[m] = "unacked" THEN "ready" ELSE place[m]]
    /\ task' = [m \in Messages |-> IF owner[m] = w THEN "none" ELSE task[m]]
    /\ owner' = [m \in Messages |-> IF owner[m] = w THEN NoWorker ELSE owner[m]]
    /\ UNCHANGED <<requestVars, row, attempt, result, mails>>

\* The supervisor starts a worker that is missing, every few seconds.
Restart(w) ==
    /\ worker[w] = "down"
    /\ worker' = [worker EXCEPT ![w] = "up"]
    /\ UNCHANGED <<requestVars, row, place, taskVars, mails, faults>>

\* The broker restarts: the queue is durable, the messages are not persistent.
BrokerRestart ==
    /\ Fault
    /\ place' = [m \in Messages |-> IF place[m] \in {"ready", "unacked"} THEN "lost" ELSE place[m]]
    /\ UNCHANGED <<requestVars, row, worker, taskVars, mails>>

Work(m) ==
    \/ \E w \in Workers : Deliver(m, w)
    \/ Send(m) \/ Update(m) \/ Ack(m)

Next ==
    \/ \E m \in Messages :
         \/ Insert(m) \/ Publish(m) \/ CommitRequest(m) \/ RollbackRequest(m)
         \/ Work(m) \/ SendUnanswered(m) \/ Nack(m)
    \/ \E w \in Workers : Crash(w) \/ Restart(w)
    \/ BrokerRestart

\* The event loops go on, the broker delivers, the supervisor restarts.
Fairness ==
    /\ \A m \in Messages : WF_vars(Work(m))
    /\ \A w \in Workers : WF_vars(Restart(w))

Spec == Init /\ [][Next]_vars /\ Fairness

-----------------------------------------------------------------------------
(* Properties *)

\* Every variable has its type.
TypeOK ==
    /\ request \in [Messages -> {"new", "publish", "commit", "done", "failed"}]
    /\ session \in [Messages -> [changed : BOOLEAN, flushed : BOOLEAN]]
    /\ row \in [Messages -> {NoRow, "is_sent = false", "is_sent = true"}]
    /\ place \in [Messages -> {"none", "ready", "unacked", "acked", "lost"}]
    /\ worker \in [Workers -> {"up", "down"}]
    /\ owner \in [Messages -> Workers \union {NoWorker}]
    /\ task \in [Messages -> {"none", "send", "update", "ack"}]
    /\ attempt \in [Messages -> 0 .. RetryLimit]
    /\ result \in [Messages -> Results]
    /\ mails \in [Messages -> Nat]
    /\ faults \in 0 .. MaxFaults

\* A request that was answered with a success has its row in the database,
\* although nothing in the session is new or changed any more when the
\* middleware looks at it: send_email has flushed it.
AnsweredIsCommitted == \A m \in Messages : request[m] = "done" => row[m] # NoRow

\* Wherever workers die, a message does not leave the queue before its mail is
\* sent, refused for good, or tried RetryLimit times in one delivery.
AckedIsSettled ==
    \A m \in Messages : place[m] = "acked" =>
        \/ result[m] = "sent" /\ mails[m] > 0
        \/ result[m] = "refused"
        \/ result[m] = "exhausted" /\ attempt[m] = RetryLimit

\* Delivery is at least once and attempts are repeated: still each mail beyond
\* the first is due to a fault of its own.
MailsBound == \A m \in Messages : mails[m] <= 1 + faults

\* A published message is settled some time, unless the broker loses it,
\* whatever dies in between.
EventuallySettled ==
    \A m \in Messages : place[m] = "ready" ~> place[m] \in {"acked", "lost"}

\* The worker records in the row what came of the mail: the column is_sent is
\* commented as the flag that the mail was sent.
ResultRecorded ==
    \A m \in Messages :
        task[m] = "ack" /\ result[m] = "sent" /\ request[m] = "done" => row[m] = "is_sent = true"
=============================================================================
