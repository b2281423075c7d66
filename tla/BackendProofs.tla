-------------------------- MODULE BackendProofs --------------------------
(***************************************************************************)
(* What holds of the three components of the backend whose modules are     *)
(* small: EmailMessages for any number of messages, workers, attempts and  *)
(* faults, RouterService for any requests and keys, UserCache for any      *)
(* processes and users. They share no variable. Fairness plays no part.    *)
(***************************************************************************)
EXTENDS EmailMessages, RouterService, UserCache, FiniteSetTheorems, TLAPS

-----------------------------------------------------------------------------
(* EmailMessages *)

\* A session that was flushed is not clean, whatever it was before.
LEMMA FlushedIsUncommitted ==
    ASSUME NEW s \in [changed : BOOLEAN, flushed : BOOLEAN]
    PROVE  /\ Flush(Add(s)) \in [changed : BOOLEAN, flushed : BOOLEAN]
           /\ Flush(Add(s)).flushed = TRUE
  BY DEF Flush, Add

\* The steps of the next-state relation, one for each operation
Step ==
    \/ \E m \in Messages :
         \/ Insert(m) \/ Publish(m) \/ CommitRequest(m) \/ RollbackRequest(m)
         \/ \E w \in Workers : Deliver(m, w)
         \/ Send(m) \/ SendUnanswered(m) \/ Update(m) \/ Ack(m) \/ Nack(m)
    \/ \E w \in Workers : Crash(w) \/ Restart(w)
    \/ BrokerRestart

\* The actions of Work are steps of their own here.
LEMMA NextIsStep == Next => Step
  BY DEF Next, Step, Work

-----------------------------------------------------------------------------
(* Type correctness *)

\* Each fault is counted, and the bound is kept.
LEMMA FaultCounts ==
    ASSUME TypeOK, Fault
    PROVE  faults' = faults + 1 /\ faults \in Nat /\ faults' \in 0 .. MaxFaults
  <1>1. faults \in 0 .. MaxFaults /\ MaxFaults \in Nat
    BY EmailAssumption DEF TypeOK
  <1>2. QED
    BY <1>1 DEF Fault

\* How an attempt may end: there is a next one, or the loop is left.
LEMMA NextAttemptCases ==
    ASSUME TypeOK, NEW m \in Messages, NEW outcome \in {"sent", "refused", "exhausted"},
           task[m] = "send", NextAttempt(m, outcome)
    PROVE  \/ /\ outcome = "exhausted" /\ attempt[m] < RetryLimit
              /\ attempt' = [attempt EXCEPT ![m] = @ + 1]
              /\ attempt' \in [Messages -> 0 .. RetryLimit]
              /\ UNCHANGED <<result, task>>
           \/ /\ outcome = "exhausted" => attempt[m] = RetryLimit
              /\ result' = [result EXCEPT ![m] = outcome]
              /\ task' = [task EXCEPT ![m] = "update"]
              /\ UNCHANGED attempt
  <1>1. attempt[m] \in 0 .. RetryLimit /\ RetryLimit \in Nat
    BY EmailAssumption DEF TypeOK
  <1>2. CASE outcome = "exhausted" /\ attempt[m] < RetryLimit
    <2>1. attempt' = [attempt EXCEPT ![m] = @ + 1] /\ UNCHANGED <<result, task>>
      BY <1>2 DEF NextAttempt
    <2>2. attempt[m] + 1 \in 0 .. RetryLimit
      BY <1>1, <1>2
    <2>3. attempt \in [Messages -> 0 .. RetryLimit]
      BY DEF TypeOK
    <2>4. attempt' \in [Messages -> 0 .. RetryLimit]
      BY <2>1, <2>2, <2>3
    <2>5. QED
      BY <1>2, <2>1, <2>4
  <1>3. CASE ~(outcome = "exhausted" /\ attempt[m] < RetryLimit)
    BY <1>1, <1>3 DEF NextAttempt, Goto
  <1>4. QED
    BY <1>2, <1>3

\* An attempt leaves the variables of the loop with their types.
LEMMA AttemptType ==
    ASSUME TypeOK, NEW m \in Messages, NEW outcome \in {"sent", "refused", "exhausted"},
           task[m] = "send", NextAttempt(m, outcome)
    PROVE  /\ attempt' \in [Messages -> 0 .. RetryLimit]
           /\ result' \in [Messages -> Results]
           /\ task' \in [Messages -> {"none", "send", "update", "ack"}]
  <1>1. /\ attempt \in [Messages -> 0 .. RetryLimit]
        /\ result \in [Messages -> Results]
        /\ task \in [Messages -> {"none", "send", "update", "ack"}]
    BY DEF TypeOK
  <1>2. outcome \in Results
    BY DEF Results
  <1>3. CASE outcome = "exhausted" /\ attempt[m] < RetryLimit
    BY <1>1, <1>3, NextAttemptCases
  <1>4. CASE ~(outcome = "exhausted" /\ attempt[m] < RetryLimit)
    BY <1>1, <1>2, <1>4, NextAttemptCases
  <1>5. QED
    BY <1>3, <1>4

\* TypeOK is inductive.
LEMMA TypeStep == TypeOK /\ [Next]_vars => TypeOK'
  <1> SUFFICES ASSUME TypeOK, Step \/ UNCHANGED vars
               PROVE  TypeOK'
    BY NextIsStep
  <1> USE EmailAssumption
  <1>1. ASSUME NEW m \in Messages, Insert(m)
        PROVE  TypeOK'
    BY <1>1, FlushedIsUncommitted DEF Insert, TypeOK, taskVars
  <1>2. ASSUME NEW m \in Messages, Publish(m)
        PROVE  TypeOK'
    BY <1>2 DEF Publish, TypeOK, taskVars
  <1>3. ASSUME NEW m \in Messages, CommitRequest(m)
        PROVE  TypeOK'
    BY <1>3 DEF CommitRequest, TypeOK, taskVars, NewSession
  <1>4. ASSUME NEW m \in Messages, RollbackRequest(m)
        PROVE  TypeOK'
    <2>1. faults' \in 0 .. MaxFaults
      BY <1>4, FaultCounts DEF RollbackRequest
    <2>2. place' \in [Messages -> {"none", "ready", "unacked", "acked", "lost"}]
      <3>1. place' = place \/ place' = [place EXCEPT ![m] = "ready"]
        BY <1>4 DEF RollbackRequest
      <3>2. QED
        BY <3>1 DEF TypeOK
    <2>3. QED
      BY <1>4, <2>1, <2>2 DEF RollbackRequest, TypeOK, taskVars, NewSession
  <1>5. ASSUME NEW m \in Messages, NEW w \in Workers, Deliver(m, w)
        PROVE  TypeOK'
    <2>1. attempt' \in [Messages -> 0 .. RetryLimit]
      <3>1. 1 \in 0 .. RetryLimit
        OBVIOUS
      <3>2. QED
        BY <1>5, <3>1 DEF Deliver, TypeOK
    <2>2. QED
      BY <1>5, <2>1 DEF Deliver, Goto, TypeOK, requestVars, Results
  <1>6. ASSUME NEW m \in Messages, Send(m)
        PROVE  TypeOK'
    <2>1. task[m] = "send"
      BY <1>6 DEF Send, Runs
    <2>2. PICK outcome \in {"sent", "refused", "exhausted"} : NextAttempt(m, outcome)
      BY <1>6 DEF Send
    <2>3. mails' \in [Messages -> Nat]
      <3>1. mails' = [mails EXCEPT ![m] = @ + 1] \/ mails' = mails
        BY <1>6 DEF Send
      <3>2. mails \in [Messages -> Nat]
        BY DEF TypeOK
      <3>3. QED
        BY <3>1, <3>2
    <2>4. /\ attempt' \in [Messages -> 0 .. RetryLimit]
          /\ result' \in [Messages -> Results]
          /\ task' \in [Messages -> {"none", "send", "update", "ack"}]
      BY <2>1, <2>2, AttemptType
    <2>5. QED
      BY <1>6, <2>3, <2>4 DEF Send, TypeOK, requestVars
  <1>7. ASSUME NEW m \in Messages, SendUnanswered(m)
        PROVE  TypeOK'
    <2>1. task[m] = "send" /\ NextAttempt(m, "exhausted")
      BY <1>7 DEF SendUnanswered, Runs
    <2>2. /\ attempt' \in [Messages -> 0 .. RetryLimit]
          /\ result' \in [Messages -> Results]
          /\ task' \in [Messages -> {"none", "send", "update", "ack"}]
      BY <2>1, AttemptType
    <2>3. faults' \in 0 .. MaxFaults
      BY <1>7, FaultCounts DEF SendUnanswered
    <2>4. mails' \in [Messages -> Nat]
      <3>1. mails \in [Messages -> Nat] /\ mails' = [mails EXCEPT ![m] = @ + 1]
        BY <1>7 DEF SendUnanswered, TypeOK
      <3>2. QED
        BY <3>1
    <2>5. QED
      BY <1>7, <2>2, <2>3, <2>4 DEF SendUnanswered, TypeOK, requestVars
  <1>8. ASSUME NEW m \in Messages, Update(m)
        PROVE  TypeOK'
    BY <1>8 DEF Update, Goto, TypeOK, requestVars
  <1>9. ASSUME NEW m \in Messages, Ack(m)
        PROVE  TypeOK'
    BY <1>9 DEF Ack, Goto, TypeOK, requestVars
  <1>10. ASSUME NEW m \in Messages, Nack(m)
         PROVE  TypeOK'
    <2>1. faults' \in 0 .. MaxFaults
      BY <1>10, FaultCounts DEF Nack
    <2>2. QED
      BY <1>10, <2>1 DEF Nack, Goto, TypeOK, requestVars
  <1>11. ASSUME NEW w \in Workers, Crash(w)
         PROVE  TypeOK'
    <2>1. faults' \in 0 .. MaxFaults
      BY <1>11, FaultCounts DEF Crash
    <2>2. place' \in [Messages -> {"none", "ready", "unacked", "acked", "lost"}]
      BY <1>11 DEF Crash, TypeOK
    <2>3. /\ task' \in [Messages -> {"none", "send", "update", "ack"}]
          /\ owner' \in [Messages -> Workers \union {NoWorker}]
      BY <1>11 DEF Crash, TypeOK
    <2>4. QED
      BY <1>11, <2>1, <2>2, <2>3 DEF Crash, TypeOK, requestVars
  <1>12. ASSUME NEW w \in Workers, Restart(w)
         PROVE  TypeOK'
    BY <1>12 DEF Restart, TypeOK, requestVars, taskVars
  <1>13. CASE BrokerRestart
    <2>1. faults' \in 0 .. MaxFaults
      BY <1>13, FaultCounts DEF BrokerRestart
    <2>2. place' \in [Messages -> {"none", "ready", "unacked", "acked", "lost"}]
      BY <1>13 DEF BrokerRestart, TypeOK
    <2>3. QED
      BY <1>13, <2>1, <2>2 DEF BrokerRestart, TypeOK, requestVars, taskVars
  <1>14. CASE UNCHANGED vars
    BY <1>14 DEF vars, TypeOK
  <1>15. QED
    BY <1>1, <1>2, <1>3, <1>4, <1>5, <1>6, <1>7, <1>8, <1>9, <1>10, <1>11, <1>12, <1>13, <1>14
       DEF Step

\* Every variable keeps its type, the number of an attempt does not exceed
\* the limit of on_message_sa_processing's loop.
THEOREM EmailTypeCorrect == Spec => []TypeOK
  <1>1. Init => TypeOK
    BY EmailAssumption DEF Init, TypeOK, NewSession, Results
  <1>2. QED
    BY <1>1, TypeStep, PTL DEF Spec

-----------------------------------------------------------------------------
(* What requests, the broker and the callbacks know of a message *)

Settled(m) ==
    \/ result[m] = "sent" /\ mails[m] > 0
    \/ result[m] = "refused"
    \/ result[m] = "exhausted" /\ attempt[m] = RetryLimit

\* The row is flushed before the middleware looks at the session.
RowOK(m) ==
    /\ request[m] \in {"publish", "commit"} => session[m].flushed = TRUE
    /\ request[m] = "done" => row[m] # NoRow

\* A message is published once, and a message without a callback is not with
\* a worker.
PlaceOK(m) ==
    /\ request[m] \in {"new", "publish"} => place[m] = "none"
    /\ place[m] \in {"none", "ready", "acked"} => task[m] = "none"

\* The loop of the attempts is left with a result, which stays.
ResultOK(m) == task[m] \in {"update", "ack"} \/ place[m] = "acked" => Settled(m)

\* A message that is still to be sent owes each of its mails to a fault.
MailsOK(m) ==
    /\ mails[m] <= 1 + faults
    /\ task[m] = "send" \/ place[m] \in {"none", "ready"} => mails[m] <= faults

MessageOK(m) == RowOK(m) /\ PlaceOK(m) /\ ResultOK(m) /\ MailsOK(m)

DeliveryOK == \A m \in Messages : MessageOK(m)

\* Each function has a value for each message.
LEMMA Domains ==
    ASSUME TypeOK
    PROVE  /\ DOMAIN request = Messages /\ DOMAIN session = Messages /\ DOMAIN row = Messages
           /\ DOMAIN place = Messages /\ DOMAIN task = Messages /\ DOMAIN attempt = Messages
           /\ DOMAIN result = Messages /\ DOMAIN mails = Messages
  BY DEF TypeOK

\* The counters are numbers.
LEMMA Numbers ==
    ASSUME TypeOK, NEW n \in Messages
    PROVE  /\ mails[n] \in Nat /\ faults \in Nat
           /\ attempt[n] \in 0 .. RetryLimit /\ RetryLimit \in Nat
  <1>1. mails \in [Messages -> Nat] /\ attempt \in [Messages -> 0 .. RetryLimit]
    BY DEF TypeOK
  <1>2. faults \in 0 .. MaxFaults /\ MaxFaults \in Nat /\ RetryLimit \in Nat
    BY EmailAssumption DEF TypeOK
  <1>3. QED
    BY <1>1, <1>2

\* A fault elsewhere leaves a message alone.
LEMMA Untouched ==
    ASSUME TypeOK, NEW n \in Messages, MessageOK(n),
           request'[n] = request[n], session'[n] = session[n], row'[n] = row[n],
           place'[n] = place[n], task'[n] = task[n], attempt'[n] = attempt[n],
           result'[n] = result[n], mails'[n] = mails[n],
           faults' = faults \/ faults' = faults + 1
    PROVE  MessageOK(n)'
  <1>1. mails[n] \in Nat /\ faults \in Nat
    BY Numbers
  <1>2. RowOK(n)' /\ PlaceOK(n)' /\ ResultOK(n)'
    BY DEF MessageOK, RowOK, PlaceOK, ResultOK, Settled
  <1>3. MailsOK(n)'
    BY <1>1 DEF MessageOK, MailsOK
  <1>4. QED
    BY <1>2, <1>3 DEF MessageOK

\* DeliveryOK is inductive: every step is about one message, but for the
\* death of a worker and the restart of the broker.
LEMMA DeliveryStep == TypeOK /\ DeliveryOK /\ [Next]_vars => DeliveryOK'
  <1> SUFFICES ASSUME TypeOK, DeliveryOK, Step \/ UNCHANGED vars, NEW n \in Messages
               PROVE  MessageOK(n)'
    BY NextIsStep DEF DeliveryOK
  <1> DEFINE Same == /\ request'[n] = request[n] /\ session'[n] = session[n] /\ row'[n] = row[n]
                     /\ place'[n] = place[n] /\ task'[n] = task[n] /\ attempt'[n] = attempt[n]
                     /\ result'[n] = result[n] /\ mails'[n] = mails[n]
                     /\ faults' = faults \/ faults' = faults + 1
  <1>a. MessageOK(n)
    BY DEF DeliveryOK
  <1>b. Same => MessageOK(n)'
    BY <1>a, Untouched
  <1>c. mails[n] \in Nat /\ faults \in Nat /\ attempt[n] \in 0 .. RetryLimit /\ RetryLimit \in Nat
    BY Numbers
  <1> HIDE DEF Same
  <1>1. ASSUME NEW m \in Messages, Insert(m)
        PROVE  MessageOK(n)'
    <2>1. CASE n # m
      BY <1>1, <2>1, <1>b, Domains DEF Insert, taskVars, Same
    <2>2. CASE n = m
      <3>1. session'[n].flushed = TRUE /\ request'[n] = "publish"
        <4>1. session[n] \in [changed : BOOLEAN, flushed : BOOLEAN]
          BY DEF TypeOK
        <4>2. session'[n] = Flush(Add(session[n])) /\ request'[n] = "publish"
          BY <1>1, <2>2, Domains DEF Insert
        <4>3. QED
          BY <4>1, <4>2, FlushedIsUncommitted
      <3>2. QED
        BY <1>1, <2>2, <1>a, <3>1 DEF Insert, taskVars, MessageOK, RowOK, PlaceOK, ResultOK,
           Settled, MailsOK
    <2>3. QED
      BY <2>1, <2>2
  <1>2. ASSUME NEW m \in Messages, Publish(m)
        PROVE  MessageOK(n)'
    <2>1. CASE n # m
      BY <1>2, <2>1, <1>b, Domains DEF Publish, taskVars, Same
    <2>2. CASE n = m
      BY <1>2, <2>2, <1>a, Domains DEF Publish, taskVars, MessageOK, RowOK, PlaceOK, ResultOK,
         Settled, MailsOK
    <2>3. QED
      BY <2>1, <2>2
  <1>3. ASSUME NEW m \in Messages, CommitRequest(m)
        PROVE  MessageOK(n)'
    <2>1. CASE n # m
      BY <1>3, <2>1, <1>b, Domains DEF CommitRequest, taskVars, Same
    <2>2. CASE n = m
      <3>1. row'[n] # NoRow
        <4>1. HasUncommittedChanges(session[n])
          BY <1>3, <2>2, <1>a DEF CommitRequest, MessageOK, RowOK, HasUncommittedChanges
        <4>2. QED
          BY <1>3, <2>2, <4>1, Domains DEF CommitRequest, NoRow
      <3>2. request'[n] = "done"
        BY <1>3, <2>2, Domains DEF CommitRequest
      <3>3. QED
        BY <1>3, <2>2, <1>a, <3>1, <3>2 DEF CommitRequest, taskVars, MessageOK, RowOK, PlaceOK,
           ResultOK, Settled, MailsOK
    <2>3. QED
      BY <2>1, <2>2
  <1>4. ASSUME NEW m \in Messages, RollbackRequest(m)
        PROVE  MessageOK(n)'
    <2>f. faults' = faults + 1
      BY <1>4 DEF RollbackRequest, Fault
    <2>1. CASE n # m
      <3>1. place'[n] = place[n]
        BY <1>4, <2>1, Domains DEF RollbackRequest
      <3>2. QED
        BY <1>4, <2>1, <2>f, <1>b, <3>1, Domains DEF RollbackRequest, taskVars, Same
    <2>2. CASE n = m
      <3>1. request'[n] = "failed"
        BY <1>4, <2>2, Domains DEF RollbackRequest
      <3>2. place'[n] = place[n] \/ (place[n] = "none" /\ place'[n] = "ready")
        BY <1>4, <2>2, <1>a, Domains DEF RollbackRequest, MessageOK, PlaceOK
      <3>3. RowOK(n)' /\ PlaceOK(n)' /\ ResultOK(n)'
        BY <1>4, <2>2, <1>a, <3>1, <3>2 DEF RollbackRequest, taskVars, MessageOK, RowOK, PlaceOK,
           ResultOK, Settled
      <3>4. MailsOK(n)'
        BY <1>4, <1>a, <1>c, <2>f, <3>2 DEF RollbackRequest, taskVars, MessageOK, MailsOK
      <3>5. QED
        BY <3>3, <3>4 DEF MessageOK
    <2>3. QED
      BY <2>1, <2>2
  <1>5. ASSUME NEW m \in Messages, NEW w \in Workers, Deliver(m, w)
        PROVE  MessageOK(n)'
    <2>1. CASE n # m
      BY <1>5, <2>1, <1>b, Domains DEF Deliver, Goto, requestVars, Same
    <2>2. CASE n = m
      <3>1. place[n] = "ready" /\ place'[n] = "unacked" /\ task'[n] = "send"
        BY <1>5, <2>2, Domains DEF Deliver, Goto
      <3>2. QED
        BY <1>5, <1>a, <3>1 DEF Deliver, requestVars, MessageOK, RowOK, PlaceOK, ResultOK,
           Settled, MailsOK
    <2>3. QED
      BY <2>1, <2>2
  <1>6. ASSUME NEW m \in Messages, Send(m)
        PROVE  MessageOK(n)'
    <2>a. task[m] = "send"
      BY <1>6 DEF Send, Runs
    <2>b. PICK outcome \in {"sent", "refused", "exhausted"} :
             /\ NextAttempt(m, outcome)
             /\ IF outcome = "sent" THEN mails' = [mails EXCEPT ![m] = @ + 1]
                                    ELSE mails' = mails
      BY <1>6 DEF Send
    <2>1. CASE n # m
      <3>1. attempt'[n] = attempt[n] /\ result'[n] = result[n] /\ task'[n] = task[n]
        BY <2>a, <2>b, <2>1, NextAttemptCases, Domains
      <3>2. mails'[n] = mails[n]
        BY <2>b, <2>1, Domains
      <3>3. QED
        BY <1>6, <1>b, <3>1, <3>2 DEF Send, requestVars, Same
    <2>2. CASE n = m
      <3>1. PlaceOK(n)' /\ RowOK(n)'
        <4>1. place[n] \notin {"none", "ready", "acked"}
          BY <1>a, <2>a, <2>2 DEF MessageOK, PlaceOK
        <4>2. QED
          BY <1>6, <1>a, <4>1 DEF Send, requestVars, MessageOK, PlaceOK, RowOK
      <3>2. place[n] \notin {"none", "ready", "acked"} /\ mails[n] <= faults
        BY <1>a, <2>a, <2>2 DEF MessageOK, PlaceOK, MailsOK
      <3>3. ResultOK(n)' /\ MailsOK(n)'
        <4>1. CASE outcome = "exhausted" /\ attempt[m] < RetryLimit
          <5>1. task'[n] = "send" /\ mails'[n] = mails[n]
            BY <2>a, <2>b, <2>2, <4>1, <1>c, NextAttemptCases
          <5>2. QED
            BY <1>6, <1>c, <3>2, <5>1 DEF Send, ResultOK, MailsOK
        <4>2. CASE ~(outcome = "exhausted" /\ attempt[m] < RetryLimit)
          <5>1. /\ outcome = "exhausted" => attempt'[n] = RetryLimit
                /\ result'[n] = outcome /\ task'[n] = "update"
            BY <2>a, <2>b, <2>2, <4>2, NextAttemptCases, Domains
          <5>2. mails'[n] = IF outcome = "sent" THEN mails[n] + 1 ELSE mails[n]
            BY <2>b, <2>2, Domains
          <5>3. Settled(n)'
            BY <1>c, <5>1, <5>2 DEF Settled
          <5>4. QED
            BY <1>6, <1>c, <3>2, <5>1, <5>2, <5>3 DEF Send, ResultOK, MailsOK
        <4>3. QED
          BY <4>1, <4>2
      <3>4. QED
        BY <3>1, <3>3 DEF MessageOK
    <2>3. QED
      BY <2>1, <2>2
  <1>7. ASSUME NEW m \in Messages, SendUnanswered(m)
        PROVE  MessageOK(n)'
    <2>a. /\ task[m] = "send" /\ NextAttempt(m, "exhausted")
          /\ mails' = [mails EXCEPT ![m] = @ + 1] /\ faults' = faults + 1
      BY <1>7 DEF SendUnanswered, Runs, Fault
    <2>1. CASE n # m
      <3>1. attempt'[n] = attempt[n] /\ result'[n] = result[n] /\ task'[n] = task[n]
        BY <2>a, <2>1, NextAttemptCases, Domains
      <3>2. mails'[n] = mails[n]
        BY <2>a, <2>1, Domains
      <3>3. QED
        BY <1>7, <1>b, <2>a, <3>1, <3>2 DEF SendUnanswered, requestVars, Same
    <2>2. CASE n = m
      <3>1. place[n] \notin {"none", "ready", "acked"} /\ mails[n] <= faults
        BY <1>a, <2>a, <2>2 DEF MessageOK, PlaceOK, MailsOK
      <3>2. PlaceOK(n)' /\ RowOK(n)'
        BY <1>7, <1>a, <3>1 DEF SendUnanswered, requestVars, MessageOK, PlaceOK, RowOK
      <3>3. MailsOK(n)'
        <4>1. mails'[n] = mails[n] + 1
          BY <2>a, <2>2, Domains
        <4>2. QED
          BY <1>c, <2>a, <3>1, <4>1 DEF MailsOK
      <3>4. ResultOK(n)'
        <4>1. CASE attempt[m] < RetryLimit
          <5>1. task'[n] = "send"
            BY <2>a, <2>2, <4>1, <1>c, NextAttemptCases
          <5>2. QED
            BY <1>7, <3>1, <5>1 DEF SendUnanswered, ResultOK
        <4>2. CASE ~(attempt[m] < RetryLimit)
          <5>1. attempt'[n] = RetryLimit /\ result'[n] = "exhausted"
            BY <2>a, <2>2, <4>2, NextAttemptCases, Domains
          <5>2. QED
            BY <5>1 DEF ResultOK, Settled
        <4>3. QED
          BY <4>1, <4>2
      <3>5. QED
        BY <3>2, <3>3, <3>4 DEF MessageOK
    <2>3. QED
      BY <2>1, <2>2
  <1>8. ASSUME NEW m \in Messages, Update(m)
        PROVE  MessageOK(n)'
    <2>1. CASE n # m
      BY <1>8, <2>1, <1>b, Domains DEF Update, Goto, requestVars, Same
    <2>2. CASE n = m
      <3>1. task[n] = "update" /\ task'[n] = "ack"
        BY <1>8, <2>2, Domains DEF Update, Runs, Goto
      <3>2. row[n] # NoRow => row'[n] # NoRow
        BY <1>8, <2>2, Domains DEF Update, NoRow
      <3>3. QED
        BY <1>8, <1>a, <3>1, <3>2 DEF Update, requestVars, MessageOK, RowOK, PlaceOK, ResultOK,
           Settled, MailsOK
    <2>3. QED
      BY <2>1, <2>2
  <1>9. ASSUME NEW m \in Messages, Ack(m)
        PROVE  MessageOK(n)'
    <2>1. CASE n # m
      BY <1>9, <2>1, <1>b, Domains DEF Ack, Goto, requestVars, Same
    <2>2. CASE n = m
      <3>1. /\ task[n] = "ack" /\ task'[n] = "none"
            /\ place'[n] = IF place[n] = "unacked" THEN "acked" ELSE place[n]
        BY <1>9, <2>2, Domains DEF Ack, Runs, Goto
      <3>2. QED
        BY <1>9, <1>a, <3>1 DEF Ack, requestVars, MessageOK, RowOK, PlaceOK, ResultOK,
           Settled, MailsOK
    <2>3. QED
      BY <2>1, <2>2
  <1>10. ASSUME NEW m \in Messages, Nack(m)
         PROVE  MessageOK(n)'
    <2>f. faults' = faults + 1
      BY <1>10 DEF Nack, Fault
    <2>1. CASE n # m
      BY <1>10, <2>1, <2>f, <1>b, Domains DEF Nack, Goto, requestVars, Same
    <2>2. CASE n = m
      <3>1. /\ task[n] = "update" /\ task'[n] = "none"
            /\ place'[n] = IF place[n] = "unacked" THEN "ready" ELSE place[n]
        BY <1>10, <2>2, Domains DEF Nack, Runs, Goto
      <3>2. RowOK(n)' /\ PlaceOK(n)' /\ ResultOK(n)'
        BY <1>10, <1>a, <3>1 DEF Nack, requestVars, MessageOK, RowOK, PlaceOK, ResultOK, Settled
      <3>3. MailsOK(n)'
        BY <1>10, <1>a, <1>c, <2>f, <3>1 DEF Nack, MessageOK, MailsOK
      <3>4. QED
        BY <3>2, <3>3 DEF MessageOK
    <2>3. QED
      BY <2>1, <2>2
  <1>11. ASSUME NEW w \in Workers, Crash(w)
         PROVE  MessageOK(n)'
    <2>f. faults' = faults + 1
      BY <1>11 DEF Crash, Fault
    <2>1. /\ task'[n] = IF owner[n] = w THEN "none" ELSE task[n]
          /\ place'[n] = IF owner[n] = w /\ place[n] = "unacked" THEN "ready" ELSE place[n]
      BY <1>11 DEF Crash
    <2>2. RowOK(n)' /\ PlaceOK(n)' /\ ResultOK(n)'
      BY <1>11, <1>a, <2>1 DEF Crash, requestVars, MessageOK, RowOK, PlaceOK, ResultOK, Settled
    <2>3. MailsOK(n)'
      BY <1>11, <1>a, <1>c, <2>f, <2>1 DEF Crash, MessageOK, MailsOK
    <2>4. QED
      BY <2>2, <2>3 DEF MessageOK
  <1>12. ASSUME NEW w \in Workers, Restart(w)
         PROVE  MessageOK(n)'
    BY <1>12, <1>b DEF Restart, requestVars, taskVars, Same
  <1>13. ASSUME BrokerRestart
         PROVE  MessageOK(n)'
    <2>f. faults' = faults + 1
      BY <1>13 DEF BrokerRestart, Fault
    <2>1. place'[n] = IF place[n] \in {"ready", "unacked"} THEN "lost" ELSE place[n]
      BY <1>13 DEF BrokerRestart
    <2>2. RowOK(n)' /\ PlaceOK(n)' /\ ResultOK(n)'
      BY <1>13, <1>a, <2>1 DEF BrokerRestart, requestVars, taskVars, MessageOK, RowOK, PlaceOK,
         ResultOK, Settled
    <2>3. MailsOK(n)'
      BY <1>13, <1>a, <1>c, <2>f, <2>1 DEF BrokerRestart, taskVars, MessageOK, MailsOK
    <2>4. QED
      BY <2>2, <2>3 DEF MessageOK
  <1>14. CASE UNCHANGED vars
    BY <1>14, <1>b DEF vars, Same
  <1>15. QED
    BY <1>1, <1>2, <1>3, <1>4, <1>5, <1>6, <1>7, <1>8, <1>9, <1>10, <1>11, <1>12, <1>13, <1>14
       DEF Step

\* The inductive invariant that the theorems below follow from.
LEMMA DeliveryCorrect == Spec => [](TypeOK /\ DeliveryOK)
  <1>1. Init => TypeOK
    BY EmailAssumption DEF Init, TypeOK, NewSession, Results
  <1>2. Init => DeliveryOK
    BY DEF Init, DeliveryOK, MessageOK, RowOK, PlaceOK, ResultOK, MailsOK
  <1>3. QED
    BY <1>1, <1>2, TypeStep, DeliveryStep, PTL DEF Spec

\* has_uncommitted_changes does not miss the row that send_email has flushed:
\* a request that was answered with a success has it in the database.
THEOREM RowsAreCommitted == Spec => []AnsweredIsCommitted
  <1>1. DeliveryOK => AnsweredIsCommitted
    BY DEF DeliveryOK, MessageOK, RowOK, AnsweredIsCommitted
  <1>2. QED
    BY <1>1, DeliveryCorrect, PTL

\* Whatever workers, the broker and SMTP do, a message is acknowledged only
\* after its mail was sent, refused for good, or tried as often as allowed.
THEOREM NothingIsGivenUp == Spec => []AckedIsSettled
  <1>1. DeliveryOK => AckedIsSettled
    BY DEF DeliveryOK, MessageOK, ResultOK, Settled, AckedIsSettled
  <1>2. QED
    BY <1>1, DeliveryCorrect, PTL

\* However often a message is delivered and its attempts are repeated, each
\* mail beyond the first is due to a fault.
THEOREM RepetitionsAreFaults == Spec => []MailsBound
  <1>1. DeliveryOK => MailsBound
    BY DEF DeliveryOK, MessageOK, MailsOK, MailsBound
  <1>2. QED
    BY <1>1, DeliveryCorrect, PTL

-----------------------------------------------------------------------------
(* RouterService: for any numbers of requests and keys, any concurrency *)

\* A request that is refused or breaks off ends by Fail.
LEMMA RefuseFails ==
    ASSUME NEW r \in Requests, Refuse(r) \/ Break(r)
    PROVE  r \in InFlight /\ \E lost \in SUBSET ({using[r]} \intersect Requests) : Fail(r, lost)
  BY DEF Refuse, Break, InFlight, At

\* From the first request on, the router has a service.
ServiceKnown == \A r \in Requests : stage[r] # "new" => service # Nobody

RouterTypeInv == RouterTypeOK /\ ServiceKnown

LEMMA RouterTypeStep ==
    ASSUME RouterTypeInv, [RouterNext]_routerVars
    PROVE  RouterTypeInv'
  <1> USE DEF RouterTypeInv, RouterTypeOK, ServiceKnown
  <1>1. ASSUME NEW r \in Requests, NEW k \in Keys \union {NoKey}, Begin(r, k) PROVE RouterTypeInv'
    BY <1>1, RouterAssumption DEF Begin, At, Move, Working
  <1>2. ASSUME NEW r \in Requests, List(r) \/ Listed(r) PROVE RouterTypeInv'
    <2>1. PICK s \in Requests, label \in {"list", "answer"} : Use(r, s, label)
      BY <1>2, RouterAssumption DEF List, Listed, At, Working
    <2>2. stage[r] # "new"
      BY <1>2 DEF List, Listed, At
    <2>3. QED
      BY <2>1, <2>2, RouterAssumption DEF Use, Move, Working
  <1>3. ASSUME NEW r \in Requests, ListColumns(r) \/ FillForm(r) \/ Create(r) PROVE RouterTypeInv'
    <2>1. service \in Requests
      BY <1>3 DEF ListColumns, FillForm, Create, At
    <2>2. PICK label \in {"list", "fill", "check"} : Use(r, service, label)
      BY <1>3 DEF ListColumns, FillForm, Create
    <2>3. QED
      BY <2>1, <2>2, RouterAssumption DEF Use, Move, Working
  <1>4. ASSUME NEW r \in Requests, CheckUnique(r) PROVE RouterTypeInv'
    BY <1>4 DEF CheckUnique, At, Move, Working
  <1>5. ASSUME NEW r \in Requests, InsertRow(r) PROVE RouterTypeInv'
    BY <1>5 DEF InsertRow, At, Move, Working
  <1>6. ASSUME NEW r \in Requests, Refresh(r) PROVE RouterTypeInv'
    BY <1>6 DEF Refresh, At, Move, Working
  <1>7. ASSUME NEW r \in Requests, Respond(r) PROVE RouterTypeInv'
    BY <1>7 DEF Respond, At, Move, Working
  <1>8. ASSUME NEW r \in Requests, Refuse(r) \/ Break(r) PROVE RouterTypeInv'
    <2>1. PICK lost \in SUBSET ({using[r]} \intersect Requests) : Fail(r, lost)
      BY <1>8, RefuseFails
    <2>2. stage[r] # "new"
      BY <1>8, RefuseFails DEF InFlight
    <2>3. pending' \in [Requests -> SUBSET Requests]
      BY <2>1 DEF Fail
    <2>4. stage' = [stage EXCEPT ![r] = "error"] /\ UNCHANGED <<key, service, using, table>>
      BY <2>1 DEF Fail, Move
    <2>5. QED
      BY <2>2, <2>3, <2>4 DEF Working
  <1>9. CASE UNCHANGED routerVars
    BY <1>9 DEF routerVars, Working
  <1>10. QED
    BY <1>1, <1>2, <1>3, <1>4, <1>5, <1>6, <1>7, <1>8, <1>9 DEF RouterNext

\* Every reachable state of the router, its requests and the table is well typed, and
\* no request works without a service.
THEOREM RouterTypeCorrect == RouterSpec => []RouterTypeOK
  <1>1. RouterInit => RouterTypeInv
    BY DEF RouterInit, RouterTypeInv, RouterTypeOK, ServiceKnown, Working
  <1>2. RouterTypeInv /\ [RouterNext]_routerVars => RouterTypeInv'
    BY RouterTypeStep
  <1>3. RouterTypeInv => RouterTypeOK
    BY DEF RouterTypeInv
  <1>4. QED
    BY <1>1, <1>2, <1>3, PTL DEF RouterSpec

\* Who uses a service has begun, and a list creates nothing.
UsingOK == \A r \in Requests : using[r] # Nobody => stage[r] \notin {"new", "form"}

ListsOK == \A r \in Requests : stage[r] = "list" => key[r] = NoKey

Written == {"refresh", "answer", "ok", "error"}

\* A row that is flushed or committed was written.
WrittenOK ==
    \A r \in Requests : r \in table \/ (\E s \in Requests : r \in pending[s]) => stage[r] \in Written

\* A flushed row was written by a request that uses the session, and goes with it.
PendingOK ==
    \A s \in Requests : \A q \in pending[s] :
        /\ using[q] = s
        /\ q = s => stage[q] \in {"refresh", "answer"}

\* A committed row came with the success of the session it was written in.
TableOK == \A r \in table : using[r] \in Requests /\ stage[using[r]] = "ok"

\* From the flush on a row is in its session or in the table, unless the session
\* was rolled back.
FlushedOK ==
    \A r \in Requests : key[r] # NoKey /\ stage[r] \in {"refresh", "answer", "ok"} =>
        /\ using[r] \in Requests
        /\ r \in pending[using[r]] \/ r \in table \/ RolledBack(using[r])

RowsOK == UsingOK /\ ListsOK /\ WrittenOK /\ PendingOK /\ TableOK /\ FlushedOK

\* The steps by which a request takes the service from the router
Takes(r) == List(r) \/ ListColumns(r) \/ FillForm(r) \/ Create(r)

\* A session stays rolled back: who failed neither goes on nor takes another one.
LEMMA StaysRolledBack ==
    ASSUME NEW r \in Requests, NEW s, RouterTypeOK, stage[r] # "error", RolledBack(s),
           \A q \in Requests \ {r} : stage'[q] = stage[q] /\ using'[q] = using[q]
    PROVE  RolledBack(s)'
  BY DEF RolledBack

LEMMA RowsStep ==
    ASSUME RouterTypeOK, RouterTypeOK', RowsOK, [RouterNext]_routerVars
    PROVE  RowsOK'
  <1> USE DEF RouterTypeOK, RowsOK, UsingOK, ListsOK, WrittenOK, Written, PendingOK, TableOK, FlushedOK
  <1>1. ASSUME NEW r \in Requests, NEW k \in Keys \union {NoKey}, Begin(r, k) PROVE RowsOK'
    <2>1. stage' = [stage EXCEPT ![r] = "form"] /\ key' = [key EXCEPT ![r] = k]
          /\ UNCHANGED <<using, pending, table>> /\ stage[r] = "new"
      BY <1>1 DEF Begin, At, Move
    <2>2. \A s \in Requests : RolledBack(s) => RolledBack(s)'
      BY <2>1, StaysRolledBack
    <2>3. UsingOK' /\ ListsOK' /\ WrittenOK' /\ PendingOK'
      BY <2>1, RouterAssumption
    <2>4. TableOK'
      BY <2>1
    <2>5. FlushedOK'
      BY <2>1, <2>2
    <2>6. QED
      BY <2>3, <2>4, <2>5
  <1>2. ASSUME NEW r \in Requests, Takes(r) PROVE RowsOK'
    <2>1. PICK s, label : Use(r, s, label) /\ label \in {"list", "fill", "check"}
      BY <1>2 DEF Takes, List, ListColumns, FillForm, Create
    <2>2. stage[r] \in {"form", "list", "fill"} /\ (label = "list" => key[r] = NoKey)
      BY <1>2, <2>1 DEF Takes, List, ListColumns, FillForm, Create, At, Use, Move
    <2>3. stage' = [stage EXCEPT ![r] = label] /\ using' = [using EXCEPT ![r] = s]
          /\ UNCHANGED <<key, pending, table>>
      BY <2>1 DEF Use, Move
    <2>4. r \notin table /\ \A q \in Requests : r \notin pending[q]
      BY <2>2
    <2>5. \A q \in Requests : RolledBack(q) => RolledBack(q)'
      BY <2>2, <2>3, StaysRolledBack
    <2>6. UsingOK' /\ ListsOK' /\ WrittenOK' /\ PendingOK'
      BY <2>1, <2>2, <2>3, <2>4
    <2>7. TableOK'
      BY <2>2, <2>3, <2>4
    <2>8. FlushedOK'
      BY <2>1, <2>3, <2>5
    <2>9. QED
      BY <2>6, <2>7, <2>8
  <1>3. ASSUME NEW r \in Requests, Listed(r) PROVE RowsOK'
    <2>1. stage[r] = "list" /\ key[r] = NoKey /\ stage' = [stage EXCEPT ![r] = "answer"]
          /\ UNCHANGED <<key, using, pending, table>>
      BY <1>3 DEF Listed, Use, At, Move
    <2>2. \A q \in Requests : RolledBack(q) => RolledBack(q)'
      BY <2>1, StaysRolledBack
    <2>3. QED
      BY <2>1, <2>2
  <1>4. ASSUME NEW r \in Requests, CheckUnique(r) PROVE RowsOK'
    <2>1. stage[r] = "check" /\ stage' = [stage EXCEPT ![r] = "insert"]
          /\ UNCHANGED <<key, using, pending, table>>
      BY <1>4 DEF CheckUnique, At, Move
    <2>2. \A q \in Requests : RolledBack(q) => RolledBack(q)'
      BY <2>1, StaysRolledBack
    <2>3. QED
      BY <2>1, <2>2
  <1>5. ASSUME NEW r \in Requests, InsertRow(r) PROVE RowsOK'
    <2>1. stage[r] = "insert" /\ stage' = [stage EXCEPT ![r] = "refresh"]
          /\ pending' = [pending EXCEPT ![using[r]] = @ \union {r}]
          /\ UNCHANGED <<key, using, table>>
      BY <1>5 DEF InsertRow, At, Move
    <2>2. using[r] \in Requests
      BY <2>1 DEF Working
    <2>3. \A q \in Requests : RolledBack(q) => RolledBack(q)'
      BY <2>1, StaysRolledBack
    <2>4. \A q \in Requests : pending[q] \subseteq pending'[q] /\ pending'[q] \subseteq pending[q] \union {r}
      BY <2>1, <2>2
    <2>5. r \in pending'[using[r]] /\ \A q \in Requests : r \in pending'[q] => q = using[r]
      BY <2>1, <2>2
    <2>6. UsingOK' /\ ListsOK' /\ WrittenOK'
      BY <2>1, <2>4
    <2>7. PendingOK'
      BY <2>1, <2>4, <2>5
    <2>8. TableOK' /\ FlushedOK'
      BY <2>1, <2>2, <2>3, <2>4, <2>5
    <2>9. QED
      BY <2>6, <2>7, <2>8
  <1>6. ASSUME NEW r \in Requests, Refresh(r) PROVE RowsOK'
    <2>1. stage[r] = "refresh" /\ stage' = [stage EXCEPT ![r] = "answer"]
          /\ UNCHANGED <<key, using, pending, table>>
      BY <1>6 DEF Refresh, At, Move
    <2>2. \A q \in Requests : RolledBack(q) => RolledBack(q)'
      BY <2>1, StaysRolledBack
    <2>3. QED
      BY <2>1, <2>2
  <1>7. ASSUME NEW r \in Requests, Respond(r) PROVE RowsOK'
    <2>1. stage[r] = "answer" /\ stage' = [stage EXCEPT ![r] = "ok"]
          /\ table' = table \union pending[r] /\ pending' = [pending EXCEPT ![r] = {}]
          /\ UNCHANGED <<key, using>>
      BY <1>7 DEF Respond, At, Move
    <2>2. \A q \in Requests : RolledBack(q) => RolledBack(q)'
      BY <2>1, StaysRolledBack
    <2>3. UsingOK' /\ ListsOK' /\ WrittenOK' /\ PendingOK'
      BY <2>1
    <2>4. TableOK'
      BY <2>1
    <2>5. \A q \in Requests : q \in pending[using[q]] => q \in pending'[using[q]] \/ q \in table'
      BY <2>1
    <2>6. FlushedOK'
      BY <2>1, <2>2, <2>5
    <2>7. QED
      BY <2>3, <2>4, <2>6
  <1>8. ASSUME NEW r \in Requests, Refuse(r) \/ Break(r) PROVE RowsOK'
    <2>1. PICK lost \in SUBSET ({using[r]} \intersect Requests) : Fail(r, lost)
      BY <1>8, RefuseFails
    <2>2. stage[r] \notin {"new", "ok", "error"}
      BY <1>8, RefuseFails DEF InFlight
    <2>3. table' = table /\ stage' = [stage EXCEPT ![r] = "error"] /\ UNCHANGED <<key, using>>
      BY <2>1 DEF Fail, Move
    <2>4. \A q \in Requests : pending'[q] \subseteq pending[q] /\ pending'[r] = {}
      BY <2>1 DEF Fail
    <2>5. \A q \in Requests : RolledBack(q) => RolledBack(q)'
      BY <2>2, <2>3, StaysRolledBack
    <2>6. \A q \in Requests : pending'[q] = pending[q] \/ RolledBack(q)'
      BY <2>1, <2>3 DEF Fail, RolledBack
    <2>7. UsingOK' /\ ListsOK' /\ WrittenOK' /\ PendingOK'
      BY <2>2, <2>3, <2>4
    <2>8. TableOK'
      BY <2>2, <2>3
    <2>9. FlushedOK'
      BY <2>3, <2>5, <2>6
    <2>10. QED
      BY <2>7, <2>8, <2>9
  <1>9. CASE UNCHANGED routerVars
    <2>1. \A q \in Requests : RolledBack(q) => RolledBack(q)'
      BY <1>9 DEF routerVars, RolledBack
    <2>2. QED
      BY <1>9, <2>1 DEF routerVars
  <1>10. QED
    BY <1>1, <1>2, <1>3, <1>4, <1>5, <1>6, <1>7, <1>8, <1>9 DEF RouterNext, Takes

LEMMA RowsInvariant == RouterSpec => []RowsOK
  <1>1. RouterInit => RowsOK
    BY DEF RouterInit, RowsOK, UsingOK, ListsOK, WrittenOK, PendingOK, TableOK, FlushedOK
  <1>2. RouterTypeOK /\ RouterTypeOK' /\ RowsOK /\ [RouterNext]_routerVars => RowsOK'
    BY RowsStep
  <1>3. QED
    BY <1>1, <1>2, RouterTypeCorrect, PTL DEF RouterSpec

\* Whoever takes whose service: a row is in the table only by the success of the
\* request in whose session it was written, and a row answered with success is
\* there unless that session was rolled back or, being another's, is not yet
\* committed.
THEOREM RowsAreCommittedWithTheirSession == RouterSpec => []RowsFollowTheirSession
  <1>1. RouterTypeOK /\ RowsOK => RowsFollowTheirSession
    <2> SUFFICES ASSUME RouterTypeOK, RowsOK, NEW r \in Requests, key[r] # NoKey
                 PROVE  /\ r \in table => using[r] \in Requests /\ stage[using[r]] = "ok"
                        /\ stage[r] = "ok" /\ r \notin table =>
                             \/ RolledBack(using[r])
                             \/ using[r] # r /\ r \in pending[using[r]]
      BY DEF RowsFollowTheirSession
    <2>1. r \in table => using[r] \in Requests /\ stage[using[r]] = "ok"
      BY DEF RowsOK, TableOK
    <2>2. ASSUME stage[r] = "ok", r \notin table, ~RolledBack(using[r])
          PROVE  using[r] # r /\ r \in pending[using[r]]
      BY <2>2 DEF RowsOK, FlushedOK, PendingOK
    <2>3. QED
      BY <2>1, <2>2
  <1>2. QED
    BY <1>1, RouterTypeCorrect, RowsInvariant, PTL

-----------------------------------------------------------------------------
(* The rows of one key *)

LEMMA RequestSetsFinite ==
    ASSUME NEW S \in SUBSET Requests
    PROVE  IsFiniteSet(S) /\ Cardinality(S) \in Nat
  <1>1. IsFiniteSet(S)
    BY FS_Subset, RouterAssumption
  <1>2. QED
    BY <1>1, FS_CardinalityType

\* The requests that have found k unused with their own service, and may insert it
\* or have done so
Takers(k) ==
    {r \in Requests : /\ key[r] = k /\ using[r] = r
                      /\ r \in table \/ stage[r] \in {"insert", "refresh", "answer"}}

TakersOK ==
    /\ Cardinality(InFlight) <= Concurrency
    /\ \A k \in Keys : Cardinality(Takers(k)) <= Concurrency

\* Who is no longer in flight makes room.
LEMMA FlightShrinks ==
    ASSUME Cardinality(InFlight) <= Concurrency, InFlight' \in SUBSET InFlight
    PROVE  Cardinality(InFlight') <= Concurrency
  <1>1. InFlight \in SUBSET Requests /\ InFlight' \in SUBSET Requests
    BY DEF InFlight
  <1>2. Cardinality(InFlight') <= Cardinality(InFlight)
    BY <1>1, RequestSetsFinite, FS_Subset
  <1>3. QED
    BY <1>1, <1>2, RequestSetsFinite, RouterAssumption

\* The takers of a key become more only while all of them are in flight.
LEMMA TakersStep ==
    ASSUME RouterTypeOK, RouterTypeOK', RowsOK, [RouterNext]_routerVars, NEW k \in Keys
    PROVE  Takers(k)' \in SUBSET Takers(k) \/ Takers(k)' \in SUBSET InFlight'
  <1> USE DEF RouterTypeOK, Takers
  <1>1. ASSUME NEW r \in Requests, NEW l \in Keys \union {NoKey}, Begin(r, l)
        PROVE  Takers(k)' \in SUBSET Takers(k)
    BY <1>1, RouterAssumption DEF Begin, At, Move, RowsOK, UsingOK
  <1>2. ASSUME NEW r \in Requests, Takes(r) PROVE Takers(k)' \in SUBSET Takers(k)
    <2>1. PICK s, label : Use(r, s, label) /\ label \in {"list", "fill", "check"}
      BY <1>2 DEF Takes, List, ListColumns, FillForm, Create
    <2>2. r \notin table
      BY <1>2 DEF Takes, List, ListColumns, FillForm, Create, At, RowsOK, WrittenOK, Written
    <2>3. QED
      BY <2>1, <2>2 DEF Use, Move
  <1>3. ASSUME NEW r \in Requests, Listed(r) PROVE Takers(k)' \in SUBSET Takers(k)
    <2>1. key[r] = NoKey
      BY <1>3 DEF Listed, At, RowsOK, ListsOK
    <2>2. QED
      BY <1>3, <2>1, RouterAssumption DEF Listed, Use, Move
  <1>4. ASSUME NEW r \in Requests, CheckUnique(r)
        PROVE  Takers(k)' \in SUBSET Takers(k) \/ Takers(k)' \in SUBSET InFlight'
    <2>1. CASE key[r] = k
      <3>1. \A q \in table : key[q] # k
        BY <1>4, <2>1 DEF CheckUnique, Conflicts, Visible
      <3>2. \A q \in Takers(k)' : stage'[q] \in {"insert", "refresh", "answer"}
        BY <1>4, <3>1 DEF CheckUnique
      <3>3. QED
        BY <3>2 DEF InFlight
    <2>2. CASE key[r] # k
      BY <1>4, <2>2 DEF CheckUnique, At, Move
    <2>3. QED
      BY <2>1, <2>2
  <1>5. ASSUME NEW r \in Requests, InsertRow(r) PROVE Takers(k)' \in SUBSET Takers(k)
    BY <1>5 DEF InsertRow, At, Move
  <1>6. ASSUME NEW r \in Requests, Refresh(r) PROVE Takers(k)' \in SUBSET Takers(k)
    BY <1>6 DEF Refresh, At, Move
  <1>7. ASSUME NEW r \in Requests, Respond(r) PROVE Takers(k)' \in SUBSET Takers(k)
    <2>1. \A q \in pending[r] : using[q] = r
      BY DEF RowsOK, PendingOK
    <2>2. QED
      BY <1>7, <2>1 DEF Respond, At, Move
  <1>8. ASSUME NEW r \in Requests, Refuse(r) \/ Break(r) PROVE Takers(k)' \in SUBSET Takers(k)
    BY <1>8, RefuseFails DEF Fail, Move
  <1>9. CASE UNCHANGED routerVars
    BY <1>9 DEF routerVars
  <1>10. QED
    BY <1>1, <1>2, <1>3, <1>4, <1>5, <1>6, <1>7, <1>8, <1>9 DEF RouterNext, Takes

LEMMA FlightStep ==
    ASSUME RouterTypeOK, Cardinality(InFlight) <= Concurrency, [RouterNext]_routerVars
    PROVE  Cardinality(InFlight') <= Concurrency
  <1>1. ASSUME NEW r \in Requests, NEW k \in Keys \union {NoKey}, Begin(r, k)
        PROVE  Cardinality(InFlight') <= Concurrency
    <2>1. InFlight \in SUBSET Requests /\ InFlight' \in SUBSET Requests
      BY DEF InFlight
    <2>2. InFlight' = InFlight \union {r} /\ Cardinality(InFlight) < Concurrency
      BY <1>1 DEF Begin, At, Move, InFlight, RouterTypeOK
    <2>3. \/ Cardinality(InFlight') = Cardinality(InFlight)
          \/ Cardinality(InFlight') = Cardinality(InFlight) + 1
      BY <2>1, <2>2, RequestSetsFinite, FS_AddElement
    <2>4. QED
      BY <2>1, <2>2, <2>3, RequestSetsFinite, RouterAssumption
  <1>2. ASSUME NEW r \in Requests,
               \/ Takes(r) \/ Listed(r) \/ CheckUnique(r)
               \/ InsertRow(r) \/ Refresh(r) \/ Respond(r)
        PROVE  InFlight' \in SUBSET InFlight
    BY <1>2 DEF Takes, List, ListColumns, FillForm, Create, Listed, Use, CheckUnique, InsertRow, Refresh, Respond, At, Move, InFlight, RouterTypeOK
  <1>3. ASSUME NEW r \in Requests, Refuse(r) \/ Break(r)
        PROVE  InFlight' \in SUBSET InFlight
    BY <1>3, RefuseFails DEF Fail, Move, InFlight, RouterTypeOK
  <1>4. CASE UNCHANGED routerVars
    BY <1>4 DEF routerVars, InFlight
  <1>5. QED
    BY <1>1, <1>2, <1>3, <1>4, FlightShrinks DEF RouterNext, Takes

LEMMA TakersInvariant == RouterSpec => []TakersOK
  <1>1. ASSUME RouterInit PROVE TakersOK
    <2>1. InFlight = {} /\ \A k \in Keys : Takers(k) = {}
      BY <1>1, RouterAssumption DEF RouterInit, InFlight, Takers
    <2>2. QED
      BY <2>1, FS_EmptySet, RouterAssumption DEF TakersOK
  <1>2. ASSUME RouterTypeOK, RouterTypeOK', RowsOK, TakersOK, [RouterNext]_routerVars
        PROVE  TakersOK'
    <2>1. Cardinality(InFlight') <= Concurrency
      BY <1>2, FlightStep DEF TakersOK
    <2>2. ASSUME NEW k \in Keys PROVE Cardinality(Takers(k)') <= Concurrency
      <3>1. Takers(k) \in SUBSET Requests /\ Takers(k)' \in SUBSET Requests /\ InFlight' \in SUBSET Requests
        BY DEF Takers, InFlight
      <3>2. \/ Cardinality(Takers(k)') <= Cardinality(Takers(k))
            \/ Cardinality(Takers(k)') <= Cardinality(InFlight')
        BY <1>2, <3>1, TakersStep, RequestSetsFinite, FS_Subset
      <3>3. Cardinality(Takers(k)) <= Concurrency
        BY <1>2 DEF TakersOK
      <3>4. QED
        BY <2>1, <3>1, <3>2, <3>3, RequestSetsFinite, RouterAssumption
    <2>3. QED
      BY <2>1, <2>2 DEF TakersOK
  <1>3. QED
    BY <1>1, <1>2, RouterTypeCorrect, RowsInvariant, PTL DEF RouterSpec

\* A key has at most as many rows as requests overlap, and one more for each request
\* that worked with the service of another.
THEOREM SameKeyIsBounded == RouterSpec => []SameKeyBound
  <1>1. ASSUME RouterTypeOK, RowsOK, TakersOK, NEW k \in Keys
        PROVE  Cardinality({r \in table : key[r] = k}) <= Concurrency + Cardinality(Strays)
    <2> DEFINE Rows == {r \in table : key[r] = k}
    <2>1. Takers(k) \in SUBSET Requests /\ Strays \in SUBSET Requests
      BY DEF Takers, Strays
    <2>2. Rows \in SUBSET (Takers(k) \union Strays)
      BY <1>1, RouterAssumption DEF Takers, Strays, RowsOK, TableOK, RouterTypeOK
    <2>3. /\ IsFiniteSet(Takers(k)) /\ Cardinality(Takers(k)) \in Nat
          /\ IsFiniteSet(Strays) /\ Cardinality(Strays) \in Nat
      BY <2>1, RequestSetsFinite
    <2>4. /\ IsFiniteSet(Takers(k) \union Strays)
          /\ Cardinality(Takers(k) \union Strays) =
               Cardinality(Takers(k)) + Cardinality(Strays) - Cardinality(Takers(k) \intersect Strays)
      BY <2>3, FS_Union
    <2>5. Cardinality(Takers(k) \intersect Strays) = 0
      <3>1. Takers(k) \intersect Strays = {}
        BY DEF Takers, Strays
      <3>2. QED
        BY <3>1, FS_EmptySet
    <2>6. Cardinality(Takers(k) \union Strays) = Cardinality(Takers(k)) + Cardinality(Strays)
      BY <2>3, <2>4, <2>5
    <2>7. Rows \in SUBSET Requests
      BY <1>1 DEF RouterTypeOK
    <2> HIDE DEF Rows
    <2>8. Cardinality(Rows) <= Cardinality(Takers(k) \union Strays)
      BY <2>2, <2>4, FS_Subset
    <2>9. Cardinality(Rows) \in Nat
      BY <2>7, RequestSetsFinite
    <2>10. Cardinality(Takers(k)) <= Concurrency
      BY <1>1 DEF TakersOK
    <2>11. Cardinality(Rows) <= Concurrency + Cardinality(Strays)
      BY <2>3, <2>6, <2>8, <2>9, <2>10, RouterAssumption
    <2>12. QED
      BY <2>11 DEF Rows
  <1>2. RouterTypeOK /\ RowsOK /\ TakersOK => SameKeyBound
    BY <1>1 DEF SameKeyBound
  <1>3. QED
    BY <1>2, RouterTypeCorrect, RowsInvariant, TakersInvariant, PTL

-----------------------------------------------------------------------------
(* UserCache: for any number of processes, users, changes and overruns *)

LEMMA CacheTypeInit == CacheInit => CacheTypeOK
  <1>1. ASSUME CacheInit PROVE CacheTypeOK
    <2>1. 0 \in Nat /\ 1 \in Nat
      OBVIOUS
    <2>2. entities \in [Processes -> [Users -> Nat]]
      BY <1>1, <2>1 DEF CacheInit
    <2>3. users \in [Users -> Nat] /\ cache \in [Users -> Nat] /\ newest \in [Users -> Nat]
      BY <1>1, <2>1 DEF CacheInit
    <2>4. QED
      BY <1>1, <2>2, <2>3 DEF CacheInit, CacheTypeOK
  <1>2. QED
    BY <1>1

LEMMA CacheTypeStep ==
    ASSUME CacheTypeOK, [CacheNext]_cacheVars
    PROVE  CacheTypeOK'
  <1> USE DEF CacheTypeOK
  <1>1. ASSUME NEW p \in Processes, StartProcess(p) PROVE CacheTypeOK'
    BY <1>1 DEF StartProcess
  <1>2. ASSUME NEW p \in Processes, GetEntities(p) PROVE CacheTypeOK'
    BY <1>2 DEF GetEntities
  <1>3. ASSUME NEW p \in Processes, StoreUser(p) PROVE CacheTypeOK'
    <2>1. PICK u \in todo[p] :
            /\ cache' = [cache EXCEPT ![u] = entities[p][u]]
            /\ todo' = [todo EXCEPT ![p] = @ \ {u}]
      BY <1>3 DEF StoreUser
    <2>2. u \in Users /\ entities[p][u] \in Nat
      BY <2>1
    <2>3. cache' \in [Users -> Nat] /\ todo' \in [Processes -> SUBSET Users]
      BY <2>1, <2>2
    <2>4. \A q \in Processes : phase'[q] # "store" => todo'[q] = {}
      BY <1>3, <2>1 DEF StoreUser
    <2>5. QED
      BY <1>3, <2>3, <2>4 DEF StoreUser
  <1>4. ASSUME NEW p \in Processes, Loaded(p) PROVE CacheTypeOK'
    BY <1>4 DEF Loaded, Release
  <1>5. ASSUME NEW p \in Processes, LoadFails(p) PROVE CacheTypeOK'
    BY <1>5 DEF LoadFails, Gone, Release
  <1>6. ASSUME NEW p \in Processes, StopProcess(p) PROVE CacheTypeOK'
    BY <1>6 DEF StopProcess, Gone
  <1>7. CASE ExpireLock
    BY <1>7 DEF ExpireLock
  <1>8. ASSUME NEW u \in Users, ChangeUser(u) PROVE CacheTypeOK'
    BY <1>8 DEF ChangeUser
  <1>9. CASE UNCHANGED cacheVars
    BY <1>9 DEF cacheVars
  <1>10. QED
    BY <1>1, <1>2, <1>3, <1>4, <1>5, <1>6, <1>7, <1>8, <1>9 DEF CacheNext

\* Every reachable state of the lock, the loads and the cache is well typed.
THEOREM CacheTypeCorrect == CacheSpec => []CacheTypeOK
  BY CacheTypeInit, CacheTypeStep, PTL DEF CacheSpec

\* The processes that load, although the lock is not theirs
Others == Loaders \ {lock}

LEMMA ProcessSetsFinite ==
    ASSUME NEW S \in SUBSET Processes
    PROVE  IsFiniteSet(S) /\ Cardinality(S) \in Nat
  <1>1. IsFiniteSet(S)
    BY FS_Subset, CacheAssumption
  <1>2. QED
    BY <1>1, FS_CardinalityType

LEMMA OthersFinite ==
    /\ IsFiniteSet(Others) /\ Cardinality(Others) \in Nat
    /\ IsFiniteSet(Others') /\ Cardinality(Others') \in Nat
  <1>1. Others \in SUBSET Processes /\ Others' \in SUBSET Processes
    BY DEF Others, Loaders
  <1>2. QED
    BY <1>1, ProcessSetsFinite

LEMMA LockAdded ==
    /\ IsFiniteSet(Others \union {lock})
    /\ Cardinality(Others \union {lock}) <= Cardinality(Others) + 1
  <1>1. /\ IsFiniteSet(Others \union {lock})
        /\ \/ Cardinality(Others \union {lock}) = Cardinality(Others)
           \/ Cardinality(Others \union {lock}) = Cardinality(Others) + 1
    BY OthersFinite, FS_AddElement
  <1>2. QED
    BY <1>1, OthersFinite

\* Who deletes a lock that is not his leaves the others, and makes one of its holder.
LEMMA OthersReleased ==
    ASSUME CacheTypeOK, CacheTypeOK', NEW p \in Loaders, Loaders' = Loaders \ {p},
           lock' \in {Unlocked, lock}
    PROVE  Cardinality(Others') <= Cardinality(Others)
  <1>1. /\ IsFiniteSet(Others) /\ Cardinality(Others) \in Nat
        /\ IsFiniteSet(Others') /\ Cardinality(Others') \in Nat
    BY OthersFinite
  <1>2. CASE p = lock \/ lock' = lock
    <2>1. Others' \in SUBSET Others
      BY <1>2 DEF Others
    <2>2. QED
      BY <1>1, <2>1, FS_Subset
  <1>3. CASE p # lock /\ lock' = Unlocked
    <2>1. p \in Others
      BY <1>3 DEF Others
    <2>2. Others' \in SUBSET ((Others \ {p}) \union {lock})
      BY DEF Others
    <2>3. IsFiniteSet(Others \ {p}) /\ Cardinality(Others \ {p}) = Cardinality(Others) - 1
      BY <1>1, <2>1, FS_RemoveElement
    <2>4. /\ IsFiniteSet((Others \ {p}) \union {lock})
          /\ \/ Cardinality((Others \ {p}) \union {lock}) = Cardinality(Others \ {p})
             \/ Cardinality((Others \ {p}) \union {lock}) = Cardinality(Others \ {p}) + 1
      BY <2>3, FS_AddElement
    <2>5. Cardinality(Others') <= Cardinality((Others \ {p}) \union {lock})
      BY <2>2, <2>4, FS_Subset
    <2>6. Cardinality((Others \ {p}) \union {lock}) \in Nat
      BY <2>4, FS_CardinalityType
    <2>7. QED
      BY <1>1, <2>3, <2>4, <2>5, <2>6
  <1>4. QED
    BY <1>2, <1>3

OthersBound == Cardinality(Others) <= overruns

LEMMA OthersShrink ==
    ASSUME CacheTypeOK, OthersBound, Others' \in SUBSET Others, overruns' = overruns
    PROVE  OthersBound'
  <1>1. IsFiniteSet(Others) /\ Cardinality(Others) \in Nat /\ overruns \in Nat
    BY OthersFinite DEF CacheTypeOK
  <1>2. IsFiniteSet(Others') /\ Cardinality(Others') <= Cardinality(Others)
    BY <1>1, FS_Subset
  <1>3. Cardinality(Others') \in Nat
    BY <1>2, FS_CardinalityType
  <1>4. QED
    BY <1>1, <1>2, <1>3 DEF OthersBound

LEMMA OthersStep ==
    ASSUME CacheTypeOK, CacheTypeOK', OthersBound, [CacheNext]_cacheVars
    PROVE  OthersBound'
  <1>0. overruns \in Nat /\ overruns' \in Nat
    BY DEF CacheTypeOK
  <1>1. ASSUME NEW p \in Processes, StartProcess(p) PROVE OthersBound'
    <2>1. Others' \in SUBSET Others
      BY <1>1, CacheAssumption DEF StartProcess, Others, Loaders, CacheTypeOK
    <2>2. QED
      BY <1>1, <2>1, OthersShrink DEF StartProcess
  <1>2. ASSUME NEW p \in Processes, GetEntities(p) PROVE OthersBound'
    <2>1. Others' \in SUBSET Others
      BY <1>2 DEF GetEntities, Others, Loaders, CacheTypeOK
    <2>2. QED
      BY <1>2, <2>1, OthersShrink DEF GetEntities
  <1>3. ASSUME NEW p \in Processes, StoreUser(p) PROVE OthersBound'
    <2>1. Others' \in SUBSET Others /\ overruns' = overruns
      BY <1>3 DEF StoreUser, Others, Loaders
    <2>2. QED
      BY <2>1, OthersShrink
  <1>4. ASSUME NEW p \in Processes, Loaded(p) PROVE OthersBound'
    <2>1. p \in Loaders /\ Loaders' = Loaders \ {p} /\ lock' \in {Unlocked, lock} /\ overruns' = overruns
      BY <1>4 DEF Loaded, Release, Loaders, CacheTypeOK
    <2>2. Cardinality(Others') <= Cardinality(Others)
      BY <2>1, OthersReleased
    <2>3. QED
      BY <2>1, <2>2, <1>0, OthersFinite DEF OthersBound
  <1>5. ASSUME NEW p \in Processes, LoadFails(p) PROVE OthersBound'
    <2>1. p \in Loaders /\ Loaders' = Loaders \ {p} /\ lock' \in {Unlocked, lock} /\ overruns' = overruns
      BY <1>5 DEF LoadFails, Gone, Release, Loaders, CacheTypeOK
    <2>2. Cardinality(Others') <= Cardinality(Others)
      BY <2>1, OthersReleased
    <2>3. QED
      BY <2>1, <2>2, <1>0, OthersFinite DEF OthersBound
  <1>6. ASSUME NEW p \in Processes, StopProcess(p) PROVE OthersBound'
    <2>1. Others' \in SUBSET Others /\ overruns' = overruns
      BY <1>6 DEF StopProcess, Gone, Others, Loaders, CacheTypeOK
    <2>2. QED
      BY <2>1, OthersShrink
  <1>7. CASE ExpireLock
    <2>1. Loaders' = Loaders /\ lock' = Unlocked
      BY <1>7 DEF ExpireLock, Loaders
    <2>2. CASE lock \in Loaders
      <3>1. overruns' = overruns + 1
        BY <1>7, <2>2 DEF ExpireLock
      <3>2. Others' \in SUBSET (Others \union {lock})
        BY <2>1 DEF Others
      <3>3. /\ IsFiniteSet(Others \union {lock})
            /\ Cardinality(Others \union {lock}) <= Cardinality(Others) + 1
        BY LockAdded
      <3>4. Cardinality(Others') <= Cardinality(Others \union {lock})
        BY <3>2, <3>3, FS_Subset
      <3>5. Cardinality(Others \union {lock}) \in Nat
        BY <3>3, FS_CardinalityType
      <3>6. QED
        BY <3>1, <3>3, <3>4, <3>5, <1>0, OthersFinite DEF OthersBound
    <2>3. CASE lock \notin Loaders
      <3>1. Others' \in SUBSET Others /\ overruns' = overruns
        BY <1>7, <2>1, <2>3 DEF ExpireLock, Others
      <3>2. QED
        BY <3>1, OthersShrink
    <2>4. QED
      BY <2>2, <2>3
  <1>8. ASSUME NEW u \in Users, ChangeUser(u) PROVE OthersBound'
    <2>1. Others' \in SUBSET Others /\ overruns' = overruns
      BY <1>8 DEF ChangeUser, Others, Loaders
    <2>2. QED
      BY <2>1, OthersShrink
  <1>9. CASE UNCHANGED cacheVars
    <2>1. Others' \in SUBSET Others /\ overruns' = overruns
      BY <1>9 DEF cacheVars, Others, Loaders
    <2>2. QED
      BY <2>1, OthersShrink
  <1>10. QED
    BY <1>1, <1>2, <1>3, <1>4, <1>5, <1>6, <1>7, <1>8, <1>9 DEF CacheNext

\* However processes start, die and outlast their lock, no more of them load at
\* the same time than one, and one for each time that the lock expired too early.
THEOREM LoadersAreBounded == CacheSpec => []LoadersBound
  <1>1. CacheInit => OthersBound
    <2>1. CacheInit => Others = {} /\ overruns = 0
      BY DEF CacheInit, Others, Loaders
    <2>2. QED
      BY <2>1, FS_EmptySet DEF OthersBound
  <1>2. CacheTypeOK /\ CacheTypeOK' /\ OthersBound /\ [CacheNext]_cacheVars => OthersBound'
    BY OthersStep
  <1>3. CacheTypeOK /\ OthersBound => LoadersBound
    <2>1. SUFFICES ASSUME CacheTypeOK, OthersBound PROVE LoadersBound
      OBVIOUS
    <2>2. Loaders \in SUBSET (Others \union {lock})
      BY DEF Others
    <2>3. /\ IsFiniteSet(Others \union {lock})
          /\ Cardinality(Others \union {lock}) <= Cardinality(Others) + 1
      BY LockAdded
    <2>4. Cardinality(Loaders) <= Cardinality(Others \union {lock})
      BY <2>2, <2>3, FS_Subset
    <2>5. Cardinality(Others \union {lock}) \in Nat
      BY <2>3, FS_CardinalityType
    <2>6. Loaders \in SUBSET Processes /\ overruns \in Nat
      BY <2>1 DEF Loaders, CacheTypeOK
    <2>7. Cardinality(Loaders) \in Nat
      BY <2>6, ProcessSetsFinite
    <2>8. QED
      BY <2>1, <2>3, <2>4, <2>5, <2>6, <2>7, OthersFinite DEF OthersBound, LoadersBound
  <1>4. QED
    BY <1>1, <1>2, <1>3, CacheTypeCorrect, PTL DEF CacheSpec

\* What a load does as long as none has outlasted its lock: it is the only one, it
\* stores what was read last, and what it has not stored yet is not newer.
FreshOK ==
    /\ \A u \in Users : newest[u] <= users[u]
    /\ overruns = 0 =>
         /\ \A p \in Loaders : lock = p
         /\ \A u \in Users : cache[u] <= newest[u]
         /\ \A p \in Processes : phase[p] = "store" =>
              entities[p] = newest /\ \A u \in Users \ todo[p] : cache[u] = newest[u]
         /\ ~torn /\ (\A p \in Processes : phase[p] # "store") => cache = newest

LEMMA FreshStep ==
    ASSUME CacheTypeOK, CacheTypeOK', FreshOK, [CacheNext]_cacheVars
    PROVE  FreshOK'
  <1>1. ASSUME NEW p \in Processes, StartProcess(p) PROVE FreshOK'
    BY <1>1, CacheAssumption DEF StartProcess, FreshOK, Loaders, CacheTypeOK
  <1>2. ASSUME NEW p \in Processes, GetEntities(p) PROVE FreshOK'
    <2>1. \A u \in Users : newest'[u] <= users'[u]
      BY <1>2 DEF GetEntities, CacheTypeOK
    <2>2. ASSUME overruns' = 0
          PROVE  /\ \A q \in Loaders' : lock' = q
                 /\ \A u \in Users : cache'[u] <= newest'[u]
                 /\ \A q \in Processes : phase'[q] = "store" =>
                      entities'[q] = newest' /\ \A u \in Users \ todo'[q] : cache'[u] = newest'[u]
                 /\ \E q \in Processes : phase'[q] = "store"
      <3>1. lock = p /\ \A q \in Loaders : q = p
        BY <1>2, <2>2 DEF GetEntities, FreshOK, Loaders
      <3>2. \A u \in Users : cache'[u] <= newest'[u]
        BY <1>2, <2>2 DEF GetEntities, FreshOK, CacheTypeOK
      <3>3. \A q \in Processes : phase'[q] = "store" => q = p
        BY <1>2, <3>1 DEF GetEntities, Loaders, CacheTypeOK
      <3>4. phase'[p] = "store" /\ entities'[p] = newest' /\ todo'[p] = Users
        BY <1>2 DEF GetEntities, CacheTypeOK
      <3>5. \A q \in Loaders' : lock' = q
        BY <1>2, <3>1 DEF GetEntities, Loaders, CacheTypeOK
      <3>6. QED
        BY <3>2, <3>3, <3>4, <3>5
    <2>3. QED
      BY <2>1, <2>2 DEF FreshOK
  <1>3. ASSUME NEW p \in Processes, StoreUser(p) PROVE FreshOK'
    <2>1. PICK u \in todo[p] :
            /\ cache' = [cache EXCEPT ![u] = entities[p][u]]
            /\ todo' = [todo EXCEPT ![p] = @ \ {u}]
      BY <1>3 DEF StoreUser
    <2>2. /\ phase[p] = "store"
          /\ UNCHANGED <<phase, lock, users, entities, newest, torn, overruns>>
      BY <1>3 DEF StoreUser
    <2>3. u \in Users /\ Loaders' = Loaders /\ p \in Loaders
      BY <2>1, <2>2 DEF CacheTypeOK, Loaders
    <2>4. ASSUME overruns' = 0
          PROVE  /\ \A q \in Loaders' : lock' = q
                 /\ \A v \in Users : cache'[v] <= newest'[v]
                 /\ \A q \in Processes : phase'[q] = "store" =>
                      entities'[q] = newest' /\ \A v \in Users \ todo'[q] : cache'[v] = newest'[v]
      <3>1. entities[p] = newest /\ \A v \in Users \ todo[p] : cache[v] = newest[v]
        BY <2>2, <2>4 DEF FreshOK
      <3>2. \A q \in Loaders : lock = q
        BY <2>2, <2>4 DEF FreshOK
      <3>3. cache'[u] = newest[u] /\ \A v \in Users \ {u} : cache'[v] = cache[v]
        BY <2>1, <2>3, <3>1 DEF CacheTypeOK
      <3>4. \A v \in Users : cache[v] <= newest[v] /\ newest[v] \in Nat
        BY <2>2, <2>4 DEF FreshOK, CacheTypeOK
      <3>5. \A v \in Users : cache'[v] <= newest'[v]
        BY <2>2, <3>3, <3>4
      <3>6. \A q \in Processes : phase'[q] = "store" => q = p
        BY <2>2, <2>3, <3>2 DEF Loaders
      <3>7. \A v \in Users \ todo'[p] : cache'[v] = newest'[v]
        BY <2>1, <2>2, <3>1, <3>3 DEF CacheTypeOK
      <3>8. QED
        BY <2>2, <2>3, <3>1, <3>2, <3>5, <3>6, <3>7
    <2>5. QED
      BY <2>2, <2>4 DEF FreshOK
  <1>4. ASSUME NEW p \in Processes, Loaded(p) PROVE FreshOK'
    <2>1. /\ phase[p] = "store" /\ todo[p] = {} /\ phase' = [phase EXCEPT ![p] = "up"]
          /\ UNCHANGED <<users, entities, todo, cache, newest, torn, overruns>>
      BY <1>4 DEF Loaded
    <2>2. ASSUME overruns = 0
          PROVE  cache = newest /\ \A q \in Processes : phase'[q] \notin {"select", "store"}
      <3>1. \A u \in Users : cache[u] = newest[u]
        BY <2>1, <2>2 DEF FreshOK
      <3>2. cache = newest
        BY <3>1 DEF CacheTypeOK
      <3>3. \A q \in Loaders : q = p
        BY <2>1, <2>2 DEF FreshOK, Loaders
      <3>4. QED
        BY <2>1, <3>2, <3>3 DEF Loaders, CacheTypeOK
    <2>3. QED
      BY <2>1, <2>2 DEF FreshOK, Loaders
  <1>5. ASSUME NEW p \in Processes, LoadFails(p) \/ StopProcess(p) PROVE FreshOK'
    <2>1. /\ Gone(p) /\ phase' = [phase EXCEPT ![p] = "down"] /\ todo' = [todo EXCEPT ![p] = {}]
          /\ torn' = (torn \/ todo[p] # {})
          /\ UNCHANGED <<users, entities, cache, newest, overruns>>
      BY <1>5 DEF LoadFails, StopProcess, Gone
    <2>2. p \notin Loaders => UNCHANGED lock
      BY <1>5 DEF LoadFails, StopProcess
    <2>3. CASE overruns # 0
      BY <2>1, <2>3 DEF FreshOK
    <2>4. CASE overruns = 0
      <3>1. /\ \A q \in Loaders : lock = q
            /\ \A u \in Users : cache[u] <= newest[u] /\ newest[u] <= users[u]
        BY <2>4 DEF FreshOK
      <3>2. \A q \in Loaders' : q \in Loaders /\ q # p
        BY <2>1 DEF Loaders, CacheTypeOK
      <3>3. \A q \in Loaders' : p \notin Loaders
        BY <3>1, <3>2
      <3>4. \A q \in Loaders' : lock' = q
        BY <2>2, <3>1, <3>2, <3>3
      <3>5. \A q \in Processes : phase'[q] = "store" => phase[q] = "store" /\ todo'[q] = todo[q]
        BY <2>1 DEF CacheTypeOK
      <3>6. ASSUME ~torn', \A q \in Processes : phase'[q] # "store"
            PROVE  cache = newest
        <4>1. ~torn /\ todo[p] = {}
          BY <2>1, <3>6
        <4>2. \A q \in Processes : phase[q] = "store" => q = p
          BY <2>1, <3>6 DEF CacheTypeOK
        <4>3. CASE phase[p] = "store"
          <5>1. \A u \in Users : cache[u] = newest[u]
            BY <2>4, <4>1, <4>3 DEF FreshOK
          <5>2. QED
            BY <5>1 DEF CacheTypeOK
        <4>4. CASE phase[p] # "store"
          BY <2>4, <4>1, <4>2, <4>4 DEF FreshOK
        <4>5. QED
          BY <4>3, <4>4
      <3>7. \A q \in Processes : phase'[q] = "store" =>
              entities'[q] = newest' /\ \A u \in Users \ todo'[q] : cache'[u] = newest'[u]
        BY <2>1, <2>4, <3>5 DEF FreshOK
      <3>8. QED
        BY <2>1, <3>1, <3>4, <3>6, <3>7 DEF FreshOK
    <2>5. QED
      BY <2>3, <2>4
  <1>6. CASE ExpireLock
    <2>1. /\ UNCHANGED <<phase, users, entities, todo, cache, newest, torn>>
          /\ lock \in Loaders => overruns' = overruns + 1
          /\ lock \notin Loaders => overruns' = overruns
      BY <1>6 DEF ExpireLock
    <2>2. overruns' = 0 => overruns = 0 /\ lock \notin Loaders
      BY <2>1 DEF CacheTypeOK
    <2>3. overruns' = 0 => Loaders' = {}
      BY <2>1, <2>2 DEF FreshOK, Loaders
    <2>4. QED
      BY <2>1, <2>2, <2>3 DEF FreshOK
  <1>7. ASSUME NEW u \in Users, ChangeUser(u) PROVE FreshOK'
    <2>1. /\ users' = [users EXCEPT ![u] = @ + 1]
          /\ UNCHANGED <<phase, lock, entities, todo, cache, newest, torn, overruns>>
      BY <1>7 DEF ChangeUser
    <2>2. \A v \in Users : newest[v] \in Nat /\ users[v] \in Nat /\ users[v] <= users'[v] /\ users'[v] \in Nat
      BY <2>1 DEF CacheTypeOK
    <2>3. \A v \in Users : newest'[v] <= users'[v]
      BY <2>1, <2>2 DEF FreshOK
    <2>4. QED
      BY <2>1, <2>3 DEF FreshOK, Loaders
  <1>8. CASE UNCHANGED cacheVars
    BY <1>8 DEF cacheVars, FreshOK, Loaders
  <1>9. QED
    BY <1>1, <1>2, <1>3, <1>4, <1>5, <1>6, <1>7, <1>8 DEF CacheNext

LEMMA FreshInvariant == CacheSpec => []FreshOK
  <1>1. CacheInit => FreshOK
    BY DEF CacheInit, FreshOK, Loaders
  <1>2. CacheTypeOK /\ CacheTypeOK' /\ FreshOK /\ [CacheNext]_cacheVars => FreshOK'
    BY FreshStep
  <1>3. QED
    BY <1>1, <1>2, CacheTypeCorrect, PTL DEF CacheSpec

\* After loads that did not outlast their lock and were not cut off, the
\* cache is what the last of them has read.
THEOREM CacheIsWhatWasRead == CacheSpec => []CacheIsNewest
  <1>1. FreshOK => CacheIsNewest
    BY DEF FreshOK, CacheIsNewest, Loaders
  <1>2. QED
    BY <1>1, FreshInvariant, PTL

\* No step puts an older version of a user into the cache, unless a load has
\* outlasted its lock.
THEOREM CacheGoesForward == CacheSpec => NeverBack
  <1>1. ASSUME CacheTypeOK, FreshOK, [CacheNext]_cacheVars
        PROVE  [overruns' = 0 => \A u \in Users : cache'[u] >= cache[u]]_cacheVars
    <2>1. SUFFICES ASSUME overruns' = 0, NEW v \in Users PROVE cache'[v] >= cache[v]
      OBVIOUS
    <2>0. cache[v] \in Nat /\ newest[v] \in Nat
      BY <1>1 DEF CacheTypeOK
    <2>2. CASE cache' = cache
      <3>1. cache'[v] = cache[v]
        BY <2>2
      <3>2. QED
        BY <2>0, <3>1
    <2>3. ASSUME NEW p \in Processes, StoreUser(p) PROVE cache'[v] >= cache[v]
      <3>1. PICK u \in todo[p] : cache' = [cache EXCEPT ![u] = entities[p][u]]
        BY <2>3 DEF StoreUser
      <3>0. overruns = 0 /\ phase[p] = "store"
        BY <2>1, <2>3 DEF StoreUser
      <3>2. entities[p] = newest /\ cache[v] <= newest[v]
        BY <1>1, <3>0 DEF FreshOK
      <3>3. cache'[v] = cache[v] \/ cache'[v] = newest[v]
        BY <1>1, <3>1, <3>2 DEF CacheTypeOK
      <3>4. QED
        BY <2>0, <3>2, <3>3
    <2>4. QED
      BY <1>1, <2>2, <2>3 DEF CacheNext, StartProcess, GetEntities, Loaded, LoadFails,
         StopProcess, Gone, ExpireLock, ChangeUser, cacheVars
  <1>2. QED
    BY <1>1, CacheTypeCorrect, FreshInvariant, PTL DEF CacheSpec, NeverBack
=============================================================================
