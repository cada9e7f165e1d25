---------------------------- MODULE OutboundQueue ----------------------------
(***************************************************************************)
(* The persistent outbound queue (table outbound_messages) and the single  *)
(* worker that delivers it: RunOutboundWorker and runOutboundBatch of      *)
(* src/internal/smtpserver/outbound.go over the queue operations of        *)
(* src/internal/storage/sqlite.go.                                         *)
(*                                                                         *)
(* Every statement of the worker that touches the store or the network is  *)
(* a step of its own, so reports are queued, time passes and the process   *)
(* crashes between any two of them.                                        *)
(*                                                                         *)
(* Time.  The unit is the first retry delay (one minute in the code).      *)
(* next_attempt is kept relative to the wall clock: due[m] is next_attempt *)
(* minus now, so an entry is due when due[m] <= 0 and a tick lowers every  *)
(* due.  The worker captures `now' once for a whole batch; elapsed is how  *)
(* old that captured value is.                                             *)
(*                                                                         *)
(* The definitions named Mutant... are plausible faults of this code, one  *)
(* line or guard away from it.  They take no part in the specification:    *)
(* each replaces a definition to show that a property notices the fault.   *)
(***************************************************************************)
EXTENDS Integers, Sequences, FiniteSets

CONSTANTS
    MaxId,          \* bound: reports queued in one behaviour
    Domain,         \* recipient domains
    DomainOf,       \* the domain of the recipient of each report
    BatchLimit,     \* LIMIT of ListDueOutboundMessages (25 in the code)
    RetryDelay,     \* delay after the n-th attempt; the last entry is the cap
    MaxFaults,      \* bound: crashes, failed store statements, lost answers
    MaxElapsed,     \* bound: how long a batch takes (25 sends of 30 s)
    MaxLag,         \* how overdue an entry gets before the ticker fires
    MaxOverdue      \* bound: how overdue an entry can be told to be

Id == 1 .. MaxId

ASSUME OutboundAssumption ==
    /\ MaxId \in Nat /\ BatchLimit \in Nat \ {0}
    /\ DomainOf \in [Id -> Domain]
    /\ RetryDelay \in Seq(Nat \ {0}) /\ RetryDelay # <<>>
    /\ MaxFaults \in Nat /\ MaxElapsed \in Nat /\ MaxLag \in Nat
    /\ MaxOverdue \in Nat /\ MaxElapsed <= MaxOverdue

VARIABLES
    status,         \* "new" (never queued), "queued" (a row) or "gone"
    attempts,       \* column attempts, saturated at Len(RetryDelay)
    due,            \* column next_attempt, relative to now
    pc,             \* where the worker is in runOutboundBatch
    batch,          \* rows of ListDueOutboundMessages not handled yet
    deferred,       \* map deferredDomains: retryAt - now, 0 when absent
    elapsed,        \* age of the batch's `now'
    temporary,      \* isTemporaryOutboundError of the last Send error
    copies,         \* copies the destination took (history)
    faults          \* faults so far (history)

rows   == <<status, attempts, due>>
worker == <<pc, batch, deferred, elapsed, temporary>>
vars   == <<status, attempts, due, pc, batch, deferred, elapsed, temporary,
            copies, faults>>

Queued == {m \in Id : status[m] = "queued"}

-----------------------------------------------------------------------------
DelayValues == {RetryDelay[i] : i \in DOMAIN RetryDelay}

\* The cap applied one doubling too late.
MutantLateCap(n) ==
    IF n >= Len(RetryDelay) THEN 2 * RetryDelay[Len(RetryDelay)]
    ELSE RetryDelay[IF n < 1 THEN 1 ELSE n]

(* outboundRetryDelay: doubling from one unit, constant from the cap on.   *)
outboundRetryDelay(n) ==
    RetryDelay[IF n < 1 THEN 1 ELSE IF n > Len(RetryDelay) THEN Len(RetryDelay) ELSE n]

(* attempts beyond Len(RetryDelay) all give the same delay, so the counter *)
(* is saturated there.                                                     *)
NextAttempts(m) == IF attempts[m] < Len(RetryDelay) THEN attempts[m] + 1 ELSE attempts[m]

\* A fixed limit on the number of attempts.
MutantAttemptLimit ==
    {m \in Queued : due[m] <= 0 /\ attempts[m] < Len(RetryDelay)}

DueRows == {m \in Queued : due[m] <= 0}

\* ORDER BY next_attempt, id
Before(m, n) == due[m] < due[n] \/ (due[m] = due[n] /\ m < n)

\* WHERE next_attempt <= now ORDER BY next_attempt, id LIMIT BatchLimit: the
\* set holds the one sequence the statement returns.
ListDueOutboundMessages ==
    LET size == IF Cardinality(DueRows) < BatchLimit
                THEN Cardinality(DueRows) ELSE BatchLimit
    IN  {s \in [1 .. size -> DueRows] :
            /\ \A i, j \in 1 .. size : i < j => Before(s[i], s[j])
            /\ \A m \in DueRows :
                 (\A i \in 1 .. size : s[i] # m) =>
                     \A i \in 1 .. size : Before(s[i], m)}

current == Head(batch)

\* retryAt, fixed when the failure was seen, relative to the present moment.
retryAt(d) == deferred[d] - elapsed

\* The deferral without the comparison of DeferOutboundMessagesForDomain.
MutantDeferAlways(m, t) == t

\* CASE WHEN next_attempt < t THEN t ELSE next_attempt END
Later(m, t) == IF due[m] < t THEN t ELSE due[m]

-----------------------------------------------------------------------------
Init ==
    /\ status = [m \in Id |-> "new"]
    /\ attempts = [m \in Id |-> 0]
    /\ due = [m \in Id |-> 0]
    /\ pc = "idle"
    /\ batch = <<>>
    /\ deferred = [d \in Domain |-> 0]
    /\ elapsed = 0
    /\ temporary = FALSE
    /\ copies = [m \in Id |-> 0]
    /\ faults = 0

\* EnqueueOutboundMessage by an SMTP session: ids are handed out in order and
\* next_attempt is the moment the report was built.
EnqueueOutboundMessage(m) ==
    /\ status[m] = "new"
    /\ \A n \in Id : n < m => status[n] # "new"
    /\ status' = [status EXCEPT ![m] = "queued"]
    /\ UNCHANGED <<attempts, due, worker, copies, faults>>

\* The ticker fires and the batch lists what is due.  An empty or failed
\* listing changes nothing.
StartBatch ==
    /\ pc = "idle"
    /\ DueRows # {}
    /\ batch' \in ListDueOutboundMessages
    /\ deferred' = [d \in Domain |-> 0]
    /\ elapsed' = 0
    /\ pc' = "next"
    /\ UNCHANGED <<rows, temporary, copies, faults>>

FinishBatch ==
    /\ pc = "next"
    /\ batch = <<>>
    /\ pc' = "idle"
    /\ deferred' = [d \in Domain |-> 0]
    /\ elapsed' = 0
    /\ UNCHANGED <<rows, batch, temporary, copies, faults>>

\* One statement of the worker fails in the store; the loop logs and goes on.
StoreFails ==
    /\ faults < MaxFaults
    /\ faults' = faults + 1
    /\ UNCHANGED rows

\* A row whose domain was deferred earlier in this batch is rescheduled
\* without an attempt.
SkipDeferred ==
    /\ pc = "next"
    /\ batch # <<>>
    /\ deferred[DomainOf[current]] > 0
    /\ \/ /\ due' = [due EXCEPT ![current] = retryAt(DomainOf[current])]
          /\ UNCHANGED <<status, attempts, faults>>
       \/ StoreFails
    /\ batch' = Tail(batch)
    /\ UNCHANGED <<pc, deferred, elapsed, temporary, copies>>

\* The in-memory deferral of the domain is not consulted.
MutantIgnoreDeferral(m) ==
    /\ pc = "next"
    /\ batch # <<>>
    /\ current = m

\* sender.Send is called for the head of the batch.
Attempt(m) ==
    /\ pc = "next"
    /\ batch # <<>>
    /\ current = m
    /\ deferred[DomainOf[m]] = 0

\* The answer to the final dot is not waited for.
MutantUnconfirmed(m) ==
    /\ Attempt(m)
    /\ pc' = "sent"
    /\ UNCHANGED <<rows, batch, deferred, elapsed, temporary, copies, faults>>

SendAccepted(m) ==
    /\ Attempt(m)
    /\ copies' = [copies EXCEPT ![m] = @ + 1]
    /\ pc' = "sent"
    /\ UNCHANGED <<rows, batch, deferred, elapsed, temporary, faults>>

\* The answer to the final dot is lost: the destination has a copy, and Send
\* goes on to the next MX host or fails (ReportHandover.tla, LoseAnswer).
UnconfirmedCopy(m) ==
    /\ Attempt(m)
    /\ faults < MaxFaults
    /\ faults' = faults + 1
    /\ copies' = [copies EXCEPT ![m] = @ + 1]
    /\ UNCHANGED <<rows, worker>>

\* Send returns an error.  A temporary one defers the domain in memory, for
\* the rest of the batch, before anything is stored.
SendFailed(m) ==
    /\ Attempt(m)
    /\ \E t \in BOOLEAN :
        /\ temporary' = t
        /\ deferred' = IF t THEN [deferred EXCEPT ![DomainOf[m]] =
                                       outboundRetryDelay(NextAttempts(m))]
                            ELSE deferred
    /\ pc' = "failed"
    /\ UNCHANGED <<rows, batch, elapsed, copies, faults>>

\* The delivered row is left in the table.
MutantKeepRow ==
    /\ pc = "sent"
    /\ batch' = Tail(batch)
    /\ pc' = "next"
    /\ UNCHANGED <<rows, deferred, elapsed, temporary, copies, faults>>

\* DeleteOutboundMessage after a successful Send.
DeleteOutboundMessage ==
    /\ pc = "sent"
    /\ \/ /\ status' = [status EXCEPT ![current] = "gone"]
          /\ attempts' = [attempts EXCEPT ![current] = 0]
          /\ due' = [due EXCEPT ![current] = 0]
          /\ UNCHANGED faults
       \/ StoreFails
    /\ batch' = Tail(batch)
    /\ pc' = "next"
    /\ UNCHANGED <<deferred, elapsed, temporary, copies>>

\* RescheduleOutboundMessage after a failed Send.  When it fails, the domain
\* is not deferred in the store either.
RescheduleOutboundMessage ==
    /\ pc = "failed"
    /\ \/ /\ attempts' = [attempts EXCEPT ![current] = NextAttempts(current)]
          /\ due' = [due EXCEPT ![current] =
                        outboundRetryDelay(NextAttempts(current)) - elapsed]
          /\ pc' = IF temporary THEN "defer" ELSE "next"
          /\ batch' = IF temporary THEN batch ELSE Tail(batch)
          /\ UNCHANGED <<status, faults>>
       \/ /\ StoreFails
          /\ pc' = "next"
          /\ batch' = Tail(batch)
    /\ UNCHANGED <<deferred, elapsed, temporary, copies>>

\* DeferOutboundMessagesForDomain: every other row of the domain moves to
\* retryAt unless it is due later already.
DeferOutboundMessagesForDomain ==
    /\ pc = "defer"
    /\ LET d == DomainOf[current]
       IN  \/ /\ due' = [m \in Id |->
                            IF m \in Queued \ {current} /\ DomainOf[m] = d
                            THEN Later(m, retryAt(d)) ELSE due[m]]
              /\ UNCHANGED <<status, attempts, faults>>
           \/ StoreFails
    /\ batch' = Tail(batch)
    /\ pc' = "next"
    /\ UNCHANGED <<deferred, elapsed, temporary, copies>>

\* The process dies and is started again: the rows survive, the worker's
\* memory does not.
Crash ==
    /\ faults < MaxFaults
    /\ pc # "idle"
    /\ faults' = faults + 1
    /\ pc' = "idle"
    /\ batch' = <<>>
    /\ deferred' = [d \in Domain |-> 0]
    /\ elapsed' = 0
    /\ temporary' = FALSE
    /\ UNCHANGED <<rows, copies>>

\* A unit of time passes: between batches no more than the ticker allows.
Tick ==
    /\ Queued # {}
    /\ IF pc = "idle" THEN \A m \in Queued : due[m] > -MaxLag ELSE elapsed < MaxElapsed
    /\ due' = [m \in Id |-> IF m \in Queued /\ due[m] > -MaxOverdue THEN due[m] - 1 ELSE due[m]]
    /\ elapsed' = IF pc = "idle" THEN 0 ELSE elapsed + 1
    /\ UNCHANGED <<status, attempts, pc, batch, deferred, temporary, copies, faults>>

\* The worker's steps: one goroutine, in the order of runOutboundBatch.
runOutboundBatch ==
    \/ StartBatch \/ FinishBatch \/ SkipDeferred
    \/ \E m \in Id : UnconfirmedCopy(m) \/ SendAccepted(m) \/ SendFailed(m)
    \/ DeleteOutboundMessage \/ RescheduleOutboundMessage
    \/ DeferOutboundMessagesForDomain

Next ==
    \/ \E m \in Id : EnqueueOutboundMessage(m)
    \/ runOutboundBatch
    \/ Crash
    \/ Tick

Spec == Init /\ [][Next]_vars

\* The ticker and the goroutine keep running and time passes.  Nothing is
\* assumed of destinations, nor of the clients that queue reports.
FairSpec ==
    /\ Spec
    /\ WF_vars(runOutboundBatch)
    /\ WF_vars(Tick)

-----------------------------------------------------------------------------
TypeOK ==
    /\ status \in [Id -> {"new", "queued", "gone"}]
    /\ attempts \in [Id -> 0 .. Len(RetryDelay)]
    /\ due \in [Id -> Int]
    /\ pc \in {"idle", "next", "sent", "failed", "defer"}
    /\ batch \in Seq(Id)
    /\ deferred \in [Domain -> {0} \cup DelayValues]
    /\ elapsed \in Nat
    /\ temporary \in BOOLEAN
    /\ copies \in [Id -> Nat]
    /\ faults \in 0 .. MaxFaults

(* No report is dropped: a row leaves the table only after the destination *)
(* took a copy, whatever crashed or failed in between (outbound.go:296-304 *)
(* deletes after Send; no failure path deletes).                           *)
NeverLost == \A m \in Id : status[m] = "gone" => copies[m] >= 1

(* A destination gets one copy and at most one more for every fault: the   *)
(* worker never sends a row it has already completed, and never lists a row*)
(* twice (outbound.go:281-304).                                            *)
DuplicatesNeedFaults == \A m \in Id : copies[m] <= 1 + faults

(* Nothing is sent before its stored retry time, although the worker acts  *)
(* on a snapshot taken before an earlier failure of the same batch moved   *)
(* the rows of that domain (outbound.go:283-292 against 310-321).          *)
NoEarlyAttempt ==
    [][\A m \in Id : SendAccepted(m) \/ SendFailed(m) => due[m] <= 0]_vars

(* No statement of the worker moves a row that stays queued to an earlier  *)
(* time: not the reschedule computed from the batch's old `now'            *)
(* (outbound.go:286, 308), not the domain-wide deferral (sqlite.go:257).   *)
NeverMovedEarlier ==
    [][~Tick => \A m \in Queued : status'[m] = "queued" => due'[m] >= due[m]]_vars

Waiting(d) == {m \in Queued : DomainOf[m] = d}

\* A domain that takes a report in the end if it is asked again and again.
Reachable(d) == SF_vars(\E m \in Waiting(d) : SendAccepted(m))

(* outbound.go:251-322, sqlite.go:210-228, README.md:313.  The reports of a *)
(* domain that can be reached are delivered in the end, whatever becomes of *)
(* those of other domains: rows that fail for ever, and are as many as a    *)
(* batch holds, do not keep them out.                                       *)
EventuallyDelivered ==
    \A d \in Domain : Reachable(d) => []<>(Waiting(d) = {})

(* README.md:313: "Queued reports are persisted in SQLite and retried      *)
(* without a fixed attempt limit": every queued report is tried, or gone,  *)
(* again and again.                                                        *)
EveryReportIsTried ==
    \A m \in Id : status[m] = "queued" ~> (status[m] = "gone" \/ (pc \in {"sent", "failed"} /\ current = m))

Outbox == INSTANCE ReportOutbox WITH Entry <- Id, pending <- Queued

(* The queue keeps the promise of ReportOutbox.                            *)
ImplementsOutbox == Outbox!OutboxSpec
=============================================================================
