---------------------------- MODULE ReportOutbox ----------------------------
(***************************************************************************)
(* What the durable outbox promises to the component that queues a report: *)
(* a report is kept until the destination has taken a copy of it.  It may  *)
(* be handed over more than once (a crash, or a storage error, between the *)
(* hand-over and the removal), never zero times.                           *)
(*                                                                         *)
(* src/docs/outbound-reports.md:3 states the promise ("The generated       *)
(* message is stored in a durable SQLite outbox before delivery. Delivery  *)
(* failures remain queued"); OutboundQueue.tla is the code's version.      *)
(***************************************************************************)
EXTENDS Naturals

CONSTANT Entry      \* identities of the reports

VARIABLES
    pending,        \* reports the outbox answers for
    copies          \* how often each report was taken by its destination

outboxVars == <<pending, copies>>

OutboxInit ==
    /\ pending = {}
    /\ copies = [m \in Entry |-> 0]

\* A report is accepted for delivery; a report is accepted at most once.
Submit(m) ==
    /\ m \notin pending
    /\ copies[m] = 0
    /\ pending' = pending \cup {m}
    /\ UNCHANGED copies

\* The destination takes a copy; the outbox still answers for the report.
HandOver(m) ==
    /\ m \in pending
    /\ copies' = [copies EXCEPT ![m] = @ + 1]
    /\ UNCHANGED pending

\* The outbox forgets a report only after a hand-over.
Forget(m) ==
    /\ m \in pending
    /\ copies[m] > 0
    /\ pending' = pending \ {m}
    /\ UNCHANGED copies

OutboxNext == \E m \in Entry : Submit(m) \/ HandOver(m) \/ Forget(m)

OutboxSpec == OutboxInit /\ [][OutboxNext]_outboxVars
=============================================================================
