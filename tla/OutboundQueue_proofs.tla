------------------------ MODULE OutboundQueue_proofs ------------------------
(***************************************************************************)
(* Proofs about OutboundQueue, for every number of reports, every          *)
(* assignment of domains, every backoff table and every bound.             *)
(***************************************************************************)
EXTENDS OutboundQueue, FiniteSetTheorems, TLAPS

(* The batch is a duplicate-free list of rows that are still in the table. *)
BatchOK ==
    /\ pc = "idle" => batch = <<>>
    /\ pc \in {"sent", "failed", "defer"} => batch # <<>>
    /\ \A i, j \in 1 .. Len(batch) : i # j => batch[i] # batch[j]
    /\ \A i \in 1 .. Len(batch) : status[batch[i]] = "queued"

(* A listed row was due when the batch began, and since then only the      *)
(* deferral of its domain can have moved it.                               *)
Snapshot(m) ==
    \/ due[m] <= -elapsed
    \/ deferred[DomainOf[m]] > 0 /\ due[m] = deferred[DomainOf[m]] - elapsed

InBatch(m) == \E i \in 1 .. Len(batch) : batch[i] = m

SnapshotOK ==
    /\ \A m \in Id : InBatch(m) => Snapshot(m)
    /\ pc \in {"sent", "failed"} => due[current] <= -elapsed
    /\ (pc = "failed" /\ temporary) =>
          deferred[DomainOf[current]] = outboundRetryDelay(NextAttempts(current))
    /\ pc = "defer" => deferred[DomainOf[current]] > 0

JustSent(m) == pc = "sent" /\ m = current

(* Each copy beyond the first is paid for by a fault.                      *)
CopiesOK ==
    /\ pc = "sent" => copies[current] >= 1
    /\ \A m \in Id : status[m] = "new" => copies[m] = 0
    /\ \A m \in Id : status[m] = "gone" => copies[m] >= 1
    /\ \A m \in Id : copies[m] <= 1 + faults
    /\ \A m \in Id : status[m] # "gone" /\ ~JustSent(m) => copies[m] <= faults

IInv == TypeOK /\ BatchOK /\ SnapshotOK /\ CopiesOK

-----------------------------------------------------------------------------
(* Facts about the head and the tail of the batch.                         *)
LEMMA TailFacts ==
    ASSUME NEW S, NEW s \in Seq(S), s # <<>>
    PROVE  /\ Len(s) \in Nat \ {0}
           /\ Head(s) = s[1] /\ Head(s) \in S
           /\ Tail(s) \in Seq(S)
           /\ Len(Tail(s)) = Len(s) - 1
           /\ \A i \in 1 .. Len(Tail(s)) : i + 1 \in 1 .. Len(s) /\ Tail(s)[i] = s[i + 1]
  OBVIOUS

(* outboundRetryDelay always answers one of the configured delays, a       *)
(* positive one (outbound.go:343-355).                                     *)
LEMMA DelayFacts ==
    ASSUME NEW n \in Nat
    PROVE  /\ outboundRetryDelay(n) \in DelayValues
           /\ outboundRetryDelay(n) \in Nat \ {0}
  <1>1. Len(RetryDelay) \in Nat \ {0} /\ DOMAIN RetryDelay = 1 .. Len(RetryDelay)
    BY OutboundAssumption
  <1>2. ASSUME NEW i \in 1 .. Len(RetryDelay)
        PROVE  RetryDelay[i] \in DelayValues /\ RetryDelay[i] \in Nat \ {0}
    BY <1>1, OutboundAssumption DEF DelayValues
  <1>3. \E i \in 1 .. Len(RetryDelay) : outboundRetryDelay(n) = RetryDelay[i]
    BY <1>1 DEF outboundRetryDelay
  <1>4. QED
    BY <1>2, <1>3

LEMMA DelayValuesType == DelayValues \subseteq Nat \ {0}
  BY OutboundAssumption DEF DelayValues

(* What ListDueOutboundMessages returns: distinct due rows, in a sequence. *)
LEMMA ListFacts ==
    ASSUME TypeOK, NEW s \in ListDueOutboundMessages
    PROVE  /\ s \in Seq(Id)
           /\ \A i \in 1 .. Len(s) : s[i] \in DueRows
           /\ \A i, j \in 1 .. Len(s) : i # j => s[i] # s[j]
  <1> DEFINE size == IF Cardinality(DueRows) < BatchLimit
                     THEN Cardinality(DueRows) ELSE BatchLimit
  <1>1. IsFiniteSet(Id)
    BY FS_Interval, OutboundAssumption DEF Id
  <1>2. IsFiniteSet(DueRows)
    BY <1>1, FS_Subset DEF DueRows, Queued
  <1>3. size \in Nat
    BY <1>2, FS_CardinalityType, OutboundAssumption
  <1>4. s \in [1 .. size -> DueRows]
    BY DEF ListDueOutboundMessages
  <1>5. \A i, j \in 1 .. size : i < j => Before(s[i], s[j])
    BY DEF ListDueOutboundMessages
  <1> HIDE DEF size
  <1>6. DueRows \subseteq Id
    BY DEF DueRows, Queued
  <1>7. s \in Seq(Id) /\ Len(s) = size
    BY <1>3, <1>4, <1>6
  <1>8. \A m \in Id : ~Before(m, m)
    BY DEF Before, Id, TypeOK
  <1>9. ASSUME NEW i \in 1 .. size, NEW j \in 1 .. size, i # j
        PROVE  s[i] # s[j]
    <2>1. s[i] \in Id /\ s[j] \in Id
      BY <1>4, <1>6
    <2>2. CASE i < j
      BY <2>1, <2>2, <1>5, <1>8
    <2>3. CASE j < i
      BY <2>1, <2>3, <1>5, <1>8
    <2>4. QED
      BY <2>2, <2>3, <1>3, <1>9
  <1>10. QED
    BY <1>4, <1>7, <1>9

-----------------------------------------------------------------------------
(* Typing and the structure of the batch are one invariant: the worker     *)
(* takes the tail of the batch only where BatchOK says there is one.       *)
LEMMA InitStructure == Init => TypeOK /\ BatchOK
  <1>1. Len(RetryDelay) \in Nat \ {0} /\ 0 \in 0 .. MaxFaults /\ <<>> \in Seq(Id)
    BY OutboundAssumption
  <1>2. Len(<<>>) = 0 /\ 1 .. 0 = {}
    OBVIOUS
  <1>3. Init => TypeOK
    <2> SUFFICES ASSUME Init PROVE TypeOK
      OBVIOUS
    <2>1. deferred \in [Domain -> {0} \cup DelayValues]
      BY DEF Init
    <2>2. attempts \in [Id -> 0 .. Len(RetryDelay)]
      BY <1>1 DEF Init
    <2>3. /\ status \in [Id -> {"new", "queued", "gone"}]
          /\ due \in [Id -> Int] /\ copies \in [Id -> Nat]
      BY DEF Init
    <2>4. QED
      BY <1>1, <2>1, <2>2, <2>3 DEF Init, TypeOK
  <1>4. Init => BatchOK
    BY <1>2 DEF Init, BatchOK
  <1>5. QED
    BY <1>3, <1>4

\* What every step that finishes the head of the batch has in common.
LEMMA TailStructure ==
    ASSUME TypeOK, BatchOK, batch # <<>>, batch' = Tail(batch), pc' = "next",
           \A m \in Id : status[m] = "queued" /\ m # current => status'[m] = "queued"
    PROVE  batch' \in Seq(Id) /\ BatchOK'
  <1>1. /\ batch \in Seq(Id) /\ Len(batch) \in Nat \ {0}
        /\ current = batch[1] /\ current \in Id
        /\ batch' \in Seq(Id) /\ Len(batch') = Len(batch) - 1
        /\ \A i \in 1 .. Len(batch') : i + 1 \in 1 .. Len(batch) /\ batch'[i] = batch[i + 1]
    BY TailFacts DEF TypeOK, current
  <1>2. \A i \in 1 .. Len(batch) : batch[i] \in Id
    BY <1>1
  <1>3. ASSUME NEW i \in 1 .. Len(batch'), NEW j \in 1 .. Len(batch'), i # j
        PROVE  batch'[i] # batch'[j]
    BY <1>1, <1>3 DEF BatchOK
  <1>4. ASSUME NEW i \in 1 .. Len(batch')
        PROVE  status'[batch'[i]] = "queued"
    <2>1. i + 1 \in 1 .. Len(batch) /\ 1 \in 1 .. Len(batch) /\ i + 1 # 1 /\ batch'[i] = batch[i + 1]
      BY <1>1
    <2>2. batch[i + 1] # current /\ batch[i + 1] \in Id /\ status[batch[i + 1]] = "queued"
      BY <2>1, <1>1, <1>2 DEF BatchOK
    <2>3. QED
      BY <2>1, <2>2
  <1>5. QED
    BY <1>1, <1>3, <1>4 DEF BatchOK

LEMMA StructureStep == TypeOK /\ BatchOK /\ [Next]_vars => TypeOK' /\ BatchOK'
  <1> SUFFICES ASSUME TypeOK, BatchOK, [Next]_vars PROVE TypeOK' /\ BatchOK'
    OBVIOUS
  <1>0. /\ Len(RetryDelay) \in Nat \ {0} /\ DelayValues \subseteq Nat \ {0}
        /\ DomainOf \in [Id -> Domain] /\ MaxFaults \in Nat
    BY OutboundAssumption, DelayValuesType
  <1>a. batch # <<>> => current \in Id /\ Tail(batch) \in Seq(Id)
    BY TailFacts DEF TypeOK, current
  <1>b. ASSUME NEW m \in Id
        PROVE  /\ NextAttempts(m) \in 0 .. Len(RetryDelay) /\ NextAttempts(m) \in Nat
               /\ outboundRetryDelay(NextAttempts(m)) \in DelayValues
               /\ outboundRetryDelay(NextAttempts(m)) \in Nat \ {0}
    <2>1. NextAttempts(m) \in 0 .. Len(RetryDelay) /\ NextAttempts(m) \in Nat
      BY <1>0 DEF NextAttempts, TypeOK
    <2>2. QED
      BY <2>1, DelayFacts
  <1>c. \A d \in Domain : deferred[d] \in Nat /\ retryAt(d) \in Int
    <2>1. deferred \in [Domain -> {0} \cup DelayValues] /\ elapsed \in Nat
      BY DEF TypeOK
    <2>2. \A d \in Domain : deferred[d] \in Nat
      <3>1. \A v \in {0} \cup DelayValues : v \in Nat
        BY <1>0
      <3>2. QED
        BY <2>1, <3>1
    <2>3. QED
      BY <2>1, <2>2 DEF retryAt
  <1>d. batch # <<>> => DomainOf[current] \in Domain
    BY <1>0, <1>a
  <1>e. ASSUME faults < MaxFaults, faults' = faults + 1
        PROVE  faults' \in 0 .. MaxFaults
    BY <1>0, <1>e DEF TypeOK
  <1>1. ASSUME NEW m \in Id, EnqueueOutboundMessage(m) PROVE TypeOK' /\ BatchOK'
    <2>1. TypeOK'
      BY <1>1 DEF EnqueueOutboundMessage, TypeOK, worker
    <2>2. \A n \in Id : status[n] = "queued" => status'[n] = "queued"
      BY <1>1 DEF EnqueueOutboundMessage, TypeOK
    <2>3. \A i \in 1 .. Len(batch) : batch[i] \in Id
      BY DEF TypeOK
    <2>4. BatchOK'
      BY <1>1, <2>2, <2>3 DEF EnqueueOutboundMessage, BatchOK, worker
    <2>5. QED
      BY <2>1, <2>4
  <1>2. CASE StartBatch
    <2>1. /\ batch' \in Seq(Id)
          /\ \A i \in 1 .. Len(batch') : batch'[i] \in DueRows
          /\ \A i, j \in 1 .. Len(batch') : i # j => batch'[i] # batch'[j]
      BY <1>2, ListFacts DEF StartBatch
    <2>2. TypeOK'
      BY <1>2, <2>1 DEF StartBatch, TypeOK, rows
    <2>3. BatchOK'
      BY <1>2, <2>1 DEF StartBatch, BatchOK, rows, DueRows, Queued
    <2>4. QED
      BY <2>2, <2>3
  <1>3. CASE FinishBatch
    BY <1>3 DEF FinishBatch, TypeOK, BatchOK, rows
  <1>4. CASE SkipDeferred
    <2>0. retryAt(DomainOf[current]) \in Int /\ current \in Id
      BY <1>4, <1>a, <1>c, <1>d DEF SkipDeferred
    <2>1. TypeOK'
      <3>1. due' \in [Id -> Int]
        BY <1>4, <2>0 DEF SkipDeferred, StoreFails, TypeOK, rows
      <3>2. faults' \in 0 .. MaxFaults
        BY <1>4, <1>e DEF SkipDeferred, StoreFails, TypeOK
      <3>3. QED
        BY <1>4, <1>a, <3>1, <3>2 DEF SkipDeferred, StoreFails, TypeOK, rows
    <2>2. \A m \in Id : status[m] = "queued" => status'[m] = "queued"
      BY <1>4 DEF SkipDeferred, StoreFails, rows
    <2>3. BatchOK'
      BY <1>4, <2>2, TailStructure DEF SkipDeferred
    <2>4. QED
      BY <2>1, <2>3
  <1>5. ASSUME NEW m \in Id, SendAccepted(m) PROVE TypeOK' /\ BatchOK'
    BY <1>5 DEF SendAccepted, Attempt, TypeOK, BatchOK, rows
  <1>6. ASSUME NEW m \in Id, SendFailed(m) PROVE TypeOK' /\ BatchOK'
    <2>1. deferred' \in [Domain -> {0} \cup DelayValues] /\ temporary' \in BOOLEAN
      BY <1>6, <1>0, <1>b DEF SendFailed, TypeOK
    <2>2. QED
      BY <1>6, <2>1 DEF SendFailed, Attempt, TypeOK, BatchOK, rows
  <1>7. CASE DeleteOutboundMessage
    <2>1. batch # <<>>
      BY <1>7 DEF DeleteOutboundMessage, BatchOK
    <2>2. TypeOK'
      <3>1. /\ status' \in [Id -> {"new", "queued", "gone"}]
            /\ attempts' \in [Id -> 0 .. Len(RetryDelay)]
            /\ due' \in [Id -> Int]
        <4>1. current \in Id /\ 0 \in 0 .. Len(RetryDelay) /\ 0 \in Int
          BY <1>0, <1>a, <2>1
        <4>2. CASE UNCHANGED rows
          BY <4>2 DEF TypeOK, rows
        <4>3. CASE /\ status' = [status EXCEPT ![current] = "gone"]
                   /\ attempts' = [attempts EXCEPT ![current] = 0]
                   /\ due' = [due EXCEPT ![current] = 0]
          BY <4>1, <4>3 DEF TypeOK
        <4>4. QED
          BY <1>7, <4>2, <4>3 DEF DeleteOutboundMessage, StoreFails
      <3>2. faults' \in 0 .. MaxFaults
        BY <1>7, <1>e DEF DeleteOutboundMessage, StoreFails, TypeOK
      <3>3. QED
        BY <1>7, <1>a, <2>1, <3>1, <3>2 DEF DeleteOutboundMessage, TypeOK
    <2>3. \A m \in Id : status[m] = "queued" /\ m # current => status'[m] = "queued"
      BY <1>7 DEF DeleteOutboundMessage, StoreFails, rows, TypeOK
    <2>4. BatchOK'
      BY <1>7, <2>1, <2>3, TailStructure DEF DeleteOutboundMessage
    <2>5. QED
      BY <2>2, <2>4
  <1>8. CASE RescheduleOutboundMessage
    <2>1. batch # <<>>
      BY <1>8 DEF RescheduleOutboundMessage, BatchOK
    <2>2. outboundRetryDelay(NextAttempts(current)) - elapsed \in Int
      BY <1>a, <1>b, <2>1 DEF TypeOK
    <2>3. TypeOK'
      <3>1. /\ status' \in [Id -> {"new", "queued", "gone"}]
            /\ attempts' \in [Id -> 0 .. Len(RetryDelay)]
            /\ due' \in [Id -> Int]
        BY <1>8, <1>a, <1>b, <2>1, <2>2
           DEF RescheduleOutboundMessage, StoreFails, TypeOK, rows
      <3>2. faults' \in 0 .. MaxFaults
        BY <1>8, <1>e DEF RescheduleOutboundMessage, StoreFails, TypeOK
      <3>3. batch' \in Seq(Id) /\ pc' \in {"next", "defer"}
        BY <1>8, <1>a, <2>1 DEF RescheduleOutboundMessage, TypeOK
      <3>4. QED
        BY <1>8, <3>1, <3>2, <3>3 DEF RescheduleOutboundMessage, TypeOK
    <2>4. \A m \in Id : status[m] = "queued" => status'[m] = "queued"
      BY <1>8 DEF RescheduleOutboundMessage, StoreFails, rows
    <2>5. CASE batch' = Tail(batch) /\ pc' = "next"
      BY <2>1, <2>3, <2>4, <2>5, TailStructure
    <2>6. CASE batch' = batch /\ pc' = "defer" /\ status' = status
      BY <2>1, <2>3, <2>6 DEF BatchOK
    <2>7. QED
      BY <1>8, <2>3, <2>5, <2>6 DEF RescheduleOutboundMessage, BatchOK
  <1>9. CASE DeferOutboundMessagesForDomain
    <2>1. batch # <<>>
      BY <1>9 DEF DeferOutboundMessagesForDomain, BatchOK
    <2>2. DomainOf[current] \in Domain /\ retryAt(DomainOf[current]) \in Int
      BY <1>0, <1>a, <1>c, <2>1
    <2>3. due' \in [Id -> Int]
      BY <1>9, <2>2 DEF DeferOutboundMessagesForDomain, StoreFails, TypeOK, rows, Later
    <2>4. TypeOK'
      <3>1. faults' \in 0 .. MaxFaults
        BY <1>9, <1>e DEF DeferOutboundMessagesForDomain, StoreFails, TypeOK
      <3>2. QED
        BY <1>9, <1>a, <2>1, <2>3, <3>1
           DEF DeferOutboundMessagesForDomain, StoreFails, TypeOK, rows
    <2>5. \A m \in Id : status[m] = "queued" => status'[m] = "queued"
      BY <1>9 DEF DeferOutboundMessagesForDomain, StoreFails, rows
    <2>6. BatchOK'
      BY <1>9, <2>1, <2>5, TailStructure DEF DeferOutboundMessagesForDomain
    <2>7. QED
      BY <2>4, <2>6
  <1>10. CASE Crash
    <2>1. faults' \in 0 .. MaxFaults
      BY <1>10, <1>e DEF Crash
    <2>2. <<>> \in Seq(Id) /\ Len(<<>>) = 0 /\ 1 .. 0 = {}
      OBVIOUS
    <2>3. TypeOK'
      BY <1>10, <2>1, <2>2 DEF Crash, TypeOK, rows
    <2>4. BatchOK'
      BY <1>10, <2>2 DEF Crash, BatchOK
    <2>5. QED
      BY <2>3, <2>4
  <1>11. CASE Tick
    <2>1. TypeOK'
      BY <1>11 DEF Tick, TypeOK
    <2>2. BatchOK'
      BY <1>11 DEF Tick, BatchOK
    <2>3. QED
      BY <2>1, <2>2
  <1>12. CASE UNCHANGED vars
    BY <1>12 DEF vars, TypeOK, BatchOK
  <1>13. ASSUME NEW m \in Id, UnconfirmedCopy(m) PROVE TypeOK' /\ BatchOK'
    <2>1. copies' \in [Id -> Nat] /\ faults' \in 0 .. MaxFaults
      BY <1>13, <1>0, <1>e DEF UnconfirmedCopy, TypeOK
    <2>2. TypeOK'
      BY <1>13, <2>1 DEF UnconfirmedCopy, TypeOK, rows, worker
    <2>3. BatchOK'
      BY <1>13 DEF UnconfirmedCopy, BatchOK, rows, worker
    <2>4. QED
      BY <2>2, <2>3
  <1>14. QED
    BY <1>1, <1>2, <1>3, <1>4, <1>5, <1>6, <1>7, <1>8, <1>9, <1>10, <1>11, <1>12, <1>13
       DEF Next, runOutboundBatch

(* Every reachable state is well typed: in particular no stored delay is   *)
(* outside the backoff table (outbound.go:343-355).                        *)
THEOREM TypeCorrect == Spec => [](TypeOK /\ BatchOK)
  BY InitStructure, StructureStep, PTL DEF Spec

-----------------------------------------------------------------------------
(* The snapshot the worker acts on.                                        *)
LEMMA RetryAtType ==
    ASSUME TypeOK, NEW m \in Id
    PROVE  /\ deferred[DomainOf[m]] \in Nat /\ due[m] \in Int /\ elapsed \in Nat
           /\ DomainOf[m] \in Domain
           /\ retryAt(DomainOf[m]) = deferred[DomainOf[m]] - elapsed
           /\ NextAttempts(m) \in Nat
           /\ outboundRetryDelay(NextAttempts(m)) \in Nat \ {0}
  <1>1. DomainOf[m] \in Domain /\ \A v \in {0} \cup DelayValues : v \in Nat
    BY OutboundAssumption, DelayValuesType
  <1>2. deferred \in [Domain -> {0} \cup DelayValues] /\ due \in [Id -> Int] /\ elapsed \in Nat
    BY DEF TypeOK
  <1>3. NextAttempts(m) \in Nat
    BY OutboundAssumption DEF NextAttempts, TypeOK
  <1>4. outboundRetryDelay(NextAttempts(m)) \in Nat \ {0}
    BY <1>3, DelayFacts
  <1>5. QED
    BY <1>1, <1>2, <1>3, <1>4 DEF retryAt

\* A step that finishes the head of the batch keeps the rest as it was.
LEMMA TailSnapshot ==
    ASSUME TypeOK, BatchOK, SnapshotOK, batch # <<>>, batch' = Tail(batch), pc' = "next",
           \A m \in Id : m # current /\ status[m] = "queued" /\ Snapshot(m) => Snapshot(m)'
    PROVE  SnapshotOK'
  <1>1. /\ Len(batch) \in Nat \ {0} /\ current = batch[1] /\ batch \in Seq(Id)
        /\ \A i \in 1 .. Len(batch') : i + 1 \in 1 .. Len(batch) /\ batch'[i] = batch[i + 1]
        /\ Len(batch') = Len(batch) - 1
    BY TailFacts DEF TypeOK, current
  <1>2. ASSUME NEW m \in Id, InBatch(m)' PROVE Snapshot(m)'
    <2>1. PICK i \in 1 .. Len(batch') : batch'[i] = m
      BY <1>2 DEF InBatch
    <2>2. i + 1 \in 1 .. Len(batch) /\ 1 \in 1 .. Len(batch) /\ i + 1 # 1
          /\ m = batch[i + 1]
      BY <1>1, <2>1
    <2>3. m # current /\ status[m] = "queued" /\ InBatch(m)
      BY <1>1, <2>2 DEF BatchOK, InBatch
    <2>4. QED
      BY <2>3 DEF SnapshotOK
  <1>3. QED
    BY <1>2 DEF SnapshotOK

LEMMA SnapshotStep == TypeOK /\ BatchOK /\ SnapshotOK /\ [Next]_vars => SnapshotOK'
  <1> SUFFICES ASSUME TypeOK, BatchOK, SnapshotOK, [Next]_vars PROVE SnapshotOK'
    OBVIOUS
  <1>a. \A m \in Id : InBatch(m) => status[m] = "queued"
    BY DEF BatchOK, InBatch
  <1>b. batch # <<>> => current \in Id /\ InBatch(current)
    BY TailFacts DEF TypeOK, current, InBatch
  <1>1. ASSUME NEW m \in Id, EnqueueOutboundMessage(m) PROVE SnapshotOK'
    BY <1>1 DEF EnqueueOutboundMessage, SnapshotOK, Snapshot, InBatch, worker, current,
                NextAttempts
  <1>2. CASE StartBatch
    <2>1. \A m \in Id : InBatch(m)' => m \in DueRows
      BY <1>2, ListFacts DEF StartBatch, InBatch
    <2>2. elapsed' = 0 /\ due' = due /\ pc' = "next"
      BY <1>2 DEF StartBatch, rows
    <2>3. \A m \in Id : InBatch(m)' => Snapshot(m)'
      BY <2>1, <2>2 DEF DueRows, Queued, Snapshot, TypeOK
    <2>4. QED
      BY <2>2, <2>3 DEF SnapshotOK
  <1>3. CASE FinishBatch
    <2>1. batch' = <<>> /\ pc' = "idle"
      BY <1>3 DEF FinishBatch
    <2>2. \A m \in Id : ~InBatch(m)'
      BY <2>1 DEF InBatch
    <2>3. QED
      BY <2>1, <2>2 DEF SnapshotOK
  <1>4. CASE SkipDeferred
    <2>1. /\ batch # <<>> /\ batch' = Tail(batch) /\ pc' = "next"
          /\ elapsed' = elapsed /\ deferred' = deferred
      BY <1>4 DEF SkipDeferred
    <2>2. \A m \in Id : m # current => due'[m] = due[m]
      BY <1>4 DEF SkipDeferred, StoreFails, rows, TypeOK
    <2>3. QED
      BY <2>1, <2>2, TailSnapshot DEF Snapshot
  <1>5. ASSUME NEW m \in Id, SendAccepted(m) PROVE SnapshotOK'
    <2>1. /\ pc' = "sent" /\ batch' = batch /\ deferred' = deferred /\ due' = due
          /\ elapsed' = elapsed /\ batch # <<>> /\ current = m
          /\ deferred[DomainOf[m]] = 0
      BY <1>5 DEF SendAccepted, Attempt, rows
    <2>2. Snapshot(m)
      BY <1>b, <2>1 DEF SnapshotOK
    <2>3. due[m] <= -elapsed
      BY <2>1, <2>2, RetryAtType DEF Snapshot
    <2>4. QED
      BY <2>1, <2>3 DEF SnapshotOK, Snapshot, InBatch, current
  <1>6. ASSUME NEW m \in Id, SendFailed(m) PROVE SnapshotOK'
    <2>1. /\ pc' = "failed" /\ batch' = batch /\ due' = due /\ attempts' = attempts
          /\ elapsed' = elapsed /\ batch # <<>> /\ current = m
          /\ deferred[DomainOf[m]] = 0
      BY <1>6 DEF SendFailed, Attempt, rows
    <2>2. \/ temporary' = FALSE /\ deferred' = deferred
          \/ deferred' = [deferred EXCEPT ![DomainOf[m]] = outboundRetryDelay(NextAttempts(m))]
      BY <1>6 DEF SendFailed
    <2>3. temporary' => deferred' = [deferred EXCEPT ![DomainOf[m]] =
                                       outboundRetryDelay(NextAttempts(m))]
      BY <1>6 DEF SendFailed
    <2>4. \A n \in Id : Snapshot(n) => Snapshot(n)'
      <3>1. TAKE n \in Id
      <3>2. CASE DomainOf[n] = DomainOf[m]
        BY <2>1, <3>2, RetryAtType DEF Snapshot
      <3>3. CASE DomainOf[n] # DomainOf[m]
        <4>1. deferred'[DomainOf[n]] = deferred[DomainOf[n]]
          BY <2>2, <3>3, RetryAtType DEF TypeOK
        <4>2. QED
          BY <2>1, <4>1 DEF Snapshot
      <3>4. QED
        BY <3>2, <3>3
    <2>5. due[m] <= -elapsed
      BY <1>b, <2>1, RetryAtType DEF SnapshotOK, Snapshot
    <2>6. temporary' => deferred'[DomainOf[m]] = outboundRetryDelay(NextAttempts(m))
      BY <2>3, RetryAtType DEF TypeOK
    <2>7. NextAttempts(m)' = NextAttempts(m) /\ current' = m
      BY <2>1 DEF NextAttempts, current
    <2>8. \A n \in Id : InBatch(n)' => Snapshot(n)'
      BY <2>1, <2>4 DEF SnapshotOK, InBatch
    <2>9. (pc' = "failed" /\ temporary') =>
             (deferred[DomainOf[current]] = outboundRetryDelay(NextAttempts(current)))'
      BY <2>1, <2>6, <2>7 DEF current, NextAttempts, outboundRetryDelay
    <2>10. pc' \in {"sent", "failed"} => (due[current] <= -elapsed)'
      BY <2>1, <2>5, <2>7
    <2>11. QED
      BY <2>1, <2>8, <2>9, <2>10 DEF SnapshotOK
  <1>7. CASE DeleteOutboundMessage
    <2>1. /\ batch # <<>> /\ batch' = Tail(batch) /\ pc' = "next"
          /\ elapsed' = elapsed /\ deferred' = deferred
      BY <1>7 DEF DeleteOutboundMessage, BatchOK
    <2>2. \A m \in Id : m # current => due'[m] = due[m]
      BY <1>7 DEF DeleteOutboundMessage, StoreFails, rows, TypeOK
    <2>3. QED
      BY <2>1, <2>2, TailSnapshot DEF Snapshot
  <1>8. CASE RescheduleOutboundMessage
    <2>1. batch # <<>> /\ elapsed' = elapsed /\ deferred' = deferred
      BY <1>8 DEF RescheduleOutboundMessage, BatchOK
    <2>2. \A m \in Id : m # current => due'[m] = due[m]
      BY <1>8 DEF RescheduleOutboundMessage, StoreFails, rows, TypeOK
    <2>3. CASE batch' = Tail(batch) /\ pc' = "next"
      BY <2>1, <2>2, <2>3, TailSnapshot DEF Snapshot
    <2>4. CASE /\ batch' = batch /\ pc' = "defer" /\ temporary
               /\ due' = [due EXCEPT ![current] =
                            outboundRetryDelay(NextAttempts(current)) - elapsed]
      <3>1. /\ deferred[DomainOf[current]] = outboundRetryDelay(NextAttempts(current))
            /\ deferred[DomainOf[current]] > 0
        BY <1>8, <1>b, <2>1, <2>4, RetryAtType DEF SnapshotOK, RescheduleOutboundMessage
      <3>2. due'[current] = deferred'[DomainOf[current]] - elapsed'
        BY <1>b, <2>1, <2>4, <3>1 DEF TypeOK
      <3>3. \A m \in Id : Snapshot(m) => Snapshot(m)'
        BY <2>1, <2>2, <3>1, <3>2 DEF Snapshot
      <3>4. QED
        BY <2>1, <2>4, <3>1, <3>3 DEF SnapshotOK, InBatch, current
    <2>5. QED
      BY <1>8, <2>3, <2>4 DEF RescheduleOutboundMessage
  <1>9. CASE DeferOutboundMessagesForDomain
    <2>1. /\ batch # <<>> /\ batch' = Tail(batch) /\ pc' = "next" /\ pc = "defer"
          /\ elapsed' = elapsed /\ deferred' = deferred
      BY <1>9 DEF DeferOutboundMessagesForDomain, BatchOK
    <2>2. deferred[DomainOf[current]] > 0 /\ current \in Id
      BY <1>b, <2>1 DEF SnapshotOK
    <2>3. \A m \in Id : \/ due'[m] = due[m]
                        \/ /\ DomainOf[m] = DomainOf[current]
                           /\ due'[m] = Later(m, retryAt(DomainOf[current]))
      BY <1>9 DEF DeferOutboundMessagesForDomain, StoreFails, rows
    <2>4. ASSUME NEW m \in Id, Snapshot(m) PROVE Snapshot(m)'
      BY <2>1, <2>2, <2>3, <2>4, RetryAtType DEF Snapshot, Later
    <2>5. QED
      BY <2>1, <2>4, TailSnapshot
  <1>10. CASE Crash
    <2>1. batch' = <<>> /\ pc' = "idle"
      BY <1>10 DEF Crash
    <2>2. \A m \in Id : ~InBatch(m)'
      BY <2>1 DEF InBatch
    <2>3. QED
      BY <2>1, <2>2 DEF SnapshotOK
  <1>11. CASE Tick
    <2>1. /\ batch' = batch /\ pc' = pc /\ deferred' = deferred /\ temporary' = temporary
          /\ attempts' = attempts
      BY <1>11 DEF Tick
    <2>2. CASE pc = "idle"
      <3>1. \A m \in Id : ~InBatch(m)'
        BY <2>1, <2>2 DEF BatchOK, InBatch
      <3>2. QED
        BY <2>1, <2>2, <3>1 DEF SnapshotOK
    <2>3. CASE pc # "idle"
      <3>0. elapsed' = elapsed + 1 /\ elapsed \in Nat /\ elapsed' <= MaxOverdue
        BY <1>11, <2>3, OutboundAssumption DEF Tick, TypeOK
      <3>1. \A m \in Queued : due'[m] = due[m] - 1 \/ due'[m] <= -elapsed'
        <4>1. ASSUME NEW m \in Queued PROVE due'[m] = due[m] - 1 \/ due'[m] <= -elapsed'
          <5>1. /\ m \in Id /\ due[m] \in Int
                /\ due'[m] = IF due[m] > -MaxOverdue THEN due[m] - 1 ELSE due[m]
            BY <1>11 DEF Tick, Queued, TypeOK
          <5>2. QED
            BY <3>0, <5>1, OutboundAssumption
        <4>2. QED
          BY <4>1
      <3>2. ASSUME NEW m \in Id, status[m] = "queued", Snapshot(m) PROVE Snapshot(m)'
        <4>1. due'[m] = due[m] - 1 \/ due'[m] <= -elapsed'
          BY <3>1, <3>2 DEF Queued
        <4>2. QED
          BY <2>1, <3>0, <3>2, <4>1, RetryAtType DEF Snapshot
      <3>3. pc \in {"sent", "failed"} => due'[current] <= -elapsed'
        <4>1. HAVE pc \in {"sent", "failed"}
        <4>2. current \in Id /\ status[current] = "queued" /\ due[current] <= -elapsed
          BY <1>a, <1>b, <4>1 DEF SnapshotOK, BatchOK
        <4>3. due'[current] = due[current] - 1 \/ due'[current] <= -elapsed'
          BY <3>1, <4>2 DEF Queued
        <4>4. QED
          BY <3>0, <4>2, <4>3, RetryAtType
      <3>4. \A m \in Id : InBatch(m)' => Snapshot(m)'
        BY <1>a, <2>1, <3>2 DEF SnapshotOK, InBatch
      <3>5. QED
        BY <2>1, <3>3, <3>4 DEF SnapshotOK, current, NextAttempts
    <2>4. QED
      BY <2>2, <2>3
  <1>12. CASE UNCHANGED vars
    BY <1>12 DEF vars, SnapshotOK, Snapshot, InBatch, current, NextAttempts
  <1>13. ASSUME NEW m \in Id, UnconfirmedCopy(m) PROVE SnapshotOK'
    BY <1>13 DEF UnconfirmedCopy, rows, worker, SnapshotOK, Snapshot, InBatch, current, NextAttempts
  <1>14. QED
    BY <1>1, <1>2, <1>3, <1>4, <1>5, <1>6, <1>7, <1>8, <1>9, <1>10, <1>11, <1>12, <1>13
       DEF Next, runOutboundBatch

-----------------------------------------------------------------------------
(* Copies and faults.                                                      *)
LEMMA CopiesStep == TypeOK /\ BatchOK /\ CopiesOK /\ [Next]_vars => CopiesOK'
  <1> SUFFICES ASSUME TypeOK, BatchOK, CopiesOK, [Next]_vars PROVE CopiesOK'
    OBVIOUS
  <1>a. \A m \in Id : copies[m] \in Nat
    BY DEF TypeOK
  <1>b. faults \in Nat /\ MaxFaults \in Nat
    BY OutboundAssumption DEF TypeOK
  <1>c. batch # <<>> => current \in Id /\ status[current] = "queued"
    BY TailFacts DEF TypeOK, current, BatchOK
  <1> USE DEF CopiesOK, JustSent, rows, worker, StoreFails
  <1>1. ASSUME NEW m \in Id, EnqueueOutboundMessage(m) PROVE CopiesOK'
    <2>1. /\ status' = [status EXCEPT ![m] = "queued"] /\ copies' = copies
          /\ faults' = faults /\ pc' = pc /\ current' = current /\ status[m] = "new"
      BY <1>1 DEF EnqueueOutboundMessage, current
    <2>2. copies[m] = 0
      BY <2>1
    <2>3. \A n \in Id : n # m => status'[n] = status[n]
      BY <2>1 DEF TypeOK
    <2>4. status'[m] = "queued"
      BY <2>1 DEF TypeOK
    <2>5. QED
      BY <2>1, <2>2, <2>3, <2>4, <1>a, <1>b
  <1>2. CASE StartBatch
    BY <1>2, <1>a, <1>b DEF StartBatch, BatchOK
  <1>3. CASE FinishBatch
    BY <1>3, <1>a, <1>b DEF FinishBatch
  <1>4. CASE SkipDeferred
    BY <1>4, <1>a, <1>b DEF SkipDeferred
  <1>5. ASSUME NEW m \in Id, SendAccepted(m) PROVE CopiesOK'
    <2>1. /\ copies' = [copies EXCEPT ![m] = @ + 1] /\ status' = status
          /\ faults' = faults /\ pc' = "sent" /\ pc = "next" /\ current' = m
          /\ status[m] = "queued"
      BY <1>5, <1>c DEF SendAccepted, Attempt, current
    <2>2. copies'[m] = copies[m] + 1 /\ \A n \in Id : n # m => copies'[n] = copies[n]
      BY <2>1 DEF TypeOK
    <2>3. QED
      BY <2>1, <2>2, <1>a, <1>b
  <1>6. ASSUME NEW m \in Id, SendFailed(m) PROVE CopiesOK'
    <2>1. pc' = "failed" /\ pc = "next"
      BY <1>6 DEF SendFailed, Attempt
    <2>2. QED
      BY <1>6, <2>1, <1>a, <1>b DEF SendFailed
  <1>7. CASE DeleteOutboundMessage
    <2>1. pc = "sent" /\ pc' = "next" /\ copies' = copies /\ current \in Id
      BY <1>7, <1>c DEF DeleteOutboundMessage, BatchOK
    <2>2. CASE status' = [status EXCEPT ![current] = "gone"] /\ faults' = faults
      <3>1. status'[current] = "gone" /\ \A n \in Id : n # current => status'[n] = status[n]
        BY <2>1, <2>2 DEF TypeOK
      <3>2. QED
        BY <2>1, <2>2, <3>1, <1>a, <1>b
    <2>3. CASE StoreFails
      BY <2>1, <2>3, <1>a, <1>b
    <2>4. QED
      BY <1>7, <2>2, <2>3 DEF DeleteOutboundMessage
  <1>8. CASE RescheduleOutboundMessage
    BY <1>8, <1>a, <1>b DEF RescheduleOutboundMessage
  <1>9. CASE DeferOutboundMessagesForDomain
    BY <1>9, <1>a, <1>b DEF DeferOutboundMessagesForDomain
  <1>10. CASE Crash
    BY <1>10, <1>a, <1>b DEF Crash
  <1>11. CASE Tick
    BY <1>11, <1>a, <1>b DEF Tick, current
  <1>12. CASE UNCHANGED vars
    BY <1>12 DEF vars, current
  <1>13. ASSUME NEW m \in Id, UnconfirmedCopy(m) PROVE CopiesOK'
    <2>1. /\ copies' = [copies EXCEPT ![m] = @ + 1] /\ status' = status
          /\ faults' = faults + 1 /\ pc' = "next" /\ pc = "next" /\ status[m] = "queued"
      BY <1>13, <1>c DEF UnconfirmedCopy, Attempt
    <2>2. copies'[m] = copies[m] + 1 /\ \A n \in Id : n # m => copies'[n] = copies[n]
      BY <2>1 DEF TypeOK
    <2>3. QED
      BY <2>1, <2>2, <1>a, <1>b
  <1>14. QED
    BY <1>1, <1>2, <1>3, <1>4, <1>5, <1>6, <1>7, <1>8, <1>9, <1>10, <1>11, <1>12, <1>13
       DEF Next, runOutboundBatch

THEOREM Invariance == Spec => []IInv
  <1>1. Init => IInv
    <2>1. Init => TypeOK /\ BatchOK
      BY InitStructure
    <2>2. Init => SnapshotOK
      BY DEF Init, SnapshotOK, InBatch
    <2>3. Init => CopiesOK
      BY OutboundAssumption DEF Init, CopiesOK, JustSent
    <2>4. QED
      BY <2>1, <2>2, <2>3 DEF IInv
  <1>2. IInv /\ [Next]_vars => IInv'
    BY StructureStep, SnapshotStep, CopiesStep DEF IInv
  <1>3. QED
    BY <1>1, <1>2, PTL DEF Spec

(* No report is dropped, and each destination gets at most one copy more   *)
(* than there were faults (outbound.go:281-304).                           *)
THEOREM NothingLostNothingRepeated == Spec => [](NeverLost /\ DuplicatesNeedFaults)
  <1>1. IInv => NeverLost /\ DuplicatesNeedFaults
    BY DEF IInv, CopiesOK, NeverLost, DuplicatesNeedFaults
  <1>2. QED
    BY <1>1, Invariance, PTL

(* Whatever the worker's snapshot says, a report is sent only when its     *)
(* stored retry time has come (outbound.go:283-292).                       *)
THEOREM RetryTimeRespected == Spec => NoEarlyAttempt
  <1>1. ASSUME IInv, NEW m \in Id, SendAccepted(m) \/ SendFailed(m)
        PROVE  due[m] <= 0
    <2>1. batch # <<>> /\ current = m /\ deferred[DomainOf[m]] = 0
      BY <1>1 DEF SendAccepted, SendFailed, Attempt
    <2>2. InBatch(m)
      BY <1>1, <2>1, TailFacts DEF IInv, TypeOK, current, InBatch
    <2>3. due[m] <= -elapsed
      BY <1>1, <2>1, <2>2, RetryAtType DEF IInv, SnapshotOK, Snapshot
    <2>4. QED
      BY <1>1, <2>3, RetryAtType DEF IInv
  <1>2. IInv /\ [Next]_vars =>
           [\A m \in Id : SendAccepted(m) \/ SendFailed(m) => due[m] <= 0]_vars
    BY <1>1
  <1>3. QED
    BY <1>2, Invariance, PTL DEF Spec, NoEarlyAttempt

(* No statement of the worker brings a waiting row forward: neither the    *)
(* reschedule from the batch's old `now' nor the deferral of a domain      *)
(* (outbound.go:286, 308, 319).                                            *)
THEOREM WaitsNeverShortened == Spec => NeverMovedEarlier
  <1> DEFINE Kept == \A m \in Queued : status'[m] = "queued" => due'[m] >= due[m]
  <1>1. ASSUME IInv, Next, ~Tick PROVE Kept
    <2>0. TypeOK /\ BatchOK /\ SnapshotOK
      BY <1>1 DEF IInv
    <2>a. \A m \in Id : due[m] \in Int
      BY <2>0 DEF TypeOK
    <2>b. batch # <<>> => current \in Id /\ InBatch(current)
      BY <2>0, TailFacts DEF TypeOK, current, InBatch
    <2>c. ASSUME due' = due PROVE Kept
      BY <2>a, <2>c DEF Queued
    <2>1. CASE SkipDeferred
      <3>1. /\ batch # <<>> /\ current \in Id /\ Snapshot(current)
            /\ deferred[DomainOf[current]] > 0
        BY <2>0, <2>1, <2>b DEF SkipDeferred, SnapshotOK
      <3>2. retryAt(DomainOf[current]) >= due[current]
        BY <2>0, <3>1, RetryAtType DEF Snapshot
      <3>3. CASE due' = [due EXCEPT ![current] = retryAt(DomainOf[current])]
        <4>1. due'[current] = retryAt(DomainOf[current])
              /\ \A m \in Id : m # current => due'[m] = due[m]
          BY <2>0, <3>1, <3>3 DEF TypeOK
        <4>2. QED
          BY <2>a, <3>2, <4>1 DEF Queued
      <3>4. QED
        BY <2>1, <2>c, <3>3 DEF SkipDeferred, StoreFails, rows
    <2>2. CASE RescheduleOutboundMessage
      <3>1. batch # <<>> /\ current \in Id /\ due[current] <= -elapsed
        BY <2>0, <2>2, <2>b DEF RescheduleOutboundMessage, SnapshotOK, BatchOK
      <3>2. outboundRetryDelay(NextAttempts(current)) - elapsed >= due[current]
        BY <2>0, <3>1, RetryAtType
      <3>3. CASE due' = [due EXCEPT ![current] =
                           outboundRetryDelay(NextAttempts(current)) - elapsed]
        <4>1. due'[current] = outboundRetryDelay(NextAttempts(current)) - elapsed
              /\ \A m \in Id : m # current => due'[m] = due[m]
          BY <2>0, <3>1, <3>3 DEF TypeOK
        <4>2. QED
          BY <2>a, <3>2, <4>1 DEF Queued
      <3>4. QED
        BY <2>2, <2>c, <3>3 DEF RescheduleOutboundMessage, StoreFails, rows
    <2>3. CASE DeferOutboundMessagesForDomain
      <3>1. current \in Id
        BY <2>0, <2>3, <2>b DEF DeferOutboundMessagesForDomain, BatchOK
      <3>2. retryAt(DomainOf[current]) \in Int
        BY <2>0, <3>1, RetryAtType
      <3>3. \A m \in Id : due'[m] = due[m] \/ due'[m] = Later(m, retryAt(DomainOf[current]))
        BY <2>3 DEF DeferOutboundMessagesForDomain, StoreFails, rows
      <3>4. QED
        BY <2>a, <3>2, <3>3 DEF Queued, Later
    <2>4. CASE DeleteOutboundMessage
      <3>1. current \in Id
        BY <2>0, <2>4, <2>b DEF DeleteOutboundMessage, BatchOK
      <3>2. CASE /\ status' = [status EXCEPT ![current] = "gone"]
                 /\ due' = [due EXCEPT ![current] = 0]
        <4>1. status'[current] = "gone" /\ \A m \in Id : m # current => due'[m] = due[m]
          BY <2>0, <3>1, <3>2 DEF TypeOK
        <4>2. QED
          BY <2>a, <4>1 DEF Queued
      <3>3. QED
        BY <2>4, <2>c, <3>2 DEF DeleteOutboundMessage, StoreFails, rows
    <2>5. ASSUME \/ \E m \in Id : EnqueueOutboundMessage(m)
                 \/ StartBatch \/ FinishBatch \/ Crash
                 \/ \E m \in Id : UnconfirmedCopy(m) \/ SendAccepted(m) \/ SendFailed(m)
          PROVE  Kept
      BY <2>5, <2>c DEF EnqueueOutboundMessage, StartBatch, FinishBatch, Crash,
                        UnconfirmedCopy, SendAccepted, SendFailed, rows
    <2>6. QED
      BY <1>1, <2>1, <2>2, <2>3, <2>4, <2>5 DEF Next, runOutboundBatch
  <1>2. IInv /\ [Next]_vars => [~Tick => Kept]_vars
    BY <1>1
  <1>3. QED
    BY <1>2, Invariance, PTL DEF Spec, NeverMovedEarlier

-----------------------------------------------------------------------------
(* The worker over the table implements the abstract outbox: a report is   *)
(* pending while its row exists.                                           *)
LEMMA OutboxInitStep == Init => Outbox!OutboxInit
  BY DEF Init, Outbox!OutboxInit, Queued

LEMMA OutboxStep == IInv /\ [Next]_vars => [Outbox!OutboxNext]_(Outbox!outboxVars)
  <1> SUFFICES ASSUME IInv, [Next]_vars
               PROVE  Outbox!OutboxNext \/ UNCHANGED Outbox!outboxVars
    OBVIOUS
  <1> USE DEF Outbox!outboxVars, rows, StoreFails
  <1>0. TypeOK /\ BatchOK /\ CopiesOK
    BY DEF IInv
  <1>a. batch # <<>> => current \in Id /\ status[current] = "queued"
    BY <1>0, TailFacts DEF TypeOK, current, BatchOK
  <1>b. ASSUME status' = status, copies' = copies
        PROVE  UNCHANGED Outbox!outboxVars
    BY <1>b DEF Queued
  <1>1. ASSUME NEW m \in Id, EnqueueOutboundMessage(m) PROVE Outbox!Submit(m)
    <2>1. /\ status[m] = "new" /\ status' = [status EXCEPT ![m] = "queued"]
          /\ copies' = copies
      BY <1>1 DEF EnqueueOutboundMessage
    <2>2. m \notin Queued /\ copies[m] = 0
      BY <1>0, <2>1 DEF Queued, CopiesOK
    <2>3. Queued' = Queued \cup {m}
      BY <1>0, <2>1 DEF Queued, TypeOK
    <2>4. QED
      BY <2>1, <2>2, <2>3 DEF Outbox!Submit
  <1>2. ASSUME NEW m \in Id, Attempt(m), copies' = [copies EXCEPT ![m] = @ + 1], status' = status
        PROVE  Outbox!HandOver(m)
    <2>1. m \in Queued
      BY <1>2, <1>a DEF Attempt, Queued
    <2>2. Queued' = Queued
      BY <1>2 DEF Queued
    <2>3. QED
      BY <1>2, <2>1, <2>2 DEF Outbox!HandOver
  <1>3. CASE DeleteOutboundMessage
    <2>1. current \in Id /\ status[current] = "queued" /\ copies[current] > 0 /\ copies' = copies
      BY <1>0, <1>3, <1>a DEF DeleteOutboundMessage, BatchOK, CopiesOK, TypeOK
    <2>2. CASE status' = [status EXCEPT ![current] = "gone"]
      <3>1. Queued' = Queued \ {current} /\ current \in Queued
        BY <1>0, <2>1, <2>2 DEF Queued, TypeOK
      <3>2. Outbox!Forget(current)
        BY <2>1, <3>1 DEF Outbox!Forget
      <3>3. QED
        BY <2>1, <3>2 DEF Outbox!OutboxNext
    <2>3. QED
      BY <1>3, <1>b, <2>1, <2>2 DEF DeleteOutboundMessage
  <1>4. ASSUME NEW m \in Id, SendAccepted(m) \/ UnconfirmedCopy(m) PROVE Outbox!OutboxNext
    BY <1>2, <1>4 DEF SendAccepted, UnconfirmedCopy, Outbox!OutboxNext
  <1>5. ASSUME NEW m \in Id, SendFailed(m) PROVE UNCHANGED Outbox!outboxVars
    BY <1>5, <1>b DEF SendFailed
  <1>6. CASE StartBatch \/ FinishBatch \/ SkipDeferred \/ Crash \/ Tick
    BY <1>6, <1>b DEF StartBatch, FinishBatch, SkipDeferred, Crash, Tick
  <1>7. CASE RescheduleOutboundMessage \/ DeferOutboundMessagesForDomain
    BY <1>7, <1>b DEF RescheduleOutboundMessage, DeferOutboundMessagesForDomain
  <1>8. CASE UNCHANGED vars
    BY <1>8, <1>b DEF vars
  <1>9. QED
    BY <1>1, <1>3, <1>4, <1>5, <1>6, <1>7, <1>8 DEF Next, runOutboundBatch, Outbox!OutboxNext

THEOREM Refinement == Spec => ImplementsOutbox
  BY OutboxInitStep, OutboxStep, Invariance, PTL
     DEF Spec, ImplementsOutbox, Outbox!OutboxSpec
-----------------------------------------------------------------------------
(* What the liveness of the queue rests on: a report never waits longer    *)
(* than the backoff allows, and waits for its own domain only.             *)

Bounded == \A m \in Id : \E d \in DelayValues : due[m] <= d

LEMMA SomeDelay == \E d \in DelayValues : d >= 0
  BY DelayFacts, 1 \in Nat

(* A time that the worker computes is one of the delays, or earlier.       *)
LEMMA DeferralBounded ==
    ASSUME TypeOK, NEW d \in Domain, deferred[d] > 0
    PROVE  \E v \in DelayValues : retryAt(d) <= v
  <1>1. deferred[d] \in DelayValues /\ elapsed \in Nat
    BY DEF TypeOK
  <1>2. deferred[d] \in Nat
    BY <1>1, DelayValuesType
  <1>3. deferred[d] - elapsed <= deferred[d]
    BY <1>1, <1>2
  <1>4. QED
    BY <1>1, <1>3 DEF retryAt

LEMMA CurrentRow ==
    ASSUME TypeOK, batch # <<>>
    PROVE  current \in Id /\ DomainOf[current] \in Domain
  BY TailFacts, OutboundAssumption DEF TypeOK, current

LEMMA BoundedStep == ASSUME IInv, Bounded, [Next]_vars PROVE Bounded'
  <1>1. TypeOK /\ BatchOK /\ SnapshotOK
    BY DEF IInv
  <1>2. \A m \in Id : due[m] \in Int
    BY <1>1 DEF TypeOK
  <1>3. ASSUME UNCHANGED due PROVE Bounded'
    BY <1>3 DEF Bounded
  <1>4. CASE SkipDeferred
    <2>1. batch # <<>> /\ deferred[DomainOf[current]] > 0
      BY <1>4 DEF SkipDeferred
    <2>2. \E v \in DelayValues : retryAt(DomainOf[current]) <= v
      BY <1>1, <2>1, CurrentRow, DeferralBounded
    <2>3. CASE due' = [due EXCEPT ![current] = retryAt(DomainOf[current])]
      BY <1>1, <2>2, <2>3 DEF Bounded, TypeOK
    <2>4. QED
      BY <1>3, <1>4, <2>3 DEF SkipDeferred, StoreFails, rows
  <1>5. CASE DeleteOutboundMessage
    <2>1. CASE due' = [due EXCEPT ![current] = 0]
      BY <1>1, <2>1, SomeDelay DEF Bounded, TypeOK
    <2>2. QED
      BY <1>3, <1>5, <2>1 DEF DeleteOutboundMessage, StoreFails, rows
  <1>6. CASE RescheduleOutboundMessage
    <2>1. batch # <<>>
      BY <1>1, <1>6 DEF RescheduleOutboundMessage, BatchOK
    <2>2. PICK n \in Nat : n = NextAttempts(current)
      BY <1>1, <2>1, CurrentRow, OutboundAssumption DEF TypeOK, NextAttempts
    <2>3. outboundRetryDelay(n) - elapsed <= outboundRetryDelay(n)
      <3>1. outboundRetryDelay(n) \in Nat /\ elapsed \in Nat
        BY <1>1, DelayFacts DEF TypeOK
      <3>2. QED
        BY <3>1
    <2>4. CASE due' = [due EXCEPT ![current] = outboundRetryDelay(n) - elapsed]
      <3>1. due'[current] = outboundRetryDelay(n) - elapsed
            /\ \A m \in Id : m # current => due'[m] = due[m]
        BY <1>1, <2>1, <2>4, CurrentRow DEF TypeOK
      <3>2. outboundRetryDelay(n) \in DelayValues
        BY DelayFacts
      <3>3. QED
        BY <2>3, <3>1, <3>2 DEF Bounded
    <2>5. QED
      BY <1>3, <1>6, <2>2, <2>4 DEF RescheduleOutboundMessage, StoreFails, rows
  <1>7. CASE DeferOutboundMessagesForDomain
    <2>1. batch # <<>> /\ deferred[DomainOf[current]] > 0
      BY <1>1, <1>7 DEF DeferOutboundMessagesForDomain, BatchOK, SnapshotOK
    <2>2. \E v \in DelayValues : retryAt(DomainOf[current]) <= v
      BY <1>1, <2>1, CurrentRow, DeferralBounded
    <2>3. CASE UNCHANGED due
      BY <1>3, <2>3
    <2>4. CASE \A m \in Id : due'[m] \in {due[m], retryAt(DomainOf[current])}
      BY <2>2, <2>4 DEF Bounded
    <2>5. QED
      BY <1>7, <2>3, <2>4 DEF DeferOutboundMessagesForDomain, StoreFails, rows, Later
  <1>8. CASE Tick
    <2>1. \A m \in Id : due'[m] \in {due[m], due[m] - 1}
      BY <1>8 DEF Tick
    <2>2. \A m \in Id : due'[m] <= due[m]
      BY <1>2, <2>1
    <2>3. ASSUME NEW m \in Id PROVE \E d \in DelayValues : due'[m] <= d
      <3>1. PICK d \in DelayValues : due[m] <= d
        BY DEF Bounded
      <3>2. d \in Int /\ due[m] \in Int /\ due'[m] \in Int
        BY <1>2, <2>1, DelayValuesType
      <3>3. QED
        BY <2>2, <3>1, <3>2
    <2>4. QED
      BY <2>3 DEF Bounded
  <1>9. QED
    BY <1>3, <1>4, <1>5, <1>6, <1>7, <1>8
       DEF Next, runOutboundBatch, EnqueueOutboundMessage, StartBatch, FinishBatch,
           SendAccepted, UnconfirmedCopy, SendFailed, Crash, worker, rows, vars

(* README.md:313: "exponential backoff capped at one hour".  However the   *)
(* batch's old `now', the deferrals of a domain by one report after the    *)
(* other, failed statements and crashes combine, no retry time is ever     *)
(* further away than the longest delay of the table.                       *)
THEOREM WaitsBounded == Spec => []Bounded
  <1>1. Init => Bounded
    BY SomeDelay DEF Init, Bounded
  <1>2. IInv /\ Bounded /\ [Next]_vars => Bounded'
    BY BoundedStep
  <1>3. QED
    BY <1>1, <1>2, Invariance, PTL DEF Spec

\* A report is put off after an attempt of its own, or of its domain.
OwnDomain ==
    /\ \A m \in Queued : due'[m] > due[m] =>
          batch # <<>> /\ (current = m \/ deferred[DomainOf[m]] > 0)
    /\ \A d \in Domain : deferred[d] = 0 /\ deferred'[d] > 0 =>
          \E m \in Id : SendFailed(m) /\ temporary' /\ DomainOf[m] = d

(* outbound.go:283-292, 310-321, README.md:313.  A destination that fails  *)
(* holds up the reports of its own domain and no others: a retry time is   *)
(* put off only for the report that was tried, or for one whose domain had *)
(* a temporary failure in this batch.                                      *)
THEOREM DelaysStayInTheirDomain == Spec => [][OwnDomain]_vars
  <1>1. ASSUME IInv, [Next]_vars PROVE [OwnDomain]_vars
    <2>1. TypeOK /\ BatchOK /\ SnapshotOK
      BY <1>1 DEF IInv
    <2>2. \A m \in Id : due[m] \in Int
      BY <2>1 DEF TypeOK
    <2>3. ASSUME Next, NEW m \in Queued, due'[m] > due[m]
          PROVE  batch # <<>> /\ (current = m \/ deferred[DomainOf[m]] > 0)
      <3>1. m \in Id
        BY DEF Queued
      <3>2. ~UNCHANGED due /\ ~Tick
        BY <2>2, <2>3, <3>1 DEF Tick
      <3>3. CASE SkipDeferred \/ DeleteOutboundMessage \/ RescheduleOutboundMessage
        BY <2>1, <2>2, <2>3, <3>1, <3>2, <3>3
           DEF SkipDeferred, DeleteOutboundMessage, RescheduleOutboundMessage, BatchOK,
               StoreFails, rows, TypeOK
      <3>4. CASE DeferOutboundMessagesForDomain
        <4>1. batch # <<>> /\ deferred[DomainOf[current]] > 0
          BY <2>1, <3>4 DEF DeferOutboundMessagesForDomain, BatchOK, SnapshotOK
        <4>2. DomainOf[m] = DomainOf[current]
          BY <2>2, <2>3, <3>1, <3>2, <3>4
             DEF DeferOutboundMessagesForDomain, StoreFails, rows
        <4>3. QED
          BY <4>1, <4>2
      <3>5. QED
        BY <2>3, <3>2, <3>3, <3>4
           DEF Next, runOutboundBatch, EnqueueOutboundMessage, StartBatch, FinishBatch,
               SendAccepted, UnconfirmedCopy, SendFailed, Crash, worker, rows
    <2>4. ASSUME Next, NEW d \in Domain, deferred[d] = 0, deferred'[d] > 0
          PROVE  \E m \in Id : SendFailed(m) /\ temporary' /\ DomainOf[m] = d
      <3>1. ~UNCHANGED deferred /\ deferred' # [e \in Domain |-> 0]
        BY <2>4
      <3>2. PICK m \in Id : SendFailed(m)
        BY <2>4, <3>1
           DEF Next, runOutboundBatch, EnqueueOutboundMessage, StartBatch, FinishBatch,
               SendAccepted, UnconfirmedCopy, SkipDeferred, DeleteOutboundMessage,
               RescheduleOutboundMessage, DeferOutboundMessagesForDomain, Crash, Tick, worker
      <3>3. temporary' /\ DomainOf[m] = d
        BY <2>1, <2>4, <3>2 DEF SendFailed, TypeOK
      <3>4. QED
        BY <3>2, <3>3
    <2>5. QED
      BY <1>1, <2>3, <2>4 DEF OwnDomain
  <1>2. IInv /\ [Next]_vars => [OwnDomain]_vars
    BY <1>1
  <1>3. QED
    BY <1>2, Invariance, PTL DEF Spec
=============================================================================
