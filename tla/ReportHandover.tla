---------------------------- MODULE ReportHandover ----------------------------
(***************************************************************************)
(* What one Send promises to the worker that calls it (OutboundSender in   *)
(* src/internal/smtpserver/outbound.go): it hands the report to one host   *)
(* after the other and never to the same host twice; "ok" means that a     *)
(* host took it, a failure that nobody did but those whose answer was      *)
(* lost.  Such a host may take it later, when Send is long over.           *)
(*                                                                         *)
(* OutboundQueue counts the copies of a report on this promise             *)
(* (SendAccepted, UnconfirmedCopy, SendFailed); ReportDelivery.tla is the  *)
(* code's version.                                                         *)
(***************************************************************************)
CONSTANTS Host, Nobody

VARIABLES
    asking,     \* the host that is given the report, until its answer
    left,       \* hosts that Send is through with, without success
    unheard,    \* those among them whose answer was lost
    taken,      \* hosts that took the report
    verdict     \* what Send returned

handoverVars == <<asking, left, unheard, taken, verdict>>

HandoverInit ==
    /\ asking = Nobody
    /\ left = {} /\ unheard = {} /\ taken = {}
    /\ verdict = "none"

Listening == verdict = "none" /\ asking = Nobody

\* A host cannot be reached, or refuses before it is given the report.
Pass(h) ==
    /\ Listening /\ h \notin left
    /\ left' = left \cup {h}
    /\ UNCHANGED <<asking, unheard, taken, verdict>>

Offer(h) ==
    /\ Listening /\ h \notin left
    /\ asking' = h
    /\ UNCHANGED <<left, unheard, taken, verdict>>

\* A host takes the report: once, and only if it may have all of it.
Take(h) ==
    /\ h = asking \/ h \in unheard
    /\ h \notin taken
    /\ taken' = taken \cup {h}
    /\ UNCHANGED <<asking, left, unheard, verdict>>

\* The host refuses, or does not get all of it: it has no copy and never
\* will.
TurnDown(h) ==
    /\ h = asking /\ h \notin taken
    /\ asking' = Nobody /\ left' = left \cup {h}
    /\ UNCHANGED <<unheard, taken, verdict>>

\* The host has, or will have, all of it, and Send does not hear from it.
LoseAnswer(h) ==
    /\ h = asking
    /\ asking' = Nobody /\ left' = left \cup {h} /\ unheard' = unheard \cup {h}
    /\ UNCHANGED <<taken, verdict>>

Succeed(h) ==
    /\ h = asking /\ h \in taken
    /\ asking' = Nobody /\ verdict' = "ok"
    /\ UNCHANGED <<left, unheard, taken>>

Despair ==
    /\ Listening
    /\ verdict' \in {"temporary", "permanent"}
    /\ UNCHANGED <<asking, left, unheard, taken>>

HandoverNext ==
    \/ \E h \in Host : Pass(h) \/ Offer(h) \/ Take(h) \/ TurnDown(h) \/ LoseAnswer(h) \/ Succeed(h)
    \/ Despair

HandoverSpec == HandoverInit /\ [][HandoverNext]_handoverVars
----------------------------------------------------------------------------
Failed == verdict \in {"temporary", "permanent"}

(* What the queue makes of it: one copy that Send knows of when it succeeds *)
(* and none when it fails, and no other copy that no lost answer pays for.  *)
Counted ==
    /\ Failed => taken \subseteq unheard
    /\ verdict = "ok" => taken \ unheard # {}
    /\ \A g, h \in taken \ unheard : g = h
=============================================================================
