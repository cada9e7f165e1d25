-------------------------- MODULE MCOutboundQueue --------------------------
(* Instances of OutboundQueue for TLC.                                      *)
EXTENDS OutboundQueue

CONSTANTS d1, d2

MCDomain == {d1, d2}

\* Reports 1 and 2 share a domain, report 3 has its own.
MCDomainOf == [m \in Id |-> IF m <= 2 THEN d1 ELSE d2]

\* Doubling with a cap, as outboundRetryDelay: 1, then 2 for ever.
MCRetryDelay == <<1, 2>>
============================================================================
