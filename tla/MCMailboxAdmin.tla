--------------------------- MODULE MCMailboxAdmin ---------------------------
(* Instances of MailboxAdmin for TLC: two domains and a pattern that matches *)
(* the probe of the first; two names that differ in case, and two more.       *)
EXTENDS MailboxAdmin, TLC

CONSTANTS x1, x2, d1, d2, re, jo, Jo, ann, root

MCDomainOf == (x1 :> d1) @@ (x2 :> d2)
MCProbe    == (d1 :> x1) @@ (d2 :> x2)
MCHits     == (re :> {x1})

MCFold     == (jo :> jo) @@ (Jo :> jo) @@ (ann :> ann) @@ (root :> root)

\* Not routed but kept for a day; one domain, with negative days; another
\* domain and a pattern that meets the first, kept for a day.
MCSettings ==
    {[rcpt |-> [exact |-> {}, patterns |-> {}], days |-> 1],
     [rcpt |-> [exact |-> {d1}, patterns |-> {}], days |-> -1],
     [rcpt |-> [exact |-> {d2}, patterns |-> {re}], days |-> 1]}
=============================================================================
