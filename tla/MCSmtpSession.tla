---------------------------- MODULE MCSmtpSession ----------------------------
(***************************************************************************)
(* Two domains, two users, one client.  The addresses are the probes of    *)
(* the two domains; the sender comes from the second.                      *)
(***************************************************************************)
EXTENDS SmtpSession, TLC

CONSTANTS x1, x2, d1, d2, ip, ip2, re, u1

MCDomainOf == (x1 :> d1) @@ (x2 :> d2)
MCProbe    == (d1 :> x1) @@ (d2 :> x2)
MCHits     == (re :> {x1, x2})
MCRemoteOf == [c \in Conn |-> ip]

None    == [exact |-> {}, patterns |-> {}]
Only(d) == [exact |-> {d}, patterns |-> {}]

Open == [rcpt |-> None, from |-> None, remotes |-> {}, reject |-> {}, greylist |-> {},
         dataReject |-> {}, report |-> {}, reportFrom |-> FALSE, keepsDays |-> FALSE]

\* takes d1, reports it
Reporter == [Open EXCEPT !.rcpt = Only(d1), !.report = {x1}]
\* takes everything by a pattern, but only from d1, and refuses x2 at DATA
Strict   == [Open EXCEPT !.rcpt = [exact |-> {}, patterns |-> {re}], !.from = Only(d1),
                         !.dataReject = {x2}, !.greylist = {x1}]
\* takes d2 and refuses it with a MailFail rule
Refuser  == [Open EXCEPT !.rcpt = Only(d2), !.reject = {x2}, !.report = {x2}]
\* manages a mailbox that is not routed
Unrouted == [Open EXCEPT !.keepsDays = TRUE]

MCSettings   == {Reporter, Strict, Refuser, Unrouted}
\* a new database, and one with two mailboxes
MCInitial ==
    {[o \in Owner |-> NoRow],
     [o \in Owner |-> CASE o = Admin -> Refuser [] o = u1 -> Reporter [] OTHER -> NoRow]}

\* open to all, closed to this client, and with every restriction
MCBootstraps ==
    {Open, [Open EXCEPT !.remotes = {ip2}],
     [Open EXCEPT !.rcpt = Only(d1), !.from = Only(d1), !.remotes = {ip}]}
=============================================================================
