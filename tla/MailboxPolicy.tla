---------------------------- MODULE MailboxPolicy ----------------------------
(***************************************************************************)
(* The decisions of src/internal/smtpserver/policy.go as operators: which  *)
(* addresses a mailbox matches, whether two mailboxes claim the same       *)
(* recipients, and what a mailbox policy says of a sender, a client and a  *)
(* recipient.  MailFail rules appear by their effect on the recipients     *)
(* that carry their trigger.                                               *)
(*                                                                         *)
(* Addresses, domains and regular expressions are opaque: AddressDomain is *)
(* extractDomain, and Hits says which strings a pattern matches.           *)
(***************************************************************************)
EXTENDS Naturals

CONSTANTS
    Address,        \* mail addresses, lower case
    Domain,         \* domains
    NoDomain,       \* extractDomain found none
    AddressDomain,  \* extractDomain
    Probe,          \* "probe@" + domain
    Pattern,        \* compiled regular expressions
    Hits,           \* the addresses and domains each pattern matches
    Remote,         \* client IP addresses
    NoSender        \* the empty MailFrom

ASSUME PolicyAssumption ==
    /\ NoDomain \notin Domain /\ NoSender \notin Address
    /\ AddressDomain \in [Address -> Domain \cup {NoDomain}]
    /\ Probe \in [Domain -> Address]
    /\ \A d \in Domain : AddressDomain[Probe[d]] = d
    /\ Hits \in [Pattern -> SUBSET (Address \cup Domain)]

Matcher == [exact : SUBSET Domain, patterns : SUBSET Pattern]

\* What a stored settings row says, after DomainPolicyConfigFromSettings.
Policy == [rcpt       : Matcher,            \* AcceptedRcptDomains
           from       : Matcher,            \* AcceptedFromDomains
           remotes    : SUBSET Remote,      \* AllowedRemoteIPs, {} for any
           reject     : SUBSET Address,     \* hit a rcpt-stage reject rule
           greylist   : SUBSET Address,     \* hit a rcpt-stage greylist rule
           dataReject : SUBSET Address,     \* hit a data-stage reject rule
           report     : SUBSET Address,     \* hit a report rule
           reportFrom : BOOLEAN,            \* ReportFrom is set
           keepsDays  : BOOLEAN]            \* AutoDeleteAfterDays > 0

Empty(m) == m.exact = {} /\ m.patterns = {}

\* addressMatcher.Match of an address; the empty sender matches nothing.
Match(m, a) ==
    /\ a # NoSender
    /\ \/ AddressDomain[a] \in m.exact
       \/ \E p \in m.patterns : a \in Hits[p] \/ AddressDomain[a] \in Hits[p]

\* addressMatcher.Match of a bare domain: there is no "@" to split at, so
\* the exact domains are not consulted.
MatchDomain(m, d) == \E p \in m.patterns : d \in Hits[p]

\* The exact domains of one side compared with everything on the other.
Covers(m, other) ==
    \E d \in other.exact : MatchDomain(m, d) \/ Match(m, Probe[d])

recipientOwnershipOverlaps(l, r) ==
    /\ ~Empty(l) /\ ~Empty(r)
    /\ Covers(r, l) \/ Covers(l, r) \/ l.patterns \cap r.patterns # {}

connectAllowed(s, ip) == s.remotes = {} \/ ip \in s.remotes

senderAllowed(s, from) == Empty(s.from) \/ Match(s.from, from)

recipientAllowed(s, a) == Empty(s.rcpt) \/ Match(s.rcpt, a)

matchesUserPolicy(s, ip, from, a) ==
    connectAllowed(s, ip) /\ senderAllowed(s, from) /\ recipientAllowed(s, a)

\* A policy takes part in routing when it names recipients.
Routed(s) == ~Empty(s.rcpt)

mailboxPolicyEnabled(s) ==
    \/ s.reject \cup s.greylist \cup s.dataReject \cup s.report # {}
    \/ s.remotes # {} \/ Routed(s) \/ ~Empty(s.from) \/ s.keepsDays

\* MatchRcpt: whether the engine may let the recipient pass, and whether it
\* may refuse it.  A greylist rule does either, depending on its state.
rcptMayPass(s, a) == a \notin s.reject
rcptMayFail(s, a) == a \in s.reject \cup s.greylist

\* MatchData: the first recipient that carries a trigger refuses the message.
MatchData(s, recipients) == recipients \cap s.dataReject # {}

\* resolveReportFrom succeeds
reportSenderKnown(s, a) == s.reportFrom \/ AddressDomain[a] \in s.rcpt.exact

\* DomainPolicy.ReportsFor: one recipient without a report sender drops the
\* reports of all.
reportsFor(s, from, recipients) ==
    LET hits == recipients \cap s.report
    IN  IF from # NoSender /\ \A a \in hits : reportSenderKnown(s, a) THEN hits ELSE {}
=============================================================================
