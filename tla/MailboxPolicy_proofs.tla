------------------------- MODULE MailboxPolicy_proofs -------------------------
(***************************************************************************)
(* What the comparison of two claims (recipientOwnershipOverlaps) is worth *)
(* when mail is routed, and other facts about the operators of policy.go,  *)
(* for any addresses, domains and patterns.                                *)
(***************************************************************************)
EXTENDS MailboxPolicy, TLAPS

(* The reports asked for are about recipients of the message.              *)
LEMMA ReportsForFacts ==
    ASSUME NEW s, NEW from, NEW R
    PROVE  reportsFor(s, from, R) \subseteq R \cap s.report
  BY DEF reportsFor

\* Overlap goes both ways.
LEMMA OverlapSymmetric ==
    ASSUME NEW l, NEW m, recipientOwnershipOverlaps(l, m)
    PROVE  recipientOwnershipOverlaps(m, l)
BY DEF recipientOwnershipOverlaps

\* A pattern matches an address or its domain.
Hit(p, a) == a \in Hits[p] \/ AddressDomain[a] \in Hits[p]

\* l names the domain of a; a pattern of m matches a, but neither its domain
\* nor the probe of it.
Slips(l, m, a) ==
    /\ AddressDomain[a] \in l.exact
    /\ \E q \in m.patterns : /\ a \in Hits[q]
                             /\ AddressDomain[a] \notin Hits[q]
                             /\ Probe[AddressDomain[a]] \notin Hits[q]

\* What the comparison of two claims cannot see.
Unseen(l, m, a) ==
    \/ \E p \in l.patterns, q \in m.patterns : p # q /\ Hit(p, a) /\ Hit(q, a)
    \/ Slips(l, m, a) \/ Slips(m, l, a)

\* One side of it: an exact domain of l against everything of m.
LEMMA ExactAgainst ==
    ASSUME NEW l \in Matcher, NEW m \in Matcher, ~Covers(m, l), NEW a \in Address,
           AddressDomain[a] \in l.exact, Match(m, a)
    PROVE  Slips(l, m, a)
<1>1. PICK d : d = AddressDomain[a]  OBVIOUS
<1>2. d \in Domain  BY <1>1 DEF Matcher
<1>3. Probe[d] # NoSender /\ AddressDomain[Probe[d]] = d  BY <1>2, PolicyAssumption
<1>4. ~MatchDomain(m, d) /\ ~Match(m, Probe[d])  BY <1>1 DEF Covers
<1>5. d \notin m.exact /\ \A q \in m.patterns : d \notin Hits[q] /\ Probe[d] \notin Hits[q]
  BY <1>3, <1>4 DEF MatchDomain, Match
<1> QED  BY <1>1, <1>5 DEF Match, Slips

(* policy.go:311-339, 626-651.  What the comparison of claims is worth: two *)
(* mailboxes that pass it and still match one address do so by two          *)
(* different patterns, or by the domain of one and a pattern of the other   *)
(* that matches the address but neither its domain nor the domain's probe.  *)
THEOREM AmbiguityUnseen ==
    ASSUME NEW l \in Matcher, NEW m \in Matcher, ~recipientOwnershipOverlaps(l, m),
           NEW a \in Address, Match(l, a), Match(m, a)
    PROVE  Unseen(l, m, a)
<1>1. ~Empty(l) /\ ~Empty(m)  BY DEF Match, Empty
<1>2. ~Covers(m, l) /\ ~Covers(l, m) /\ l.patterns \cap m.patterns = {}
  BY <1>1 DEF recipientOwnershipOverlaps
<1>3. CASE AddressDomain[a] \in l.exact  BY <1>2, <1>3, ExactAgainst DEF Unseen
<1>4. CASE AddressDomain[a] \in m.exact  BY <1>2, <1>4, ExactAgainst DEF Unseen
<1>5. CASE AddressDomain[a] \notin l.exact /\ AddressDomain[a] \notin m.exact
  <2>1. PICK p \in l.patterns : Hit(p, a)  BY <1>5 DEF Match, Hit
  <2>2. PICK q \in m.patterns : Hit(q, a)  BY <1>5 DEF Match, Hit
  <2> QED  BY <1>2, <2>1, <2>2 DEF Unseen
<1> QED  BY <1>3, <1>4, <1>5

(* policy.go:626-651.  Mailboxes that name their recipients by exact        *)
(* domains only, and do not overlap, match no common address.               *)
THEOREM ExactOwnershipDisjoint ==
    ASSUME NEW l \in Matcher, NEW m \in Matcher, l.patterns = {}, m.patterns = {},
           ~recipientOwnershipOverlaps(l, m), NEW a \in Address, Match(l, a)
    PROVE  ~Match(m, a)
BY AmbiguityUnseen DEF Unseen, Slips
===============================================================================
