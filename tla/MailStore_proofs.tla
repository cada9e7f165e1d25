--------------------------- MODULE MailStore_proofs ---------------------------
(***************************************************************************)
(* Proofs about MailStore, for every set of owners, tags and filters, every *)
(* size of a page and every number of messages.                             *)
(***************************************************************************)
EXTENDS MailStore, FiniteSetTheorems, TLAPS

(* An id is never given twice, and a child row names the message it came   *)
(* with.                                                                    *)
Keyed ==
    /\ IsFiniteSet(store)
    /\ \A m \in store : m.serial = m.id /\ m.id <= created
    /\ \A m, n \in store : m.id = n.id => m = n
    /\ \A x \in children \cup tagged : x.of = x.msg /\ x.of <= created

(* Tags are complete, or all missing until the next start.                  *)
Tagged == \A m \in store : TagsIn(tagged, m) = m.tags \/ (~up /\ TagsIn(tagged, m) = {})

(* What a walk has shown lies before its cursor, what it has yet to show    *)
(* after it.                                                                *)
Ordered(w) ==
    /\ IsFiniteSet(w.page)
    /\ \A n \in w.seen : ~Past(w.cursor, n)
    /\ \A m \in w.page, n \in w.seen : Newer(n, m)
    /\ w.stage # "shown" => \A m \in w.there : m \in w.seen \/ Past(w.cursor, m)
    /\ w.stage \in {"tags", "available"} =>
          /\ \A m \in w.page : Past(w.cursor, m)
          /\ \A m \in w.there :
                \/ m \in w.seen \cup w.page
                \/ Cardinality(w.page) = PageSize + 1 /\ \A x \in w.page : Newer(x, m)
    /\ w.stage = "shown" =>
          /\ w.more => \A n \in w.page : ~Past(w.cursor, n)
          /\ \A m \in w.there : m \in w.seen \cup w.page \/ (w.more /\ Past(w.cursor, m))

(* What a walk holds of the tables agrees with them.                        *)
Linked(w) ==
    /\ w.there \subseteq Matching(w.filter)
    /\ \A m \in w.page : m.id <= created /\ w.filter.owner \in {All, m.owner}
    /\ w.stage \in {"tags", "available"} => up
    /\ w.stage \in {"available", "shown"} =>
          \A m \in w.page \cap store : m.tags = TagsIn(w.tags, m)
    /\ w.stage = "shown" => \A m \in w.page \cap store : m.tags \subseteq w.available

Walking == walk # NoWalk => Ordered(walk) /\ Linked(walk)

IInv == TypeOK /\ Keyed /\ Tagged /\ NoOrphans /\ Walking

-----------------------------------------------------------------------------
LEMMA Constants ==
    /\ MaxMessages \in Nat /\ PageSize \in Nat /\ PageSize > 0 /\ Stamp \subseteq Nat
    /\ NoCursor \notin Cursor /\ Old \subseteq Message
    /\ \A m \in Old : m.id = 1 /\ m.serial = 1
  BY StoreAssumption

LEMMA MessageFields ==
    ASSUME NEW m \in Message
    PROVE  /\ m.id \in 1..MaxMessages /\ m.id \in Nat /\ m.serial \in 1..MaxMessages
           /\ m.at \in Stamp /\ m.at \in Nat /\ m.tags \subseteq Tag
           /\ Position(m) \in Cursor
  <1>1. /\ m.id \in 1..MaxMessages /\ m.serial \in 1..MaxMessages
        /\ m.at \in Stamp /\ m.tags \subseteq Tag
    BY DEF Message
  <1>2. m.id \in Nat /\ m.at \in Nat
    <2>1. MaxMessages \in Nat /\ Stamp \subseteq Nat
      BY Constants
    <2>2. m.id \in Nat
      BY <1>1, <2>1
    <2>3. m.at \in Nat
      BY <1>1, <2>1
    <2>4. QED
      BY <2>2, <2>3
  <1>3. Position(m) \in Cursor
    BY <1>1 DEF Position, Cursor
  <1>4. QED
    BY <1>1, <1>2, <1>3

LEMMA TagRowsType ==
    ASSUME NEW S \in SUBSET Message
    PROVE  /\ TagRows(S) \subseteq TagRow
           /\ \A x \in TagRows(S) : \E m \in S : x.msg = m.id /\ x.of = m.serial /\ x.tag \in m.tags
           /\ \A m \in S : \A t \in m.tags : [msg |-> m.id, tag |-> t, of |-> m.serial] \in TagRows(S)
  <1>1. ASSUME NEW x \in TagRows(S)
        PROVE  x \in TagRow /\ \E m \in S : x.msg = m.id /\ x.of = m.serial /\ x.tag \in m.tags
    <2>1. PICK m \in S : \E t \in m.tags : x = [msg |-> m.id, tag |-> t, of |-> m.serial]
      BY DEF TagRows
    <2>2. PICK t \in m.tags : x = [msg |-> m.id, tag |-> t, of |-> m.serial]
      BY <2>1
    <2>3. m.id \in 1..MaxMessages /\ m.serial \in 1..MaxMessages /\ m.tags \subseteq Tag
      BY MessageFields
    <2>4. QED
      BY <2>2, <2>3 DEF TagRow
  <1>2. ASSUME NEW m \in S, NEW t \in m.tags
        PROVE  [msg |-> m.id, tag |-> t, of |-> m.serial] \in TagRows(S)
    BY DEF TagRows
  <1>3. QED
    BY <1>1, <1>2

LEMMA TagsInType ==
    ASSUME NEW rows \in SUBSET TagRow, NEW m
    PROVE  TagsIn(rows, m) \subseteq Tag
  BY DEF TagsIn, TagRow

LEMMA WalkFields ==
    ASSUME NEW w \in Walk
    PROVE  /\ w.filter \in Filters /\ w.stage \in {"ask", "tags", "available", "shown"}
           /\ w.cursor \in Cursor \cup {NoCursor} /\ w.seen \subseteq Message
           /\ w.page \subseteq Message /\ w.more \in BOOLEAN /\ w.tags \subseteq TagRow
           /\ w.available \subseteq Tag /\ w.there \subseteq Message
  BY DEF Walk

LEMMA WalkOpened ==
    ASSUME NEW f \in Filters
    PROVE  [filter |-> f, stage |-> "ask", cursor |-> NoCursor, seen |-> {}, page |-> {},
            more |-> FALSE, tags |-> {}, available |-> {}, there |-> {}] \in Walk
  BY DEF Walk

LEMMA WalkAbandoned ==
    ASSUME NEW w \in Walk
    PROVE  [w EXCEPT !.stage = "ask", !.page = {}, !.tags = {}] \in Walk
  BY DEF Walk

LEMMA WalkShrunk ==
    ASSUME NEW w \in Walk, NEW there \in SUBSET Message
    PROVE  [w EXCEPT !.there = there] \in Walk
  BY DEF Walk

LEMMA WalkQueried ==
    ASSUME NEW w \in Walk, NEW there \in SUBSET Message, NEW page \in SUBSET Message
    PROVE  [w EXCEPT !.stage = "tags", !.page = page, !.tags = {}, !.available = {},
                     !.there = there] \in Walk
  BY DEF Walk

LEMMA WalkTagged ==
    ASSUME NEW w \in Walk, NEW tags \in SUBSET TagRow
    PROVE  [w EXCEPT !.stage = "available", !.tags = tags] \in Walk
  BY DEF Walk

LEMMA WalkShown ==
    ASSUME NEW w \in Walk, NEW page \in SUBSET Message, NEW more \in BOOLEAN,
           NEW cursor \in Cursor \cup {NoCursor}, NEW available \in SUBSET Tag
    PROVE  [w EXCEPT !.stage = "shown", !.page = page, !.more = more, !.cursor = cursor,
                     !.available = available] \in Walk
  BY DEF Walk

LEMMA WalkOn ==
    ASSUME NEW w \in Walk, NEW seen \in SUBSET Message
    PROVE  [w EXCEPT !.stage = "ask", !.page = {}, !.tags = {}, !.available = {},
                     !.seen = seen] \in Walk
  BY DEF Walk

LEMMA MatchingType ==
    ASSUME TypeOK, NEW f
    PROVE  Matching(f) \subseteq store /\ Matching(f) \subseteq Message /\ store \subseteq Message
  BY DEF Matching, TypeOK

-----------------------------------------------------------------------------
LEMMA InitHolds == Init => IInv
  <1> SUFFICES ASSUME Init PROVE IInv
    OBVIOUS
  <1>1. PICK S \in {{}} \cup {{m} : m \in Old} :
           /\ store = S
           /\ children = {[msg |-> m.id, of |-> m.serial] : m \in S}
           /\ created = Cardinality(S)
    BY DEF Init
  <1>2. up = FALSE /\ bare = FALSE /\ tagged = {} /\ loose = {} /\ walk = NoWalk
    BY DEF Init
  <1>3. /\ store \subseteq Message /\ IsFiniteSet(store)
        /\ \A m \in store : m.id = 1 /\ m.serial = 1
        /\ \A m, n \in store : m = n
        /\ created \in {0, 1} /\ (store # {} => created = 1)
    <2>1. CASE S = {}
      BY <1>1, <2>1, FS_EmptySet
    <2>2. ASSUME NEW m \in Old, S = {m}
          PROVE  /\ store \subseteq Message /\ IsFiniteSet(store)
                 /\ \A n \in store : n.id = 1 /\ n.serial = 1
                 /\ \A k, n \in store : k = n
                 /\ created \in {0, 1} /\ (store # {} => created = 1)
      BY <1>1, <2>2, FS_Singleton, Constants
    <2>3. QED
      BY <2>1, <2>2
  <1>4. created \in 0..MaxMessages
    <2>1. CASE store = {}
      BY <1>1, <2>1, FS_EmptySet, Constants
    <2>2. ASSUME NEW m \in store PROVE created \in 0..MaxMessages
      <3>1. 1 \in 1..MaxMessages
        BY <1>3, <2>2, MessageFields
      <3>2. QED
        BY <1>3, <3>1, Constants
    <2>3. QED
      BY <2>1, <2>2
  <1>5. \A x \in children : \E m \in store : x.msg = m.id /\ x.of = m.serial
    BY <1>1
  <1>6. children \subseteq [msg : 1..MaxMessages, of : 1..MaxMessages]
    <2>1. ASSUME NEW x \in children PROVE x \in [msg : 1..MaxMessages, of : 1..MaxMessages]
      <3>1. PICK m \in store : x = [msg |-> m.id, of |-> m.serial]
        BY <1>1
      <3>2. m.id \in 1..MaxMessages /\ m.serial \in 1..MaxMessages
        BY <1>3, MessageFields
      <3>3. QED
        BY <3>1, <3>2
    <2>2. QED
      BY <2>1
  <1>7. TypeOK
    BY <1>2, <1>3, <1>4, <1>6 DEF TypeOK
  <1>8. Keyed
    BY <1>2, <1>3, <1>5 DEF Keyed
  <1>9. Tagged
    BY <1>2 DEF Tagged, TagsIn
  <1>10. NoOrphans
    BY <1>2, <1>5 DEF NoOrphans
  <1>11. QED
    BY <1>2, <1>7, <1>8, <1>9, <1>10 DEF IInv, Walking

(* The steps that leave the tables alone.                                   *)
LEMMA TablesRest ==
    ASSUME Keyed, NoOrphans, UNCHANGED tables
    PROVE  Keyed' /\ NoOrphans'
  BY DEF Keyed, NoOrphans, tables

(* What the tables do to a walk that does not move: messages disappear, and *)
(* those that come are new.                                                 *)
LEMMA WalkStays ==
    ASSUME TypeOK, NEW w, NEW v, Linked(w),
           v.filter = w.filter, v.stage = w.stage, v.page = w.page, v.tags = w.tags,
           v.available = w.available, v.there \subseteq w.there \cap store',
           created' \in Nat, created <= created', up => up',
           w.page \subseteq Message,
           \A m \in store' : m \in store \/ m.id > created,
           \A m \in store' \cap store : \A x \in tagged : x.msg = m.id => x \in tagged'
    PROVE  Linked(v)'
  <1>1. v.there \subseteq Matching(v.filter)'
    <2>1. ASSUME NEW m \in v.there PROVE m \in Matching(v.filter)'
      <3>1. m \in store' \cap store /\ Matches(w.filter, m)
        BY DEF Linked, Matching
      <3>2. Matches(v.filter, m)'
        BY <3>1 DEF Matches
      <3>3. QED
        BY <3>1, <3>2 DEF Matching
    <2>2. QED
      BY <2>1
  <1>2. \A m \in v.page : m.id <= created' /\ v.filter.owner \in {All, m.owner}
    <2>1. ASSUME NEW m \in v.page PROVE m.id <= created' /\ v.filter.owner \in {All, m.owner}
      <3>1. m.id \in Nat /\ m.id <= created /\ v.filter.owner \in {All, m.owner}
        BY MessageFields DEF Linked
      <3>2. QED
        BY <3>1 DEF TypeOK
    <2>2. QED
      BY <2>1
  <1>3. v.page \cap store' \subseteq w.page \cap store
    <2>1. ASSUME NEW m \in w.page, m \in store' PROVE m \in store
      <3>1. m.id \in Nat /\ m.id <= created
        BY MessageFields DEF Linked
      <3>2. QED
        BY <2>1, <3>1 DEF TypeOK
    <2>2. QED
      BY <2>1
  <1>4. QED
    BY <1>1, <1>2, <1>3 DEF Linked, TagsIn

\* A walk that is given up starts its page again.
LEMMA AbandonedWalk ==
    ASSUME TypeOK, NEW w, w \in Walk, w.stage \in {"tags", "available"}, Ordered(w),
           NEW v, v = [w EXCEPT !.stage = "ask", !.page = {}, !.tags = {}]
    PROVE  /\ v \in Walk /\ Ordered(v)
           /\ v.stage = "ask" /\ v.page = {} /\ v.filter = w.filter /\ v.there = w.there
  <1>1. v \in Walk
    BY WalkAbandoned
  <1>2. /\ v.stage = "ask" /\ v.page = {} /\ v.filter = w.filter /\ v.there = w.there
        /\ v.seen = w.seen /\ v.cursor = w.cursor
    BY DEF Walk
  <1>3. Ordered(v)
    BY <1>2, FS_EmptySet DEF Ordered
  <1>4. QED
    BY <1>1, <1>2, <1>3

\* A walk that asks for its next page holds nothing but its filter.
LEMMA AskingLinked ==
    ASSUME NEW v, v.stage = "ask", v.page = {}, v.there \subseteq Matching(v.filter)
    PROVE  Linked(v)
  BY DEF Linked

LEMMA StartHolds == ASSUME IInv, Start PROVE IInv'
  <1> USE DEF IInv
  <1>1. /\ ~up /\ up' /\ UNCHANGED <<store, children, created, loose, walk>>
        /\ tagged' = tagged \cup TagRows(Untagged)
        /\ Untagged \subseteq store /\ store \subseteq Message /\ tagged \subseteq TagRow
    BY DEF Start, Backfilled, Untagged, TypeOK
  <1>2. /\ TagRows(Untagged) \subseteq TagRow
        /\ \A x \in TagRows(Untagged) :
              \E m \in Untagged : x.msg = m.id /\ x.of = m.serial /\ x.tag \in m.tags
        /\ \A m \in Untagged : \A t \in m.tags :
              [msg |-> m.id, tag |-> t, of |-> m.serial] \in TagRows(Untagged)
    BY <1>1, TagRowsType
  <1>3. TypeOK'
    <2>1. up' \in BOOLEAN /\ bare' \in BOOLEAN
      BY DEF Start
    <2>2. QED
      BY <1>1, <1>2, <2>1 DEF TypeOK
  <1>4. Keyed'
    BY <1>1, <1>2 DEF Keyed
  <1>5. Tagged'
    <2>1. ASSUME NEW m \in store PROVE TagsIn(tagged', m) = m.tags
      <3>1. CASE m \in Untagged
        <4>1. ASSUME NEW t \in TagsIn(tagged', m) PROVE t \in m.tags
          <5>1. PICK x \in tagged' : x.msg = m.id /\ x.tag = t
            BY DEF TagsIn
          <5>2. x \in TagRows(Untagged)
            BY <1>1, <3>1, <5>1 DEF Untagged
          <5>3. PICK n \in Untagged : x.msg = n.id /\ x.tag \in n.tags
            BY <1>2, <5>2
          <5>4. n = m
            BY <1>1, <5>1, <5>3 DEF Keyed
          <5>5. QED
            BY <5>1, <5>3, <5>4
        <4>2. ASSUME NEW t \in m.tags PROVE t \in TagsIn(tagged', m)
          <5> DEFINE x == [msg |-> m.id, tag |-> t, of |-> m.serial]
          <5>1. x \in tagged' /\ x.msg = m.id /\ x.tag = t
            BY <1>1, <1>2, <3>1
          <5> HIDE DEF x
          <5>2. QED
            BY <5>1 DEF TagsIn
        <4>3. QED
          BY <4>1, <4>2
      <3>2. CASE m \notin Untagged
        <4>1. PICK y \in tagged : y.msg = m.id
          BY <3>2 DEF Untagged
        <4>2. TagsIn(tagged, m) = m.tags
          BY <4>1 DEF Tagged, TagsIn
        <4>3. \A x \in TagRows(Untagged) : x.msg # m.id
          <5>1. ASSUME NEW x \in TagRows(Untagged), x.msg = m.id PROVE FALSE
            <6>1. PICK n \in Untagged : x.msg = n.id
              BY <1>2
            <6>2. n = m
              BY <1>1, <5>1, <6>1 DEF Keyed
            <6>3. QED
              BY <3>2, <6>2
          <5>2. QED
            BY <5>1
        <4>4. TagsIn(tagged', m) = TagsIn(tagged, m)
          BY <1>1, <4>3 DEF TagsIn
        <4>5. QED
          BY <4>2, <4>4
      <3>3. QED
        BY <3>1, <3>2
    <2>2. QED
      BY <1>1, <2>1 DEF Tagged
  <1>6. NoOrphans'
    <2>1. ASSUME NEW x \in TagRows(Untagged) PROVE \E m \in store : m.serial = x.of
      BY <1>1, <1>2
    <2>2. QED
      BY <1>1, <2>1 DEF NoOrphans
  <1>7. Walking'
    <2> SUFFICES ASSUME walk # NoWalk PROVE Ordered(walk) /\ Linked(walk)'
      BY <1>1 DEF Walking, Ordered
    <2>1. Ordered(walk) /\ Linked(walk) /\ walk \in Walk
      BY DEF Walking, TypeOK
    <2>2. walk.page \subseteq Message /\ walk.there \subseteq store
      BY <2>1, WalkFields DEF Linked, Matching
    <2>3. created \in Nat
      BY Constants DEF TypeOK
    <2> DEFINE v == walk
    <2> HIDE DEF v
    <2>4. v = walk
      BY DEF v
    <2>5. QED
      BY <1>1, <2>1, <2>2, <2>3, WalkStays
  <1>8. QED
    BY <1>3, <1>4, <1>5, <1>6, <1>7

LEMMA OverlapHolds == ASSUME IInv, Overlap PROVE IInv'
  <1> USE DEF IInv
  <1>1. up' = up /\ bare' \in BOOLEAN /\ UNCHANGED <<tables, walk>>
    BY DEF Overlap
  <1>2. TypeOK' /\ Tagged'
    BY <1>1 DEF TypeOK, Tagged, tables
  <1>3. Walking'
    BY <1>1 DEF Walking, Ordered, Linked, Matching, Matches, tables
  <1>4. QED
    BY <1>1, <1>2, <1>3, TablesRest

LEMMA CrashHolds == ASSUME IInv, Crash PROVE IInv'
  <1> USE DEF IInv
  <1>1. up' = FALSE /\ walk' = Abandoned /\ UNCHANGED <<bare, tables>>
    BY DEF Crash
  <1>2. Keyed' /\ NoOrphans'
    BY <1>1, TablesRest
  <1>3. Tagged'
    BY <1>1 DEF Tagged, tables
  <1>4. CASE walk = NoWalk \/ walk.stage \notin {"tags", "available"}
    <2>1. walk' = walk
      BY <1>1, <1>4 DEF Abandoned
    <2>2. TypeOK'
      BY <1>1, <2>1 DEF TypeOK, tables
    <2>3. Walking'
      BY <1>1, <1>4, <2>1 DEF Walking, Ordered, Linked, Matching, Matches, tables
    <2>4. QED
      BY <1>2, <1>3, <2>2, <2>3
  <1>5. CASE walk # NoWalk /\ walk.stage \in {"tags", "available"}
    <2>1. walk' = [walk EXCEPT !.stage = "ask", !.page = {}, !.tags = {}]
      BY <1>1, <1>5 DEF Abandoned
    <2>2. walk \in Walk /\ Ordered(walk) /\ Linked(walk)
      BY <1>5 DEF Walking, TypeOK
    <2>3. /\ walk' \in Walk /\ Ordered(walk')
          /\ walk'.stage = "ask" /\ walk'.page = {} /\ walk'.filter = walk.filter
          /\ walk'.there = walk.there
      BY <1>5, <2>1, <2>2, AbandonedWalk
    <2>4. TypeOK'
      BY <1>1, <2>3 DEF TypeOK, tables
    <2>5. Walking'
      <3>1. walk'.there \subseteq Matching(walk.filter)'
        BY <1>1, <2>2, <2>3 DEF Linked, Matching, Matches, tables
      <3>2. QED
        BY <2>3, <3>1 DEF Walking, Ordered, Linked
    <2>6. QED
      BY <1>2, <1>3, <2>4, <2>5
  <1>6. QED
    BY <1>4, <1>5

LEMMA CreateHolds ==
    ASSUME IInv, NEW at \in Stamp, NEW o \in Owner, NEW T \in SUBSET Tag, CreateMessage(at, o, T)
    PROVE  IInv'
  <1> USE DEF IInv
  <1> DEFINE m == [id |-> created + 1, serial |-> created + 1, at |-> at, owner |-> o, tags |-> T]
  <1>1. /\ up /\ created < MaxMessages /\ created' = created + 1
        /\ store' = store \cup {m} /\ children' = children \cup {[msg |-> m.id, of |-> m.serial]}
        /\ tagged' = tagged \cup TagRows({m}) /\ UNCHANGED <<up, bare, loose, walk>>
    BY DEF CreateMessage, NextId
  <1>2. /\ created \in Nat /\ created + 1 \in 1..MaxMessages /\ created' \in 0..MaxMessages
        /\ store \subseteq Message
    BY <1>1, Constants DEF TypeOK
  <1>3. m \in Message /\ m.id = created + 1 /\ m.serial = created + 1 /\ m.tags = T
    BY <1>2 DEF Message
  <1> HIDE DEF m
  <1>4. /\ TagRows({m}) \subseteq TagRow
        /\ \A x \in TagRows({m}) : x.msg = created + 1 /\ x.of = created + 1 /\ x.tag \in T
        /\ \A t \in T : [msg |-> m.id, tag |-> t, of |-> m.serial] \in TagRows({m})
    BY <1>3, TagRowsType
  <1>a. PICK c : c = [msg |-> created + 1, of |-> created + 1]
    OBVIOUS
  <1>b. /\ children' = children \cup {c} /\ c.msg = created + 1 /\ c.of = created + 1
        /\ c \in [msg : 1..MaxMessages, of : 1..MaxMessages]
    BY <1>1, <1>2, <1>3, <1>a
  <1>5. TypeOK'
    <2>1. children' \subseteq [msg : 1..MaxMessages, of : 1..MaxMessages]
      BY <1>b DEF TypeOK
    <2>2. store' \subseteq Message /\ tagged' \subseteq TagRow
      BY <1>1, <1>3, <1>4 DEF TypeOK
    <2>3. QED
      BY <1>1, <1>2, <2>1, <2>2 DEF TypeOK
  <1>6. \A n \in store : n.id \in Nat /\ n.id <= created /\ n.id # created + 1
    <2>1. ASSUME NEW n \in store PROVE n.id \in Nat /\ n.id <= created /\ n.id # created + 1
      <3>1. n.id \in Nat /\ n.id <= created
        BY <1>2, MessageFields DEF Keyed
      <3>2. QED
        BY <1>2, <3>1
    <2>2. QED
      BY <2>1
  <1>7. Keyed'
    <2>1. IsFiniteSet(store')
      BY <1>1, FS_AddElement DEF Keyed
    <2>2. \A n \in store' : n.serial = n.id /\ n.id <= created'
      BY <1>1, <1>2, <1>3, <1>6 DEF Keyed
    <2>3. \A n, k \in store' : n.id = k.id => n = k
      BY <1>1, <1>3, <1>6 DEF Keyed
    <2>4. ASSUME NEW x \in children' \cup tagged' PROVE x.of = x.msg /\ x.of <= created'
      <3>1. CASE x \in children \cup tagged
        <4>1. x.of \in Nat
          BY <3>1, Constants DEF TypeOK, TagRow
        <4>2. QED
          BY <1>1, <1>2, <3>1, <4>1 DEF Keyed
      <3>2. CASE x = c \/ x \in TagRows({m})
        <4>1. x.of = created + 1 /\ x.msg = created + 1
          BY <1>4, <1>b, <3>2
        <4>2. QED
          BY <1>1, <1>2, <4>1
      <3>3. QED
        BY <1>1, <1>b, <3>1, <3>2
    <2>5. QED
      BY <2>1, <2>2, <2>3, <2>4 DEF Keyed
  <1>8. Tagged'
    <2>1. ASSUME NEW n \in store PROVE TagsIn(tagged', n) = TagsIn(tagged, n)
      BY <1>1, <1>4, <1>6 DEF TagsIn
    <2>2. TagsIn(tagged', m) = m.tags
      <3>1. ASSUME NEW t \in TagsIn(tagged', m) PROVE t \in T
        <4>1. PICK x \in tagged' : x.msg = created + 1 /\ x.tag = t
          BY <1>3 DEF TagsIn
        <4>2. x \notin tagged
          <5>1. ASSUME x \in tagged PROVE FALSE
            <6>1. x.msg <= created
              BY <5>1 DEF Keyed
            <6>2. QED
              BY <1>2, <4>1, <6>1
          <5>2. QED
            BY <5>1
        <4>3. QED
          BY <1>1, <1>4, <4>1, <4>2
      <3>2. ASSUME NEW t \in T PROVE t \in TagsIn(tagged', m)
        <4> DEFINE x == [msg |-> m.id, tag |-> t, of |-> m.serial]
        <4>1. x \in tagged' /\ x.msg = m.id /\ x.tag = t
          BY <1>1, <1>4
        <4> HIDE DEF x
        <4>2. QED
          BY <4>1 DEF TagsIn
      <3>3. QED
        BY <1>3, <3>1, <3>2
    <2>3. QED
      BY <1>1, <2>1, <2>2 DEF Tagged
  <1>9. NoOrphans'
    <2>1. m \in store' /\ m.serial = created + 1 /\ store \subseteq store'
      BY <1>1, <1>3
    <2>2. \A x \in {c} \cup TagRows({m}) : x.of = m.serial
      BY <1>4, <1>b, <2>1
    <2>3. children' \cup tagged' = (children \cup tagged) \cup ({c} \cup TagRows({m}))
      BY <1>1, <1>b
    <2>4. QED
      BY <1>1, <2>1, <2>2, <2>3 DEF NoOrphans
  <1>10. Walking'
    <2> SUFFICES ASSUME walk # NoWalk PROVE Ordered(walk) /\ Linked(walk)'
      BY <1>1 DEF Walking, Ordered
    <2>1. Ordered(walk) /\ Linked(walk) /\ walk \in Walk
      BY DEF Walking, TypeOK
    <2>2. walk.page \subseteq Message /\ walk.there \subseteq store
      BY <2>1, WalkFields DEF Linked, Matching
    <2>3. created' \in Nat /\ created <= created' /\ m.id > created
      BY <1>1, <1>2, <1>3
    <2>4. QED
      BY <1>1, <2>1, <2>2, <2>3, WalkStays
  <1>11. QED
    BY <1>5, <1>7, <1>8, <1>9, <1>10

LEMMA DeleteHolds == ASSUME IInv, NEW S \in SUBSET store, Delete(S) PROVE IInv'
  <1> USE DEF IInv
  <1>1. /\ up /\ store' = store \ S /\ UNCHANGED <<up, bare, created>>
        /\ walk' = IF walk = NoWalk THEN NoWalk ELSE [walk EXCEPT !.there = walk.there \ S]
    BY DEF Delete
  <1>2. \/ /\ children' = Cascade(children, S) /\ tagged' = Cascade(tagged, S)
           /\ loose' = loose
        \/ /\ loose' = loose \cup {m.serial : m \in S}
           /\ children' = children /\ tagged' = tagged
    BY DEF Delete
  <1>3. /\ children' \subseteq children /\ tagged' \subseteq tagged /\ loose \subseteq loose'
        /\ \A m \in store' : \A x \in tagged : x.msg = m.id => x \in tagged'
    <2>1. ASSUME NEW m \in store', NEW n \in S PROVE n.id # m.id
      BY <1>1 DEF Keyed
    <2>2. QED
      BY <1>2, <2>1 DEF Cascade
  <1>4. loose' \subseteq 1..MaxMessages
    <2>1. \A m \in S : m.serial \in 1..MaxMessages
      BY MessageFields DEF TypeOK
    <2>2. {m.serial : m \in S} \subseteq 1..MaxMessages
      BY <2>1
    <2>3. loose' \subseteq loose \cup {m.serial : m \in S}
      BY <1>2
    <2>4. QED
      BY <2>2, <2>3 DEF TypeOK
  <1>5. walk # NoWalk =>
           /\ walk \in Walk /\ walk' \in Walk
           /\ walk'.filter = walk.filter /\ walk'.stage = walk.stage /\ walk'.cursor = walk.cursor
           /\ walk'.seen = walk.seen /\ walk'.page = walk.page /\ walk'.more = walk.more
           /\ walk'.tags = walk.tags /\ walk'.available = walk.available
           /\ walk'.there = walk.there \ S
    <2> SUFFICES ASSUME walk # NoWalk
        PROVE  /\ walk \in Walk /\ walk' \in Walk
           /\ walk'.filter = walk.filter /\ walk'.stage = walk.stage /\ walk'.cursor = walk.cursor
           /\ walk'.seen = walk.seen /\ walk'.page = walk.page /\ walk'.more = walk.more
           /\ walk'.tags = walk.tags /\ walk'.available = walk.available
           /\ walk'.there = walk.there \ S
      OBVIOUS
    <2>1. walk \in Walk /\ walk' = [walk EXCEPT !.there = walk.there \ S]
      BY <1>1 DEF TypeOK
    <2>2. walk.there \ S \in SUBSET Message
      BY <2>1, WalkFields
    <2>3. walk' \in Walk
      BY <2>1, <2>2, WalkShrunk
    <2>4. QED
      BY <2>1, <2>3 DEF Walk
  <1>6. TypeOK'
    <2>1. walk' = NoWalk \/ walk' \in Walk
      BY <1>1, <1>5
    <2>2. QED
      BY <1>1, <1>3, <1>4, <2>1 DEF TypeOK
  <1>7. Keyed'
    <2>1. IsFiniteSet(store')
      BY <1>1, FS_Subset DEF Keyed
    <2>2. QED
      BY <1>1, <1>3, <2>1 DEF Keyed
  <1>8. Tagged'
    <2>1. ASSUME NEW m \in store' PROVE TagsIn(tagged', m) = TagsIn(tagged, m)
      BY <1>3, <2>1 DEF TagsIn
    <2>2. QED
      BY <1>1, <2>1 DEF Tagged
  <1>9. NoOrphans'
    <2> SUFFICES ASSUME NEW x \in children' \cup tagged', x.of \notin loose'
                 PROVE  \E m \in store' : m.serial = x.of
      BY DEF NoOrphans
    <2>1. x \in children \cup tagged /\ x.of \notin loose
      BY <1>3
    <2>2. PICK m \in store : m.serial = x.of
      BY <2>1 DEF NoOrphans
    <2>3. m.id = x.msg
      BY <2>1, <2>2 DEF Keyed
    <2>4. m \notin S
      BY <1>2, <2>2, <2>3 DEF Cascade
    <2>5. QED
      BY <1>1, <2>2, <2>4
  <1>10. Walking'
    <2> SUFFICES ASSUME walk # NoWalk PROVE Ordered(walk)' /\ Linked(walk)'
      BY <1>1 DEF Walking
    <2>1. Ordered(walk) /\ Linked(walk) /\ walk \in Walk
      BY <1>5 DEF Walking
    <2>2. Ordered(walk)'
      BY <1>5, <2>1 DEF Ordered
    <2>3. Linked(walk)'
      <3>1. walk'.there \subseteq walk.there \cap store' /\ walk.page \subseteq Message
        BY <1>1, <1>5, <2>1, WalkFields DEF Linked, Matching
      <3>2. created' \in Nat /\ created <= created'
        BY <1>1, Constants DEF TypeOK
      <3>v. PICK v : v = walk'
        OBVIOUS
      <3>3. /\ v.filter = walk.filter /\ v.stage = walk.stage /\ v.page = walk.page
            /\ v.tags = walk.tags /\ v.available = walk.available
            /\ v.there \subseteq walk.there \cap store'
        BY <1>5, <3>1, <3>v
      <3>4. Linked(v)'
        BY <1>1, <1>3, <2>1, <3>1, <3>2, <3>3, WalkStays
      <3>5. QED
        BY <3>4, <3>v DEF Linked
    <2>4. QED
      BY <2>2, <2>3
  <1>11. QED
    BY <1>6, <1>7, <1>8, <1>9, <1>10

-----------------------------------------------------------------------------
(* Which side of a cursor.                                                  *)
LEMMA Sides ==
    ASSUME NEW m \in Message, NEW n \in Message
    PROVE  /\ Past(Position(n), m) <=> Newer(n, m)
           /\ ~Past(Position(n), m) <=> (Newer(m, n) \/ (m.at = n.at /\ m.id = n.id))
           /\ Newer(m, n) => ~Newer(n, m)
  <1>1. /\ m.at \in Nat /\ m.id \in Nat /\ n.at \in Nat /\ n.id \in Nat
        /\ Position(n) \in Cursor
    BY MessageFields
  <1>2. Position(n) # NoCursor /\ Position(n).at = n.at /\ Position(n).id = n.id
    BY <1>1, Constants DEF Position
  <1>3. QED
    BY <1>1, <1>2 DEF Past, Newer

LEMMA Between ==
    ASSUME NEW c \in Cursor \cup {NoCursor}, NEW m \in Message, NEW n \in Message,
           Past(c, m), ~Past(c, n)
    PROVE  Newer(n, m)
  <1>1. c \in Cursor /\ c # NoCursor
    BY DEF Past
  <1>2. c.at \in Nat /\ c.id \in Nat
    <2>1. c.at \in Stamp /\ c.id \in 1..MaxMessages
      BY <1>1 DEF Cursor
    <2>2. c.at \in Nat
      BY <2>1, Constants
    <2>3. c.id \in Nat
      BY <2>1, Constants
    <2>4. QED
      BY <2>2, <2>3
  <1>3. m.at \in Nat /\ m.id \in Nat /\ n.at \in Nat /\ n.id \in Nat
    BY MessageFields
  <1>4. QED
    BY <1>1, <1>2, <1>3 DEF Past, Newer

\* The first of a finite set are all of it, or as many as there may be.
LEMMA Firsts ==
    ASSUME NEW S, IsFiniteSet(S), NEW n \in Nat, NEW P, IsFirst(P, S, n)
    PROVE  /\ P \subseteq S /\ IsFiniteSet(P)
           /\ P = S => Cardinality(S) <= n
           /\ P # S => Cardinality(P) = n
           /\ \A m \in S : m \in P \/ (Cardinality(P) = n /\ \A x \in P : Newer(x, m))
  <1>1. P \in SUBSET S /\ \A x \in P, y \in S \ P : Newer(x, y)
    BY DEF IsFirst
  <1>2. Cardinality(P) = IF Cardinality(S) <= n THEN Cardinality(S) ELSE n
    BY DEF IsFirst
  <1>3. IsFiniteSet(P) /\ (Cardinality(S) = Cardinality(P) => S = P)
    BY <1>1, FS_Subset
  <1>4. Cardinality(S) \in Nat
    BY FS_CardinalityType
  <1>5. P # S => Cardinality(P) = n
    BY <1>2, <1>3
  <1>6. P = S => Cardinality(S) <= n
    BY <1>2, <1>4
  <1>7. ASSUME NEW m \in S, m \notin P
        PROVE  Cardinality(P) = n /\ \A x \in P : Newer(x, m)
    BY <1>1, <1>5, <1>7
  <1>8. QED
    BY <1>1, <1>3, <1>5, <1>6, <1>7

(* The steps that only move the walk.                                       *)
LEMMA WalkMoves ==
    ASSUME IInv, UNCHANGED <<up, bare, tables>>, walk' = NoWalk \/ walk' \in Walk,
           walk' # NoWalk => Ordered(walk') /\ Linked(walk')
    PROVE  IInv'
  <1> USE DEF IInv
  <1>1. TypeOK' /\ Tagged'
    BY DEF TypeOK, Tagged, tables
  <1>2. Walking'
    <2>1. Matching(walk'.filter) = Matching(walk.filter)'
      BY DEF Matching, Matches, tables
    <2>2. QED
      BY <2>1 DEF Walking, Ordered, Linked, tables
  <1>3. QED
    BY <1>1, <1>2, TablesRest

LEMMA OpenHolds == ASSUME IInv, NEW f \in Filters, Open(f) PROVE IInv'
  <1>1. PICK v : v = [filter |-> f, stage |-> "ask", cursor |-> NoCursor, seen |-> {},
                      page |-> {}, more |-> FALSE, tags |-> {}, available |-> {}, there |-> {}]
    OBVIOUS
  <1>2. walk' = v /\ UNCHANGED <<up, bare, tables>>
    BY <1>1 DEF Open
  <1>3. v \in Walk
    BY <1>1, WalkOpened
  <1>4. /\ v.stage = "ask" /\ v.page = {} /\ v.seen = {} /\ v.there = {}
    BY <1>1
  <1>5. Ordered(v) /\ Linked(v)
    BY <1>4, FS_EmptySet DEF Ordered, Linked
  <1>6. QED
    BY <1>2, <1>3, <1>5, WalkMoves

LEMMA QueryHolds == ASSUME IInv, QueryPage PROVE IInv'
  <1> USE DEF IInv
  <1> DEFINE S == Matching(walk.filter)
             R == {m \in S : Past(walk.cursor, m)}
             there == IF walk.cursor = NoCursor THEN S ELSE walk.there
  <1>1. /\ up /\ walk # NoWalk /\ walk.stage = "ask" /\ UNCHANGED <<up, bare, tables>>
    BY DEF QueryPage
  <1>2. PICK P \in SUBSET R :
           /\ IsFirst(P, R, PageSize + 1)
           /\ walk' = [walk EXCEPT !.stage = "tags", !.page = P, !.tags = {}, !.available = {},
                                   !.there = there]
    BY DEF QueryPage
  <1>3. walk \in Walk /\ Ordered(walk) /\ Linked(walk)
    BY <1>1 DEF Walking, TypeOK
  <1>4. /\ walk.cursor \in Cursor \cup {NoCursor} /\ walk.seen \subseteq Message
        /\ walk.there \subseteq Message /\ walk.page \subseteq Message
    BY <1>3, WalkFields
  <1>5. S \subseteq store /\ S \subseteq Message
    BY MatchingType
  <1>6. IsFiniteSet(R) /\ PageSize + 1 \in Nat
    <2>1. R \in SUBSET store
      BY <1>5
    <2>2. QED
      BY <2>1, FS_Subset, Constants DEF Keyed
  <1>7. there \subseteq S /\ there \in SUBSET Message /\ P \in SUBSET Message
    BY <1>3, <1>5 DEF Linked
  <1>8. /\ P \subseteq R /\ IsFiniteSet(P)
        /\ \A m \in R : m \in P \/ (Cardinality(P) = PageSize + 1 /\ \A x \in P : Newer(x, m))
    BY <1>2, <1>6, Firsts
  <1>9. walk' \in Walk
    BY <1>2, <1>3, <1>7, WalkQueried
  <1>10. /\ walk'.stage = "tags" /\ walk'.page = P /\ walk'.there = there
         /\ walk'.filter = walk.filter /\ walk'.cursor = walk.cursor /\ walk'.seen = walk.seen
    BY <1>2, <1>3 DEF Walk
  <1>11. \A m \in there : m \in walk.seen \/ (m \in R /\ Past(walk.cursor, m))
    <2>1. CASE walk.cursor = NoCursor
      BY <1>7, <2>1 DEF Past
    <2>2. CASE walk.cursor # NoCursor
      BY <1>1, <1>3, <1>7, <2>2 DEF Ordered
    <2>3. QED
      BY <2>1, <2>2
  <1>12. Ordered(walk')
    <2>1. \A n \in walk.seen : ~Past(walk.cursor, n)
      BY <1>3 DEF Ordered
    <2>2. \A m \in P : Past(walk.cursor, m)
      BY <1>8
    <2>3. \A m \in P, n \in walk.seen : Newer(n, m)
      BY <1>4, <1>7, <2>1, <2>2, Between
    <2> HIDE DEF S, R, there
    <2>4. QED
      BY <1>8, <1>10, <1>11, <2>1, <2>2, <2>3 DEF Ordered
  <1>13. Linked(walk')
    <2>1. \A m \in P : m \in store /\ walk.filter.owner \in {All, m.owner}
      BY <1>5, <1>8 DEF Matching, Matches
    <2>2. \A m \in P : m.id <= created
      BY <2>1 DEF Keyed
    <2>3. there \subseteq Matching(walk.filter)
      BY <1>7
    <2> HIDE DEF S, R, there
    <2>4. QED
      BY <1>1, <1>10, <2>1, <2>2, <2>3 DEF Linked
  <1> HIDE DEF S, R, there
  <1>14. QED
    BY <1>1, <1>9, <1>12, <1>13, WalkMoves

LEMMA HydrateHolds == ASSUME IInv, hydrateTagsForMessages PROVE IInv'
  <1> USE DEF IInv
  <1> DEFINE T == {x \in tagged : \E m \in walk.page : m.id = x.msg}
  <1>1. /\ up /\ walk # NoWalk /\ walk.stage = "tags" /\ UNCHANGED <<up, bare, tables>>
        /\ walk' = [walk EXCEPT !.stage = "available", !.tags = T]
    BY DEF hydrateTagsForMessages
  <1>2. walk \in Walk /\ Ordered(walk) /\ Linked(walk) /\ T \in SUBSET TagRow
    BY <1>1 DEF Walking, TypeOK
  <1>3. \A m \in walk.page \cap store : m.tags = TagsIn(T, m)
    <2>1. ASSUME NEW m \in walk.page \cap store PROVE m.tags = TagsIn(T, m)
      <3>1. TagsIn(tagged, m) = m.tags
        BY <1>1, <2>1 DEF Tagged
      <3>2. TagsIn(T, m) = TagsIn(tagged, m)
        BY <2>1 DEF TagsIn
      <3>3. QED
        BY <3>1, <3>2
    <2>2. QED
      BY <2>1
  <1> HIDE DEF T
  <1>4. walk' \in Walk
    BY <1>1, <1>2, WalkTagged
  <1>5. /\ walk'.stage = "available" /\ walk'.page = walk.page /\ walk'.there = walk.there
        /\ walk'.filter = walk.filter /\ walk'.cursor = walk.cursor /\ walk'.seen = walk.seen
        /\ walk'.tags = T
    BY <1>1, <1>2 DEF Walk
  <1>6. Ordered(walk')
    BY <1>1, <1>2, <1>5 DEF Ordered
  <1>7. Linked(walk')
    BY <1>1, <1>2, <1>3, <1>5 DEF Linked
  <1>8. QED
    BY <1>1, <1>4, <1>6, <1>7, WalkMoves

LEMMA AvailableHolds == ASSUME IInv, listAvailableTags PROVE IInv'
  <1> USE DEF IInv
  <1> DEFINE A == UNION {TagsIn(tagged, m) : m \in Listed(walk.filter)}
  <1>1. up /\ walk # NoWalk /\ walk.stage = "available" /\ UNCHANGED <<up, bare, tables>>
    BY DEF listAvailableTags
  <1>2. PICK Q \in SUBSET walk.page, cursor \in Cursor \cup {NoCursor} :
           /\ IsFirst(Q, walk.page, PageSize)
           /\ IF Q = walk.page THEN cursor = walk.cursor
              ELSE \E m \in walk.page : IsLast(m, walk.page, Q) /\ cursor = Position(m)
           /\ walk' = [walk EXCEPT !.stage = "shown", !.page = Q, !.more = (Q # walk.page),
                                   !.cursor = cursor, !.available = A]
    BY DEF listAvailableTags
  <1>3. walk \in Walk /\ Ordered(walk) /\ Linked(walk)
    BY <1>1 DEF Walking, TypeOK
  <1>4. /\ walk.cursor \in Cursor \cup {NoCursor} /\ walk.seen \subseteq Message
        /\ walk.there \subseteq Message /\ walk.page \subseteq Message
    BY <1>3, WalkFields
  <1>5. A \in SUBSET Tag /\ (\A m \in walk.page \cap store : m.tags \subseteq A)
    <2>1. A \subseteq Tag
      BY TagsInType DEF TypeOK
    <2>2. ASSUME NEW m \in walk.page \cap store PROVE m.tags \subseteq A
      <3>1. m \in Listed(walk.filter)
        BY <1>3 DEF Linked, Listed
      <3>2. TagsIn(tagged, m) = m.tags
        BY <1>1 DEF Tagged
      <3>3. QED
        BY <3>1, <3>2
    <2>3. QED
      BY <2>1, <2>2
  <1> HIDE DEF A
  <1>6. walk' \in Walk
    BY <1>2, <1>3, <1>4, <1>5, WalkShown
  <1>7. /\ walk'.stage = "shown" /\ walk'.page = Q /\ walk'.there = walk.there
        /\ walk'.more = (Q # walk.page) /\ walk'.cursor = cursor /\ walk'.available = A
        /\ walk'.filter = walk.filter /\ walk'.seen = walk.seen /\ walk'.tags = walk.tags
    BY <1>2, <1>3 DEF Walk
  <1>8. /\ Q \subseteq walk.page /\ IsFiniteSet(Q)
        /\ Q = walk.page => Cardinality(walk.page) <= PageSize
        /\ \A m \in walk.page : m \in Q \/ \A x \in Q : Newer(x, m)
    <2>1. IsFiniteSet(walk.page) /\ PageSize \in Nat
      BY <1>3, Constants DEF Ordered
    <2>2. QED
      BY <1>2, <2>1, Firsts
  <1>9. Linked(walk')
    BY <1>1, <1>3, <1>5, <1>7, <1>8 DEF Linked
  <1>10. \A m \in Q, n \in walk.seen : Newer(n, m)
    BY <1>3, <1>8 DEF Ordered
  <1>11. CASE Q = walk.page
    <2>1. cursor = walk.cursor /\ walk'.more = FALSE
      BY <1>2, <1>7, <1>11
    <2>2. Cardinality(walk.page) # PageSize + 1
      <3>1. Cardinality(walk.page) <= PageSize
        BY <1>8, <1>11
      <3>2. Cardinality(walk.page) \in Nat
        BY <1>3, FS_CardinalityType DEF Ordered
      <3>3. QED
        BY <3>1, <3>2, Constants
    <2>3. \A m \in walk.there : m \in walk.seen \cup Q
      BY <1>1, <1>3, <1>11, <2>2 DEF Ordered
    <2>4. Ordered(walk')
      BY <1>3, <1>7, <1>8, <1>10, <2>1, <2>3 DEF Ordered
    <2>5. QED
      BY <1>1, <1>6, <1>9, <2>4, WalkMoves
  <1>12. CASE Q # walk.page
    <2>1. PICK last \in walk.page : IsLast(last, walk.page, Q) /\ cursor = Position(last)
      BY <1>2, <1>12
    <2>2. last \in Q /\ last \in Message /\ \A x \in Q : x # last => Newer(x, last)
      BY <1>4, <2>1 DEF IsLast
    <2>3. \A n \in Q : ~Past(cursor, n)
      <3>1. ASSUME NEW n \in Q PROVE ~Past(cursor, n)
        <4>1. n \in Message /\ (n = last \/ Newer(n, last))
          BY <1>4, <1>8, <2>2
        <4>2. QED
          BY <2>1, <2>2, <4>1, Sides
      <3>2. QED
        BY <3>1
    <2>4. \A n \in walk.seen : ~Past(cursor, n)
      <3>1. ASSUME NEW n \in walk.seen PROVE ~Past(cursor, n)
        <4>1. n \in Message /\ Newer(n, last)
          BY <1>4, <1>10, <2>2
        <4>2. QED
          BY <2>1, <2>2, <4>1, Sides
      <3>2. QED
        BY <3>1
    <2>5. ASSUME NEW m \in walk.there, m \notin walk.seen \cup Q PROVE Past(cursor, m)
      <3>1. m \in Message
        BY <1>4
      <3>2. Newer(last, m)
        <4>1. CASE m \in walk.page
          BY <1>8, <2>2, <2>5, <4>1
        <4>2. CASE m \notin walk.page
          BY <1>1, <1>3, <2>1, <2>5, <4>2 DEF Ordered
        <4>3. QED
          BY <4>1, <4>2
      <3>3. QED
        BY <2>1, <2>2, <3>1, <3>2, Sides
    <2>6. walk'.more = TRUE
      BY <1>7, <1>12
    <2>7. Ordered(walk')
      BY <1>7, <1>8, <1>10, <2>3, <2>4, <2>5, <2>6 DEF Ordered
    <2>8. QED
      BY <1>1, <1>6, <1>9, <2>7, WalkMoves
  <1>13. QED
    BY <1>11, <1>12

LEMMA PageFailsHolds == ASSUME IInv, PageFails PROVE IInv'
  <1> USE DEF IInv
  <1>1. /\ walk # NoWalk /\ walk.stage \in {"tags", "available"} /\ UNCHANGED <<up, bare, tables>>
        /\ walk' = [walk EXCEPT !.stage = "ask", !.page = {}, !.tags = {}]
    BY DEF PageFails, Abandoned
  <1>2. walk \in Walk /\ Ordered(walk) /\ Linked(walk)
    BY <1>1 DEF Walking, TypeOK
  <1>3. /\ walk' \in Walk /\ Ordered(walk')
        /\ walk'.stage = "ask" /\ walk'.page = {} /\ walk'.filter = walk.filter
        /\ walk'.there = walk.there
    BY <1>1, <1>2, AbandonedWalk
  <1>4. Linked(walk')
    BY <1>2, <1>3, AskingLinked DEF Linked
  <1>5. QED
    BY <1>1, <1>3, <1>4, WalkMoves

LEMMA NextPageHolds == ASSUME IInv, NextPage PROVE IInv'
  <1> USE DEF IInv
  <1>1. /\ walk # NoWalk /\ walk.stage = "shown" /\ UNCHANGED <<up, bare, tables>>
        /\ walk' = IF walk.more
                   THEN [walk EXCEPT !.stage = "ask", !.page = {}, !.tags = {}, !.available = {},
                                     !.seen = walk.seen \cup walk.page]
                   ELSE NoWalk
    BY DEF NextPage
  <1>2. walk \in Walk /\ Ordered(walk) /\ Linked(walk)
    BY <1>1 DEF Walking, TypeOK
  <1>3. CASE walk.more
    <2>1. walk' = [walk EXCEPT !.stage = "ask", !.page = {}, !.tags = {}, !.available = {},
                               !.seen = walk.seen \cup walk.page]
      BY <1>1, <1>3
    <2>2. walk.seen \cup walk.page \in SUBSET Message
      BY <1>2, WalkFields
    <2>3. walk' \in Walk
      BY <1>2, <2>1, <2>2, WalkOn
    <2>4. /\ walk'.stage = "ask" /\ walk'.page = {} /\ walk'.there = walk.there
          /\ walk'.seen = walk.seen \cup walk.page /\ walk'.cursor = walk.cursor
          /\ walk'.filter = walk.filter
      BY <1>2, <2>1 DEF Walk
    <2>5. Ordered(walk')
      BY <1>1, <1>2, <1>3, <2>4, FS_EmptySet DEF Ordered
    <2>6. Linked(walk')
      BY <1>2, <2>4, AskingLinked DEF Linked
    <2>7. QED
      BY <1>1, <2>3, <2>5, <2>6, WalkMoves
  <1>4. CASE ~walk.more
    BY <1>1, <1>4, WalkMoves
  <1>5. QED
    BY <1>3, <1>4

-----------------------------------------------------------------------------
LEMMA Invariance == Spec => []IInv
  <1>1. IInv /\ [Next]_vars => IInv'
    <2> SUFFICES ASSUME IInv, [Next]_vars PROVE IInv'
      OBVIOUS
    <2>1. CASE Start \/ Overlap \/ Crash
      BY <2>1, StartHolds, OverlapHolds, CrashHolds
    <2>2. ASSUME NEW at \in Stamp, NEW o \in Owner, NEW T \in SUBSET Tag, CreateMessage(at, o, T)
          PROVE  IInv'
      BY <2>2, CreateHolds
    <2>3. ASSUME NEW S \in SUBSET store, Delete(S) PROVE IInv'
      BY <2>3, DeleteHolds
    <2>4. ASSUME NEW f \in Filters, DeleteAllMessages(f) \/ \E m \in store : DeleteMessage(f, m)
          PROVE  IInv'
      BY <2>3, <2>4 DEF DeleteAllMessages, DeleteMessage, Matching
    <2>5. ASSUME NEW o \in Owner, DeleteMessagesOf(o) PROVE IInv'
      BY <2>3, <2>5 DEF DeleteMessagesOf
    <2>6. CASE DeleteExpiredMessages
      BY <2>3, <2>6 DEF DeleteExpiredMessages
    <2>7. CASE ListMessages
      BY <2>7, OpenHolds, QueryHolds, HydrateHolds, AvailableHolds, PageFailsHolds, NextPageHolds
         DEF ListMessages
    <2>8. CASE UNCHANGED vars
      BY <2>8, WalkMoves DEF IInv, Walking, TypeOK, vars
    <2>9. QED
      BY <2>1, <2>2, <2>4, <2>5, <2>6, <2>7, <2>8 DEF Next
  <1>2. QED
    BY <1>1, InitHolds, PTL DEF Spec

(* sqlite.go:303-385, 858-948, 1069-1126.  The tables and the pages keep    *)
(* their types.                                                             *)
THEOREM TypeCorrect == Spec => []TypeOK
  <1>1. IInv => TypeOK
    BY DEF IInv
  <1>2. QED
    BY <1>1, Invariance, PTL

(* 001_init.sql:2.  With AUTOINCREMENT a child row is only ever found under *)
(* the message it was stored with.                                          *)
THEOREM ChildrenTrue == Spec => []ChildrenOfMessage
  <1>1. IInv => ChildrenOfMessage
    BY DEF IInv, Keyed, ChildrenOfMessage
  <1>2. QED
    BY <1>1, Invariance, PTL

(* 001_init.sql:21, sqlite.go:83.  What a deletion leaves behind it leaves  *)
(* on a connection without foreign keys.                                    *)
THEOREM OrphansExplained == Spec => []NoOrphans
  <1>1. IInv => NoOrphans
    BY DEF IInv
  <1>2. QED
    BY <1>1, Invariance, PTL

(* sqlite.go:303-385, 1309-1370.  A running server has the tags of every    *)
(* message, whichever version stored it.                                    *)
THEOREM TagsKept == Spec => []TagsComplete
  <1>1. IInv => TagsComplete
    BY DEF IInv, Tagged, TagsComplete
  <1>2. QED
    BY <1>1, Invariance, PTL

(* sqlite.go:929-936.  The three reads of a page agree on every message     *)
(* that is still there.                                                     *)
THEOREM PageAgrees == Spec => []TagsShown
  <1>1. IInv => TagsShown
    BY DEF IInv, Walking, Linked, Answered, TagsShown
  <1>2. QED
    BY <1>1, Invariance, PTL

(* sqlite.go:895-907.  No message is shown twice or out of order.           *)
THEOREM PagesInOrder == Spec => []PagesDescend
  <1>1. IInv => PagesDescend
    BY DEF IInv, Walking, Ordered, PagesDescend
  <1>2. QED
    BY <1>1, Invariance, PTL

(* sqlite.go:895-942.  A walk to the end misses nothing that was there from *)
(* its beginning, for any size of a page.                                   *)
THEOREM NothingSkipped == Spec => []WalkComplete
  <1>1. IInv => WalkComplete
    BY DEF IInv, Walking, Ordered, Answered, WalkComplete
  <1>2. QED
    BY <1>1, Invariance, PTL
=============================================================================
