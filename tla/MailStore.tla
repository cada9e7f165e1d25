------------------------------ MODULE MailStore ------------------------------
(***************************************************************************)
(* The tables messages, attachments and message_tags of                    *)
(* src/internal/storage/sqlite.go, and a client that walks through a       *)
(* mailbox page by page while messages arrive and are deleted.             *)
(*                                                                         *)
(* received_at is compared as text, and is taken before the message is     *)
(* stored: "at" is its place in the order of these texts, and a new message*)
(* may have any.  The full-text query of a filter is like its tag, a       *)
(* property a message has or has not, and is left out.                     *)
(*                                                                         *)
(* Foreign keys are switched on (sqlite.go:83) on the connection that is   *)
(* open at the start; database/sql opens more when calls overlap, and      *)
(* those do not cascade.  "bare" says there may be such a connection.      *)
(*                                                                         *)
(* History: "serial" counts messages where "id" is the key of the table,   *)
(* "of" is the serial of the message a child row was stored with, "loose"  *)
(* holds the messages deleted without a cascade, and "there" the messages  *)
(* that match since the walk began.                                        *)
(***************************************************************************)
EXTENDS Integers, FiniteSets

CONSTANTS
    Owner, All,     \* owners of messages, and the principal who sees all
    Tag, AnyTag,
    Filters,        \* bound: what is listed, an owner and a tag
    Stamp,          \* received_at, in the order of the texts
    MaxMessages,    \* bound: messages stored since the table was made
    Old,            \* bound: messages of a version without tags
    PageSize,
    NoCursor, NoWalk

Cursor  == [at : Stamp, id : 1..MaxMessages]
Message == [id : 1..MaxMessages, serial : 1..MaxMessages, at : Stamp, owner : Owner,
            tags : SUBSET Tag]

ASSUME StoreAssumption ==
    /\ MaxMessages \in Nat /\ PageSize \in Nat \ {0} /\ Stamp \subseteq Nat
    /\ All \notin Owner /\ AnyTag \notin Tag
    /\ Filters \subseteq [owner : Owner \cup {All}, tag : Tag \cup {AnyTag}]
    /\ Old \subseteq {m \in Message : m.id = 1 /\ m.serial = 1}
    /\ NoCursor \notin Cursor

VARIABLES
    up,         \* the process runs
    bare,
    store,      \* messages, with the tags their recipients give them
    children,   \* attachments, one for each message
    tagged,     \* message_tags
    created,    \* messages stored, and AUTOINCREMENT of messages
    loose,
    walk        \* the client: filter, cursor, and what it has been shown

tables == <<store, children, tagged, created, loose>>
vars   == <<up, bare, tables, walk>>

Newer(m, n) == m.at > n.at \/ (m.at = n.at /\ m.id > n.id)

Matches(f, m) ==
    /\ f.owner \in {All, m.owner}
    /\ f.tag = AnyTag \/ \E x \in tagged : x.msg = m.id /\ x.tag = f.tag

Matching(f) == {m \in store : Matches(f, m)}

\* Mutant: the empty tag where there is none.
MutantTagRows(S) ==
    UNION {{[msg |-> m.id, tag |-> t, of |-> m.serial] :
            t \in IF m.tags = {} THEN {AnyTag} ELSE m.tags} : m \in S}

TagRows(S) == UNION {{[msg |-> m.id, tag |-> t, of |-> m.serial] : t \in m.tags} : m \in S}
----------------------------------------------------------------------------
\* The database may be of a version that had no tags.
Init ==
    /\ up = FALSE /\ bare = FALSE
    /\ \E S \in {{}} \cup {{m} : m \in Old} :
          /\ store = S
          /\ children = {[msg |-> m.id, of |-> m.serial] : m \in S}
          /\ created = Cardinality(S)
    /\ tagged = {} /\ loose = {}
    /\ walk = NoWalk

TagsIn(rows, m) == {x.tag : x \in {y \in rows : y.msg = m.id}}

Untagged == {m \in store : ~\E x \in tagged : x.msg = m.id}

\* Mutant: the new messages only.
MutantBackfilled == {}

Backfilled == TagRows(Untagged)

\* NewSQLiteStore: one connection, the tags of messages that have none.
Start ==
    /\ ~up
    /\ up' = TRUE /\ bare' = FALSE
    /\ tagged' = tagged \cup Backfilled
    /\ UNCHANGED <<store, children, created, loose, walk>>

\* Two calls of the store overlap.
Overlap ==
    /\ up
    /\ bare' = TRUE
    /\ UNCHANGED <<up, tables, walk>>

\* A page that is being put together is not answered.
Abandoned == IF walk # NoWalk /\ walk.stage \in {"tags", "available"}
             THEN [walk EXCEPT !.stage = "ask", !.page = {}, !.tags = {}] ELSE walk

\* The process dies.
Crash ==
    /\ up
    /\ up' = FALSE
    /\ walk' = Abandoned
    /\ UNCHANGED <<bare, tables>>

\* Mutant: without AUTOINCREMENT the id after the largest in use.
MutantNextId == 1 + Cardinality({i \in 1..MaxMessages : \E m \in store : m.id >= i})

NextId == created + 1

\* The message, its attachment and its tags, in one transaction.
CreateMessage(at, o, T) ==
    /\ up /\ created < MaxMessages
    /\ LET m == [id |-> NextId, serial |-> created + 1, at |-> at, owner |-> o, tags |-> T]
       IN  /\ store' = store \cup {m}
           /\ children' = children \cup {[msg |-> m.id, of |-> m.serial]}
           /\ tagged' = tagged \cup TagRows({m})
    /\ created' = created + 1
    /\ UNCHANGED <<up, bare, loose, walk>>

\* Mutant: REFERENCES without ON DELETE CASCADE.
MutantCascade(rows, S) == rows

Cascade(rows, S) == {x \in rows : \A m \in S : m.id # x.msg}

\* DELETE FROM messages, on some connection.
Delete(S) ==
    /\ up /\ S # {}
    /\ store' = store \ S
    /\ \/ /\ children' = Cascade(children, S)
          /\ tagged' = Cascade(tagged, S)
          /\ UNCHANGED loose
       \/ /\ bare
          /\ loose' = loose \cup {m.serial : m \in S}
          /\ UNCHANGED <<children, tagged>>
    /\ walk' = IF walk = NoWalk THEN NoWalk ELSE [walk EXCEPT !.there = @ \ S]
    /\ UNCHANGED <<up, bare, created>>

DeleteMessage(f, m)   == f.owner \in {All, m.owner} /\ Delete({m})
DeleteAllMessages(f)  == Delete(Matching(f))
DeleteMessagesOf(o)   == Delete({m \in store : m.owner = o})
DeleteExpiredMessages == \E S \in SUBSET store : Delete(S)
----------------------------------------------------------------------------
\* A client starts to list a mailbox.
Open(f) ==
    /\ walk = NoWalk
    /\ walk' = [filter |-> f, stage |-> "ask", cursor |-> NoCursor, seen |-> {}, page |-> {},
                more |-> FALSE, tags |-> {}, available |-> {}, there |-> {}]
    /\ UNCHANGED <<up, bare, tables>>

\* Mutant: a cursor that includes its row.
MutantPast(c, m) == c = NoCursor \/ m.at < c.at \/ (m.at = c.at /\ m.id <= c.id)

Past(c, m) == c = NoCursor \/ m.at < c.at \/ (m.at = c.at /\ m.id < c.id)

\* ORDER BY received_at DESC, id DESC LIMIT n
IsFirst(P, S, n) ==
    /\ P \subseteq S
    /\ \A x \in P, y \in S \ P : Newer(x, y)
    /\ Cardinality(P) = IF Cardinality(S) <= n THEN Cardinality(S) ELSE n

\* ListMessages reads the page and one row more ...
QueryPage ==
    /\ up /\ walk # NoWalk /\ walk.stage = "ask"
    /\ LET S == Matching(walk.filter) IN
       \E P \in SUBSET {m \in S : Past(walk.cursor, m)} :
          /\ IsFirst(P, {m \in S : Past(walk.cursor, m)}, PageSize + 1)
          /\ walk' = [walk EXCEPT !.stage = "tags", !.page = P, !.tags = {}, !.available = {},
                                  !.there = IF walk.cursor = NoCursor THEN S ELSE @]
    /\ UNCHANGED <<up, bare, tables>>

\* ... then the tags of these messages ...
hydrateTagsForMessages ==
    /\ up /\ walk # NoWalk /\ walk.stage = "tags"
    /\ walk' = [walk EXCEPT !.stage = "available",
                            !.tags = {x \in tagged : \E m \in walk.page : m.id = x.msg}]
    /\ UNCHANGED <<up, bare, tables>>

\* Mutant: the clauses of the page, its cursor too.
MutantListed(f) == {m \in Matching(f) : Past(walk.cursor, m) /\ m \notin walk.page}

\* The filter's owner, but not its tag.
Listed(f) == {m \in store : f.owner \in {All, m.owner}}

\* Mutant: the cursor is the row too many.
MutantIsLast(m, P, Q) == m \in P /\ \A x \in P : x # m => Newer(x, m)

\* The last of the messages shown.
IsLast(m, P, Q) == m \in Q /\ \A x \in Q : x # m => Newer(x, m)

Position(m) == [at |-> m.at, id |-> m.id]

\* ... then the tags to choose from; and drops the row too many.
listAvailableTags ==
    /\ up /\ walk # NoWalk /\ walk.stage = "available"
    /\ \E Q \in SUBSET walk.page, cursor \in Cursor \cup {NoCursor} :
          /\ IsFirst(Q, walk.page, PageSize)
          /\ IF Q = walk.page THEN cursor = walk.cursor
             ELSE \E m \in walk.page : IsLast(m, walk.page, Q) /\ cursor = Position(m)
          /\ walk' = [walk EXCEPT
                !.stage = "shown", !.page = Q, !.more = Q # walk.page, !.cursor = cursor,
                !.available = UNION {TagsIn(tagged, m) : m \in Listed(walk.filter)}]
    /\ UNCHANGED <<up, bare, tables>>

PageFails ==
    /\ walk # NoWalk /\ walk.stage \in {"tags", "available"}
    /\ walk' = Abandoned
    /\ UNCHANGED <<up, bare, tables>>

\* The client asks for what follows, or has seen it all.
NextPage ==
    /\ walk # NoWalk /\ walk.stage = "shown"
    /\ walk' = IF walk.more
               THEN [walk EXCEPT !.stage = "ask", !.page = {}, !.tags = {}, !.available = {},
                                 !.seen = @ \cup walk.page]
               ELSE NoWalk
    /\ UNCHANGED <<up, bare, tables>>

ListMessages ==
    \/ \E f \in Filters : Open(f)
    \/ QueryPage \/ hydrateTagsForMessages \/ listAvailableTags \/ PageFails \/ NextPage

Next ==
    \/ Start \/ Overlap \/ Crash
    \/ \E at \in Stamp, o \in Owner, T \in SUBSET Tag : CreateMessage(at, o, T)
    \/ \E f \in Filters : DeleteAllMessages(f) \/ \E m \in store : DeleteMessage(f, m)
    \/ \E o \in Owner : DeleteMessagesOf(o)
    \/ DeleteExpiredMessages
    \/ ListMessages

Spec == Init /\ [][Next]_vars
----------------------------------------------------------------------------
TagRow == [msg : 1..MaxMessages, tag : Tag, of : 1..MaxMessages]

Walk ==
    [filter : Filters, stage : {"ask", "tags", "available", "shown"},
     cursor : Cursor \cup {NoCursor}, seen : SUBSET Message, page : SUBSET Message,
     more : BOOLEAN, tags : SUBSET TagRow, available : SUBSET Tag, there : SUBSET Message]

TypeOK ==
    /\ up \in BOOLEAN /\ bare \in BOOLEAN
    /\ store \subseteq Message
    /\ children \subseteq [msg : 1..MaxMessages, of : 1..MaxMessages]
    /\ tagged \subseteq TagRow
    /\ created \in 0..MaxMessages
    /\ loose \subseteq 1..MaxMessages
    /\ walk = NoWalk \/ walk \in Walk

Answered(more) == walk # NoWalk /\ walk.stage = "shown" /\ walk.more = more

(* sqlite.go:895-942.  A walk that has come to its end has shown every      *)
(* message that matched when it began and is still there, whatever arrived  *)
(* and was deleted on the way.                                              *)
WalkComplete == Answered(FALSE) => walk.there \subseteq walk.seen \cup walk.page

(* sqlite.go:895-907.  What a page shows is older than all that the pages   *)
(* before it did: nothing is shown twice, or out of order.                  *)
PagesDescend ==
    walk # NoWalk => \A m \in walk.page, n \in walk.seen : Newer(n, m)

(* sqlite.go:929-936, three statements and no transaction.  A message that  *)
(* is still there is shown with all of its tags, and its tags are among     *)
(* those to choose from.                                                    *)
TagsShown ==
    Answered(TRUE) \/ Answered(FALSE) =>
        \A m \in walk.page \cap store :
            /\ m.tags = TagsIn(walk.tags, m)
            /\ m.tags \subseteq walk.available

(* sqlite.go:303-385, 1309-1370.  A running server has the tags of every    *)
(* message, the messages of older versions included.                        *)
TagsComplete ==
    up => \A m \in store : m.tags = TagsIn(tagged, m)

(* 001_init.sql:21, sqlite.go:83, 165.  No attachment and no tag outlives   *)
(* its message, unless the message was deleted on a connection other than   *)
(* the first.                                                               *)
NoOrphans ==
    \A x \in children \cup tagged : x.of \in loose \/ \E m \in store : m.serial = x.of

(* 001_init.sql:2.  What is found under the id of a message was stored with *)
(* that message, and not left behind by another.                            *)
ChildrenOfMessage ==
    \A m \in store, x \in children \cup tagged : x.msg = m.id => x.of = m.serial
=============================================================================
