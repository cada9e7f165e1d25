---------------------------- MODULE ReportDelivery ----------------------------
(***************************************************************************)
(* One Send of the outbound worker (src/internal/smtpserver/outbound.go):  *)
(* the hosts of the recipient's domain in the order of their preference,   *)
(* or the one relay, until one has taken the report; and at each host a    *)
(* server that reads the body line by line as MailTail's own does          *)
(* (server.go, readDataBlockLimit).  A host may refuse, or fail, at any    *)
(* point, and a server reads on what is on its way to it when the sender   *)
(* has given up.                                                           *)
(*                                                                         *)
(* A line has so many characters, of which the first so many are dots, and *)
(* may hold a bare carriage return.  The wire is the body with its dots    *)
(* doubled and a line with a dot at the end, as net/smtp writes it; it is  *)
(* not a variable, "pos" says how far a server has read.                   *)
(*                                                                         *)
(* History: what became of each host in "failed", and in "unsure" those    *)
(* that were sent everything and whose answer did not come.                *)
(***************************************************************************)
EXTENDS Integers, Sequences

CONSTANTS
    Host,       \* what MX records name
    Self,       \* the recipient's domain, or the relay
    Null,       \* the empty names among them
    Pref,       \* the preference of each
    Mode,       \* "direct", "relay"
    Bodies,     \* bound: the reports
    MaxLine,    \* characters of a line, its end included
    MaxSize,    \* characters of a body
    NoHost

Line == [dots : Nat, len : Nat, cr : BOOLEAN]

ASSUME DeliveryAssumption ==
    /\ Self \in Host \ Null /\ NoHost \notin Host /\ Pref \in [Host -> Nat]
    /\ Mode \subseteq {"direct", "relay"}
    /\ Bodies \subseteq Seq(Line)
    /\ \A body \in Bodies : \A i \in 1..Len(body) : body[i].dots <= body[i].len
    /\ MaxLine \in Nat /\ MaxLine > 2 /\ MaxSize \in Nat

VARIABLES
    mode, body,
    step,       \* of the sender
    todo,       \* MX hosts not tried
    current,    \* the host that is tried
    temporary, result,
    failed, unsure,
    server,     \* the connection of each host
    copies      \* what each host has stored

sender == <<step, todo, current, temporary, result, failed, unsure>>
vars   == <<mode, body, sender, server, copies>>

NoConnection ==
    [stage |-> "closed", pos |-> 0, upto |-> 0, buffer |-> <<>>, total |-> 0,
     tooLarge |-> FALSE, tooLong |-> FALSE, reply |-> 0]

Terminator == [dots |-> 1, len |-> 1, cr |-> FALSE]

\* net/textproto: a dot before a line that begins with one.
Stuff(l) == IF l.dots > 0 THEN [l EXCEPT !.dots = @ + 1, !.len = @ + 1] ELSE l

Lines   == Len(body) + 1
Wire(i) == IF i = Lines THEN Terminator ELSE Stuff(body[i])
----------------------------------------------------------------------------
Init ==
    /\ mode \in Mode /\ body \in Bodies
    /\ IF mode = "relay" THEN step = "next" /\ todo = {Self} ELSE step = "lookup" /\ todo = {}
    /\ current = NoHost /\ temporary = FALSE /\ result = "none"
    /\ failed = [h \in Host |-> "no"] /\ unsure = {}
    /\ server = [h \in Host |-> NoConnection]
    /\ copies = [h \in Host |-> <<>>]

\* Mutant: the empty answer is not looked for.
MutantFound(found) == IF found = {} THEN {NoHost} ELSE found

\* Without a record, the domain itself.
Found(found) == IF found = {} THEN {Self} ELSE found

Done(outcome) == step' = "done" /\ result' = outcome

\* The recipient is no address, which is for good; the answer does not come;
\* or it comes.
lookupMX ==
    /\ step = "lookup"
    /\ \/ \E outcome \in {"temporary", "permanent"} : Done(outcome) /\ todo' = {}
       \/ /\ \E found \in SUBSET Host : todo' = Found(found)
          /\ step' = "next" /\ UNCHANGED result
    /\ UNCHANGED <<mode, body, current, temporary, failed, unsure, server, copies>>

\* Mutant: the last failure decides.
MutantWorst(t) == t

Worst(t) == temporary \/ t

\* The attempt at a host fails.
Fails(h, t) ==
    /\ failed' = [failed EXCEPT ![h] = IF t THEN "temporarily" ELSE "for good"]
    /\ temporary' = Worst(t)
    /\ step' = "next"
    /\ UNCHANGED result

\* sort.SliceStable: equals in any order.
Preferred(h) == h \in todo /\ \A g \in todo : Pref[h] <= Pref[g]

Dial(h) ==
    /\ step = "next" /\ Preferred(h)
    /\ todo' = todo \ {h} /\ current' = h
    /\ \/ /\ h \in Null
          /\ Done("permanent")
          /\ UNCHANGED <<temporary, failed, server>>
       \/ /\ h \notin Null
          /\ \E t \in BOOLEAN : (mode = "direct" => t) /\ Fails(h, t)
          /\ UNCHANGED server
       \/ /\ h \notin Null
          /\ step' = "dialog"
          /\ server' = [server EXCEPT ![h] = [NoConnection EXCEPT !.stage = "command"]]
          /\ UNCHANGED <<temporary, result, failed>>
    /\ UNCHANGED <<mode, body, unsure, copies>>

NoHostLeft ==
    /\ step = "next" /\ todo = {}
    /\ Done(IF temporary THEN "temporary" ELSE "permanent")
    /\ UNCHANGED <<mode, body, todo, current, temporary, failed, unsure, server, copies>>

\* Greeting, STARTTLS, AUTH, 8BITMIME, MAIL, RCPT or DATA is refused or not
\* to be had, or the connection breaks.
Refused ==
    /\ step = "dialog"
    /\ \E t \in BOOLEAN : Fails(current, t)
    /\ server' = [server EXCEPT ![current].stage = "closed"]
    /\ UNCHANGED <<mode, body, todo, current, unsure, copies>>

\* DATA is accepted, and the sender writes.
Data ==
    /\ step = "dialog"
    /\ step' = "answer"
    /\ server' = [server EXCEPT ![current].stage = "data", ![current].upto = Lines]
    /\ UNCHANGED <<mode, body, todo, current, temporary, result, failed, unsure, copies>>

\* The connection breaks or the time is over; so many lines get through.
GiveUp ==
    /\ step = "answer"
    /\ \E t \in BOOLEAN : Fails(current, t)
    /\ \E n \in server[current].pos..Lines :
          /\ server' = [server EXCEPT ![current].upto = n]
          /\ unsure' = IF n = Lines THEN unsure \cup {current} ELSE unsure
    /\ UNCHANGED <<mode, body, todo, current, copies>>

\* Mutant: what QUIT returns is what Send returns.
MutantQuitCounts ==
    /\ step = "answer" /\ server[current].reply # 0
    /\ \/ server[current].reply = 250 /\ Done("ok") /\ UNCHANGED <<temporary, failed>>
       \/ Fails(current, server[current].reply < 500)
    /\ UNCHANGED <<mode, body, todo, current, unsure, server, copies>>

Answer ==
    /\ step = "answer" /\ server[current].reply # 0
    /\ IF server[current].reply = 250
       THEN Done("ok") /\ UNCHANGED <<temporary, failed>>
       ELSE Fails(current, server[current].reply < 500)
    /\ UNCHANGED <<mode, body, todo, current, unsure, server, copies>>
----------------------------------------------------------------------------
\* Mutant: dots stay as they come.
MutantUnstuff(l) == l

Unstuff(l) == IF l.dots > 1 THEN [l EXCEPT !.dots = @ - 1, !.len = @ - 1] ELSE l

overlong(l) == l.len + 2 > MaxLine

Reading(h) == server[h].stage = "data" /\ server[h].pos < server[h].upto

\* Mutant: a body that is too large is not read to its end.
MutantAfter(s) == IF s.tooLarge THEN [s EXCEPT !.stage = "command", !.reply = 552] ELSE s

\* The loop goes on.
After(s) == s

\* A line too long to be looked at counts, and is dropped.
SkipLine(h) ==
    LET s == server[h]  l == Wire(s.pos + 1) IN
    /\ Reading(h) /\ overlong(l)
    /\ server' = [server EXCEPT ![h] =
         After([s EXCEPT !.pos = @ + 1, !.tooLong = TRUE, !.total = @ + l.len + 2,
                         !.tooLarge = @ \/ s.total + l.len + 2 > MaxSize])]
    /\ UNCHANGED <<mode, body, sender, copies>>

\* A line of the body is kept while there is room.
ReadLine(h) ==
    LET s == server[h]  l == Unstuff(Wire(s.pos + 1))  total == s.total + l.len + 2 IN
    /\ Reading(h) /\ ~overlong(Wire(s.pos + 1)) /\ Wire(s.pos + 1) # Terminator /\ ~l.cr
    /\ server' = [server EXCEPT ![h] =
         After([s EXCEPT !.pos = @ + 1, !.total = total,
                         !.tooLarge = @ \/ total > MaxSize,
                         !.buffer = IF total > MaxSize THEN @ ELSE Append(@, l)])]
    /\ UNCHANGED <<mode, body, sender, copies>>

\* A bare carriage return, or the end of what gets through: the connection
\* is closed, with an answer or without.
HangUp(h) ==
    LET s == server[h] IN
    /\ s.stage = "data"
    /\ \/ Reading(h) /\ ~overlong(Wire(s.pos + 1)) /\ Wire(s.pos + 1).cr
       \/ s.pos = s.upto /\ s.upto < Lines
    /\ server' = [server EXCEPT ![h] = [@ EXCEPT !.stage = "closed", !.reply = 451]]
    /\ UNCHANGED <<mode, body, sender, copies>>

\* The size is reported before the line; without either the message is
\* stored, or the store fails.
Verdict(s) == IF s.tooLarge THEN {552} ELSE IF s.tooLong THEN {554} ELSE {250, 451}

\* Mutant: what fails after the message was stored is a failure to store it.
MutantStores(code) == code \in {250, 451}

\* The answer after which there is a copy.
Stores(code) == code = 250

EndOfData(h) ==
    LET s == server[h] IN
    /\ Reading(h) /\ Wire(s.pos + 1) = Terminator
    /\ \E code \in Verdict(s) :
          /\ server' = [server EXCEPT ![h].stage = "command", ![h].pos = @ + 1, ![h].reply = code]
          /\ copies' = IF Stores(code) THEN [copies EXCEPT ![h] = Append(@, s.buffer)] ELSE copies
    /\ UNCHANGED <<mode, body, sender>>

readDataBlockLimit(h) == SkipLine(h) \/ ReadLine(h) \/ HangUp(h) \/ EndOfData(h)

Send == lookupMX \/ (\E h \in Host : Dial(h)) \/ NoHostLeft \/ Refused \/ Data \/ GiveUp \/ Answer

Next == Send \/ \E h \in Host : readDataBlockLimit(h)

Spec == Init /\ [][Next]_vars
----------------------------------------------------------------------------
Reply == {0, 250, 451, 552, 554}

Connection ==
    [stage : {"closed", "command", "data"}, pos : Nat, upto : Nat, buffer : Seq(Line),
     total : Nat, tooLarge : BOOLEAN, tooLong : BOOLEAN, reply : Reply]

TypeOK ==
    /\ mode \in Mode /\ body \in Bodies
    /\ step \in {"lookup", "next", "dialog", "answer", "done"}
    /\ todo \subseteq Host /\ current \in Host \cup {NoHost}
    /\ step \in {"dialog", "answer"} => current \in Host
    /\ temporary \in BOOLEAN /\ result \in {"none", "ok", "temporary", "permanent"}
    /\ failed \in [Host -> {"no", "temporarily", "for good"}] /\ unsure \subseteq Host
    /\ server \in [Host -> Connection] /\ copies \in [Host -> Seq(Seq(Line))]

(* server.go:363-408.  A server that is back at reading commands has read   *)
(* the body to its end, whatever was wrong with it: no line of a body is    *)
(* taken for a command.                                                     *)
InStep == \A h \in Host : server[h].stage = "command" => server[h].pos \in {0, Lines}

(* server.go:363-408.  What is stored is the report, line for line, and     *)
(* within the limit; a body of which a line was dropped is never stored.    *)
StoredIntact ==
    \A h \in Host : copies[h] # <<>> =>
        copies[h] = <<body>> /\ server[h].total <= MaxSize

(* outbound.go:90-113, 211-229.  A Send that says it delivered has, at the  *)
(* host it tried last; a host that it takes to have failed has a copy only  *)
(* if it was sent everything and its answer was lost.                       *)
CopiesAccounted ==
    /\ result = "ok" => copies[current] # <<>>
    /\ \A h \in Host : copies[h] # <<>> /\ failed[h] # "no" => h \in unsure
    /\ \A h \in Host : copies[h] # <<>> =>
          failed[h] # "no" \/ (h = current /\ step \in {"answer", "done"})

(* outbound.go:90-113.  A Send fails for good only if every host did, or at *)
(* a null MX; if it fails for now, a host or the lookup did.                *)
Classified ==
    /\ result = "permanent" =>
          current \in Null \/ (todo = {} /\ \A h \in Host : failed[h] # "temporarily")
    /\ result = "temporary" /\ current # NoHost =>
          \E h \in Host : failed[h] = "temporarily"

Handover == INSTANCE ReportHandover WITH
    Nobody  <- NoHost,
    asking  <- IF step = "answer" THEN current ELSE NoHost,
    left    <- {h \in Host : failed[h] # "no"},
    unheard <- unsure,
    taken   <- {h \in Host : copies[h] # <<>>},
    verdict <- result

(* outbound.go:65-118, 187-231 with server.go:363-408.  A Send over its     *)
(* hosts and their connections keeps the promise of ReportHandover, which   *)
(* the queue relies on when it counts copies.                               *)
ImplementsHandover == Handover!HandoverSpec
=============================================================================
