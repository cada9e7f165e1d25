------------------------ MODULE ReportDelivery_proofs ------------------------
(***************************************************************************)
(* Proofs about ReportDelivery, for every set of hosts, every order of     *)
(* preference, every report and every limit.                               *)
(***************************************************************************)
EXTENDS ReportDelivery, SequenceTheorems, TLAPS

\* A host that has not been tried.
Untried(h) == server[h] = NoConnection /\ copies[h] = <<>> /\ failed[h] = "no"

(* Where the sender is, and what that says of the host it is at.           *)
Placed ==
    /\ step = "lookup" => current = NoHost /\ ~temporary /\ \A h \in Host : Untried(h)
    /\ \A h \in todo : Untried(h)
    /\ step = "dialog" =>
          /\ server[current] = [NoConnection EXCEPT !.stage = "command"]
          /\ copies[current] = <<>>
    /\ step \in {"dialog", "answer"} => current \notin todo /\ failed[current] = "no"
    /\ step # "done" => result = "none"

(* What a server has of the body while nothing was wrong with it.          *)
Faithful(s) ==
    /\ ~s.tooLarge => s.total <= MaxSize
    /\ s.stage = "data" /\ ~s.tooLarge /\ ~s.tooLong =>
          /\ Len(s.buffer) = s.pos
          /\ \A i \in 1..s.pos : s.buffer[i] = body[i]

(* The connection of a host, its copies, and what the sender makes of it.  *)
Channel(h) ==
    LET s == server[h] IN
    /\ s.pos <= s.upto /\ s.upto <= Lines
    /\ s.stage = "command" => s.pos \in {0, Lines}
    /\ s.stage = "data" =>
          /\ s.pos < Lines /\ s.reply = 0 /\ copies[h] = <<>>
          /\ failed[h] # "no" \/ (h = current /\ step = "answer")
          /\ s.upto = Lines => h \in unsure \/ (h = current /\ step = "answer")
    /\ copies[h] # <<>> =>
          /\ copies[h] = <<body>> /\ s.total <= MaxSize
          /\ s.pos = Lines /\ s.upto = Lines
          /\ failed[h] # "no" => h \in unsure
          /\ failed[h] = "no" => h = current /\ step \in {"answer", "done"}
    /\ (s.reply = 250) <=> (copies[h] # <<>>)
    /\ Faithful(s)

Channels == \A h \in Host : Channel(h)

(* What the answer of Send is made from (outbound.go:90-113).              *)
Judged ==
    /\ temporary <=> \E h \in Host : failed[h] = "temporarily"
    /\ result = "ok" => current \in Host /\ copies[current] # <<>>
    /\ Classified

-----------------------------------------------------------------------------
LEMMA Constants ==
    /\ Self \in Host /\ NoHost \notin Host /\ Pref \in [Host -> Nat]
    /\ Mode \subseteq {"direct", "relay"}
    /\ Bodies \subseteq Seq(Line) /\ MaxLine \in Nat /\ MaxSize \in Nat
  BY DeliveryAssumption

LEMMA NoConnectionType ==
    /\ NoConnection \in Connection
    /\ [NoConnection EXCEPT !.stage = "command"] \in Connection
  <1>1. <<>> \in Seq(Line)
    OBVIOUS
  <1>2. NoConnection \in Connection
    BY <1>1 DEF NoConnection, Connection, Reply
  <1>3. [NoConnection EXCEPT !.stage = "command"] \in Connection
    BY <1>2 DEF Connection
  <1>4. QED
    BY <1>2, <1>3

LEMMA LineFacts ==
    ASSUME NEW l \in Line, l.dots <= l.len
    PROVE  /\ Stuff(l) \in Line /\ Stuff(l).dots <= Stuff(l).len
           /\ Unstuff(l) \in Line
           /\ Unstuff(Stuff(l)) = l /\ Stuff(l) # Terminator
  <1>1. l.dots \in Nat /\ l.len \in Nat /\ l.cr \in BOOLEAN
        /\ l = [dots |-> l.dots, len |-> l.len, cr |-> l.cr]
    BY DEF Line
  <1>2. Stuff(l) = [dots |-> IF l.dots > 0 THEN l.dots + 1 ELSE l.dots,
                    len |-> IF l.dots > 0 THEN l.len + 1 ELSE l.len, cr |-> l.cr]
    BY <1>1 DEF Stuff
  <1>3. Stuff(l) \in Line /\ Stuff(l).dots # 1 /\ Stuff(l).dots <= Stuff(l).len
    BY <1>1, <1>2 DEF Line
  <1>4. ASSUME NEW k \in Line
        PROVE  Unstuff(k) = [dots |-> IF k.dots > 1 THEN k.dots - 1 ELSE k.dots,
                             len |-> IF k.dots > 1 THEN k.len - 1 ELSE k.len, cr |-> k.cr]
    <2>1. k.dots \in Nat /\ k.len \in Nat /\ k.cr \in BOOLEAN
          /\ k = [dots |-> k.dots, len |-> k.len, cr |-> k.cr]
      BY DEF Line
    <2>2. QED
      BY <2>1 DEF Unstuff
  <1>5. Unstuff(Stuff(l)) = l
    <2>1. Unstuff(Stuff(l)) = [dots |-> IF Stuff(l).dots > 1 THEN Stuff(l).dots - 1 ELSE Stuff(l).dots,
             len |-> IF Stuff(l).dots > 1 THEN Stuff(l).len - 1 ELSE Stuff(l).len, cr |-> Stuff(l).cr]
      BY <1>3, <1>4
    <2>2. /\ Stuff(l).dots = IF l.dots > 0 THEN l.dots + 1 ELSE l.dots
          /\ Stuff(l).len = IF l.dots > 0 THEN l.len + 1 ELSE l.len
          /\ Stuff(l).cr = l.cr
      BY <1>2
    <2>3. QED
      BY <1>1, <2>1, <2>2
  <1>6. Unstuff(l) \in Line
    BY <1>1, <1>4 DEF Line
  <1>7. QED
    BY <1>3, <1>5, <1>6 DEF Terminator

LEMMA WireFacts ==
    ASSUME body \in Bodies, NEW i \in 1..Lines
    PROVE  /\ Wire(i) \in Line /\ Unstuff(Wire(i)) \in Line
           /\ (Wire(i) = Terminator) <=> (i = Lines)
           /\ i # Lines => i \in 1..Len(body) /\ Unstuff(Wire(i)) = body[i]
  <1>1. body \in Seq(Line)
    BY Constants
  <1>2. Len(body) \in Nat /\ Lines = Len(body) + 1
    BY <1>1 DEF Lines
  <1>3. Terminator \in Line /\ Unstuff(Terminator) = Terminator
    BY DEF Terminator, Line, Unstuff
  <1>4. CASE i = Lines
    BY <1>3, <1>4 DEF Wire
  <1>5. CASE i # Lines
    <2>1. i \in 1..Len(body) /\ Wire(i) = Stuff(body[i])
      BY <1>2, <1>5 DEF Wire
    <2>2. body[i] \in Line /\ body[i].dots <= body[i].len
      BY <1>1, <2>1, DeliveryAssumption
    <2>3. /\ Stuff(body[i]) \in Line /\ Stuff(body[i]) # Terminator
          /\ Unstuff(Stuff(body[i])) = body[i]
      BY <2>2, LineFacts
    <2>4. QED
      BY <1>5, <2>1, <2>2, <2>3
  <1>6. QED
    BY <1>4, <1>5

(* Connections that differ in a part of their record.                      *)
LEMMA ConnectionFields ==
    ASSUME NEW s \in Connection
    PROVE  /\ s.stage \in {"closed", "command", "data"}
           /\ s.pos \in Nat /\ s.upto \in Nat /\ s.buffer \in Seq(Line) /\ s.total \in Nat
           /\ s.tooLarge \in BOOLEAN /\ s.tooLong \in BOOLEAN
           /\ s.reply \in Reply
  BY DEF Connection

LEMMA Closed ==
    ASSUME NEW s \in Connection
    PROVE  [s EXCEPT !.stage = "closed"] \in Connection
  BY DEF Connection

LEMMA HungUp ==
    ASSUME NEW s \in Connection, NEW reply \in Reply
    PROVE  [s EXCEPT !.stage = "closed", !.reply = reply] \in Connection
  BY DEF Connection

LEMMA Ended ==
    ASSUME NEW s \in Connection, NEW pos \in Nat, NEW reply \in Reply
    PROVE  [s EXCEPT !.stage = "command", !.pos = pos, !.reply = reply] \in Connection
  BY DEF Connection

LEMMA Sent ==
    ASSUME NEW s \in Connection, NEW upto \in Nat
    PROVE  /\ [s EXCEPT !.upto = upto] \in Connection
           /\ [s EXCEPT !.stage = "data", !.upto = upto] \in Connection
  <1>1. [s EXCEPT !.upto = upto] \in Connection
    BY DEF Connection
  <1>2. [s EXCEPT !.stage = "data", !.upto = upto] \in Connection
    BY DEF Connection
  <1>3. QED
    BY <1>1, <1>2

LEMMA Received ==
    ASSUME NEW s \in Connection, NEW pos \in Nat, NEW total \in Nat, NEW large \in BOOLEAN,
           NEW b \in Seq(Line)
    PROVE  /\ [s EXCEPT !.pos = pos, !.tooLong = TRUE, !.total = total, !.tooLarge = large]
                  \in Connection
           /\ [s EXCEPT !.pos = pos, !.total = total, !.tooLarge = large, !.buffer = b]
                  \in Connection
  <1>1. [s EXCEPT !.pos = pos, !.tooLong = TRUE, !.total = total, !.tooLarge = large] \in Connection
    BY DEF Connection
  <1>2. [s EXCEPT !.pos = pos, !.total = total, !.tooLarge = large, !.buffer = b] \in Connection
    BY DEF Connection
  <1>3. QED
    BY <1>1, <1>2

LEMMA InitTyped == Init => TypeOK
  <1> SUFFICES ASSUME Init PROVE TypeOK
    OBVIOUS
  <1>1. server \in [Host -> Connection] /\ copies \in [Host -> Seq(Seq(Line))]
    <2>1. <<>> \in Seq(Seq(Line))
      OBVIOUS
    <2>2. QED
      BY <2>1, NoConnectionType DEF Init
  <1>2. failed \in [Host -> {"no", "temporarily", "for good"}]
    BY DEF Init
  <1>3. QED
    BY <1>1, <1>2, Constants DEF Init, TypeOK

\* The steps of the sender.
LEMMA SendTyped ==
    ASSUME TypeOK, Send
    PROVE  TypeOK'
  <1>a. ASSUME NEW h \in Host, NEW t \in BOOLEAN, Fails(h, t)
        PROVE  /\ failed' \in [Host -> {"no", "temporarily", "for good"}]
               /\ temporary' \in BOOLEAN /\ step' = "next" /\ result' = result
    BY <1>a DEF Fails, Worst, TypeOK
  <1>b. \A h \in Host : server[h] \in Connection
    BY DEF TypeOK
  <1>c. Lines \in Nat
    <2>1. body \in Seq(Line)
      BY Constants DEF TypeOK
    <2>2. QED
      BY <2>1 DEF Lines
  <1>1. CASE lookupMX
    <2>1. todo' \subseteq Host
      BY <1>1, Constants DEF lookupMX, Found, TypeOK
    <2>2. QED
      BY <1>1, <2>1 DEF lookupMX, Done, TypeOK
  <1>2. ASSUME NEW h \in Host, Dial(h) PROVE TypeOK'
    <2>1. CASE /\ Done("permanent") /\ UNCHANGED <<temporary, failed, server>>
      BY <1>2, <2>1 DEF Dial, Done, TypeOK
    <2>2. ASSUME NEW t \in BOOLEAN, Fails(h, t), UNCHANGED server PROVE TypeOK'
      BY <1>2, <1>a, <2>2 DEF Dial, TypeOK
    <2>3. CASE /\ step' = "dialog"
               /\ server' = [server EXCEPT ![h] = [NoConnection EXCEPT !.stage = "command"]]
               /\ UNCHANGED <<temporary, result, failed>>
      BY <1>2, <2>3, NoConnectionType DEF Dial, TypeOK
    <2>4. QED
      BY <1>2, <2>1, <2>2, <2>3 DEF Dial
  <1>3. CASE NoHostLeft
    BY <1>3 DEF NoHostLeft, Done, TypeOK
  <1>4. CASE Refused
    <2>1. PICK t \in BOOLEAN : Fails(current, t)
      BY <1>4 DEF Refused
    <2>2. current \in Host
      BY <1>4 DEF Refused, TypeOK
    <2>3. server' \in [Host -> Connection]
      <3>1. server' = [server EXCEPT ![current] = [server[current] EXCEPT !.stage = "closed"]]
        BY <1>4 DEF Refused
      <3>2. QED
        BY <1>b, <2>2, <3>1, Closed DEF TypeOK
    <2>4. QED
      BY <1>4, <1>a, <2>1, <2>2, <2>3 DEF Refused, TypeOK
  <1>5. CASE Data
    <2>1. current \in Host
      BY <1>5 DEF Data, TypeOK
    <2>2. server' \in [Host -> Connection]
      <3>1. server' = [server EXCEPT ![current] =
                         [server[current] EXCEPT !.stage = "data", !.upto = Lines]]
        BY <1>5, <2>1 DEF Data, TypeOK
      <3>2. QED
        BY <1>b, <1>c, <2>1, <3>1, Sent DEF TypeOK
    <2>3. QED
      BY <1>5, <2>1, <2>2 DEF Data, TypeOK
  <1>6. CASE GiveUp
    <2>1. PICK t \in BOOLEAN : Fails(current, t)
      BY <1>6 DEF GiveUp
    <2>2. current \in Host
      BY <1>6 DEF GiveUp, TypeOK
    <2>3. PICK n \in server[current].pos..Lines :
             /\ server' = [server EXCEPT ![current].upto = n]
             /\ unsure' = IF n = Lines THEN unsure \cup {current} ELSE unsure
      BY <1>6 DEF GiveUp
    <2>4. n \in Nat
      BY <1>b, <1>c, <2>2, ConnectionFields
    <2>5. server' \in [Host -> Connection]
      <3>1. server' = [server EXCEPT ![current] = [server[current] EXCEPT !.upto = n]]
        BY <2>3
      <3>2. QED
        BY <1>b, <2>2, <2>4, <3>1, Sent DEF TypeOK
    <2>6. unsure' \subseteq Host
      BY <2>2, <2>3 DEF TypeOK
    <2>7. QED
      BY <1>6, <1>a, <2>1, <2>2, <2>5, <2>6 DEF GiveUp, TypeOK
  <1>7. CASE Answer
    <2>1. current \in Host
      BY <1>7 DEF Answer, TypeOK
    <2>2. CASE Done("ok") /\ UNCHANGED <<temporary, failed>>
      BY <1>7, <2>2 DEF Answer, Done, TypeOK
    <2>3. CASE Fails(current, server[current].reply < 500)
      <3> DEFINE t == server[current].reply < 500
      <3>1. t \in BOOLEAN /\ Fails(current, t)
        BY <2>3
      <3> HIDE DEF t
      <3>2. /\ failed' \in [Host -> {"no", "temporarily", "for good"}]
            /\ temporary' \in BOOLEAN /\ step' = "next" /\ result' = result
        BY <1>a, <2>1, <3>1
      <3>3. UNCHANGED <<mode, body, todo, current, unsure, server, copies>>
        BY <1>7 DEF Answer
      <3>4. QED
        BY <3>2, <3>3 DEF TypeOK
    <2>4. QED
      BY <1>7, <2>2, <2>3 DEF Answer
  <1>8. QED
    BY <1>1, <1>2, <1>3, <1>4, <1>5, <1>6, <1>7 DEF Send

\* The next line on the wire, while a server reads.
LEMMA NextLine ==
    ASSUME TypeOK, Channels, NEW h \in Host, Reading(h)
    PROVE  /\ body \in Seq(Line) /\ Len(body) \in Nat /\ Lines = Len(body) + 1
           /\ server[h].pos \in Nat /\ server[h].pos + 1 \in 1..Lines
           /\ Wire(server[h].pos + 1) \in Line
           /\ Unstuff(Wire(server[h].pos + 1)) \in Line
  <1>1. body \in Bodies /\ body \in Seq(Line)
    BY Constants DEF TypeOK
  <1>2. Len(body) \in Nat /\ Lines = Len(body) + 1
    BY <1>1 DEF Lines
  <1>3. server[h].pos \in Nat /\ server[h].upto \in Nat
    BY ConnectionFields DEF TypeOK
  <1>4. server[h].pos + 1 \in 1..Lines
    BY <1>2, <1>3 DEF Reading, Channels, Channel
  <1>5. QED
    BY <1>1, <1>2, <1>3, <1>4, WireFacts

\* The steps of a server that reads the body.
LEMMA ReadTyped ==
    ASSUME TypeOK, Channels, NEW h \in Host, readDataBlockLimit(h)
    PROVE  TypeOK'
  <1>a. /\ server[h] \in Connection
        /\ server[h].buffer \in Seq(Line) /\ server[h].total \in Nat /\ server[h].pos \in Nat
        /\ server[h].tooLarge \in BOOLEAN /\ server[h].pos + 1 \in Nat
    <2>1. server[h] \in Connection
      BY DEF TypeOK
    <2>2. QED
      BY <2>1, ConnectionFields
  <1>1. CASE SkipLine(h)
    <2> DEFINE l == Wire(server[h].pos + 1)
    <2>1. l.len \in Nat
      BY <1>1, NextLine DEF SkipLine, Line
    <2>2. server[h].total + l.len + 2 \in Nat
      BY <1>a, <2>1
    <2>3. server' = [server EXCEPT ![h] =
             [server[h] EXCEPT !.pos = server[h].pos + 1, !.tooLong = TRUE,
                 !.total = server[h].total + l.len + 2,
                 !.tooLarge = server[h].tooLarge \/ server[h].total + l.len + 2 > MaxSize]]
      BY <1>1 DEF SkipLine, After
    <2> HIDE DEF l
    <2>a. (server[h].tooLarge \/ server[h].total + l.len + 2 > MaxSize) \in BOOLEAN
      BY <1>a
    <2>4. server' \in [Host -> Connection]
      BY <1>a, <2>2, <2>3, <2>a, Received DEF TypeOK
    <2>5. QED
      BY <1>1, <2>4 DEF SkipLine, sender, TypeOK
  <1>2. CASE ReadLine(h)
    <2> DEFINE l == Unstuff(Wire(server[h].pos + 1))
               total == server[h].total + l.len + 2
    <2>1. l \in Line /\ l.len \in Nat
      BY <1>2, NextLine DEF ReadLine, Line
    <2>2. total \in Nat /\ Append(server[h].buffer, l) \in Seq(Line)
      BY <1>a, <2>1
    <2>3. server' = [server EXCEPT ![h] =
             [server[h] EXCEPT !.pos = server[h].pos + 1, !.total = total,
                 !.tooLarge = server[h].tooLarge \/ total > MaxSize,
                 !.buffer = IF total > MaxSize THEN server[h].buffer
                            ELSE Append(server[h].buffer, l)]]
      BY <1>2 DEF ReadLine, After
    <2> HIDE DEF l, total
    <2>a. /\ (server[h].tooLarge \/ total > MaxSize) \in BOOLEAN
          /\ (IF total > MaxSize THEN server[h].buffer ELSE Append(server[h].buffer, l)) \in Seq(Line)
      BY <1>a, <2>2
    <2>4. server' \in [Host -> Connection]
      BY <1>a, <2>2, <2>3, <2>a, Received DEF TypeOK
    <2>5. QED
      BY <1>2, <2>4 DEF ReadLine, sender, TypeOK
  <1>3. CASE HangUp(h)
    <2>1. server' \in [Host -> Connection]
      <3>1. PICK code \in Reply : code = 451
        BY DEF Reply
      <3>2. server' = [server EXCEPT ![h] =
                         [server[h] EXCEPT !.stage = "closed", !.reply = code]]
        BY <1>3, <3>1 DEF HangUp
      <3>3. QED
        BY <1>a, <3>2, HungUp DEF TypeOK
    <2>2. QED
      BY <1>3, <2>1 DEF HangUp, sender, TypeOK
  <1>4. CASE EndOfData(h)
    <2>1. PICK code \in Verdict(server[h]) :
             /\ server' = [server EXCEPT ![h].stage = "command", ![h].pos = @ + 1, ![h].reply = code]
             /\ copies' = IF Stores(code) THEN [copies EXCEPT ![h] = Append(@, server[h].buffer)]
                          ELSE copies
      BY <1>4 DEF EndOfData
    <2>2. code \in Reply
      BY DEF Verdict, Reply
    <2>3. server' \in [Host -> Connection]
      <3>1. server' = [server EXCEPT ![h] = [server[h] EXCEPT !.stage = "command",
                         !.pos = server[h].pos + 1, !.reply = code]]
        BY <2>1 DEF TypeOK
      <3>2. QED
        BY <1>a, <2>2, <3>1, Ended DEF TypeOK
    <2>4. copies[h] \in Seq(Seq(Line))
      BY DEF TypeOK
    <2>5. Append(copies[h], server[h].buffer) \in Seq(Seq(Line))
      BY <1>a, <2>4
    <2>6. copies' \in [Host -> Seq(Seq(Line))]
      BY <2>1, <2>5 DEF TypeOK
    <2>7. QED
      BY <1>4, <2>3, <2>6 DEF EndOfData, sender, TypeOK
  <1>5. QED
    BY <1>1, <1>2, <1>3, <1>4 DEF readDataBlockLimit

-----------------------------------------------------------------------------
LEMMA Beginnings ==
    /\ NoConnection.stage = "closed" /\ NoConnection.pos = 0 /\ NoConnection.upto = 0
    /\ NoConnection.buffer = <<>> /\ NoConnection.total = 0 /\ NoConnection.reply = 0
    /\ NoConnection.tooLarge = FALSE /\ NoConnection.tooLong = FALSE
  BY DEF NoConnection

\* A host to which nothing was sent yet.
LEMMA QuietChannel ==
    ASSUME NEW h \in Host, Lines' \in Nat, copies'[h] = <<>>,
           server'[h].pos = 0, server'[h].upto = 0, server'[h].reply = 0,
           server'[h].stage # "data", server'[h].total = 0
    PROVE  Channel(h)'
  BY Constants DEF Channel, Faithful

\* A host that the sender has left, or never came to.
LEMMA LeftChannel ==
    ASSUME NEW h \in Host, Channel(h), ~(h = current /\ step \in {"answer", "done"}),
           body' = body, server'[h] = server[h], copies'[h] = copies[h],
           failed'[h] = failed[h], h \in unsure => h \in unsure'
    PROVE  Channel(h)'
  BY DEF Channel, Faithful, Lines

LEMMA LinesType == ASSUME TypeOK PROVE Lines \in Nat /\ Lines > 0 /\ Lines = Len(body) + 1
  <1>1. body \in Seq(Line)
    BY Constants DEF TypeOK
  <1>2. QED
    BY <1>1 DEF Lines

LEMMA InitInvariant == Init => Placed /\ Channels /\ Judged
  <1> SUFFICES ASSUME Init PROVE Placed /\ Channels /\ Judged
    OBVIOUS
  <1>0. \A h \in Host : server[h] = NoConnection /\ copies[h] = <<>> /\ failed[h] = "no"
    BY DEF Init
  <1>1. Placed
    <2>1. step \in {"lookup", "next"} /\ todo \subseteq Host /\ result = "none"
          /\ (step = "lookup" => current = NoHost /\ ~temporary)
      BY Constants DEF Init
    <2>2. QED
      BY <1>0, <2>1 DEF Placed, Untried
  <1>2. Channels
    <2>1. Lines \in Nat
      BY InitTyped, LinesType
    <2> SUFFICES ASSUME NEW h \in Host PROVE Channel(h)
      BY DEF Channels
    <2>2. server[h] = NoConnection /\ copies[h] = <<>>
      BY <1>0
    <2>3. Faithful(server[h])
      BY <2>2, Beginnings, Constants DEF Faithful
    <2>4. QED
      BY <2>1, <2>2, <2>3, Beginnings DEF Channel
  <1>3. Judged
    BY Constants DEF Init, Judged, Classified
  <1>4. QED
    BY <1>1, <1>2, <1>3

LEMMA FailsFacts ==
    ASSUME TypeOK, NEW h \in Host, NEW t \in BOOLEAN, Fails(h, t)
    PROVE  /\ failed'[h] = IF t THEN "temporarily" ELSE "for good"
           /\ \A g \in Host : g # h => failed'[g] = failed[g]
           /\ temporary' <=> temporary \/ t
           /\ step' = "next" /\ result' = result
  BY DEF Fails, Worst, TypeOK

(* The sender moves, and with it what is known of the hosts.               *)
LEMMA SendChannels ==
    ASSUME TypeOK, Placed, Channels, Send
    PROVE  Channels'
  <1> SUFFICES ASSUME NEW h \in Host PROVE Channel(h)'
    BY DEF Channels
  <1>0. /\ Channel(h) /\ Lines \in Nat /\ Lines > 0 /\ body' = body /\ Lines' = Lines
        /\ server[h] \in Connection
    BY LinesType
       DEF Channels, TypeOK, Send, lookupMX, Dial, NoHostLeft, Refused, Data, GiveUp, Answer, Lines
  <1>1. CASE lookupMX \/ NoHostLeft
    BY <1>0, <1>1, LeftChannel DEF lookupMX, NoHostLeft
  <1>2. ASSUME NEW g \in Host, Dial(g) PROVE Channel(h)'
    <2>1. step = "next" /\ Untried(g) /\ copies' = copies /\ unsure' = unsure
      BY <1>2 DEF Dial, Preferred, Placed
    <2>2. CASE h = g
      <3>1. \/ server'[h] = NoConnection
            \/ server'[h] = [NoConnection EXCEPT !.stage = "command"]
        BY <1>2, <2>1, <2>2 DEF Dial, Untried, TypeOK
      <3>2. /\ server'[h].pos = 0 /\ server'[h].upto = 0 /\ server'[h].reply = 0
            /\ server'[h].stage # "data" /\ server'[h].total = 0
        BY <3>1 DEF NoConnection
      <3>3. QED
        BY <1>0, <2>1, <2>2, <3>2, QuietChannel DEF Untried
    <2>3. CASE h # g
      <3>1. server'[h] = server[h]
        BY <1>2, <2>3 DEF Dial, TypeOK
      <3>2. failed'[h] = failed[h]
        BY <1>2, <2>3, FailsFacts DEF Dial
      <3>3. QED
        BY <1>0, <2>1, <3>1, <3>2, LeftChannel
    <2>4. QED
      BY <2>2, <2>3
  <1>3. CASE Refused
    <2>1. PICK t \in BOOLEAN : Fails(current, t)
      BY <1>3 DEF Refused
    <2>2. step = "dialog" /\ current \in Host /\ copies' = copies /\ unsure' = unsure
      BY <1>3 DEF Refused, TypeOK
    <2>3. server' = [server EXCEPT ![current].stage = "closed"]
      BY <1>3 DEF Refused
    <2>4. CASE h = current
      <3>1. server[h] = [NoConnection EXCEPT !.stage = "command"] /\ copies[h] = <<>>
        BY <2>2, <2>4 DEF Placed
      <3>2. server'[h] = [server[h] EXCEPT !.stage = "closed"]
        BY <2>2, <2>3, <2>4 DEF TypeOK
      <3>3. /\ server'[h].pos = 0 /\ server'[h].upto = 0 /\ server'[h].reply = 0
            /\ server'[h].stage # "data" /\ server'[h].total = 0
        BY <3>1, <3>2 DEF NoConnection
      <3>4. QED
        BY <1>0, <2>2, <3>1, <3>3, QuietChannel
    <2>5. CASE h # current
      <3>1. server'[h] = server[h] /\ failed'[h] = failed[h]
        BY <2>1, <2>2, <2>3, <2>5, FailsFacts DEF TypeOK
      <3>2. QED
        BY <1>0, <2>2, <2>5, <3>1, LeftChannel
    <2>6. QED
      BY <2>4, <2>5
  <1>4. CASE Data
    <2>1. /\ step = "dialog" /\ step' = "answer" /\ current \in Host /\ current' = current
          /\ copies' = copies /\ unsure' = unsure /\ failed' = failed
          /\ server' = [server EXCEPT ![current].stage = "data", ![current].upto = Lines]
      BY <1>4 DEF Data, TypeOK
    <2>2. CASE h = current
      <3>1. server[h] = [NoConnection EXCEPT !.stage = "command"] /\ copies[h] = <<>>
        BY <2>1, <2>2 DEF Placed
      <3>2. server'[h] = [server[h] EXCEPT !.stage = "data", !.upto = Lines]
        BY <2>1, <2>2 DEF TypeOK
      <3>3. /\ server'[h].pos = 0 /\ server'[h].upto = Lines /\ server'[h].reply = 0
            /\ server'[h].stage = "data" /\ server'[h].total = 0 /\ server'[h].buffer = <<>>
        BY <3>1, <3>2 DEF NoConnection
      <3>4. Faithful(server[h])'
        BY <3>3, Constants DEF Faithful
      <3>5. copies'[h] = <<>>
        BY <2>1, <3>1
      <3>6. QED
        BY <1>0, <2>1, <2>2, <3>3, <3>4, <3>5 DEF Channel
    <2>3. CASE h # current
      <3>1. server'[h] = server[h]
        BY <2>1, <2>3 DEF TypeOK
      <3>2. QED
        BY <1>0, <2>1, <2>3, <3>1, LeftChannel
    <2>4. QED
      BY <2>2, <2>3
  <1>5. CASE GiveUp
    <2>1. PICK t \in BOOLEAN : Fails(current, t)
      BY <1>5 DEF GiveUp
    <2>2. step = "answer" /\ current \in Host /\ copies' = copies
      BY <1>5 DEF GiveUp, TypeOK
    <2>3. PICK n \in server[current].pos..Lines :
             /\ server' = [server EXCEPT ![current].upto = n]
             /\ unsure' = IF n = Lines THEN unsure \cup {current} ELSE unsure
      BY <1>5 DEF GiveUp
    <2>4. CASE h = current
      <3>1. server'[h] = [server[h] EXCEPT !.upto = n]
        BY <2>2, <2>3, <2>4 DEF TypeOK
      <3>2. /\ server'[h].stage = server[h].stage /\ server'[h].pos = server[h].pos
            /\ server'[h].upto = n /\ server'[h].reply = server[h].reply
            /\ server'[h].total = server[h].total /\ server'[h].buffer = server[h].buffer
            /\ server'[h].tooLarge = server[h].tooLarge /\ server'[h].tooLong = server[h].tooLong
        BY <1>0, <3>1 DEF Connection
      <3>3. failed'[h] # "no" /\ (n = Lines => h \in unsure')
        BY <2>1, <2>2, <2>3, <2>4, FailsFacts
      <3>4. server[h].pos \in Nat /\ n \in Nat /\ server[h].pos <= n /\ n <= Lines
        BY <1>0, <2>3, <2>4, ConnectionFields
      <3>5. copies[h] # <<>> => n = Lines
        BY <1>0, <3>4 DEF Channel
      <3>6. Faithful(server[h])'
        BY <1>0, <3>2 DEF Channel, Faithful
      <3>7. copies'[h] = copies[h]
        BY <2>2
      <3>8. server[h].stage # "data" \/ (server[h].pos < Lines /\ server[h].reply = 0 /\ copies[h] = <<>>)
        BY <1>0 DEF Channel
      <3>9. QED
        BY <1>0, <2>2, <3>2, <3>3, <3>4, <3>5, <3>6, <3>7, <3>8 DEF Channel
    <2>5. CASE h # current
      <3>1. server'[h] = server[h] /\ failed'[h] = failed[h] /\ (h \in unsure => h \in unsure')
        BY <2>1, <2>2, <2>3, <2>5, FailsFacts DEF TypeOK
      <3>2. QED
        BY <1>0, <2>2, <2>5, <3>1, LeftChannel
    <2>6. QED
      BY <2>4, <2>5
  <1>6. CASE Answer
    <2>1. /\ step = "answer" /\ server[current].reply # 0 /\ current \in Host
          /\ UNCHANGED <<body, current, unsure, server, copies>>
      BY <1>6 DEF Answer, TypeOK
    <2>2. CASE server[current].reply = 250
      <3>1. step' = "done" /\ failed' = failed
        BY <1>6, <2>2 DEF Answer, Done
      <3>2. QED
        BY <1>0, <2>1, <2>2, <3>1 DEF Channel, Faithful
    <2>3. CASE server[current].reply # 250
      <3> DEFINE t == server[current].reply < 500
      <3>1. t \in BOOLEAN /\ Fails(current, t)
        BY <1>6, <2>3 DEF Answer
      <3> HIDE DEF t
      <3>2. CASE h = current
        <4>1. server[h].stage # "data" /\ copies[h] = <<>>
          BY <1>0, <2>1, <2>3, <3>2 DEF Channel
        <4>2. QED
          BY <1>0, <2>1, <2>3, <3>2, <4>1 DEF Channel, Faithful
      <3>3. CASE h # current
        <4>1. failed'[h] = failed[h]
          BY <2>1, <3>1, <3>3, FailsFacts
        <4>2. QED
          BY <1>0, <2>1, <3>3, <4>1, LeftChannel
      <3>4. QED
        BY <3>2, <3>3
    <2>4. QED
      BY <2>2, <2>3
  <1>7. QED
    BY <1>1, <1>2, <1>3, <1>4, <1>5, <1>6 DEF Send

\* A server reads for itself.
LEMMA ReadApart ==
    ASSUME TypeOK, NEW h \in Host, readDataBlockLimit(h)
    PROVE  /\ UNCHANGED <<mode, body, step, todo, current, temporary, result, failed, unsure>>
           /\ server[h].stage = "data"
           /\ \A g \in Host : g # h => server'[g] = server[g] /\ copies'[g] = copies[g]
  <1>1. CASE SkipLine(h)
    BY <1>1 DEF SkipLine, Reading, sender, TypeOK
  <1>2. CASE ReadLine(h)
    BY <1>2 DEF ReadLine, Reading, sender, TypeOK
  <1>3. CASE HangUp(h)
    BY <1>3 DEF HangUp, sender, TypeOK
  <1>4. CASE EndOfData(h)
    BY <1>4 DEF EndOfData, Reading, sender, TypeOK
  <1>5. QED
    BY <1>1, <1>2, <1>3, <1>4 DEF readDataBlockLimit

(* A line more is read, or dropped.                                        *)
LEMMA LineRead ==
    ASSUME TypeOK, Channels, NEW h \in Host, SkipLine(h) \/ ReadLine(h)
    PROVE  Channel(h)'
  <1> DEFINE s == server[h]
             w == Wire(s.pos + 1)
  <1>1. /\ UNCHANGED <<body, step, current, failed, unsure, copies>>
        /\ Lines' = Lines /\ s.stage = "data" /\ s.pos < s.upto
    BY DEF SkipLine, ReadLine, Reading, sender, Lines
  <1>2. /\ Lines \in Nat /\ body \in Bodies /\ s \in Connection /\ Reading(h)
        /\ s.pos \in Nat /\ s.upto \in Nat /\ s.total \in Nat /\ s.buffer \in Seq(Line)
        /\ s.tooLarge \in BOOLEAN /\ s.tooLong \in BOOLEAN
    <2>1. s \in Connection
      BY DEF TypeOK
    <2>2. QED
      BY <1>1, <2>1, LinesType, ConnectionFields DEF TypeOK, Reading
  <1>3. /\ s.pos + 1 \in 1..Lines /\ w \in Line /\ Unstuff(w) \in Line
        /\ w.len \in Nat /\ Unstuff(w).len \in Nat
    BY <1>2, NextLine DEF Line
  <1>4. w # Terminator => s.pos + 1 < Lines /\ Unstuff(w) = body[s.pos + 1]
    BY <1>2, <1>3, WireFacts
  <1>5. w # Terminator
    <2>1. ~overlong(Terminator)
      BY DeliveryAssumption DEF overlong, Terminator
    <2>2. QED
      BY <2>1 DEF SkipLine, ReadLine
  <1>6. /\ s.upto <= Lines /\ s.reply = 0 /\ copies[h] = <<>>
        /\ failed[h] # "no" \/ (h = current /\ step = "answer")
        /\ s.upto = Lines => h \in unsure \/ (h = current /\ step = "answer")
        /\ Faithful(s)
    BY <1>1 DEF Channels, Channel
  <1>7. ASSUME server'[h].pos = s.pos + 1, server'[h].upto = s.upto,
               server'[h].stage = "data", server'[h].reply = 0, Faithful(server[h])'
        PROVE  Channel(h)'
    BY <1>1, <1>2, <1>4, <1>5, <1>6, <1>7 DEF Channel
  <1>8. CASE SkipLine(h)
    <2> DEFINE total == s.total + w.len + 2
    <2>1. server'[h] = [s EXCEPT !.pos = s.pos + 1, !.tooLong = TRUE, !.total = total,
                                 !.tooLarge = s.tooLarge \/ total > MaxSize]
      BY <1>8 DEF SkipLine, After, TypeOK
    <2>2. /\ server'[h].pos = s.pos + 1 /\ server'[h].upto = s.upto
          /\ server'[h].stage = "data" /\ server'[h].reply = 0
          /\ server'[h].total = total /\ server'[h].tooLong = TRUE
          /\ server'[h].tooLarge = (s.tooLarge \/ total > MaxSize)
      BY <1>1, <1>2, <1>6, <2>1 DEF Connection
    <2>3. Faithful(server[h])'
      <3>1. ~server'[h].tooLarge => ~(total > MaxSize)
        BY <2>2, Zenon
      <3>2. total \in Nat
        BY <1>2, <1>3
      <3> HIDE DEF s, w, total
      <3>3. total > MaxSize \/ total <= MaxSize
        BY <3>2, Constants
      <3>4. QED
        BY <2>2, <3>1, <3>3 DEF Faithful
    <2>4. QED
      BY <1>7, <2>2, <2>3
  <1>9. CASE ReadLine(h)
    <2> DEFINE total == s.total + Unstuff(w).len + 2
               buffer == IF total > MaxSize THEN s.buffer ELSE Append(s.buffer, Unstuff(w))
    <2>1. server'[h] = [s EXCEPT !.pos = s.pos + 1, !.total = total,
                                 !.tooLarge = s.tooLarge \/ total > MaxSize, !.buffer = buffer]
      BY <1>9 DEF ReadLine, After, TypeOK
    <2>2. /\ server'[h].pos = s.pos + 1 /\ server'[h].upto = s.upto
          /\ server'[h].stage = "data" /\ server'[h].reply = 0
          /\ server'[h].total = total /\ server'[h].buffer = buffer
          /\ server'[h].tooLong = s.tooLong
          /\ server'[h].tooLarge = (s.tooLarge \/ total > MaxSize)
      BY <1>1, <1>2, <1>6, <2>1 DEF Connection
    <2>3. Faithful(server[h])'
      <3>1. total \in Nat
        BY <1>2, <1>3
      <3>2. ASSUME ~server'[h].tooLarge, ~server'[h].tooLong
            PROVE  /\ Len(server'[h].buffer) = server'[h].pos
                   /\ \A i \in 1..server'[h].pos : server'[h].buffer[i] = body[i]
        <4>1. Len(s.buffer) = s.pos /\ \A i \in 1..s.pos : s.buffer[i] = body[i]
          BY <1>1, <1>6, <2>2, <3>2 DEF Faithful
        <4>2. server'[h].buffer = Append(s.buffer, Unstuff(w))
          BY <2>2, <3>2
        <4>3. Len(server'[h].buffer) = s.pos + 1
          BY <1>2, <1>3, <4>1, <4>2
        <4>4. ASSUME NEW i \in 1..(s.pos + 1) PROVE server'[h].buffer[i] = body[i]
          <5>1. CASE i = s.pos + 1
            BY <1>2, <1>3, <1>4, <1>5, <4>1, <4>2, <5>1
          <5>2. CASE i # s.pos + 1
            <6>1. i \in 1..s.pos
              BY <1>2, <5>2
            <6>2. QED
              BY <1>2, <1>3, <4>1, <4>2, <6>1
          <5>3. QED
            BY <5>1, <5>2
        <4>5. QED
          BY <2>2, <4>3, <4>4
      <3>a. ~server'[h].tooLarge => ~(total > MaxSize)
        BY <2>2, Zenon
      <3>b. total > MaxSize \/ total <= MaxSize
        BY <3>1, Constants
      <3>3. ~server'[h].tooLarge => server'[h].total <= MaxSize
        BY <2>2, <3>a, <3>b
      <3> HIDE DEF s, w, total, buffer
      <3>4. QED
        BY <1>1, <3>2, <3>3 DEF Faithful
    <2>4. QED
      BY <1>7, <2>2, <2>3
  <1>10. QED
    BY <1>8, <1>9

(* The body ends: what was read without fault is the body.                 *)
LEMMA BodyRead ==
    ASSUME TypeOK, Placed, Channels, NEW h \in Host, EndOfData(h)
    PROVE  Channel(h)'
  <1> DEFINE s == server[h]
  <1>1. /\ UNCHANGED <<body, step, current, failed, unsure>> /\ Lines' = Lines
        /\ s.stage = "data" /\ s.pos < s.upto /\ Reading(h)
    BY DEF EndOfData, Reading, sender, Lines
  <1>2. /\ Lines \in Nat /\ body \in Bodies /\ s \in Connection
        /\ s.pos \in Nat /\ s.upto \in Nat /\ s.total \in Nat /\ s.buffer \in Seq(Line)
        /\ s.tooLarge \in BOOLEAN /\ s.tooLong \in BOOLEAN
    <2>1. s \in Connection
      BY DEF TypeOK
    <2>2. QED
      BY <2>1, LinesType, ConnectionFields DEF TypeOK
  <1>3. /\ s.upto <= Lines /\ copies[h] = <<>>
        /\ failed[h] # "no" \/ (h = current /\ step = "answer")
        /\ s.upto = Lines => h \in unsure \/ (h = current /\ step = "answer")
        /\ Faithful(s)
    BY <1>1 DEF Channels, Channel
  <1>4. s.pos + 1 = Lines /\ s.upto = Lines /\ body \in Seq(Line) /\ Len(body) = s.pos
    <2>1. s.pos + 1 \in 1..Lines /\ body \in Seq(Line) /\ Len(body) \in Nat /\ Lines = Len(body) + 1
      BY <1>1, NextLine
    <2>2. s.pos + 1 = Lines
      BY <1>2, <2>1, WireFacts DEF EndOfData
    <2>3. QED
      BY <1>1, <1>2, <1>3, <2>1, <2>2
  <1>5. PICK code \in Verdict(s) :
           /\ server' = [server EXCEPT ![h].stage = "command", ![h].pos = @ + 1, ![h].reply = code]
           /\ copies' = IF Stores(code) THEN [copies EXCEPT ![h] = Append(@, s.buffer)] ELSE copies
    BY DEF EndOfData
  <1>6. server'[h] = [s EXCEPT !.stage = "command", !.pos = s.pos + 1, !.reply = code]
    BY <1>5 DEF TypeOK
  <1>7. /\ server'[h].stage = "command" /\ server'[h].pos = Lines /\ server'[h].upto = Lines
        /\ server'[h].reply = code /\ server'[h].total = s.total
        /\ server'[h].tooLarge = s.tooLarge
    BY <1>2, <1>4, <1>6 DEF Connection
  <1>8. Faithful(server[h])'
    BY <1>3, <1>7 DEF Faithful
  <1>9. code = 250 => s.buffer = body /\ s.total <= MaxSize
    <2> SUFFICES ASSUME code = 250 PROVE s.buffer = body /\ s.total <= MaxSize
      OBVIOUS
    <2>1. ~s.tooLarge /\ ~s.tooLong
      BY <1>5 DEF Verdict
    <2>2. Len(s.buffer) = s.pos /\ (\A i \in 1..s.pos : s.buffer[i] = body[i]) /\ s.total <= MaxSize
      BY <1>1, <1>3, <2>1 DEF Faithful
    <2>3. s.buffer = body
      BY <1>2, <1>4, <2>2, SeqEqual
    <2>4. QED
      BY <2>2, <2>3
  <1>10. CASE code = 250
    <2>1. copies'[h] = <<body>>
      <3>1. copies'[h] = Append(copies[h], s.buffer)
        BY <1>5, <1>10 DEF Stores, TypeOK
      <3>2. QED
        BY <1>3, <1>9, <1>10, <3>1
    <2>2. copies'[h] # <<>>
      BY <2>1
    <2>3. failed[h] # "no" => h \in unsure
      <3>1. step = "answer" => h # current \/ failed[h] = "no"
        BY DEF Placed
      <3>2. QED
        BY <1>3, <1>4, <3>1
    <2>4. QED
      BY <1>1, <1>2, <1>3, <1>4, <1>7, <1>8, <1>9, <1>10, <2>1, <2>2, <2>3 DEF Channel
  <1>11. CASE code # 250
    <2>1. copies'[h] = <<>>
      BY <1>3, <1>5, <1>11 DEF Stores
    <2>2. QED
      BY <1>1, <1>2, <1>4, <1>7, <1>8, <1>11, <2>1 DEF Channel
  <1>12. QED
    BY <1>10, <1>11

LEMMA ReadChannels ==
    ASSUME TypeOK, Placed, Channels, NEW h \in Host, readDataBlockLimit(h)
    PROVE  Channels'
  <1> SUFFICES ASSUME NEW g \in Host PROVE Channel(g)'
    BY DEF Channels
  <1>1. CASE g # h
    <2>1. /\ UNCHANGED <<body, step, current, failed, unsure>>
          /\ server'[g] = server[g] /\ copies'[g] = copies[g] /\ Channel(g)
      BY <1>1, ReadApart DEF Channels
    <2>2. QED
      BY <2>1 DEF Channel, Faithful, Lines
  <1>2. CASE g = h /\ HangUp(h)
    <2>1. /\ UNCHANGED <<body, step, current, failed, unsure, copies>> /\ Channel(g)
          /\ server[g].stage = "data"
          /\ server'[g] = [server[g] EXCEPT !.stage = "closed", !.reply = 451]
      BY <1>2 DEF HangUp, sender, TypeOK, Channels
    <2>2. /\ server'[g].stage = "closed" /\ server'[g].reply = 451
          /\ server'[g].pos = server[g].pos /\ server'[g].upto = server[g].upto
          /\ server'[g].total = server[g].total /\ server'[g].tooLarge = server[g].tooLarge
      <3>1. server[g] \in Connection
        BY DEF TypeOK
      <3>2. QED
        BY <2>1, <3>1 DEF Connection
    <2>3. copies'[g] = <<>>
      BY <2>1 DEF Channel
    <2>4. QED
      BY <2>1, <2>2, <2>3 DEF Channel, Faithful, Lines
  <1>3. CASE g = h /\ (SkipLine(h) \/ ReadLine(h))
    BY <1>3, LineRead
  <1>4. CASE g = h /\ EndOfData(h)
    BY <1>4, BodyRead
  <1>5. QED
    BY <1>1, <1>2, <1>3, <1>4 DEF readDataBlockLimit

-----------------------------------------------------------------------------
\* A host that the sender does not touch stays untried.
LEMMA StillUntried ==
    ASSUME NEW h, Untried(h), server'[h] = server[h], copies'[h] = copies[h],
           failed'[h] = failed[h]
    PROVE  Untried(h)'
  BY DEF Untried, NoConnection

LEMMA SendPlaced ==
    ASSUME TypeOK, Placed, Send
    PROVE  Placed'
  <1>0. /\ todo \subseteq Host /\ \A g \in todo : Untried(g)
        /\ step # "done" => result = "none"
    BY DEF Placed, TypeOK
  <1>1. CASE lookupMX
    <2>1. /\ step = "lookup" /\ (\A g \in Host : Untried(g))
          /\ step' \in {"next", "done"} /\ (step' = "next" => result' = result)
          /\ UNCHANGED <<server, copies, failed>>
      BY <1>1 DEF lookupMX, Done, Placed
    <2>2. todo' \subseteq Host
      BY <1>0, <1>1, Constants DEF lookupMX, Found
    <2>3. \A g \in todo' : Untried(g)'
      BY <2>1, <2>2, StillUntried
    <2>4. QED
      BY <1>0, <2>1, <2>3 DEF Placed
  <1>2. ASSUME NEW h \in Host, Dial(h) PROVE Placed'
    <2>1. /\ step = "next" /\ h \in todo /\ todo' = todo \ {h} /\ current' = h /\ copies' = copies
      BY <1>2 DEF Dial, Preferred
    <2>2. Untried(h)
      BY <1>0, <2>1
    <2>3. ASSUME NEW g \in todo' PROVE Untried(g)'
      <3>1. g \in todo /\ g \in Host /\ g # h
        BY <1>0, <2>1
      <3>2. server'[g] = server[g]
        BY <1>2, <3>1 DEF Dial, TypeOK
      <3>3. failed'[g] = failed[g]
        BY <1>2, <3>1, FailsFacts DEF Dial
      <3>4. QED
        BY <1>0, <2>1, <3>1, <3>2, <3>3, StillUntried
    <2>4. CASE Done("permanent")
      BY <2>3, <2>4 DEF Done, Placed
    <2>5. ASSUME NEW t \in BOOLEAN, Fails(h, t) PROVE Placed'
      <3>1. step' = "next" /\ result' = "none"
        BY <1>0, <2>1, <2>5, FailsFacts
      <3>2. QED
        BY <2>3, <3>1 DEF Placed
    <2>6. CASE /\ step' = "dialog"
               /\ server' = [server EXCEPT ![h] = [NoConnection EXCEPT !.stage = "command"]]
               /\ UNCHANGED <<temporary, result, failed>>
      <3>1. server'[h] = [NoConnection EXCEPT !.stage = "command"]
        BY <2>6 DEF TypeOK
      <3>2. copies'[h] = <<>> /\ failed'[h] = "no" /\ result' = "none" /\ h \notin todo'
        BY <1>0, <2>1, <2>2, <2>6 DEF Untried
      <3>3. NoConnection' = NoConnection
        BY DEF NoConnection
      <3>4. QED
        BY <2>1, <2>3, <2>6, <3>1, <3>2, <3>3 DEF Placed
    <2>7. QED
      BY <1>2, <2>4, <2>5, <2>6 DEF Dial
  <1>3. CASE NoHostLeft
    BY <1>3 DEF NoHostLeft, Done, Placed
  <1>4. ASSUME step \in {"dialog", "answer"}, UNCHANGED <<todo, current, copies>>,
               \A g \in Host : g # current => server'[g] = server[g],
               \A g \in Host : g # current => failed'[g] = failed[g]
        PROVE  current \in Host /\ current \notin todo /\ \A g \in todo' : Untried(g)'
    <2>1. current \in Host /\ current \notin todo
      BY <1>4 DEF Placed, TypeOK
    <2>2. ASSUME NEW g \in todo PROVE Untried(g)'
      BY <1>0, <1>4, <2>1, <2>2, StillUntried
    <2>3. QED
      BY <1>4, <2>1, <2>2
  <1>5. CASE Refused
    <2>1. PICK t \in BOOLEAN : Fails(current, t)
      BY <1>5 DEF Refused
    <2>2. current \in Host /\ step = "dialog" /\ UNCHANGED <<todo, current, copies>>
      BY <1>5 DEF Refused, TypeOK
    <2>3. \A g \in Host : g # current => server'[g] = server[g]
      BY <1>5 DEF Refused, TypeOK
    <2>4. \A g \in todo' : Untried(g)'
      BY <1>4, <2>1, <2>2, <2>3, FailsFacts
    <2>5. step' = "next" /\ result' = "none"
      BY <1>0, <2>1, <2>2, FailsFacts
    <2>6. QED
      BY <2>4, <2>5 DEF Placed
  <1>6. CASE Data
    <2>1. /\ current \in Host /\ step = "dialog" /\ step' = "answer"
          /\ UNCHANGED <<todo, current, copies, failed, result>>
      BY <1>6 DEF Data, TypeOK
    <2>2. \A g \in Host : g # current => server'[g] = server[g]
      BY <1>6 DEF Data, TypeOK
    <2>3. \A g \in todo' : Untried(g)'
      BY <1>4, <2>1, <2>2
    <2>4. QED
      BY <1>0, <2>1, <2>3 DEF Placed
  <1>7. CASE GiveUp
    <2>1. PICK t \in BOOLEAN : Fails(current, t)
      BY <1>7 DEF GiveUp
    <2>2. current \in Host /\ step = "answer" /\ UNCHANGED <<todo, current, copies>>
      BY <1>7 DEF GiveUp, TypeOK
    <2>3. \A g \in Host : g # current => server'[g] = server[g]
      BY <1>7 DEF GiveUp, TypeOK
    <2>4. \A g \in todo' : Untried(g)'
      BY <1>4, <2>1, <2>2, <2>3, FailsFacts
    <2>5. step' = "next" /\ result' = "none"
      BY <1>0, <2>1, <2>2, FailsFacts
    <2>6. QED
      BY <2>4, <2>5 DEF Placed
  <1>8. CASE Answer
    <2>1. current \in Host /\ step = "answer" /\ UNCHANGED <<todo, current, copies, server>>
      BY <1>8 DEF Answer, TypeOK
    <2>2. CASE Done("ok") /\ UNCHANGED <<temporary, failed>>
      <3>1. \A g \in todo' : Untried(g)'
        BY <1>4, <2>1, <2>2
      <3>2. QED
        BY <2>2, <3>1 DEF Done, Placed
    <2>3. CASE Fails(current, server[current].reply < 500)
      <3> DEFINE t == server[current].reply < 500
      <3>1. t \in BOOLEAN /\ Fails(current, t)
        BY <2>3
      <3> HIDE DEF t
      <3>2. \A g \in todo' : Untried(g)'
        BY <1>4, <2>1, <3>1, FailsFacts
      <3>3. step' = "next" /\ result' = "none"
        BY <1>0, <2>1, <3>1, FailsFacts
      <3>4. QED
        BY <3>2, <3>3 DEF Placed
    <2>4. QED
      BY <1>8, <2>2, <2>3 DEF Answer
  <1>9. QED
    BY <1>1, <1>2, <1>3, <1>5, <1>6, <1>7, <1>8 DEF Send

LEMMA ReadPlaced ==
    ASSUME TypeOK, Placed, NEW h \in Host, readDataBlockLimit(h)
    PROVE  Placed'
  <1>1. /\ UNCHANGED <<step, todo, current, temporary, result, failed>>
        /\ server[h].stage = "data"
        /\ \A g \in Host : g # h => server'[g] = server[g] /\ copies'[g] = copies[g]
    BY ReadApart
  <1>2. ASSUME NEW g \in Host, Untried(g) PROVE Untried(g)'
    <2>1. g # h
      BY <1>1, <1>2, Beginnings DEF Untried
    <2>2. QED
      BY <1>1, <1>2, <2>1, StillUntried
  <1>3. ASSUME step = "dialog"
        PROVE  server'[current] = server[current] /\ copies'[current] = copies[current]
    <2>1. current \in Host /\ server[current] = [NoConnection EXCEPT !.stage = "command"]
      BY <1>3 DEF Placed, TypeOK
    <2>2. server[current].stage = "command"
      BY <2>1 DEF NoConnection
    <2>3. QED
      BY <1>1, <2>1, <2>2
  <1>4. todo \subseteq Host /\ NoConnection' = NoConnection
    BY DEF TypeOK, NoConnection
  <1>5. \A g \in todo' : Untried(g)'
    BY <1>1, <1>2, <1>4 DEF Placed
  <1>6. step' = "lookup" => \A g \in Host : Untried(g)'
    BY <1>1, <1>2 DEF Placed
  <1>7. QED
    BY <1>1, <1>3, <1>4, <1>5, <1>6 DEF Placed

-----------------------------------------------------------------------------
\* A host has failed for now.
SomeTemporary == \E h \in Host : failed[h] = "temporarily"

\* The failure of a host that had not failed enters the account.
LEMMA Accounted ==
    ASSUME TypeOK, Judged, NEW h \in Host, NEW t \in BOOLEAN, Fails(h, t), failed[h] = "no"
    PROVE  temporary' <=> SomeTemporary'
  <1>1. /\ failed'[h] = IF t THEN "temporarily" ELSE "for good"
        /\ \A g \in Host : g # h => failed'[g] = failed[g]
        /\ temporary' <=> temporary \/ t
    BY FailsFacts
  <1>2. temporary <=> SomeTemporary
    BY DEF Judged, SomeTemporary
  <1>3. CASE t
    <2>1. SomeTemporary'
      BY <1>1, <1>3 DEF SomeTemporary
    <2>2. QED
      BY <1>1, <1>3, <2>1
  <1>4. CASE ~t
    <2>1. ASSUME NEW g \in Host, failed[g] = "temporarily" PROVE SomeTemporary'
      <3>1. g # h
        BY <2>1
      <3>2. QED
        BY <1>1, <2>1, <3>1 DEF SomeTemporary
    <2>2. ASSUME NEW g \in Host, failed'[g] = "temporarily" PROVE SomeTemporary
      <3>1. g # h
        BY <1>1, <1>4, <2>2
      <3>2. QED
        BY <1>1, <2>2, <3>1 DEF SomeTemporary
    <2>3. SomeTemporary <=> SomeTemporary'
      BY <2>1, <2>2 DEF SomeTemporary
    <2>4. QED
      BY <1>1, <1>2, <1>4, <2>3
  <1>5. QED
    BY <1>3, <1>4

\* The sender goes on to the next host.
LEMMA GoesOn ==
    ASSUME TypeOK, Placed, Judged, NEW h \in Host, NEW t \in BOOLEAN, Fails(h, t),
           failed[h] = "no", step # "done", current' = h
    PROVE  Judged'
  <1>1. temporary' <=> SomeTemporary'
    BY Accounted
  <1>2. result' = "none" /\ \A g \in Host : g # h => failed'[g] = failed[g]
    BY FailsFacts DEF Placed
  <1>3. QED
    BY <1>1, <1>2 DEF Judged, Classified, SomeTemporary

LEMMA SendJudged ==
    ASSUME TypeOK, Placed, Channels, Judged, Send
    PROVE  Judged'
  <1>0. /\ temporary <=> SomeTemporary
        /\ step # "done" => result = "none"
    BY DEF Judged, Placed, SomeTemporary
  <1>1. CASE lookupMX
    <2>1. /\ step = "lookup" /\ current = NoHost /\ NoHost \notin Host
          /\ \A h \in Host : failed[h] = "no"
          /\ UNCHANGED <<current, temporary, failed, copies>>
      BY <1>1, Constants DEF lookupMX, Placed, Untried
    <2>2. /\ result' \in {"none", "temporary", "permanent"}
          /\ result' = "permanent" => todo' = {}
      BY <1>0, <1>1, <2>1 DEF lookupMX, Done
    <2>3. QED
      BY <1>0, <2>1, <2>2 DEF Judged, Classified, SomeTemporary
  <1>2. ASSUME NEW h \in Host, Dial(h) PROVE Judged'
    <2>1. /\ step = "next" /\ h \in todo
          /\ todo' = todo \ {h} /\ current' = h /\ copies' = copies
      BY <1>2 DEF Dial, Preferred
    <2>2. failed[h] = "no"
      BY <2>1 DEF Placed, Untried
    <2>3. CASE h \in Null /\ Done("permanent") /\ UNCHANGED <<temporary, failed, server>>
      BY <1>0, <2>1, <2>3 DEF Judged, Classified, Done, SomeTemporary
    <2>4. ASSUME NEW t \in BOOLEAN, Fails(h, t) PROVE Judged'
      BY <2>1, <2>2, <2>4, GoesOn
    <2>5. CASE step' = "dialog" /\ UNCHANGED <<temporary, result, failed>>
      <3>1. result' = "none"
        BY <1>0, <2>1, <2>5
      <3>2. QED
        BY <1>0, <2>5, <3>1 DEF Judged, Classified, SomeTemporary
    <2>6. QED
      BY <1>2, <2>3, <2>4, <2>5 DEF Dial
  <1>3. CASE NoHostLeft
    <2>1. /\ todo = {} /\ UNCHANGED <<todo, current, temporary, failed, copies>>
          /\ result' = IF temporary THEN "temporary" ELSE "permanent"
      BY <1>3 DEF NoHostLeft, Done
    <2>2. Classified'
      BY <1>0, <2>1 DEF Classified, SomeTemporary
    <2>3. QED
      BY <1>0, <2>1, <2>2 DEF Judged, SomeTemporary
  <1>4. ASSUME step \in {"dialog", "answer"}, UNCHANGED <<todo, current>>,
               NEW t \in BOOLEAN, Fails(current, t)
        PROVE  Judged'
    <2>1. current \in Host /\ failed[current] = "no"
      BY <1>4 DEF TypeOK, Placed
    <2>2. QED
      BY <1>4, <2>1, GoesOn
  <1>5. CASE Refused
    BY <1>4, <1>5 DEF Refused
  <1>6. CASE Data
    BY <1>0, <1>6 DEF Data, Judged, Classified
  <1>7. CASE GiveUp
    BY <1>4, <1>7 DEF GiveUp
  <1>8. CASE Answer
    <2>1. /\ step = "answer" /\ current \in Host /\ UNCHANGED <<todo, current, copies, server>>
      BY <1>8 DEF Answer, TypeOK
    <2>2. CASE server[current].reply = 250 /\ Done("ok") /\ UNCHANGED <<temporary, failed>>
      <3>1. copies[current] # <<>>
        BY <2>1, <2>2 DEF Channels, Channel
      <3>2. QED
        BY <2>1, <2>2, <3>1 DEF Judged, Classified, Done
    <2>3. CASE Fails(current, server[current].reply < 500)
      <3> DEFINE t == server[current].reply < 500
      <3>1. t \in BOOLEAN /\ Fails(current, t)
        BY <2>3
      <3> HIDE DEF t
      <3>2. QED
        BY <1>4, <2>1, <3>1
    <2>4. QED
      BY <1>8, <2>2, <2>3 DEF Answer
  <1>9. QED
    BY <1>1, <1>2, <1>3, <1>5, <1>6, <1>7, <1>8 DEF Send

LEMMA ReadJudged ==
    ASSUME TypeOK, Channels, Judged, NEW h \in Host, readDataBlockLimit(h)
    PROVE  Judged'
  <1>1. /\ UNCHANGED <<step, todo, current, temporary, result, failed>>
        /\ server[h].stage = "data"
        /\ \A g \in Host : g # h => copies'[g] = copies[g]
    BY ReadApart
  <1>2. result = "ok" => copies'[current] # <<>>
    BY <1>1 DEF Judged, Channels, Channel
  <1>3. QED
    BY <1>1, <1>2 DEF Judged, Classified

-----------------------------------------------------------------------------
IInv == TypeOK /\ Placed /\ Channels /\ Judged

LEMMA Invariance == Spec => []IInv
  <1>1. Init => IInv
    BY InitTyped, InitInvariant DEF IInv
  <1>2. IInv /\ [Next]_vars => IInv'
    <2> SUFFICES ASSUME IInv, [Next]_vars PROVE IInv'
      OBVIOUS
    <2>1. CASE Send
      BY <2>1, SendTyped, SendPlaced, SendChannels, SendJudged DEF IInv
    <2>2. ASSUME NEW h \in Host, readDataBlockLimit(h) PROVE IInv'
      BY <2>2, ReadTyped, ReadPlaced, ReadChannels, ReadJudged DEF IInv
    <2>3. CASE UNCHANGED vars
      <3>1. TypeOK'
        BY <2>3 DEF IInv, TypeOK, vars, sender
      <3>2. Placed'
        BY <2>3 DEF IInv, Placed, Untried, NoConnection, vars, sender
      <3>3. Channels'
        BY <2>3 DEF IInv, Channels, Channel, Faithful, Lines, vars, sender
      <3>4. Judged'
        BY <2>3 DEF IInv, Judged, Classified, vars, sender
      <3>5. QED
        BY <3>1, <3>2, <3>3, <3>4 DEF IInv
    <2>4. QED
      BY <2>1, <2>2, <2>3 DEF Next
  <1>3. QED
    BY <1>1, <1>2, PTL DEF Spec

(* outbound.go:65-114, server.go:359-432.  Every variable of a Send and of  *)
(* the servers it speaks to keeps its type.                                 *)
THEOREM TypeCorrect == Spec => []TypeOK
  <1>1. IInv => TypeOK
    BY DEF IInv
  <1>2. QED
    BY <1>1, Invariance, PTL

(* server.go:363-408.  No server takes a line of the body for a command,    *)
(* however large the body and however long its lines.                       *)
THEOREM Framed == Spec => []InStep
  <1>1. IInv => InStep
    BY DEF IInv, Channels, Channel, InStep
  <1>2. QED
    BY <1>1, Invariance, PTL

(* server.go:363-408.  What a server stores is the report as it was         *)
(* rendered, once at a host in a Send, and within its limit.                *)
THEOREM Intact == Spec => []StoredIntact
  <1>1. IInv => StoredIntact
    BY DEF IInv, Channels, Channel, StoredIntact
  <1>2. QED
    BY <1>1, Invariance, PTL

(* outbound.go:90-113, 211-229.  A copy is either the one that Send reports *)
(* or one whose answer was lost.                                            *)
THEOREM NoCopyUnaccounted == Spec => []CopiesAccounted
  <1>1. IInv => CopiesAccounted
    BY DEF IInv, Channels, Channel, Judged, CopiesAccounted
  <1>2. QED
    BY <1>1, Invariance, PTL

(* outbound.go:90-113.  Send fails permanently only if every host did, or   *)
(* at a null MX; and for now only if a host or the lookup did.              *)
THEOREM VerdictJustified == Spec => []Classified
  <1>1. IInv => Classified
    BY DEF IInv, Judged
  <1>2. QED
    BY <1>1, Invariance, PTL

-----------------------------------------------------------------------------
\* What the mapping onto ReportHandover says of the present state.
Asking == IF step = "answer" THEN current ELSE NoHost
Left   == {h \in Host : failed[h] # "no"}
Taken  == {h \in Host : copies[h] # <<>>}

HandoverStep == [Handover!HandoverNext]_(Handover!handoverVars)

LEMMA Despairs ==
    ASSUME step # "answer", result = "none", Done(result'),
           result' \in {"temporary", "permanent"}, UNCHANGED <<failed, unsure, copies>>
    PROVE  HandoverStep
  <1>1. Handover!Despair
    BY DEF Done, Handover!Despair, Handover!Listening
  <1>2. QED
    BY <1>1 DEF HandoverStep, Handover!HandoverNext

LEMMA Stutters ==
    ASSUME (step = "answer") = (step' = "answer"), UNCHANGED <<result, failed, unsure, copies>>,
           step = "answer" => current' = current
    PROVE  HandoverStep
  BY DEF HandoverStep, Handover!handoverVars

LEMMA Leaves ==
    ASSUME TypeOK, NEW h \in Host, NEW t \in BOOLEAN, Fails(h, t)
    PROVE  Left' = Left \cup {h} /\ Asking' = NoHost /\ result' = result
  BY FailsFacts DEF Left, Asking

\* The sender goes on without having given the report to the host.
LEMMA Passes ==
    ASSUME TypeOK, NEW h \in Host, NEW t \in BOOLEAN, Fails(h, t), failed[h] = "no",
           step # "answer", result = "none", UNCHANGED <<unsure, copies>>
    PROVE  HandoverStep
  <1>1. Left' = Left \cup {h} /\ Asking' = NoHost /\ result' = result
    BY Leaves
  <1>2. Handover!Pass(h)
    BY <1>1 DEF Handover!Pass, Handover!Listening, Left, Asking
  <1>3. QED
    BY <1>2 DEF HandoverStep, Handover!HandoverNext

(* Every step of the sender is one of ReportHandover, or none.             *)
LEMMA SendRefines ==
    ASSUME IInv, Send
    PROVE  HandoverStep
  <1>0. /\ TypeOK /\ (step # "done" => result = "none")
        /\ step \in {"dialog", "answer"} => current \in Host /\ failed[current] = "no"
    BY DEF IInv, Placed, TypeOK
  <1>1. CASE lookupMX
    <2>1. /\ step = "lookup" /\ UNCHANGED <<failed, unsure, copies>>
          /\ \/ result' \in {"temporary", "permanent"} /\ Done(result')
             \/ step' = "next" /\ result' = result
      BY <1>1 DEF lookupMX, Done
    <2>2. QED
      BY <1>0, <2>1, Despairs, Stutters
  <1>2. ASSUME NEW h \in Host, Dial(h) PROVE HandoverStep
    <2>1. step = "next" /\ h \in todo /\ UNCHANGED <<unsure, copies>>
      BY <1>2 DEF Dial, Preferred
    <2>2. failed[h] = "no" /\ result = "none"
      BY <1>0, <2>1 DEF IInv, Placed, Untried
    <2>3. CASE Done("permanent") /\ failed' = failed
      BY <2>1, <2>2, <2>3, Despairs DEF Done
    <2>4. ASSUME NEW t \in BOOLEAN, Fails(h, t) PROVE HandoverStep
      BY <1>0, <2>1, <2>2, <2>4, Passes
    <2>5. CASE step' = "dialog" /\ UNCHANGED <<result, failed>>
      BY <2>1, <2>5, Stutters
    <2>6. QED
      BY <1>2, <2>3, <2>4, <2>5 DEF Dial
  <1>3. CASE NoHostLeft
    <2>1. /\ step = "next" /\ UNCHANGED <<failed, unsure, copies>>
          /\ result' \in {"temporary", "permanent"} /\ Done(result')
      BY <1>3 DEF NoHostLeft, Done
    <2>2. QED
      BY <1>0, <2>1, Despairs
  <1>4. CASE Refused
    <2>1. PICK t \in BOOLEAN : Fails(current, t)
      BY <1>4 DEF Refused
    <2>2. step = "dialog" /\ UNCHANGED <<unsure, copies>>
      BY <1>4 DEF Refused
    <2>3. QED
      BY <1>0, <2>1, <2>2, Passes
  <1>5. CASE Data
    <2>1. /\ step = "dialog" /\ step' = "answer" /\ current \in Host
          /\ UNCHANGED <<current, result, failed, unsure, copies>>
      BY <1>0, <1>5 DEF Data
    <2>2. Handover!Offer(current)
      BY <1>0, <2>1 DEF Handover!Offer, Handover!Listening
    <2>3. QED
      BY <2>1, <2>2 DEF HandoverStep, Handover!HandoverNext
  <1>6. CASE GiveUp
    <2>1. PICK n \in server[current].pos..Lines :
             unsure' = IF n = Lines THEN unsure \cup {current} ELSE unsure
      BY <1>6 DEF GiveUp
    <2>2. PICK t \in BOOLEAN : Fails(current, t)
      BY <1>6 DEF GiveUp
    <2>3. step = "answer" /\ copies' = copies /\ current \in Host
      BY <1>0, <1>6 DEF GiveUp
    <2>4. Left' = Left \cup {current} /\ Asking' = NoHost /\ result' = result
      BY <1>0, <2>2, <2>3, Leaves
    <2>5. CASE n = Lines
      <3>1. Handover!LoseAnswer(current)
        BY <2>1, <2>3, <2>4, <2>5 DEF Handover!LoseAnswer, Left, Asking
      <3>2. QED
        BY <2>3, <3>1 DEF HandoverStep, Handover!HandoverNext, Handover!LoseAnswer
    <2>6. CASE n # Lines
      <3>1. server[current].pos # Lines
        <4>1. server[current] \in Connection /\ Lines \in Nat
          BY <1>0, <2>3, LinesType DEF TypeOK
        <4>2. server[current].pos \in Nat
          BY <4>1, ConnectionFields
        <4>3. QED
          BY <2>6, <4>1, <4>2
      <3>2. copies[current] = <<>>
        BY <2>3, <3>1 DEF IInv, Channels, Channel
      <3>3. Handover!TurnDown(current)
        BY <2>1, <2>3, <2>4, <2>6, <3>2 DEF Handover!TurnDown, Left, Asking
      <3>4. QED
        BY <2>3, <3>3 DEF HandoverStep, Handover!HandoverNext, Handover!TurnDown
    <2>7. QED
      BY <2>5, <2>6
  <1>7. CASE Answer
    <2>1. /\ step = "answer" /\ current \in Host /\ current' = current
          /\ UNCHANGED <<unsure, copies>>
          /\ (server[current].reply = 250) <=> (copies[current] # <<>>)
      BY <1>0, <1>7 DEF Answer, IInv, Channels, Channel
    <2>2. CASE server[current].reply = 250 /\ Done("ok") /\ failed' = failed
      <3>1. Handover!Succeed(current)
        BY <2>1, <2>2 DEF Handover!Succeed, Done
      <3>2. QED
        BY <2>1, <3>1 DEF HandoverStep, Handover!HandoverNext
    <2>3. CASE server[current].reply # 250 /\ Fails(current, server[current].reply < 500)
      <3> DEFINE t == server[current].reply < 500
      <3>1. t \in BOOLEAN /\ Fails(current, t)
        BY <2>3
      <3> HIDE DEF t
      <3>2. Left' = Left \cup {current} /\ Asking' = NoHost /\ result' = result
        BY <1>0, <2>1, <3>1, Leaves
      <3>3. Handover!TurnDown(current)
        BY <2>1, <2>3, <3>2 DEF Handover!TurnDown, Left, Asking
      <3>4. QED
        BY <2>1, <3>3 DEF HandoverStep, Handover!HandoverNext, Handover!TurnDown
    <2>4. QED
      BY <1>7, <2>2, <2>3 DEF Answer
  <1>8. QED
    BY <1>1, <1>2, <1>3, <1>4, <1>5, <1>6, <1>7 DEF Send

(* A server's step is the taking of the report, or none.                   *)
LEMMA ReadRefines ==
    ASSUME IInv, NEW h \in Host, readDataBlockLimit(h)
    PROVE  HandoverStep
  <1>1. UNCHANGED <<step, current, result, failed, unsure>>
    BY DEF readDataBlockLimit, SkipLine, ReadLine, HangUp, EndOfData, sender
  <1>2. CASE copies' = copies
    BY <1>1, <1>2, Stutters
  <1>3. CASE copies' # copies
    <2>1. PICK code \in Verdict(server[h]) :
             copies' = IF Stores(code) THEN [copies EXCEPT ![h] = Append(@, server[h].buffer)]
                       ELSE copies
      BY <1>3 DEF readDataBlockLimit, SkipLine, ReadLine, HangUp, EndOfData
    <2>2. copies' = [copies EXCEPT ![h] = Append(@, server[h].buffer)]
      BY <1>3, <2>1
    <2>3. Reading(h) /\ Wire(server[h].pos + 1) = Terminator
      BY <1>3 DEF readDataBlockLimit, SkipLine, ReadLine, HangUp, EndOfData
    <2>4. /\ server[h].pos \in Nat /\ server[h].upto \in Nat /\ Lines \in Nat
          /\ server[h].stage = "data" /\ server[h].pos < server[h].upto
          /\ server[h].upto <= Lines /\ copies[h] = <<>>
          /\ server[h].upto = Lines => h \in unsure \/ (h = current /\ step = "answer")
      BY <2>3, LinesType DEF IInv, TypeOK, Connection, Channels, Channel, Reading
    <2>5. server[h].pos + 1 = Lines
      <3>1. server[h].pos + 1 \in 1..Lines
        BY <2>4
      <3>2. QED
        BY <2>3, <3>1, WireFacts DEF IInv, TypeOK
    <2>6. h \in unsure \/ (h = current /\ step = "answer")
      BY <2>4, <2>5
    <2>7. /\ copies'[h] # <<>>
          /\ \A g \in Host : g # h => copies'[g] = copies[g]
      <3>1. copies \in [Host -> Seq(Seq(Line))] /\ server[h].buffer \in Seq(Line)
        BY DEF IInv, TypeOK, Connection
      <3>2. copies'[h] = Append(<<>>, server[h].buffer)
        BY <2>2, <2>4, <3>1
      <3>3. Append(<<>>, server[h].buffer) # <<>>
        BY <3>1, AppendProperties, <<>> \in Seq(Seq(Line))
      <3>4. QED
        BY <2>2, <3>1, <3>2, <3>3
    <2>8. Taken' = Taken \cup {h} /\ h \notin Taken
      BY <2>4, <2>7 DEF Taken
    <2>9. Handover!Take(h)
      BY <1>1, <2>6, <2>8 DEF Handover!Take, Taken
    <2>10. QED
      BY <2>9 DEF HandoverStep, Handover!HandoverNext
  <1>4. QED
    BY <1>2, <1>3

(* outbound.go:65-118, 187-231 with server.go:363-408.  A Send implements   *)
(* ReportHandover: what the queue assumes of it when it counts copies.      *)
THEOREM SendRefinement == Spec => ImplementsHandover
  <1>1. Init => Handover!HandoverInit
    <2>1. Init => /\ step # "answer" /\ unsure = {} /\ result = "none"
                  /\ \A h \in Host : failed[h] = "no" /\ copies[h] = <<>>
      BY DEF Init
    <2>2. QED
      BY <2>1 DEF Handover!HandoverInit
  <1>2. IInv /\ [Next]_vars => HandoverStep
    <2>1. CASE UNCHANGED vars
      BY <2>1, Stutters DEF vars, sender
    <2>2. QED
      BY <2>1, SendRefines, ReadRefines DEF Next
  <1>3. QED
    BY <1>1, <1>2, Invariance, PTL DEF Spec, ImplementsHandover, Handover!HandoverSpec, HandoverStep

\* In a behaviour of ReportHandover: a copy is known of, or its answer was
\* lost, and a host that Send succeeded with is not one it left.
Known ==
    /\ unsure \subseteq Left
    /\ Asking # NoHost => Asking \notin Left
    /\ result # "none" => Asking = NoHost
    /\ result # "ok" => Taken \subseteq unsure \cup {Asking}
    /\ result = "ok" => \E h \in Host : h \notin Left /\ Taken \ unsure = {h}

LEMMA HandoverKeeps ==
    ASSUME Known, HandoverStep
    PROVE  Known'
  <1>0. NoHost \notin Host
    BY Constants
  <1>1. CASE Handover!Despair
    BY <1>1 DEF Handover!Despair, Handover!Listening, Known, Asking, Left, Taken
  <1>2. ASSUME NEW h \in Host, Handover!Pass(h) \/ Handover!Offer(h) PROVE Known'
    BY <1>0, <1>2 DEF Handover!Pass, Handover!Offer, Handover!Listening, Known, Asking, Left, Taken
  <1>3. ASSUME NEW h \in Host, Handover!Take(h) PROVE Known'
    BY <1>0, <1>3 DEF Handover!Take, Known, Asking, Left, Taken
  <1>4. ASSUME NEW h \in Host, Handover!TurnDown(h) \/ Handover!LoseAnswer(h) PROVE Known'
    BY <1>0, <1>4 DEF Handover!TurnDown, Handover!LoseAnswer, Known, Asking, Left, Taken
  <1>5. ASSUME NEW h \in Host, Handover!Succeed(h) PROVE Known'
    BY <1>0, <1>5 DEF Handover!Succeed, Known, Asking, Left, Taken
  <1>6. CASE UNCHANGED Handover!handoverVars
    BY <1>6 DEF Handover!handoverVars, Known, Asking, Left, Taken
  <1>7. QED
    BY <1>1, <1>2, <1>3, <1>4, <1>5, <1>6 DEF HandoverStep, Handover!HandoverNext

LEMMA KnownCounts == Known => Handover!Counted
  <1> SUFFICES ASSUME Known PROVE Handover!Counted
    OBVIOUS
  <1>0. NoHost \notin Taken
    BY Constants DEF Taken
  <1>1. result \in {"temporary", "permanent"} => Taken \subseteq unsure
    BY <1>0 DEF Known
  <1>2. result = "ok" => Taken \ unsure # {}
    BY DEF Known
  <1>3. \A g, h \in Taken \ unsure : g = h
    BY DEF Known
  <1>4. QED
    BY <1>1, <1>2, <1>3 DEF Handover!Counted, Handover!Failed, Taken

(* One copy that Send knows of when it succeeds, none when it fails, and    *)
(* every other is paid for by an answer that was lost: it follows from the  *)
(* promise, whatever keeps it.                                              *)
LEMMA PromiseCounts == Handover!HandoverSpec => []Handover!Counted
  <1>1. Handover!HandoverInit => Known
    BY DEF Handover!HandoverInit, Known, Asking, Left, Taken
  <1>2. Known /\ HandoverStep => Known'
    BY HandoverKeeps
  <1>3. QED
    BY <1>1, <1>2, KnownCounts, PTL DEF Handover!HandoverSpec, HandoverStep

(* outbound.go:293-304 on 90-113.  The worker may delete the report when    *)
(* Send succeeds and must keep it when it fails, and may count one copy and *)
(* one more for every lost answer (OutboundQueue's SendAccepted, SendFailed *)
(* and UnconfirmedCopy).                                                    *)
THEOREM CopiesCounted == Spec => []Handover!Counted
  BY SendRefinement, PromiseCounts, PTL DEF ImplementsHandover
=============================================================================
