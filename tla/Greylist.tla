------------------------------ MODULE Greylist ------------------------------
(***************************************************************************)
(* Greylisting (src/internal/smtpserver/mailfail.go): what the greylist    *)
(* rules of a recipient, or of all recipients at the DATA stage, answer to *)
(* senders that come again, and what they leave in greylist_states.        *)
(*                                                                         *)
(* A key is rule trigger, stage, sender and recipient, so it determines    *)
(* the rule.  Cleaning up, loading and saving an entry are three calls of  *)
(* the store in three steps, without a transaction; clients interleave     *)
(* between them, and each call may fail.                                   *)
(*                                                                         *)
(* Times are ages, up to Horizon, in units of the rules' durations.  An    *)
(* attempt takes milliseconds and those durations are minutes: no time     *)
(* passes while one is being answered.                                     *)
(***************************************************************************)
EXTENDS Integers, Sequences

CONSTANTS
    Key,            \* state keys
    AllowAfter,     \* of the rule of each key
    MinRetryAfter,
    ResetAfter,
    Client,         \* senders: one message each, tried until accepted
    KeysOf,         \* the keys an attempt of each client goes through
    Persistent,     \* clients that retry ...
    RetryGap,       \* ... at the latest after this time
    NoEntry,
    Horizon,        \* bound: ages above it are all the same
    MaxFaults       \* bound: failed store calls and crashes

State  == [first : 0..Horizon, last : 0..Horizon, attempts : Nat \ {0}]
Result == [state : State, pass : BOOLEAN]

ASSUME GreylistAssumption ==
    /\ AllowAfter \in [Key -> Nat \ {0}]         \* compileMailFailRule
    /\ MinRetryAfter \in [Key -> Nat]
    /\ ResetAfter \in [Key -> Nat \ {0}]
    /\ KeysOf \in [Client -> Seq(Key) \ {<<>>}]
    /\ Persistent \subseteq Client /\ RetryGap \in [Client -> Nat \ {0}]
    /\ Horizon \in Nat /\ MaxFaults \in Nat
    /\ \A k \in Key : ResetAfter[k] <= Horizon /\ MinRetryAfter[k] <= Horizon
    /\ NoEntry \notin State \cup Result

VARIABLES
    entry,      \* greylist_states: ages of first_seen and last_seen, attempts
    pc,         \* what each client is doing
    pos,        \* which of its keys an attempt has come to
    result,     \* the entry to save and whether the attempt then passes
    pause,      \* how long a client has been waiting
    refused,    \* history, since the last silence of ResetAfter: refusals,
    since,      \*   age of the first attempt,
    heard,      \*   age of the last one
    faults      \* history

handler == <<pc, pos, result, pause>>
history == <<refused, since, heard>>
vars    == <<entry, handler, history, faults>>

\* No attempt was heard of since the time the rule forgets after.
Silent(k) == heard[k] >= ResetAfter[k]

key(c) == KeysOf[c][pos[c]]

Older(age) == IF age < Horizon THEN age + 1 ELSE age
UpTo(limit, n) == IF n < limit THEN n ELSE limit
----------------------------------------------------------------------------
\* Mutant: a new entry has not counted the attempt that made it.
MutantFresh == [first |-> 0, last |-> 0, attempts |-> 0]

Fresh == [first |-> 0, last |-> 0, attempts |-> 1]

\* Mutant: every attempt starts the wait for MinRetryAfter again.
MutantCounted(k, s) ==
    [first |-> 0, last |-> 0, attempts |-> UpTo(AllowAfter[k] + 1, s.attempts + 1)]

\* Further attempts make no difference once they exceed AllowAfter.
Counted(k, s) ==
    [first |-> s.first, last |-> 0, attempts |-> UpTo(AllowAfter[k] + 1, s.attempts + 1)]

\* Mutant: off by one.
MutantEnough(k, s) == s.attempts >= AllowAfter[k] /\ s.first >= MinRetryAfter[k]

Enough(k, s) == s.attempts > AllowAfter[k] /\ s.first >= MinRetryAfter[k]

\* greylistResponse, from the entry as loaded to the one to save.
greylistResponse(k, s) ==
    IF s = NoEntry \/ s.last >= ResetAfter[k] THEN [state |-> Fresh, pass |-> FALSE]
    ELSE [state |-> Counted(k, s), pass |-> Enough(k, Counted(k, s))]
----------------------------------------------------------------------------
Init ==
    /\ entry = [k \in Key |-> NoEntry]
    /\ pc = [c \in Client |-> "rest"]
    /\ pos = [c \in Client |-> 1]
    /\ result = [c \in Client |-> NoEntry]
    /\ pause = [c \in Client |-> 0]
    /\ refused = [k \in Key |-> 0]
    /\ since = [k \in Key |-> 0]
    /\ heard = [k \in Key |-> Horizon]
    /\ faults = 0

\* The handler of c stops, and c waits or is through.
Answer(c, to) ==
    /\ pc' = [pc EXCEPT ![c] = to]
    /\ pos' = [pos EXCEPT ![c] = 1]
    /\ result' = [result EXCEPT ![c] = NoEntry]
    /\ pause' = [pause EXCEPT ![c] = 0]

\* A first attempt, or a retry some time after a refusal.
Attempt(c) ==
    /\ \/ pc[c] = "rest"
       \/ pc[c] = "wait" /\ pause[c] > 0
    /\ pc' = [pc EXCEPT ![c] = "cleanup"]
    /\ UNCHANGED <<entry, pos, result, pause, history, faults>>

\* A client that has nothing to prove loses interest.
GiveUp(c) ==
    /\ pc[c] = "wait" /\ c \notin Persistent
    /\ Answer(c, "rest")
    /\ UNCHANGED <<entry, history, faults>>

Fault == faults < MaxFaults /\ faults' = faults + 1

\* DeleteExpiredGreylistStates deletes by the age of the entry and by nothing
\* else; its error is ignored.
DeleteExpired(c) ==
    /\ pc[c] = "cleanup"
    /\ pc' = [pc EXCEPT ![c] = "load"]
    /\ \/ /\ entry' = [k \in Key |-> IF entry[k] # NoEntry /\ entry[k].last >= ResetAfter[key(c)]
                                       THEN NoEntry ELSE entry[k]]
          /\ UNCHANGED faults
       \/ Fault /\ UNCHANGED entry
    /\ UNCHANGED <<pos, result, pause, history>>

Load(c) ==
    /\ pc[c] = "load"
    /\ pc' = [pc EXCEPT ![c] = "save"]
    /\ result' = [result EXCEPT ![c] = greylistResponse(key(c), entry[key(c)])]
    /\ UNCHANGED <<entry, pos, pause, history, faults>>

\* What an observer of the answers notes down about key k.
Note(k, pass) ==
    /\ heard' = [heard EXCEPT ![k] = 0]
    /\ since' = [since EXCEPT ![k] = IF Silent(k) THEN 0 ELSE @]
    /\ refused' = [refused EXCEPT ![k] =
          UpTo(AllowAfter[k], (IF Silent(k) THEN 0 ELSE @) + (IF pass THEN 0 ELSE 1))]

\* MatchData has gone through all recipients; MatchRcpt has just one.
LastKey(c) == pos[c] = Len(KeysOf[c])

\* SaveGreylistState and the answer: the next key, acceptance or a refusal.
Save(c) ==
    /\ pc[c] = "save"
    /\ entry' = [entry EXCEPT ![key(c)] = result[c].state]
    /\ Note(key(c), result[c].pass)
    /\ \/ /\ result[c].pass /\ ~LastKey(c)
          /\ pc' = [pc EXCEPT ![c] = "cleanup"]
          /\ pos' = [pos EXCEPT ![c] = @ + 1]
          /\ result' = [result EXCEPT ![c] = NoEntry]
          /\ UNCHANGED pause
       \/ result[c].pass /\ LastKey(c) /\ Answer(c, "rest")
       \/ ~result[c].pass /\ Answer(c, "wait")
    /\ UNCHANGED faults

\* Loading or saving fails (451), or the process dies.
Abort(c) ==
    /\ pc[c] \in {"cleanup", "load", "save"}
    /\ Fault
    /\ Answer(c, "wait")
    /\ UNCHANGED <<entry, history>>

Tick ==
    /\ \A c \in Client : pc[c] \in {"rest", "wait"}
    /\ \A c \in Persistent : pc[c] = "wait" => pause[c] < RetryGap[c]
    /\ entry' = [k \in Key |-> IF entry[k] = NoEntry THEN NoEntry
                   ELSE [entry[k] EXCEPT !.first = Older(@), !.last = Older(@)]]
    /\ pause' = [c \in Client |-> IF pc[c] = "wait" THEN UpTo(RetryGap[c], pause[c] + 1) ELSE 0]
    /\ since' = [k \in Key |-> Older(since[k])]
    /\ heard' = [k \in Key |-> Older(heard[k])]
    /\ UNCHANGED <<pc, pos, result, refused, faults>>

Respond(c) == DeleteExpired(c) \/ Load(c) \/ Save(c)

Next ==
    \/ \E c \in Client : Attempt(c) \/ GiveUp(c) \/ Respond(c) \/ Abort(c)
    \/ Tick

Spec == Init /\ [][Next]_vars

\* Attempts are answered and time goes on; nothing makes a client try but the
\* bound of RetryGap on the clock of a persistent one.
FairSpec ==
    /\ Spec
    /\ \A c \in Client : WF_vars(Respond(c))
    /\ \A c \in Persistent : WF_vars(pc[c] = "wait" /\ Attempt(c))
    /\ SF_vars(Tick)
----------------------------------------------------------------------------
TypeOK ==
    /\ entry \in [Key -> State \cup {NoEntry}]
    /\ pc \in [Client -> {"rest", "wait", "cleanup", "load", "save"}]
    /\ pos \in [Client -> Nat \ {0}]
    /\ result \in [Client -> Result \cup {NoEntry}]
    /\ pause \in [Client -> Nat]
    /\ refused \in [Key -> Nat] /\ since \in [Key -> 0..Horizon]
    /\ heard \in [Key -> 0..Horizon]
    /\ faults \in 0..MaxFaults

Earned(k) ==
    /\ ~Silent(k) /\ refused[k] >= AllowAfter[k] /\ since[k] >= MinRetryAfter[k]

(* mailfail.go:163-217, README.md:292-296.  A client gets through only if,  *)
(* for each of its keys and without a silence of ResetAfter in between,     *)
(* AllowAfter attempts were refused and the first is MinRetryAfter ago -    *)
(* however concurrent attempts overwrite each other's entries and whatever  *)
(* store calls fail.                                                        *)
PassEarned ==
    [][\A c \in Client : pc[c] = "save" /\ pc'[c] = "rest" =>
          \A i \in DOMAIN KeysOf[c] : Earned(KeysOf[c][i])']_vars

(* README.md:293: "then accepts later retries".  A client that retries more *)
(* often than any rule forgets gets through in the end.                     *)
GetsThrough == \A c \in Persistent : pc[c] = "wait" ~> pc[c] = "rest"

(* README.md:296: "`resetAfter` defines when the greylist state expires and *)
(* becomes temporary again."  An entry is not dropped before the time its   *)
(* own rule gives.                                                          *)
StateKept ==
    [][\A k \in Key : entry[k] # NoEntry /\ entry'[k] = NoEntry =>
          entry[k].last >= ResetAfter[k]]_vars
=============================================================================
