# MailTail in TLA+

MailTail is a receive-only SMTP server with an administration API and a web
interface. It takes mail for mailboxes that administrators define, keeps it in
SQLite for a while, refuses some of it by rules (MailFail), and may send abuse
reports about it. This directory holds its TLA+ specifications, the TLC
configurations that check them on small instances, and proofs, checked by
TLAPS, of the main results for every value of the constants.

Paths below are relative to `src/`.

## 1. The system

| Component | Code | State | Operations |
|---|---|---|---|
| SMTP session | `internal/smtpserver/server.go` | per connection: envelope (`MailFrom`, `RcptTo`, `OwnerUserID`, `OwnerSet`) | connect, HELO, MAIL, RCPT, DATA, RSET, QUIT; persist; queue reports |
| Routing policy | `internal/smtpserver/policy.go` | bootstrap policy (fixed while the process runs); mailbox rows are read from the store on every command | `OnConnect`, `OnMailFrom`, `OnRcptTo`, `OnData`, `ReportsFor`, `ValidateRecipientOwnership` |
| MailFail, greylist | `internal/smtpserver/mailfail.go` | table `greylist_states` | `MatchRcpt`, `MatchData`, `greylistResponse` |
| Outbound queue | `internal/smtpserver/outbound.go`, `internal/storage/sqlite.go` | table `outbound_messages`; the worker's snapshot of the due rows and its map of deferred domains | enqueue, list, delete, reschedule, defer a domain |
| Senders | `internal/smtpserver/outbound.go` | none | direct to MX, or a relay |
| Reports | `internal/smtpserver/reports.go` | none | ARF, XARF and DSN texts |
| Administration API | `internal/api/service.go`, `internal/storage/sqlite.go` | tables `users`, `user_settings`, `app_settings` | create, update, delete user; save admin mailbox; save runtime settings |
| Authentication | `internal/api/auth.go` | tables `auth_sessions`, `auth_login_attempts` | login, logout, current session, limiter |
| Message store | `internal/storage/sqlite.go`, `internal/models/tags.go` | table `messages` | create, list with cursors, delete, tags and their backfill |
| Retention | `cmd/mailtail/main.go`, `internal/storage/sqlite.go` | `expires_at` of messages | recalculate, delete what expired |
| Runtime configuration | `internal/runtimeconfig/runtimeconfig.go` | settings in the store; in the process, the manager, which an update reaches, and the bootstrap policy, which it does not | load, save, apply |
| MIME parser | `internal/parser/service.go` | none | parse |
| Web interface | `web/src` | browser state | lists, forms |

**How they interact.** Every SMTP connection is a goroutine. It calls the policy
for each command, and the policy reads users and mailbox rows from SQLite on
each call, without a transaction around several reads. API requests are other
goroutines that write those rows. An accepted message is parsed, inserted, and
then its reports are rendered and inserted into the outbound queue, one
statement each. One goroutine delivers the queue every 15 seconds, another
deletes expired messages every minute. One statement of SQLite, or one transaction, is atomic and
nothing larger is. `database/sql` opens further connections when calls overlap,
and what `PRAGMA` set on the first does not hold on those.

**What is hard.** The envelope lives through many commands while the mailboxes
it was checked against change; one command reads the store several times;
persisting, reporting and answering can each fail or be cut off by a crash;
the delivery worker acts on a listing that its own writes make stale, computes
times from a clock it read at the start of the batch, and can die between a
delivery and the deletion of the row. `hazards` in `PROJECT.json` lists these
places line by line, with the properties that cover each or the reason why none
does.

**What makes each component correct.**

* Session and policy: a stored message belongs to the mailbox that took every
  one of its recipients; the data-stage rules were applied; mail does not fall
  through to the bootstrap policy past a managed mailbox; an acknowledged
  message is stored; a report is about a stored message.
* Outbound queue: nothing lost, duplicates only through faults, no attempt
  before its time, waits never shortened, delivery in the end.
* Administration: recipient ownership is unique; user names are unique; a
  failed operation leaves a state the next one can work with.
* Greylist: a sender that keeps retrying gets in; one rule does not disturb
  another.
* Authentication: no more wrong passwords than the limiter allows; a session
  ends with its user or its time, and shows the mail of no other account.
* Retention: a message is not deleted before the retention that applies to it.
* Message store: a message that stays is on exactly one page, with its tags;
  attachments and tags belong to their message and go with it.
* Senders: no host is tried twice; what a Send reports is what the hosts
  did; the body arrives whole or not at all, and none of it is taken for a
  command.
* Runtime configuration: an update that was answered is in force, now and after a
  restart, until another replaces it.

## 2. Modules

```
ReportOutbox          abstract outbox                (refined by OutboundQueue)
OutboundQueue         queue, worker, crashes, time
  OutboundQueue_proofs
  MCOutboundQueue
MailboxPolicy         decisions of policy.go as operators
  MailboxPolicy_proofs
SmtpSession           sessions + store + API writes  EXTENDS MailboxPolicy
  SmtpSession_proofs
  MCSmtpSession
MailboxDirectory      abstract directory             (refined by MailboxAdmin)
MailboxAdmin          API requests + retention       EXTENDS MailboxPolicy
  MailboxAdmin_proofs
  MCMailboxAdmin
Greylist              greylist rules, clients, time
  Greylist_proofs
  MCGreylist
WebAccess             logins, sessions, requests, process settings
  WebAccess_proofs
  MCWebAccess
MailStore             messages, attachments, tags, pages
  MailStore_proofs
  MCMailStore
ReportHandover        abstract Send                  (refined by ReportDelivery)
ReportDelivery        one Send and the servers it talks to
  ReportDelivery_proofs
  MCReportDelivery
```

The modules meet where one abstracts what another details: a Send is one step of
`OutboundQueue` (`SendAccepted`, `SendFailed`, `UnconfirmedCopy`) and a whole
behaviour of `ReportDelivery`, and `ReportHandover` is what the one assumes and
the other keeps; reading a body is one step of `SmtpSession`
(`ReadBody`, `RefuseBody`) and many of a server in `ReportDelivery`; the users
that log in in `WebAccess` are those of `MailboxAdmin`, which has their names and
settings; the rows of `MailStore` are what `SmtpSession` and `MailboxAdmin` keep
as bare messages.

Definitions named `Mutant...` are plausible faults of the code, one guard or one
line away from it. They are no part of a specification; each replaces a
definition to show that a property notices the fault.

### OutboundQueue

| TLA+ | Code |
|---|---|
| `status`, `attempts`, `due` | a row of `outbound_messages`: present, column `attempts`, column `next_attempt` |
| `batch`, `deferred`, `elapsed`, `temporary`, `pc` | locals of `runOutboundBatch`: rows still to handle, `deferredDomains`, the age of `now`, the kind of the last error, the line |
| `copies`, `faults` | history: copies the destination took; crashes, failed statements and lost answers so far |
| `EnqueueOutboundMessage` | the insert by an SMTP session |
| `StartBatch`, `FinishBatch` | `ListDueOutboundMessages`; the end of the loop |
| `SkipDeferred` | a row whose domain failed earlier in this batch |
| `SendAccepted`, `SendFailed`, `UnconfirmedCopy` | `sender.Send`: it is taken; it fails; a host has taken it but its answer is lost, and Send goes on to the next host or fails |
| `DeleteOutboundMessage`, `RescheduleOutboundMessage`, `DeferOutboundMessagesForDomain` | the store statements after a send, each of which may fail |
| `Crash`, `Tick` | death and restart of the process; the wall clock |

Times are relative to the present: `due[m]` is `next_attempt - now`, so that
time can pass for ever in a finite state space. The unit is the first retry
delay. The counter `attempts` stops at the length of the delay table, from where
on the delay no longer depends on it. `RetryDelay` is that table; in the code it
is 1, 2, 4, 8, 16, 32, 60 minutes.

`ReportOutbox` is the promise seen from outside: submit, hand over (perhaps more
than once), forget after a hand-over. `Outbox` in `OutboundQueue` is the
refinement mapping: the pending entries are the stored rows.

### MailboxPolicy and SmtpSession

`MailboxPolicy` holds the predicates of `policy.go` over abstract addresses and
patterns: `Match`, `matchesUserPolicy`, `recipientOwnershipOverlaps`,
`mailboxPolicyEnabled`, the outcome of MailFail rules, `reportsFor`. Rules and
regular expressions appear by what they match. A greylist rule may pass or
refuse.

`SmtpSession` runs them. Owner `Admin` is user id 0, which in the code is both
the admin mailbox and the owner of what the bootstrap policy takes.

| TLA+ | Code |
|---|---|
| `past` | all values of the mailbox rows so far; the last one is the database |
| `bootstrap` | `DomainPolicy.state`, replaced at a restart only |
| `session` | `SessionMetadata` |
| `command` | locals of the handler: `seen` is the moment the users were listed, `rcpt` the argument; `asked` is history, the moment the command arrived |
| `pc`, `todo`, `current` | where `handleConnection` is; report requests left; the message being answered |
| `store`, `lastId`, `reports` | `messages` with its AUTOINCREMENT, `outbound_messages` |
| `purged`, `acked`, `began` | history |
| `Connect`, `OnConnect` | accept and `OnConnect`: list users, then load the admin row |
| `MailFrom`, `RcptTo`, `Data`, `Rset`, `Disconnect` | the command loop |
| `RcptRouted`, `RcptRefused`, `RcptUnrouted`, `ManagedUsers`, `RcptByBootstrap` | `OnRcptTo`, `hasManagedMailboxes`, `defaultRcptResponse`: each reading of the store a step |
| `OnData` | `OnData` with `mailboxState` |
| `LookupFails`, `StoreFails`, `RefuseBody`, `NoReports` | the error paths |
| `ReadBody`, `CreateMessage`, `StartReports`, `ReportsFor`, `EnqueueReport`, `ReportsQueued`, `Accept` | `handleData`, `persistMessage`, `enqueueReports`, the 250 |
| `CreateUser`, `UpdateUser`, `DeleteUser`, `SaveAdminMailboxSettings` | the writes of the store, between any two steps above |
| `Restart` | death and start of the process, perhaps with another bootstrap policy |

What a property wants to say here is often "the mailbox took this recipient at
some moment of this command". The sequence `past` makes such moments indices, so
the property can quantify over them.

Abstractions: `RcptTo` is a set, so a recipient that is given twice counts once
(the code would queue its reports twice); the empty reverse path leaves
`MailFrom` empty and therefore never reaches DATA, as in the code; the texts of
messages and answers and the reader of command lines are left out; a body is read
or refused, which `ReportDelivery` details; the expiry date of a message is left to `MailboxAdmin`,
the entries of greylist rules to `Greylist`. `SmtpSession` lets the API write
rows as it likes, valid or not, so what it shows does not depend on
`MailboxAdmin`.

### MailboxAdmin

The API over the tables, from the side of the requests: every store call of a
request is a step, any of them may fail, and other requests, deliveries and the
retention worker run in between.

| TLA+ | Code |
|---|---|
| `users`, `rows`, `lastUser` | `users.username`; `user_settings`, and row `admin_mailbox` of `app_settings`; the AUTOINCREMENT of `users` |
| `pc`, `req` | the line a request is at, its arguments, and the messages it has listed |
| `inbound` | deliveries between reading the retention and inserting |
| `store`, `lastId` | `messages`: owner, and the days its `expires_at` was computed from |
| `old` | history: the settings changed since they were read for this message |
| `Start`, `ValidateAdmin`, `ValidateUsers`, `CheckName` | normalisation, `ValidateRecipientOwnership`, the check of the name |
| `SaveNewUser`, `SaveRow`, `SavePassword` | the transactions of `CreateUser`, `UpdateUser`, the saves of settings; `UpdateUserPassword` |
| `ListMessages`, `ApplyToListed`, `ApplyToAll` | `RecalculateMessageExpirations`: a SELECT, then a transaction of UPDATEs; one UPDATE when there is no retention |
| `DeleteUser` | one transaction |
| `ReadRetention`, `CreateMessage`, `DeliveryFails` | `persistMessage` |
| `DeleteExpiredMessages` | a pass of the retention worker |
| `Fail`, `Restart` | a store call fails or finds what it forbids; the process dies |

Abstractions: a policy is its accepted recipients and its days, since the other
settings play no part in validation; `Fold` stands for both case foldings, the
one of Go for the reserved name and the one of SQLite for the others; time does
not appear, a message with a date may expire at any moment.

`MailboxDirectory` is what the requests amount to: the mailboxes with their
logins and claims, of which one is registered, changed or removed in one step
that sees all of them. `Directory` in `MailboxAdmin` is the refinement mapping: a
mailbox is a row of `users`, or the admin mailbox, with its folded name and with
what its row of settings accepts.

### Greylist

| TLA+ | Code |
|---|---|
| `entry` | a row of `greylist_states`: ages of `first_seen` and `last_seen`, `attempts` |
| `pc`, `pos`, `result` | where the handler of a client's RCPT or DATA command is, at which recipient, and what it is about to save |
| `pause` | how long a refused client has been waiting |
| `refused`, `since`, `heard`, `faults` | history: what an observer of the answers would note down |
| `Attempt`, `GiveUp` | a client comes, comes again, or loses interest |
| `DeleteExpired`, `Load`, `Save` | the three store calls of `greylistResponse` |
| `Abort` | a store call fails (451), or the process dies |
| `Tick` | the clock |

A key is trigger, stage, sender and recipient, and so fixes the rule; the rules
do not change while the model runs. Times are ages up to `Horizon`; an attempt
takes milliseconds and the rules' durations are minutes, so no time passes while
one is being answered. Attempts beyond `allowAfter + 1` make no difference and
are not counted.

### WebAccess

| TLA+ | Code |
|---|---|
| `users`, `created` | table `users` and its AUTOINCREMENT; the account an id stands for is history |
| `session`, `attempts`, `store`, `saved` | `auth_sessions` by cookie, `auth_login_attempts`, `messages` with their owner, row `runtime` of `app_settings` |
| `applied`, `policy` | the settings of `runtimeconfig.Manager`; the restrictions that the bootstrap `DomainPolicy` was built with |
| `latest` | history: the settings saved last, and those that were saved and not yet applied then |
| `pc`, `req`, `inbound` | where a request is and what it has read; deliveries between `OnData` and the insertion |
| `LoginStart`, `CountAttempts` | `loginLimited`: two statements |
| `Refuse`, `RecordExpire`, `RecordLoginAttempt` | an unknown user or a wrong password; `recordLoginAttempt`: two statements |
| `Accept`, `ClearLoginAttempts`, `CreateAuthSession` | the other way through `handleLogin` |
| `Authenticate`, `DeleteAuthSession` | `Middleware` with `currentSession`; `handleLogout` |
| `DeleteMessages`, `CreateUser`, `DeleteUser`, `SaveAppSettings`, `Apply` | what a request does as its principal |
| `OnData`, `CreateMessage`, `DeliveryFails` | a delivery |
| `Tick`, `Restart`, `Fail` | the clock; death and start, with the manager and the policy built from what is `Loaded`; any call fails, or changes nothing |

An id says which row, not whose: `who` is the account that was meant when the
request logged in or the delivery chose its owner, so that `OwnMailOnly` can
say that an id is never handed on. `stray` and `latest` note the overlaps that
the code does not exclude, so that the properties can say that nothing *else*
goes wrong. Settings have two parts: what an update sets, and the restrictions of
the SMTP server, which only the environment sets and every update leaves out
(`Global`). Passwords are right or wrong; a token is one that is not in use.
Ids of sessions, attempts and messages are drawn from finite sets, which bound
how many there are at a time and not over time.

### MailStore

| TLA+ | Code |
|---|---|
| `store`, `children`, `tagged`, `created` | `messages` with the tags of their recipients, `attachments`, `message_tags`, AUTOINCREMENT |
| `up`, `bare` | the process runs; there may be a connection without foreign keys |
| `walk` | a client's filter, cursor and pages, and the page that is being put together |
| `Start`, `Overlap`, `Crash` | `NewSQLiteStore` with `backfillMessageTags`; the pool opens a connection; death |
| `CreateMessage` | one transaction, at any place in the order of `received_at` |
| `Delete` under `DeleteMessage`, `DeleteAllMessages`, `DeleteMessagesOf`, `DeleteExpiredMessages` | the DELETE statements of a request, of `DeleteUser`, of the retention worker |
| `Open`, `NextPage` | the client |
| `QueryPage`, `hydrateTagsForMessages`, `listAvailableTags`, `PageFails` | `ListMessages`: three statements without a transaction |

`received_at` is text and is taken before the message is stored, so a message
may arrive behind the cursor; `at` is its place in the order of the texts,
whatever that order is. A message has one attachment, which is enough to see
it orphaned or misattributed. `MailStore` starts empty or with one message of a
version without tags.

### ReportDelivery

| TLA+ | Code |
|---|---|
| `step`, `todo`, `current`, `temporary`, `result` | locals of `DirectSender.Send`, or of `RelaySender.Send` with one host |
| `server` | the connection of each host: what it is reading, how far, and the locals of `readDataBlockLimit` |
| `copies`, `failed`, `unsure` | what each host has stored; history: what became of each |
| `lookupMX`, `Dial`, `NoHostLeft` | the lookup and the loop over the hosts |
| `Refused`, `Data`, `GiveUp`, `Answer` | `deliverSMTP`: refusals before DATA, writing, a broken connection or the end of time, the answer |
| `SkipLine`, `ReadLine`, `HangUp`, `EndOfData` | `readDataBlockLimit`: an overlong line, a line, a bare carriage return or the end of input, the final dot and the answer |

The receiving side is MailTail's own; a line has a length and a number of leading
dots, may hold a bare carriage return, and the wire has the dots doubled as
`net/textproto` does. A host that a lookup names twice counts as two hosts. A server reads on after its sender has given up, up to what
got through. A server that hangs up may do so with 451 or with nothing; the
sender sees one or the other.

`ReportHandover` is a Send as its caller may see it: the report is offered to one
host after the other, never twice to the same; success means that a host took it,
failure that none did but hosts whose answer was lost. Such a host may take it
when the Send is long over. `Handover` in `ReportDelivery` is the refinement
mapping: a host is being asked from the moment the body is written to it until
its answer comes or is given up.

## 3. Runs

Every run finishes within about three minutes on two workers.

| Run | Instance | Shows |
|---|---|---|
| `outbound_main` | 3 reports, 2 of one domain; batch 2; delays 1, 2; 2 faults; batches of at most 2 time units | `TypeOK`, `NeverLost`, `DuplicatesNeedFaults`, `NoEarlyAttempt`, `NeverMovedEarlier`, the refinement `ImplementsOutbox`, and `EventuallyDelivered` |
| `outbound_starvation` | 2 reports of one domain, no fault | a violation of `EveryReportIsTried` |
| `smtp_safety` | 1 client, 2 users, admin, 4 policies, 3 bootstrap policies, 2 changes, 1 message | `TypeOK`, `AckedIsStored`, `NoStrayMail`, `DataRulesApplied`, `NoFallThrough`, `ReportsAreDue` |
| `smtp_single_owner` | as `smtp_safety` | a violation of `SingleOwner` |
| `greylist_main` | 2 keys with different rules, 2 clients that go through them in opposite order, 2 faults, ages up to 4 | `TypeOK`, `PassEarned`, `GetsThrough` |
| `greylist_reset` | the same | a violation of `StateKept` |
| `admin_single` | 1 request, 1 delivery, 2 users, 4 names, 3 settings, 2 messages | `TypeOK`, `ExclusiveOwnership`, `NamesDistinct`, `RetentionFollows`, and the refinement `ImplementsDirectory` |
| `admin_ownership` | 2 requests, no mail | a violation of `ExclusiveOwnership` |
| `web_access` | 2 requests, 1 delivery, 2 users over time, 2 sessions, 2 attempts and 1 message at a time, limit and window 1, 2 settings, an environment with restrictions | `TypeOK`, `OwnMailOnly`, `NothingSurvivesItsUser`, `Throttled`, `NoOldSettings` |
| `web_settings` | 2 requests, 2 settings, an environment without restrictions | a violation of `AppliedLive` |
| `mail_store` | 3 messages over time, 2 owners, 1 tag, 2 places in the order, 3 filters, pages of 1 | `TypeOK`, `WalkComplete`, `PagesDescend`, `TagsShown`, `TagsComplete`, `NoOrphans`, `ChildrenOfMessage` |
| `report_delivery` | 4 hosts, 2 of one preference, 1 null MX, the domain itself; direct and relay; 9 bodies | `TypeOK`, `InStep`, `StoredIntact`, `CopiesAccounted`, `Classified`, and the refinement `ImplementsHandover` |

**Why the bounds are enough.** Queue: the interesting cases need two rows of one
domain (one fails, the other is deferred) and a row of another domain that must
not be; a batch smaller than the queue leaves a row out, and
the two rows of one domain may fail for ever and fill it before the row of the
other; a batch as long as two
delays makes its `now` older than a retry time it computes; two faults cover a
crash after a failed statement. `MaxOverdue` is the furthest a row can be told to
be overdue; no reachable state of the runs gets there. Sessions: a handler reads the store at most
three times, so two changes reach each gap between them; two users make a
recipient ambiguous and let an envelope change hands; the four policies are one
with exact domains and reports, one with patterns, a sender filter, greylisting
and a data-stage refusal, one that refuses by rule, and one that is managed but
not routed. A message is a function of its own session, so one client with one
message is enough for the properties on envelopes; the proofs are for any number
of clients. Administration: two users
and the admin mailbox make every pair of owners, of the same kind or not; two of
the four names differ in case only, one is the reserved one; of the three
settings one is not routed, one has negative days, and one has a pattern that
meets another's domain. Two messages let a recalculation touch one of another
owner, or miss one that came after its listing. Greylist: one rule waits for
time and forgets late, the other for attempts and forgets early, so each can
undo the other's progress; clients in opposite order meet at both. Web: two
requests are a login and the deletion of its user, two logins at the limiter, or
two updates of the settings; two users over time are a deleted one and its
successor; with limit 1 the second of two logins is the one too many. Requests,
sessions, attempts and messages are interchangeable, and the run uses their
symmetry. Store: with pages of one and three messages a walk has an end, a
middle and a message that comes or goes before, at and behind the cursor; two
places for three messages make a tie that only the id decides; a deletion before
the last insertion would hand an id on, if ids were. Delivery: two hosts of one
preference come in either order, the null MX after them ends a Send that already
failed for now; the bodies have a lone dot, a line that is too long only by its
stuffed dot, too much by the last line and before it, both faults at once, and a
bare carriage return alone and behind a dropped line. `MaxChanges`,
`MaxMessages`, `MaxFaults`, `MaxElapsed`, `MaxLag`, `MaxOverdue`, `MaxId`, `MaxUser`, `MaxTime`,
`Cookie`, `AttemptId`, `MessageId`, `Old`, `Filters`, `Bodies`, `Receiving` and
`Horizon` are the bounds.

**Deadlock.** The queue's runs turn the check off, since the system rests when
every report is delivered and no more come; so does `report_delivery`, since a
Send has an end. The other runs keep it on.

**Fairness** is assumed for the two liveness properties only. In `FairSpec` of
`OutboundQueue`: weak fairness of the worker: the ticker fires every 15 seconds and
the goroutine runs to the end of its batch; each send has a time limit. Weak
fairness of `Tick`: the clock runs, also while a batch does. Nothing is assumed of
clients, of crashes, or of the store: a statement may fail at any time, up to
`MaxFaults` times. Nor is anything assumed of destinations: what one does is part
of the property. `Reachable(d)` says that sends to domain `d` that are attempted
again and again succeed again and again, and `EventuallyDelivered` concludes from
it that the reports of `d` are delivered again and again, whatever happens to the
sends to other domains.

In `FairSpec` of `Greylist`: weak fairness of `Respond`, since a handler runs to
its end; weak fairness of the retry of clients in `Persistent`, which is what the
word means, and the clock does not pass their `RetryGap` before they retry
(`GetsThrough` needs them to come more often than any rule forgets); strong
fairness of `Tick`, since the clock runs however many attempts are being
answered. Other clients may come and go as they like.

`EventuallyDelivered` holds although all the reports of the other domain may be
refused for ever, and two of them fill a batch. Within one domain a report that
fails for ever does keep others out: that is `outbound_starvation`. The gap between
the retries of `GetsThrough` is below every reset time of its instance, so it does
not show what a cleanup takes from a client that comes less often; `greylist_reset`
does.

What the passing runs do not show: `admin_single` serves one request at a time, so
`ExclusiveOwnership` and `NamesDistinct` there say that each validation looks at
everything it should, and not that two requests are kept apart. They are not, see
`admin_ownership`; two new users whose names differ only in case get in the same
way (`service.go:201`). `NoOrphans` leaves out the deletions on a connection
without foreign keys, which do leave rows behind; `ChildrenOfMessage` says that
these never turn up under another message.

## 4. Where the code and the documents differ

* `README.md` ("retried without a fixed attempt limit") against the domain-wide
  deferral (`outbound.go:319`): a recipient that always fails temporarily pushes
  the other reports of its domain to its own retry time, comes first again by id,
  fails again, and so on; the reports behind it are never attempted
  (`outbound_starvation`).
* `docs/multi-user-target.md` ("every accepted recipient resolves to the same
  owner") against `policy.go:336`: when the last user is deleted within an
  envelope and no admin mailbox is active, the bootstrap branch takes the next
  recipient and sets the owner to 0 over the user of the earlier recipients
  (`smtp_single_owner`).
* `README.md` ("`resetAfter` defines when the greylist state expires") against
  `mailfail.go:169`: each rule cleans up the entries of all rules by its own
  `resetAfter`, so an entry may go before its rule says (`greylist_reset`).
* `policy.go:63` and the tests that expect a conflicting save to be refused
  (`service_test.go:13`, `41`, `83`) against the gap between validation and save:
  two concurrent saves are both accepted (`admin_ownership`). One at a time they
  are not; that is proved.
* `README.md:355` ("saved and applied live without restarting MailTail") against
  `service.go:119-123`: two updates may be saved in one order and applied in the
  other, and the process runs with other settings than were saved last
  (`web_settings`). With restrictions in the environment one update is enough for
  process and restart to differ: it saves none (`service.go:115`), the policy built
  at the start keeps those of the environment (`main.go:106`), and the next start
  is without them. `NoOldSettings` says that nothing else goes wrong: whatever is
  in force or saved between updates is of the last update or of one that
  overlapped it, and the policy has the restrictions of a restart or the
  environment's.

Differences that need no run, since one line of the code shows them, or that the
models have as a case their properties allow for:

* `README.md:393` ("MailTail rejects `MAIL FROM`") against `OnMailFrom`
  (`policy.go:294`), which accepts every sender; the sender is judged at RCPT.
* `README.md:184` ("5 failed attempts per 15 minutes") against `loginLimited`:
  logins that have passed the count may all still fail, so the number on record
  can exceed the limit by the requests that run at once, less one. `Throttled`
  states this bound, and it is proved. An attempt that cannot be recorded is
  not counted at all (`auth.go:95`, `116`).
* A login or a delivery that overlaps the deletion of its user leaves a session
  or a message of a user that is gone. It shows or belongs to nobody else
  (`OwnMailOnly`), since ids are not handed on.
* A deletion on a connection other than the first leaves attachments and tags
  behind (`sqlite.go:83`). They stay in the database, and the administrator's
  `GetAttachment` still finds them by the deleted message's id, as its query
  does not join `messages` (`sqlite.go:1028-1032`); no listing shows them.
* A null MX that comes after a host that failed for now makes the Send fail
  permanently (`outbound.go:94`), and so does a relay whose dialling fails with
  an error that does not call itself temporary, such as a refused connection
  (`outbound.go:168`, `333`). The worker retries both kinds, so the kind decides
  only whether the domain is deferred.
* The limit on a line counts the stuffed dot (`server.go:417`): a line of 998
  characters that begins with a dot is refused.

## 5. Proofs

The theorems hold for every value of the constants that satisfies the
assumptions of the module (`OutboundAssumption`; `PolicyAssumption` with
`SessionAssumption` or `AdminAssumption`; `GreylistAssumption`;
`AccessAssumption`; `StoreAssumption`; `DeliveryAssumption`): any number of
reports, domains, users, clients, rules, policies, changes, faults, requests,
messages, hosts and bodies.

`OutboundQueue_proofs`:

* `TypeCorrect`, `NothingLostNothingRepeated`, `RetryTimeRespected`,
  `WaitsNeverShortened`, `Refinement`. `WaitsBounded` and
  `DelaysStayInTheirDomain` are the part of `EventuallyDelivered` that is a
  matter of safety: a retry time is never further away than the longest delay,
  and is put off only by the report's own failure or one of its domain.
* The properties are not inductive on their own. The worker acts on a snapshot,
  so one must know what the snapshot still says about the table. The invariant
  adds three parts. `BatchOK`: the rows of the batch are distinct and still
  stored, so a row is sent once per batch and never after its deletion.
  `SnapshotOK`: a row of the batch whose domain is not deferred in memory is due,
  and in memory a deferral is at least what the store was told, so a stale row is
  skipped rather than sent early or moved back. `CopiesOK`: how many copies
  exist, by where the worker is and how many faults there were; this gives both
  `NeverLost` and `DuplicatesNeedFaults`.

`SmtpSession_proofs`:

* `Acknowledged`, `NoMailAstray`, `DataDecided`, `NoMailFallsThrough`,
  `ReportsJustified`; and, of any number of connections that store messages at
  once, which the run with its single client does not show,
  `AnswersItsOwnMessage` and `ReportsPrecedeTheAnswer`: the answer to a body is
  for the one message this connection stored, and no report about it is queued
  later. `AmbiguityExplained` says when a recipient is refused because two
  mailboxes answer for it.
* The invariant is a conjunction over connections. `MomentsOK`: the moments a
  connection remembers lie in the past and in order. `EnvelopeOK`: for every
  recipient of the envelope there is a moment since MAIL at which the owner's
  mailbox took it. `FallbackOK`: on its way to the bootstrap policy, a handler
  has seen a moment without users. `DataOK`: past `OnData`, the rules have been
  applied at a moment since DATA. `StoredOK` and `TodoOK`: while a message is
  being reported and answered it is in the store or went with its user, and its
  report requests were derived from its owner's rules. They are needed because
  the property of a step (say, storing a message) is about commands that ended
  long before it; the invariant carries what they established past every change
  of the tables, which it survives because `past` only grows. `IdsOK` is the part about several connections: ids
  are not handed on, so what is being answered is neither acknowledged already
  nor the message of another connection.

`MailboxPolicy_proofs`, of the operators alone:

* `ExactOwnershipDisjoint`: claims that name exact domains and do not overlap
  match no common address. `AmbiguityUnseen`: any two claims that pass the
  comparison of `policy.go:110-159` and still match an address do so by two
  different patterns, or by the domain of one and a pattern of the other that
  matches neither this domain nor its probe (`Unseen`). That is all the
  comparison can miss.

`MailboxAdmin_proofs`:

* `WellTyped`, for any number of requests. `OwnershipExclusive`,
  `NamesUnambiguous` and `RetentionIsFollowed`, under the assumption `Alone` that
  requests come one at a time: without it the first two fail, see
  `admin_ownership`. `AmbiguityConfined`: with it, mailboxes share an address only
  where `Unseen` says so. `DirectoryIsAtomic`: with it, the reads of a
  validation and the save after them amount to one step of `MailboxDirectory`;
  `DirectoryApart`, of the abstract directory alone: since overlap is symmetric,
  looking at the one mailbox that is written keeps all of them apart.
* A property of the tables is not inductive, because a request saves what it
  validated several steps before. `ValidatedOK` says that, line by line, what has
  been validated so far still holds when the save comes; `NamesDistinct` itself
  is needed there, as the lookup of a name returns one user only. `PendingOK` and
  `ReadOK` say the same of the days a request is about to apply and a delivery is
  about to store; `IdsOK` and `FreshOK` keep a recalculation from other owners'
  messages and a new user from old ones.

`Greylist_proofs`:

* `WellTyped`, `EveryPassIsEarned`, for any rules, clients and interleaving.
  The converse, `PassesWhenEarned`, has two conditions, for each of which the code
  offers a counterexample: no cleanup drops an entry that its own rule still needs
  (`StateKept`, which `greylist_reset` violates and which holds if all rules
  forget after the same time, `OneResetTimeKeeps`), and no two attempts are
  between loading and saving the same entry (`Apart`; one would overwrite what the
  other counted). Failed calls and crashes are no condition: an attempt that
  fails is neither counted nor noted.
* The code decides by an entry that concurrent attempts overwrite; the property
  speaks of what was answered. `EntryOK` and `ResultOK` relate the two: an entry,
  stored or about to be stored, never claims more refusals or a longer wait than
  there were. `PassedOK` keeps the recipients an attempt has got past earned until
  the last one. For the converse the two are equal (`Faithful`), and an attempt is
  about to save what is due to the entry as it still stands (`Current`).

`WebAccess_proofs`:

* `TypeCorrect`, `Separation`, `CleanDeletion`, `SettingsNeverOld`,
  `LoginsThrottled`. `IdsAreForever`: an id keeps its account until that is
  deleted and has none from then on. `MailGoesByItsOwner`: a request takes away no
  mail but that of the account it logged in as, or as the administrator (the
  retention worker, which deletes for its own reasons, is in `MailboxAdmin` and
  `MailStore`).
* `Coherent` says what a handler's variables hold at each line. `Identity` says
  that an id that was given stands for the account it was given to, in the
  table and in whatever remembers it; then what two remember under one id is of
  one account, and `Separation` follows. `Overlapping` carries `stray` from the
  request or delivery that overlapped a deletion to the session or message it
  leaves. `Ordered` says that what is saved, what waits to be applied and, when
  nothing waits, what is applied are all among the latest settings, and where the
  policy's restrictions come from. `Clocked` is for the limiter: what is on record or
  about to be recorded has no time in the future, so the records that count at
  the decision are those that count now, but for those that have aged; then a
  step adds to records and guesses together only where the limit was not
  reached.

`MailStore_proofs`:

* `TypeCorrect`, `NothingSkipped`, `PagesInOrder`, `PageAgrees`, `TagsKept`,
  `OrphansExplained`, `ChildrenTrue`.
* `Keyed`: ids are serials and a child row bears the id it was stored under.
  `Tagged`: a message has all its tags, or none and the process is down.
  `Ordered` cuts what the walk is about at its cursor: what was shown is not
  past it, and a message that was there at the start is shown, on the page, or
  past it; while the page is read it is enough that the page, if it is full, is
  newer than what it leaves out. It survives insertions since they are not in
  `there`, and deletions since `there` only shrinks. `Linked` says that what the
  first statements of a page have read still holds when the last is done, for
  the messages that are still there.

`ReportDelivery_proofs`:

* `TypeCorrect`, `Framed`, `Intact`, `NoCopyUnaccounted`, `VerdictJustified`;
  `SendRefinement`, that a Send with its servers implements
  `ReportHandover`, and from it `CopiesCounted`: one copy that Send knows of when
  it succeeds, none when it fails, and one more at most for each lost answer. This
  is what `OutboundQueue` takes for granted in `SendAccepted`, `SendFailed` and
  `UnconfirmedCopy`; only a late copy of a Send that is over is counted there at
  once.
* `Placed`: where the sender is, and that hosts it has not come to are untouched.
  `Channels`, of each host: how far it has read what was sent to it, that what
  it has kept so far is the body so far unless something was wrong (`Faithful`,
  where a lemma says that unstuffing undoes stuffing), and how its copy, its
  answer and the sender's record of it agree. The servers run on after the
  sender has left them, so this is about all hosts and not the current one.
  `Judged`: `temporary` is whether a host failed for now.

What is only model-checked: `EventuallyDelivered` and `GetsThrough` (liveness
under fairness is out of the prover's reach) and the five violations. Each
inductive invariant was also checked with TLC before it was proved.

## 6. Not modelled

* Report texts, password hashing and the MIME parser are pure functions of their
  input; where their failure matters it is a choice of an action.
* The compilation of patterns and MailFail rules is a pure function of the
  settings too. Rules appear by what they match and do.
* `GetMessage`, `GetRawMessage`, `GetAttachment` and `Stats` change nothing. The
  first makes three reads without a transaction, like a page, and a message that
  is deleted between them is answered without its tags or attachments.
* The full-text query of a listing is a filter like the tag; how FTS5 breaks a
  text into words is not about this code.
* HTTP plumbing, CORS, static files, the API's description and the web interface
  are input, output and presentation. The CSRF check is one of the ways in which
  a request fails.
* `DomainPolicy.ApplyConfig`, `MatchMailFrom` and `DeleteExpiredAuthSessions`
  exist but the program never calls them.
* The width of numbers and the text of timestamps: retention is days times 24
  hours in nanoseconds and overflows from 106752 days on (`sqlite.go:687`), and
  RFC3339Nano texts compare like their times only up to a second. Both are
  properties of one expression.

## 7. What could come next

1. Liveness of the session: a client that keeps retrying a message it may send
   gets it stored, with `Greylist` as the refusing part.
2. `OutboundQueue` with a behaviour of `ReportHandover` in the place of its Send
   steps, so that late copies come late.
3. The directory with several requests at a time: which pairs of them
   still amount to single steps.
4. The compilation of MailFail rules, and which of several matching rules acts.
5. A second client in `SmtpSession`'s instance; the theorems cover it, the run
   does not fit the time.
