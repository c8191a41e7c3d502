# A TLA+ model of picomailgo

picomailgo is a mail server in one Go process: inbound SMTP, submission SMTP,
IMAP, a webmail, an outbound relay with a retry queue, and one SQLite file
under all of them.  This directory holds TLA+ modules translated from its
source, the TLC runs that check them on small instances, and proofs checked by
TLAPS that hold for instances of any size.

Paths below are relative to the repository's root (`src/` in `PROJECT.json`).

## 1. Inventory

### Components

| Component | State | Operations that change it | Talks to |
|---|---|---|---|
| Mail store: `internal/db`, `migrations/001_initial.sql` | tables `users`, `mailboxes`, `messages`, `message_flags`, `outbound_queue`, `dkim_keys`; one writer connection, four readers | `Open` (rename of an old file, migrations), every statement of the others | everyone |
| Accounts: `internal/auth` | rows of `users`; JWT tokens held by browsers | `CreateUser`, `UpdateDisplayName`, `ChangePassword`; `Authenticate`, `ValidateToken` read | store, IMAP, submission, webmail |
| IMAP backend: `internal/imap` | per session, the selected `Mailbox` handle (a row id); the rest is in the store | `CreateMailbox`, `DeleteMailbox`, `RenameMailbox`, `CreateMessage`, `UpdateMessagesFlags`, `CopyMessages`, `Expunge` | go-imap server, store |
| Inbound SMTP: `internal/smtp/server.go` | per session, sender and recipients | `Mail`, `Rcpt`, `Data`, `Reset`, `deliverToInbox` | go-smtp server, store |
| Submission: `internal/smtp/submission.go` | per session, user, sender, recipients | `Auth`, `Mail`, `Rcpt`, `Data`, `Reset` | accounts, relay |
| Relay: `internal/smtp/relay.go` | rows of `outbound_queue`; the batch of the poll in progress | `Send`, `deliver`, `enqueue`, `ProcessQueue`, `SaveToSent` | MX hosts, store, DKIM |
| Webmail: `internal/web` | nothing of its own but the token cookie | view (marks seen), delete, compose, login, register, settings | accounts, store, relay |
| Rate limiter: `internal/web/ratelimit.go` | map of IP to count and reset time, under a mutex | `Allow`, `cleanup` | in front of every webmail route |
| DKIM: `internal/smtp/dkim.go` | rows of `dkim_keys` | `EnsureKey` at startup; `Sign` reads | relay, store |
| Message formats: `internal/email` | none | none: `Compose`, `ParseHeaders`, `GetTextBody` are functions | SMTP, webmail |
| Startup: `cmd/picomailgo`, `internal/config`, `internal/tls`, `internal/logging` | none after start | starts the servers, stops on a signal | everyone |

### What is hard

- **Interleaving.**  Each SMTP session, IMAP connection, webmail request and the
  queue processor is a goroutine.  The writer pool has one connection, so a
  transaction, or a statement outside one, is atomic, and nothing larger is:
  STORE, COPY, the web delete, the web view and the queue processor read first
  and write later, one statement at a time.
- **Crashes.**  The process may stop between any two statements; shutdown waits
  for nobody (`cmd/picomailgo/main.go:150-154`).  Sessions are lost, the database
  keeps what was committed.
- **Errors dropped on the floor.**  Many writes ignore their error:
  the web delete, flag updates, COPY's commit, all updates of the queue.
- **Delivery.**  A host may take a message and its answer be lost; a host may
  accept a connection and never speak.
- **Views that go stale.**  go-imap is never told what other sessions do, so an
  IMAP client works on numbers, uids and counts that were true once; a browser's
  token asserts an account for 24 hours whatever becomes of it.
- **Numbers at the edge.**  `attempts < max_attempts` against
  `newAttempts >= max_attempts`; uid 0; the end of a rate-limit window.

The full list, each at its line, is `hazards` in `PROJECT.json`, with the
property that covers it or the reason none does.  Several of them do bite: where
the code goes wrong a property names the case as its exception, the hazard's note
says so, and section 4 lists these exceptions.

### What makes each component correct

- *Store and IMAP*: a uid names one message of its mailbox for ever; new mail has
  the highest uid; no row points at a row that is gone; mail vanishes only on
  request; mail never moves to another account; every account has its INBOX.
- *Webmail*: a delete ends with the message gone or in Trash, repeated or not.
- *SMTP sessions, compose*: what is acknowledged is delivered, to nobody else, and
  no more often than the sender's retries explain; what stands in Sent was sent.
- *Relay*: what a client was told is sent is delivered, queued or fully tried;
  hosts get a message twice only when the server could not know; every queued
  message is resolved in the end.
- *Rate limiter*: at most twice the rate in any window's length; refusals are earned; the map does
  not grow for ever.
- *IMAP views*: the numbers, uids and UIDNEXT a client was given name what it takes
  them for, except where the code has no means to tell it, or tells it wrong.
- *Accounts*: who gets in has given the account's password; what is stored is what
  its users were told.
- *Startup*: the server runs on a whole schema, with the mail that was accepted and
  the key that was announced, and comes back after it died.

## 2. Plan

Modelled, checked and, where the table of theorems says so, proved: `MailStore` and
its abstract `Mailbox`, `Relay` and its abstract `OutboundQueue`, `SmtpSessions`,
`RateLimiter`, `ImapView`, `Accounts` and `Startup`.  They compose as follows.
`MailStore` is the database under everything that touches mail; the sessions of
`SmtpSessions` call its `Deliver` and `SaveToSent` for each local recipient and
`Relay`'s `Submit` for each remote one, and keep only what the sender must know of
them; `ImapView` looks at one mailbox of `MailStore` from the clients' side;
`Accounts` decides who is behind a request; `Startup` decides which database is
there when all the others begin (`Crash` and `Init` of the others).

Left:

1. Proofs: every invariant and action property that a run checks is a theorem.
   What is left are results beside them: abstract specifications for `SmtpSessions`
   and `Startup`, as `Mailbox` and `OutboundQueue` are for the store and the relay.
2. The message list's pages by OFFSET (`handlers.go:455`), were a promise about them
   to be found: see *Not modelled*.

## 3. Modules

| Module | What it is |
|---|---|
| `MailStore` | the four mail tables and every handler that writes to them |
| `MailStoreProofs` | TLAPS proofs about `MailStore` |
| `Mailbox` | what `MailStore` implements: messages arrive, move, are marked and go |
| `MailboxProofs` | TLAPS proof that it does |
| `MCMailStore` | small instances of it: who is behind each connection and request |
| `Relay` | remote delivery, the queue and its processor |
| `RelayProofs` | TLAPS proofs about `Relay`, the refinement among them |
| `OutboundQueue` | what `Relay` implements: the fate of a message and what its client is told |
| `MCRelay` | small instances of it |
| `SmtpSessions` | inbound and submission sessions, the compose handler, and their senders |
| `SmtpSessionsProofs` | TLAPS proofs about `SmtpSessions` |
| `MCSmtpSessions` | a small instance of it |
| `RateLimiter` | the rate limiter (checked as it is) |
| `RateLimiterProofs` | TLAPS proofs about `RateLimiter` |
| `ImapView` | what IMAP clients believe about a mailbox, and the commands that act on it |
| `ImapViewProofs` | TLAPS proofs about `ImapView` |
| `Accounts` | registration, login, tokens, the settings page |
| `AccountsProofs` | TLAPS proofs about `Accounts` |
| `MCAccounts` | a small instance of it |
| `Startup` | `main`, `db.Open`, migrations, the DKIM key, stops and restarts |
| `StartupProofs` | TLAPS proofs about `Startup` |

Definitions called *Mutant* in a comment model a plausible bug of the
definition that follows.  Nothing uses them; `PROJECT.json` says which property
each one breaks when it takes that definition's place.

### MailStore

`users`, `boxes`, `messages` and `flags` are the tables (of a message, the
mailbox and the uid; bodies and headers play no part), `nextBox` and `nextMsg`
the AUTOINCREMENT counters.  `handle` is the row id in each IMAP connection's
`Mailbox` value.  `op` is what the handler in flight in each connection or
request goroutine holds in its local variables between two accesses to the
database; `Idle` if none is.

| Code | Actions |
|---|---|
| `auth.CreateUser` | `CreateUser` |
| `deliverToInbox` (from `Data` and from `deliverLocal`) | `Deliver` |
| `Relay.SaveToSent` | `SaveToSent` |
| `User.CreateMailbox`, `DeleteMailbox`, `RenameMailbox` | same names |
| `GetMailbox` by SELECT | `Select` |
| APPEND: `GetMailbox`, `CreateMessage` | `Append`, `CreateMessage` |
| `UpdateMessagesFlags` | `UpdateMessagesFlags` (the read), `StoreFlag` (each statement) |
| `CopyMessages` | `CopyMessages` (the rows), `FindDest`, `CopyOne` (each transaction) |
| `Expunge` | `Expunge` |
| `handleMessage`, `markSeen` | `View`, `MarkSeen` |
| `handleDeleteMessage` | `DeleteMessage`, then `Purge`, or `FindTrash`, `TakeTrashUid`, `MoveToTrash` |
| the process stops | `Crash` |

A transaction is one action because there is one writer connection and readers
see only commits; a transaction that fails is no step, except where the handler
goes on after it.  A failed write (`"io"` in `Faults`) is a disjunct of every
action whose caller goes on regardless, down to single flags of an APPEND
(`FlagsMade`); where the command just ends it is no step at all.  The sets `rows` a STORE or COPY selects are any non-empty
subset of the mailbox, since a sequence set may name any; how numbers select
rows is in `ImapView`.  Which clients manage mailboxes is the
constant `Admins`, so that runs can separate the questions.  The IMAP library
calls one backend method at a time per connection, which `op` being a function
expresses.

`history` and a message's `owner` are ghosts: every place a message has
stood, and whose mail it is.  No guard reads them.

`Mailbox` is the store as a client may think of it, with one atomic step per
thing that happens to mail: `Arrive` (numbered above all its mailbox has shown),
`Move` (to a uid never shown, perhaps below others), `Mark`, and `Remove` (one
message, all marked Deleted of a mailbox, or mailboxes whole).  `ImplementsMailbox`
maps `mail` to the mailbox and uid of `messages`, `marks` to `flags` and `seen` to
`history`; the statements that only read or take a uid are stutters, each
transaction is one step.  Uid 0 is `Mailbox`'s exception, as it is the code's.

### Relay

One worker per message being submitted (the goroutine of a submission session
or compose request inside `Send`) and one, `Processor`, for the queue.  `work`
is each worker's `deliver` call: how many hosts it has tried and how it came
out.  A host either refuses before the end of DATA, takes the message, takes it
without the server hearing of it (a lost reply to DATA or QUIT: `deliverToHost`
returns `c.Quit()`'s error), or, if the message is in `Silent`, never answers, be it
before it has the message or after.
MX lookup is external; it may fail.  `queue` holds `attempts` and `wait`, the
time left to `next_retry` in units of five minutes (backoffs are multiples of
it).  `batch` and `item` are `items` and `item` of `ProcessQueue`.  A write that
fails is `WriteFails`, and a poll may lose rows whose `Scan` fails (`Poll`), both within
the bound `MaxFailures`.  Signing is left out: its
failure sends the message unsigned.  A local recipient never comes here; it is
`Deliver` in `MailStore`.

`accepted`, `doubtful`, `tries` and `unqueued` are ghosts.

`OutboundQueue` knows of a message only its fate (tried, queued, taken,
exhausted, not queued, cut off by a crash) and whether its client has been told
that it was sent.  A host's acceptance is `Take`, the INSERT `Queue`, the deletion
of a row that gave up `GiveUp`; attempts, backoff and polls are stutters.
`ImplementsQueue` is its safety, `ImplementsLiveQueue` adds that every queued
message is taken or exhausted.

### SmtpSessions

`sess` holds, for each connection and compose request, the fields of
`InboundSession` or `SubmissionSession` (`user`, `to`; the sender's address plays
no part), how far the handler is (`pc`, and `left`, what the loop over `s.to` has
before it), and what the sender at the other end believes (`msg`, `asked`,
`live`).  `Auth`, `Mail`, `Rcpt`, `Data`, `Reset`, `Logout` and `CreateUser` are the
methods of these names; `DeliverNext` and `Delivered` are the loop of the inbound
`Data` and its end, `SendNext` and `SaveToSent` those of the submission `Data` and
of `handleCompose`, which `Compose` starts.  `Reply` is the answer with go-smtp's
`Reset` after it.  The redundant checks of `user` in the submission `Rcpt` and
`Data` are covered by `Mail`'s, as nothing unsets it within a session.  go-smtp's limit of
50 recipients in a transaction (`server.go:40`) is above the number of addresses a message
here has, and left out.

The senders are external: they name every address they still await an answer
for, send a message over one connection at a time, hang up when they like
(`HangUp`), and may then try again while the old handler is still at work.
`awaited` and `told` are their ledger.  `copies`, `sent`, `dropped` and `again` are
ghosts.

### RateLimiter

`visitors` is the map, with the time left to `resetAt`; `sleep` is the time left
of `cleanup`'s sleep.  The mutex makes `Allow` and a round of cleanup one action
each.  `count` grows with every request, refused ones too, as `v.count++` does
(`ratelimit.go:44`); the bound is on the requests a client sends in a unit of time
(`MaxBurst`).  `since`, `passed` and `refused` are ghosts: an observer that counts the requests
let through, of each client, over any stretch of time up to a window (it begins
anew whenever it likes), and the client that has just been refused.

### ImapView

One name of one account.  `box`, `mail`, `uidNext` and `deleted` are its row, its
messages with their uids, and the flag; `held` is the uid a web delete has taken
and not used; `session` is the server's side of a connection: the handle with
`uid_next` as `GetMailbox` read it, the count of `Status`, the answer of a SEARCH.  A
count that fails is reported as 0 (`mailbox.go:44`; `Status`, with the ghost `miscounted`).
`view`, `cache` and `synced` are the client's: which message it takes each number
for, what it has downloaded under each uid, and from which uid it looks for new
mail.  The client is external and works as RFC 3501 lets it; go-imap calls the
backend as the comments of the actions say.

| Code | Actions |
|---|---|
| `GetMailbox`, `Status` | `Open`, `Status` |
| `ListMessages`, `fetchMessages` | `ListMessages`, with `RowsOf` the query and `SeqNum` its counter |
| `SearchMessages` | `Search` (by uid), `ExpungeSearch` (by number, from go-imap's EXPUNGE) |
| `UpdateMessagesFlags` | `StoreByNumber`, `StoreByUid`, `StoreFound`, with `Matches` |
| `Expunge` | `Expunge` |
| deliveries, web deletes, other sessions, mailbox management | `Arrive`, `TakeUid`, `MoveIn`, `Purge`, `MarkElsewhere`, `DeleteMailbox`, `CreateMailbox` |

`stirred`, `mistaken` and `late` are ghosts.  `stirred` names the clients whose numbers
may have slipped for a reason the code cannot tell them; the properties say that
nothing else makes them slip.  The rows of a query are a set: ordered by uid, a
message's number is how many rows there are up to its own (`SeqNum`), and a
client's number becomes its place among those not reported gone (`NewNumber`).

### Accounts

`users` is the table (name, password, display name; a hash stands for its
password), `cookie` the account and validity of each browser's token, `req` the
request in flight of each: where its handler is, the form, and the answer.  A
browser sends one form at a time; two browsers may use one account.

| Code | Actions |
|---|---|
| `handleRegister`, `auth.CreateUser` | `SendRegister`, `RefuseRegistration`, `CreateUser` |
| `handleLogin`, `Authenticate` | `SendLogin`, `Login` |
| `GenerateToken`, the cookie, `handleLogout` | `Enter`, `Expire`, `Logout` |
| `Middleware`, `ValidateToken` | `SendSettings`, `Redirect` |
| `handleSettings` | `UpdateDisplayName`, `CheckPassword`, `ChangePassword`, `ShowSettings` |
| the process stops | `Crash` |

Answers reach the browser in a step of their own, or never if the server dies
first.  `told`, `earned`, `knew` and `alone` are ghosts: what an account's users may
take for stored, which accounts each person has shown to be theirs, whose request
gave a password that was the account's at some time after it was sent (and may not
be it any more), and whose change no other has run beside.

### Startup

`old` and `cur` are `gogomail.db` and `mail.db`, each a main file and what the -wal file
adds to it; `pc` is how far `main` has come, `applied` how many statements of the
migration it has behind it, `ensured` the key that `EnsureKey` returns, `announced` the one
that the log tells the operator to publish.  The
database holds which statements of the schema have run, the mail and the rows of
`dkim_keys`, each with a number that stands for its key and its `created_at`.

| Code | Actions |
|---|---|
| `main` begins, flags | `Start` |
| `db.Open` | `OpenFails` (`MkdirAll`), `RenameOld` (its error is dropped) |
| `migrate` | `CreateMigrations`, `CreateFails`, `CheckApplied`, `ApplyNext`, `Migrated`, `MigrationFails` |
| `EnsureKey`, `GenerateKey` | `KeyFound`, `KeyMade` (the row is stored) |
| the log of the record (`main.go:54`) | `LogKey` |
| certificates, servers | `SetupTls`, `Listen`, `SetupFails` (`os.Exit`) |
| a message is accepted | `Accept` |
| SIGTERM, the deferred `Close` | `Stop` |
| killed | `Crash` |

`committed`, `walLost`, `published` and `unread` are ghosts.  Two starts in one second are
left out: `created_at` of two keys could then be equal, and the newest any of
them.

## 4. Runs

Store runs have one account with four mailboxes (two accounts in `store_users`,
one or more mailboxes beside them where mailboxes are managed), two message rows
and two to six uids per mailbox.  Two messages are what it takes for two to meet
in Trash, for a COPY or STORE to be in its middle, and for a uid to be taken
twice; `MaxUid` is above `MaxMsg` where uids may be skipped.

| Run | Instance | Properties |
|---|---|---|
| `store_uids` | an IMAP connection and a web request of one account, crashes and failing writes | `UidNamesOneMessage`, `VanishOnRequest`, `NewMailAscends` |
| `store_delete` | two web requests, each move may take a uid (`MaxUid` 6) | `DeleteTakesEffect` |
| `store_admin` | a connection and a request while mailboxes come and go, Trash among them | `InboxAlways`, `ReferentialIntegrity`, `ImplementsMailbox` |
| `store_users` | a connection of one account, whose Trash is renamed, deleted and recreated, and a request of another | `TypeOK`, `MailStaysHome` |
| `relay_safety` | two messages, two hosts, polls of one row, a silent host, a crash, a failing write or scan | `TypeOK`, `NothingLost`, `DuplicatesExplained`, `SnapshotFresh`, `NoRowStranded`, `RowsLeaveResolved`, `ImplementsQueue` |
| `smtp_sessions` | two inbound connections, a submission connection, a compose request; two messages from outside or two of a user; two faults | `TypeOK`, `AckedDelivered`, `NotMisdelivered`, `CopiesExplained`, `SentIsSent` |
| `relay_drains` | three attempts, polls of one row, hosts that answer | `QueueDrains`, `ImplementsLiveQueue` |
| `relay_hung` | the same with a silent host | `QueueDrains`, violated: see *Findings* |
| `limiter` | two clients, rate 2, bursts of 3, a window of 3 units | `TypeOK`, `AtMostTwice`, `RefusalsEarned`, `EntriesExpire` |
| `imap_view` | one client, the mailbox created twice, three messages, three uids | `TypeOK`, `ViewHolds`, `OnlyMeantDeleted`, `CacheTrue`, `NewMailFound` |
| `accounts` | two browsers, one name, two passwords that registration accepts and a short one, one fault | `TypeOK`, `EntryEarned`, `UserInformed` |
| `startup` | two messages, two selectors, two crashes, two failing operations, every state the predecessor's file may be in | `TypeOK`, `ServesComplete`, `MailSurvives`, `KeyKept`, `ServesAgain` |

Some promises hold under a condition, and the code breaks them without it:

- `VanishOnRequest` needs that nobody renames Trash (`Admins = {}` in
  `store_uids`; proved for every instance with `Admins = {}`): "permanently delete
  from Trash" (`api.go:57`) goes by a name read some statements before, and after an
  IMAP RENAME the message it deletes stands in an ordinary mailbox.
- `NewMailAscends` is about delivery, Sent copies, APPEND and COPY.  A web delete
  takes the "next UID for Trash" (`api.go:71`) in one statement and uses it in
  another; a second delete or an APPEND overtakes it, and the message arrives in
  Trash below uids already seen there.  `Mailbox`'s `Move` says as much.
- `ImplementsMailbox` excepts uid 0: the web delete drops the error of its uid
  allocation (`api.go:73`) and then moves the message to uid 0, which IMAP cannot name.
- `AtMostTwice`: the windows are fixed, although `ratelimit.go:10` speaks of a sliding
  window, so twice the rate passes around an edge.
- `QueueDrains` and `ImplementsLiveQueue` need hosts that answer (`Silent = {}`).
- `NothingLost` excepts messages whose own INSERT into the queue failed
  (`unqueued`), and `AckedDelivered` a user's messages whose `Send` returned an error
  (`dropped`): `Data` and `handleCompose` log the error, report success, and the
  message is nowhere.
- `ViewHolds` and `OnlyMeantDeleted` except clients whose numbers have slipped
  (`stirred`): another session purged a message they had numbered, a web delete moved
  one in below, the mailbox was created anew (`uid_validity` is always 1), or an EXPUNGE
  removed other than the first rows, where SEARCH by number answers `1..n`
  (README.md:133 of the repository) and go-imap reports those numbers gone.
- `NewMailFound` allows one missed message for each that a web delete moved in late.
  It does not speak of a client whose last count failed: `Status` drops the error and
  reports 0 messages beside the true UIDNEXT (`mailbox.go:43-45`), and the client looks
  past all its mail until it opens the mailbox again.  And it excepts what a client's
  cache masks (`Masked`): in a mailbox deleted and created anew uids begin anew under the
  same `uid_validity`, and a message under a uid the client has cached of the former one is
  taken for that one.
- `UserInformed` says that a password was stored by a request that gave one which was
  the account's while it was in flight, and not that it knew the one it replaced: the
  check (`auth.go:86-106`) and the UPDATE (`auth.go:149`) are separate statements, and of
  two changes side by side the second overwrites what the first has stored.
  `AccountsReplacedKnowingly`, proved, says that this takes two at once: a request with the
  account to itself replaces the password it checked.
- `MailSurvives` excepts what was in the -wal file of the old database when it was
  renamed, and what stays in the old file once a rename has failed: from then on
  `mail.db` is there, and the old file is never looked at again.
- `KeyKept` excepts starts whose SELECT for the key failed: any error counts as "no
  key", and a new one is made and used.  What is announced is followed from this program's
  first start; a key the predecessor announced and left in its -wal file goes the way of
  the mail there.

`CHECK_DEADLOCK FALSE` stands where nothing but the bounds lets the model come
to a stop: store runs without `"crash"` once `MaxBox`, `MaxMsg` and `MaxUid` are
used up, relay runs once every message is resolved and the queue empty, and
`imap_view` when no message and no mailbox may come any more.

The bounds on `Relay`: `MaxAttempts` is 2 or 3 for 10 in the code (giving up and
backing off both happen), `BatchLimit` 1 for 50 (below the number of rows, so
that the LIMIT matters), `NumMX` up to 2 (so that a lost reply meets a next
host).  Beyond `MaxLate` units past their time rows are not told apart, so the
order among very late rows is any.  One crash and one failing write may fall at
any step.

In `smtp_sessions` two faults of any kind (a failed access, a hang-up, a crash)
may fall anywhere: one that makes the sender try again and one that hits the
second try.  Messages from outside and messages of users meet only in the table
of users, so the run takes them in turn (`Mixes`).

In `imap_view` three messages are what it takes for numbers to slip in the middle
of a view, and a second row of the mailbox for uids to begin anew under the same
validity.  One client is enough: what another client does to it is among the
actions of others.  In `accounts` two people at one name meet in registration, with
different passwords or with the same, in login beside a change, and in two changes
side by side; one fault tells a lost answer from one that came.  The third password is
one that only the settings page accepts.  Browsers and the two good passwords are
interchangeable (`Symmetry`; there is no liveness in that run).  In `startup` two
crashes meet a migration in its middle twice, two failures a failing rename and a
failing SELECT.

`limiter` has bursts above the rate, so that refusals happen, and windows of
three units, so that bursts can fall inside a window, on both sides of its edge, and
on both sides of the observer's beginning.

### Findings

| Run | What the code does |
|---|---|
| `relay_hung` | "Call this periodically" (`relay.go:175`): a silent host holds the poll for ever, as nothing in `deliverToHost` has a deadline. |

Seen on the way, outside the properties: the settings page does not ask for the
eight characters registration asks for (`handlers.go:398`); a token stays valid for
its 24 hours after the password it was got with is changed (`auth.go:108`);
`HTTP_LISTEN`, "HTTP listen address (for autocert)" in the repository's README.md:75,
is read and never used (`config.go:82`).

Two open questions of the repository's README are answered on the way:
`DeleteMailbox` orphans no rows (README.md:135; `ReferentialIntegrity`, proved),
and a copied message starts without flags (README.md:134; `CopyOne` says so).

## 5. Fairness

- `MailStore`: weak fairness of each connection's and request's *next statement*:
  a handler that has started runs on, as the Go scheduler guarantees and as
  SQLite's busy timeout allows with one writer in the process.  No fairness for
  clients' commands, deliveries or crashes.  `DeleteTakesEffect` is checked
  without faults: a crash ends the handler.
- `Relay`: weak fairness of `Send`'s steps, of the processor, of time, and of an
  answer from each host.  The last is what `Silent` takes away: a silent host
  may have the fair `Answer` disabled for ever by `Hangs`.  Nothing is assumed of
  *how* a host answers: it may refuse every time, and the row then gives up.
- `RateLimiter`: time passes and the cleaning goroutine runs.
- `Startup`: `main` is sequential code that runs on, and a process that died is
  started again (`docker-compose.yml`: `restart: unless-stopped`).  None for a stop:
  a server an operator stops may stay so.  Failures and crashes are bounded, which is
  what "once nothing fails any more" in `ServesAgain` means.
- `SmtpSessions`, `ImapView` and `Accounts` have safety properties only and assume none.

## 6. Proofs

`MailStoreProofs` proves, for every value of the constants that satisfies
`StoreAssumption` (any users, connections, requests, names and flags, with or
without crashes and failing writes, for any bounds):

| Theorem | Statement |
|---|---|
| `TypeCorrect` | `Spec => []TypeOK` |
| `NoOrphans` | `Spec => []ReferentialIntegrity` |
| `UidsNameOneMessage` | `Spec => []UidNamesOneMessage` |
| `InboxKept` | `Spec => []InboxAlways` |
| `MailStaysWithItsAccount` | `Spec => []MailStaysHome` |
| `NewMailIsNumberedLast` | `Spec => NewMailAscends` |
| `MailVanishesOnRequest` | `Spec => VanishOnRequest`, assuming `Admins = {}` |

*Types* come first, action by action, with lemmas on what `Put`, `Drop`,
`AddMessage` and `RemoveMessages` return.  *Referential integrity* is inductive
given the types: each deletion takes its dependants with it, and each insertion
is guarded by the foreign key.

*Uids.*  `UidNamesOneMessage` is not inductive: a handler in flight holds a uid
that `history` does not know yet.  `UidInv` adds that ids held by handlers
have been issued (`IdsIssued`: the AUTOINCREMENT counters never come back to
them), that `uid_next` is above every uid shown (`UidNextAbove`), that every
message's place is recorded (`HistoryComplete`), and that a uid taken for a move
is below `uid_next`, not shown and held by one request (`UidsReserved`).  It is
what makes the two statements of the web delete safe as far as uniqueness goes,
although not for order.  That new mail
is numbered last follows from `UidNextAbove`: only `AddMessage` makes rows.

*INBOX.*  `InboxAlways` needs that no handler changes names of mailboxes but
`RenameMailbox`, and that UNIQUE(user_id, name) keeps a second INBOX out.

*Accounts.*  `MailStaysHome` needs `HomeInv`: handles and the rows and mailboxes
that handlers remember belong to the account behind them *or are gone*, and what
is gone never comes back under its id.

*Refinement.*  `MailboxProofs` proves `StoreImplementsMailbox`
(`Spec => ImplementsMailbox`) for the same constants: each statement of each handler
is one of `Mailbox`'s steps or leaves its variables alone.  It uses `UidInv` for
the uids of arrivals and moves.

*Vanishing.*  Without mailbox management names of mailboxes are stable, and
`TrashInv` is inductive: what a web delete is about to purge still stands in a
Trash, and what it is about to move goes to one.

`RelayProofs` proves, for every value of the constants that satisfies
`RelayAssumption` (any messages, hosts, attempts, batch size, any number of
crashes and failing writes):

| Theorem | Statement |
|---|---|
| `SnapshotsStayFresh` | `Spec => []SnapshotFresh` |
| `NoRowIsStranded` | `Spec => []NoRowStranded` |
| `DuplicatesAreExplained` | `Spec => []DuplicatesExplained` |
| `NothingIsLost` | `Spec => []NothingLost` |
| `RowsLeaveOnlyResolved` | `Spec => RowsLeaveResolved` |
| `RelayImplementsQueue` | `Spec => ImplementsQueue` |
| `RelayTyped` | `Spec => []TypeOK` |

The inductive invariant is `RelayInv`, stated in `Relay`.  A snapshot stays fresh
because nobody but the processor changes a row, and it has each row once
(`OneSnapshotEach`); a client's `enqueue` cannot touch it, since its message is not
queued before (`SendersServed`).  That attempts in the table were made
(`AttemptsMade`), with fresh snapshots, gives that a row gives up in time.
Duplicates need `OpenUnheard`: as long as a message may still be handed to a
host, every acceptance so far is one the server could not know of.  `NothingLost`
needs that what is about to be acknowledged is safe (`DoneIsSafe`).  The safety
proofs use the shape of rows without their times (`Shape`); `RelayTyped` adds those,
the rows' delays and the hosts tried (`Sized`).  That `tried` stays within the hosts
needs `HostsLeft`: a call with an answer to come has a host left to ask.

`AccountsProofs` proves, for every value of the constants that satisfies
`AccountsAssumption` (any browsers, names, passwords and display names, any number
of crashes and failing statements):

| Theorem | Statement |
|---|---|
| `AccountsTyped` | `Spec => []TypeOK` |
| `AccountsEntryEarned` | `Spec => []EntryEarned` |
| `AccountsUserInformed` | `Spec => []UserInformed` |
| `AccountsReplacedKnowingly` | `Spec => ReplacedKnowingly` |

The inductive invariant is `AccountsInv`, stated in `Accounts`.  `EntryEarned` needs
that whose answer says "come in" has given the password of that very account
(`EntriesRight`), and with it that a right password is always noted as known
(`RightIsKnown`) and that UNIQUE gives a name one row.  `UserInformed` is not
inductive, since an answer under way clears what the user was told: it needs that a
stored value was told of or stands in a request that has stored it (`PwHeld`,
`ShownHeld`), that who changes a password gave one of the account's in the meantime
(`ChangersKnow`), and that what a request alone on its account has stored still stands
(`AloneIsAlone`, `AloneStands`).  `ReplacedKnowingly`, that a password is replaced over the
head of who knew it only where two requests for the account overlap, follows from it;
no run checks it besides.

`SmtpSessionsProofs` proves, for every value of the constants that satisfies
`SessionsAssumption` (any connections, requests, messages, users and addresses, any
number of faults, whether or not users' messages and others meet):

| Theorem | Statement |
|---|---|
| `SessionsTyped` | `Spec => []TypeOK` |
| `AckedIsDelivered` | `Spec => []AckedDelivered` |
| `NothingIsMisdelivered` | `Spec => []NotMisdelivered` |
| `CopiesAreExplained` | `Spec => []CopiesExplained` |
| `SentWasSent` | `Spec => []SentIsSent` |

The inductive invariant is `SessionsInv`, stated in `SmtpSessions`.  None of the
properties is inductive, since they speak of what was said and delivered, and a
session keeps its recipients in a field between commands.  `OfOneMessage` and
`RecipientsOnce` say that the field is the envelope of the message in hand, each
address once, which is what `Reset` and the clearing at `Mail` are for; `ServedBehind`
that the loop has served what it has passed.  A sender that hangs up leaves a handler
at work and tries again beside it: `OneAttempt` gives it one live session for each
message, and `CopiesBudgeted` counts, for each address, the copies made, those that
deserted handlers may still make and the one that is due, which together never
exceed one and the excuses in `again`.  `NoneLeftOut` and `LedgerKept` carry what a
user's message has been told of from one try to the next, for `SentIsSent`.

`RateLimiterProofs` proves, for every value of the constants that satisfies
`LimiterAssumption` (any clients, rate, window and bursts):

| Theorem | Statement |
|---|---|
| `LimiterTyped` | `Spec => []TypeOK` |
| `TwiceAtMost` | `Spec => []AtMostTwice` |
| `RefusalsAreEarned` | `Spec => []RefusalsEarned` |

The inductive invariant is `LimiterInv`.  What the observer has counted must be
explained by the entry (`Accounted`): if it began no later than a good entry, it has
seen all that the entry let through and at most `Rate` from before; if later, no
more than the entry let through; and without a good entry at most `Rate`, which is
why dropping an entry, or replacing it, is only safe once it has expired.  A window
is as long as any stretch the observer counts, so it meets two entries at most.

`StartupProofs` proves, for every value of the constants that satisfies
`StartupAssumption` (any mail and selectors, any number of crashes and failures):

| Theorem | Statement |
|---|---|
| `StartupTyped` | `Spec => []TypeOK` |
| `SchemaIsWhole` | `Spec => []ServesComplete` |
| `MailIsKept` | `Spec => []MailSurvives` |
| `KeyIsKept` | `Spec => []KeyKept` |

The inductive invariant is `StartupInv`.  `ServesComplete` rests on the record of the
migration being its last statement (`RecordedLast`), in the file itself as well as
with its -wal file, and on a start having behind it what it takes to be applied
(`UpToHere`).  `MailSurvives` needs to be known also while no server runs
(`MailPlaced`), with the two ways mail is left behind.  For `KeyKept` one key must be
the newest, and a new one newer (`OneNewest`, `KeysDated`), and the published key, the
announced one and the one about to be logged be that one (`KeyTold`).

`ImapViewProofs` proves, for every value of the constants that satisfies
`ViewAssumption` (any number of clients, mailbox rows, messages and uids):

| Theorem | Statement |
|---|---|
| `ViewTyped` | `Spec => []TypeOK` |
| `NumbersHold` | `Spec => []ViewHolds` |
| `OnlyMeantIsDeleted` | `Spec => []OnlyMeantDeleted` |
| `CacheIsTrue` | `Spec => []CacheTrue` |
| `NewMailIsFound` | `Spec => []NewMailFound` |

The inductive invariant is `ViewInv`, stated in `ImapView`; the runs have one client,
the theorems any number.  Everything rests on uids: one is given once in a row's life
and the one a web delete holds back is no message's until it moves in (`UidsDistinct`),
and a row created anew is not one that anybody knows (`RowsAreOld`).  `ViewHolds` is
not inductive, since a number is right only as long as nothing below it is unknown to
the client: `NumbersRight` adds that the messages it has numbers for are the first
ones.  An EXPUNGE keeps that, because a message's new number counts the same
messages whether the client closes up its numbers or the query counts its rows
(`NewNumberCounts`).  `CacheTrue` and `OnlyMeantDeleted` need that a cached or found uid
will never be given again (`CacheRight`, `FoundRight`).  `NewMailFound` needs, between
`GetMailbox` and FETCH, that the messages older than the uid_next read exceed the
count, unless it failed, by no more than were moved in late (`NoneOverlooked`);
`BeyondCount` turns that into the messages that FETCH leaves out.

Only model-checked: all liveness (`DeleteTakesEffect`, `QueueDrains`,
`ImplementsLiveQueue`, `EntriesExpire`, `ServesAgain`), which is out of the provers'
reach.  Every invariant that a run checks, and every action property, is a theorem.

## 7. Not modelled

The texts of messages and pages, MIME (`internal/email`), the DKIM signature and
TLS are library calls and string functions without state.  Templates, assets and
log lines.  The webmail's message list: it only reads, one query per page, and what
OFFSET makes of mail that comes or goes between two pages (`handlers.go:455`) lasts
until the page reloads itself, 30 seconds later; neither code nor documents promise
more.  The table `sessions`, which no code uses.  SQLite, go-imap, go-smtp and the hosts of the world are
external and appear only through what the code relies on: atomic commits and
the schema's constraints; one backend call at a time per connection; answers or
silence.  SQLite's durability is assumed: what is committed survives a crash.
