------------------------------- MODULE Startup -------------------------------
(***************************************************************************)
(* Starting and stopping picomailgo: main, db.Open with the rename of the  *)
(* database of the program's former name, the migration loop and the DKIM  *)
(* key, which outgoing mail is signed with and an operator publishes.      *)
(*                                                                         *)
(* A database is a file and its -wal file.  A committed transaction is in  *)
(* the -wal file until a checkpoint; opening a database reads both, while  *)
(* a rename of the file leaves the -wal file behind.  Startup is           *)
(* sequential; the server may die between any two of its steps.            *)
(***************************************************************************)
EXTENDS Integers, Sequences

CONSTANTS
  Msgs,         \* messages the program or its predecessor accepts
  Selectors,    \* values of the -dkim-selector flag
  MaxCrashes,   \* bound: times the server dies
  MaxFailures   \* bound: operations that fail

ASSUME StartupAssumption ==
  /\ MaxCrashes \in Nat /\ MaxFailures \in Nat
  /\ Selectors # {} /\ "none" \notin Selectors

VARIABLES
  old,          \* gogomail.db, the database under the program's former name
  cur,          \* mail.db
  pc,           \* how far the process has come
  applied,      \* statements of the migration that this start has behind it
  selector,     \* the flag of this start
  ensured,      \* the DKIM key that EnsureKey has returned to main
  announced,    \* the DKIM key this start has told the operator to publish
  crashes,      \* how often the server has died
  failures,     \* how many operations have failed
  committed,    \* ghost: messages accepted so far
  walLost,      \* ghost: messages that were in a -wal file left behind
  published,    \* ghost: the first key announced
  unread        \* ghost: a key that was there could not be read

ghosts == <<committed, walLost, published, unread>>
vars == <<old, cur, pc, applied, selector, ensured, announced, crashes, failures, ghosts>>

None  == [all |-> "absent"]
NoKey == [sel |-> "none", key |-> 0]

Tables == <<"users", "mailboxes", "messages", "message_flags", "dkim_keys",
            "sessions", "outbound_queue">>

\* Mutant: the migration is recorded before it is applied.
RecordFirst == <<"recorded">> \o Tables

\* 001_initial.sql, one autocommitted statement after the other, and then the
\* row in schema_migrations.
Statements == Append(Tables, "recorded")

Count == Len(Statements)

\* What the first n statements and the creation of schema_migrations make.
Made(n) == {"schema_migrations"} \cup {Statements[i] : i \in 1 .. n}

Complete == Made(Count)

\* A row of dkim_keys; its number stands for its key and its created_at, which
\* two starts within a second would share.
Row == [sel : Selectors, key : Nat]

\* What a database holds.
Db == [done : SUBSET Complete, mail : SUBSET Msgs, keys : SUBSET Row]

Empty   == [done |-> {}, mail |-> {}, keys |-> {}]
NewFile == [main |-> Empty, all |-> Empty]

Running == pc \notin {"down", "stopped"}

-----------------------------------------------------------------------------
(* Databases *)

\* A transaction of the open database commits.
Commits(db) == cur' = [cur EXCEPT !.all = db]

\* The last connection is closed, or the -wal file has grown too long.
Checkpointed == [cur EXCEPT !.main = cur.all]

\* An operation fails.
Fails == failures < MaxFailures /\ failures' = failures + 1

\* os.Exit: no deferred call runs, and the -wal file stays.
Exits ==
  /\ Fails
  /\ pc' = "down"
  /\ UNCHANGED <<old, cur, applied, selector, ensured, announced, crashes, ghosts>>

-----------------------------------------------------------------------------
(* db.Open *)

Start ==
  /\ ~Running
  /\ pc' = "rename"
  /\ selector' \in Selectors
  /\ ensured' = NoKey /\ announced' = NoKey
  /\ UNCHANGED <<old, cur, applied, crashes, failures, ghosts>>

\* No directory can be made for the database.
OpenFails == pc = "rename" /\ Exits

\* Mutant: the old file is renamed whether or not there is a new one.
WantedWhatever == old # None

\* The old file is there and the new one is not.
RenameWanted == old # None /\ cur = None

RenameOld ==
  /\ pc = "rename"
  /\ \/ /\ RenameWanted
        /\ cur' = [main |-> old.main, all |-> old.main]
        /\ old' = None
        /\ walLost' = walLost \cup (old.all.mail \ old.main.mail)
        /\ UNCHANGED failures
     \/ \* its error is ignored
        RenameWanted /\ Fails /\ UNCHANGED <<old, cur, walLost>>
     \/ ~RenameWanted /\ UNCHANGED <<old, cur, walLost, failures>>
  /\ pc' = "migrate"
  /\ UNCHANGED <<applied, selector, ensured, announced, crashes, committed, published, unread>>

\* CREATE TABLE IF NOT EXISTS schema_migrations makes the file if need be ...
CreateMigrations ==
  LET file == IF cur = None THEN NewFile ELSE cur IN
  /\ pc = "migrate"
  /\ cur' = [file EXCEPT !.all.done = @ \cup {"schema_migrations"}]
  /\ pc' = "check"
  /\ UNCHANGED <<old, applied, selector, ensured, announced, crashes, failures, ghosts>>

\* ... and a version found there is not applied again.
CheckApplied ==
  /\ pc = "check"
  /\ applied' = IF "recorded" \in cur.all.done THEN Count ELSE 0
  /\ pc' = "apply"
  /\ UNCHANGED <<old, cur, selector, ensured, announced, crashes, failures, ghosts>>

\* Mutant: CREATE TABLE without IF NOT EXISTS.
OnceOnly(s) == s \notin cur.all.done

\* IF NOT EXISTS: a statement may be run again.
MayRun(s) == TRUE

ApplyNext ==
  LET next == Statements[applied + 1] IN
  /\ pc = "apply" /\ applied < Count
  /\ MayRun(next)
  /\ Commits([cur.all EXCEPT !.done = @ \cup {next}])
  /\ applied' = applied + 1
  /\ UNCHANGED <<old, pc, selector, ensured, announced, crashes, failures, ghosts>>

\* That fails: no file can be opened or made, or there is one and it is closed.
CreateFails ==
  /\ pc = "migrate"
  /\ Fails
  /\ cur' \in {cur, IF cur = None THEN NewFile ELSE Checkpointed}
  /\ pc' = "down"
  /\ UNCHANGED <<old, applied, selector, ensured, announced, crashes, ghosts>>

\* An error of a later step of the migration closes the database.
MigrationFails ==
  /\ pc \in {"check", "apply"}
  /\ Fails
  /\ cur' = Checkpointed
  /\ pc' = "down"
  /\ UNCHANGED <<old, applied, selector, ensured, announced, crashes, ghosts>>

Migrated ==
  /\ pc = "apply" /\ applied = Count
  /\ pc' = "key"
  /\ UNCHANGED <<old, cur, applied, selector, ensured, announced, crashes, failures, ghosts>>

-----------------------------------------------------------------------------
(* EnsureKey *)

Keys == cur.all.keys

\* ORDER BY created_at DESC LIMIT 1, in EnsureKey and in Sign.
Newest ==
  IF Keys = {} THEN NoKey ELSE CHOOSE row \in Keys : \A k \in Keys : k.key <= row.key

Returns(row) ==
  /\ ensured' = row
  /\ pc' = "log"
  /\ UNCHANGED <<old, applied, selector, announced, crashes, committed, walLost, published>>

\* Mutant: the flag is reported, not the selector of the key found.
AsConfigured(row) == [row EXCEPT !.sel = selector]

\* What is reported of a key found.
AsFound(row) == row

KeyFound ==
  /\ pc = "key" /\ Keys # {}
  /\ Returns(AsFound(Newest))
  /\ UNCHANGED <<cur, failures, unread>>

\* Mutant: a key of another selector is not looked for.
NoKeyOfSelector == \A k \in Keys : k.sel # selector

NoKeyThere == Keys = {}

\* Mutant: INSERT without OR REPLACE, and no UNIQUE.
Every == Keys

\* INSERT OR REPLACE, with UNIQUE(domain, selector).
Others == {k \in Keys : k.sel # selector}

\* Each key is a new one and created later than those there were: a second
\* one is only made after a failure.
GenerateKey ==
  LET row == [sel |-> selector, key |-> failures' + 1] IN
  /\ Commits([cur.all EXCEPT !.keys = Others \cup {row}])
  /\ Returns(row)

\* Any error of the SELECT counts as "no key".
KeyMade ==
  /\ pc = "key"
  /\ \/ NoKeyThere /\ UNCHANGED <<failures, unread>>
     \/ ~NoKeyThere /\ Fails /\ unread' = TRUE
  /\ GenerateKey

-----------------------------------------------------------------------------
(* The rest of main *)

\* The name and the record that an operator is to publish are logged, in a start
\* that may have died since the key was stored.
LogKey ==
  /\ pc = "log"
  /\ announced' = ensured
  /\ published' = IF published = NoKey THEN ensured ELSE published
  /\ pc' = "tls"
  /\ UNCHANGED <<old, cur, applied, selector, ensured, crashes, failures, committed,
                 walLost, unread>>

SetupTls ==
  /\ pc = "tls"
  /\ pc' = "listen"
  /\ UNCHANGED <<old, cur, applied, selector, ensured, announced, crashes, failures, ghosts>>

Listen ==
  /\ pc = "listen"
  /\ pc' = "serving"
  /\ UNCHANGED <<old, cur, applied, selector, ensured, announced, crashes, failures, ghosts>>

\* No key can be stored, no certificate read, an address is in use, or one of
\* the servers returns an error.
SetupFails == pc \in {"key", "tls", "listen", "serving"} /\ Exits

\* A message is accepted.
Accept(m) ==
  /\ pc = "serving" /\ m \notin committed
  /\ Commits([cur.all EXCEPT !.mail = @ \cup {m}])
  /\ committed' = committed \cup {m}
  /\ UNCHANGED <<old, pc, applied, selector, ensured, announced, crashes, failures,
                 walLost, published, unread>>

Checkpoint ==
  /\ pc = "serving"
  /\ cur' = Checkpointed
  /\ UNCHANGED <<old, pc, applied, selector, ensured, announced, crashes, failures, ghosts>>

\* SIGINT or SIGTERM: main returns, and its deferred Close runs.
Stop ==
  /\ pc = "serving"
  /\ cur' = Checkpointed
  /\ pc' = "stopped"
  /\ UNCHANGED <<old, applied, selector, ensured, announced, crashes, failures, ghosts>>

Crash ==
  /\ Running /\ crashes < MaxCrashes
  /\ crashes' = crashes + 1
  /\ pc' = "down"
  /\ UNCHANGED <<old, cur, applied, selector, ensured, announced, failures, ghosts>>

-----------------------------------------------------------------------------
\* What the predecessor may have left: nothing, or a database of which some
\* transactions, perhaps all, are still in its -wal file.
OldDb(ms, ks) == [done |-> Complete, mail |-> ms, keys |-> ks]

OldKeys == {{}} \cup {{[sel |-> s, key |-> 0]} : s \in Selectors}

Left ==
  {[main |-> Empty, all |-> OldDb(b, ks)] : b \in SUBSET Msgs, ks \in OldKeys} \cup
  UNION {{[main |-> OldDb(a, ks), all |-> OldDb(b, ks)] : a \in SUBSET b, ks \in OldKeys} :
           b \in SUBSET Msgs}

Init ==
  /\ old \in {None} \cup Left
  /\ cur = None
  /\ pc = "stopped" /\ applied = 0
  /\ selector \in Selectors
  /\ ensured = NoKey /\ announced = NoKey
  /\ crashes = 0 /\ failures = 0
  /\ committed = IF old = None THEN {} ELSE old.all.mail
  /\ walLost = {} /\ published = NoKey /\ unread = FALSE

StartupStep ==
  \/ RenameOld \/ CreateMigrations \/ CheckApplied \/ ApplyNext \/ Migrated
  \/ KeyFound \/ KeyMade \/ LogKey \/ SetupTls \/ Listen

Next ==
  \/ Start \/ StartupStep
  \/ OpenFails \/ CreateFails \/ MigrationFails \/ SetupFails
  \/ \E m \in Msgs : Accept(m)
  \/ Checkpoint \/ Stop \/ Crash

\* The process runs on, and its container is set to restart it unless stopped.
Fairness == WF_vars(StartupStep) /\ WF_vars(pc = "down" /\ Start)

Spec == Init /\ [][Next]_vars /\ Fairness

-----------------------------------------------------------------------------
(* What starting must achieve *)

OneKeyEach(db) == \A k, l \in db.keys : k.sel = l.sel => k = l

\* A file's -wal file only adds to it, and a selector has one key.
FileOK(f) ==
  /\ f \in [main : Db, all : Db]
  /\ f.main.done \subseteq f.all.done /\ f.main.mail \subseteq f.all.mail
  /\ OneKeyEach(f.main) /\ OneKeyEach(f.all)

\* Files, keys and the process hold values of their types.
TypeOK ==
  /\ old = None \/ FileOK(old)
  /\ cur = None \/ FileOK(cur)
  /\ selector \in Selectors
  /\ applied \in 0 .. Count
  /\ crashes \in Nat /\ failures \in Nat
  /\ committed \subseteq Msgs /\ walLost \subseteq Msgs
  /\ ensured \in Row \cup {NoKey}
  /\ announced \in Row \cup {NoKey} /\ published \in Row \cup {NoKey}
  /\ unread \in BOOLEAN
  /\ pc \in {"down", "stopped", "rename", "migrate", "check", "apply", "key",
             "log", "tls", "listen", "serving"}

\* The database is open and the rest of main is under way.
Serves == pc \in {"key", "log", "tls", "listen", "serving"}

\* The server never runs on a schema that is not whole and recorded, whatever
\* statement of the migration earlier starts died or failed at.
ServesComplete == Serves => cur.all.done = Complete

\* What stays in the old file once a rename of it has failed.
Stranded == IF old = None THEN {} ELSE old.all.mail

\* Mail that was accepted is in the database the server runs on, through
\* crashes, failing starts and the change of name, but for what was in a -wal
\* file when its database was renamed and, once a rename has failed, what is
\* in the old file that is then never looked at again.
MailSurvives ==
  pc = "serving" =>
    /\ committed \subseteq cur.all.mail \cup walLost \cup Stranded
    /\ old # None => failures > 0

\* The key an operator is told to publish is the one Sign uses, and stays the
\* same over restarts, also with another selector, unless reading it failed.
KeyKept ==
  announced # NoKey =>
    /\ announced = Newest
    /\ ~unread => announced = published

\* A server that died serves again, once nothing fails any more.
ServesAgain == pc = "down" ~> pc = "serving"
-----------------------------------------------------------------------------
(* The inductive invariant *)

\* The row in schema_migrations comes last; the predecessor was done with it.
RecordedLast ==
  /\ cur # None /\ "recorded" \in cur.all.done => cur.all.done = Complete
  /\ old # None => old.main.done \in {{}, Complete}

\* What this start has behind it is in the database.
UpToHere ==
  /\ pc \in {"check", "apply"} \/ Serves => cur # None
  /\ pc \in {"check", "apply"} => "schema_migrations" \in cur.all.done
  /\ pc = "apply" => Made(applied) \subseteq cur.all.done
  /\ ServesComplete

\* Mail is in the database in use, whether or not it is served, or it was left
\* behind; an old file left beside a new one was left by a failed rename.
MailPlaced ==
  /\ committed \subseteq (IF cur = None THEN {} ELSE cur.all.mail) \cup walLost \cup Stranded
  /\ old # None /\ (cur # None \/ pc = "migrate") => failures > 0

OneNewest(ks) == ks = {} \/ \E row \in ks : \A k \in ks \ {row} : k.key < row.key

\* One key is newer than the others, and one made now would be newer still.
KeysDated ==
  /\ cur # None => /\ \A k \in cur.all.keys : k.key <= failures + 1
                   /\ OneNewest(cur.all.keys)
  /\ old # None => /\ \A k \in old.main.keys : k.key <= failures + 1
                   /\ OneNewest(old.main.keys)

\* This start has not told of a key yet.
Silent == pc \in {"rename", "migrate", "check", "apply", "key", "log"}

\* The keys that were told of, or are about to be, if any, are the newest.
KeyTold ==
  /\ Silent => announced = NoKey
  /\ pc = "log" => ensured # NoKey /\ ensured = Newest
  /\ cur = None => published = NoKey
  /\ announced # NoKey => published # NoKey /\ announced = Newest
  /\ published # NoKey /\ ~unread => published = Newest

StartupInv == TypeOK /\ RecordedLast /\ UpToHere /\ MailPlaced /\ KeysDated /\ KeyTold

=============================================================================
