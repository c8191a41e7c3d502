---------------------------- MODULE StartupProofs ----------------------------
(***************************************************************************)
(* Proofs about starting and stopping: for any messages and selectors, and *)
(* however often the process dies or an operation fails, the server runs   *)
(* on a whole schema, with its mail and the key it announced.              *)
(***************************************************************************)
EXTENDS Startup, TLAPS

States == {"down", "stopped", "rename", "migrate", "check", "apply", "key",
           "log", "tls", "listen", "serving"}

-----------------------------------------------------------------------------
(* Statements, files and keys *)

LEMMA Appended ==
  \A S : \A s \in Seq(S), e \in S :
    /\ Len(Append(s, e)) = Len(s) + 1 /\ Append(s, e)[Len(s) + 1] = e
    /\ \A i \in 1 .. Len(s) : Append(s, e)[i] = s[i]
OBVIOUS

\* The row that records the migration is the last of its statements.
LEMMA StatementFacts ==
  /\ Count \in Nat /\ Count >= 1 /\ Statements[Count] = "recorded"
  /\ \A i \in 1 .. Count : Statements[i] = "recorded" => i = Count
<1> DEFINE Names == {"users", "mailboxes", "messages", "message_flags", "dkim_keys",
                     "sessions", "outbound_queue", "recorded"}
<1>1. Tables \in Seq(Names) /\ "recorded" \in Names
  BY DEF Tables
<1>2. Len(Tables) = 7
  BY DEF Tables
<1>3. /\ Tables[1] # "recorded" /\ Tables[2] # "recorded" /\ Tables[3] # "recorded"
      /\ Tables[4] # "recorded" /\ Tables[5] # "recorded" /\ Tables[6] # "recorded"
      /\ Tables[7] # "recorded"
  BY DEF Tables
<1> HIDE DEF Names
<1>4. /\ Count = Len(Tables) + 1 /\ Statements[Len(Tables) + 1] = "recorded"
      /\ \A i \in 1 .. Len(Tables) : Statements[i] = Tables[i]
  BY <1>1, Appended DEF Statements, Count
<1>5. \A i \in 1 .. 7 : i = 1 \/ i = 2 \/ i = 3 \/ i = 4 \/ i = 5 \/ i = 6 \/ i = 7
  OBVIOUS
<1>6. \A i \in 1 .. 7 : Tables[i] # "recorded"
  BY <1>3, <1>5
<1> QED
  BY <1>2, <1>4, <1>6

\* Each statement adds what it makes.
LEMMA MadeStep ==
  ASSUME NEW n \in 0 .. Count, n < Count
  PROVE  /\ n + 1 \in 1 .. Count /\ n + 1 \in 0 .. Count
         /\ Statements[n + 1] \in Complete
         /\ Made(n + 1) = Made(n) \cup {Statements[n + 1]}
<1>1. n + 1 \in 1 .. Count /\ n + 1 \in 0 .. Count
  BY StatementFacts
<1>2. 1 .. n + 1 = (1 .. n) \cup {n + 1}
  BY <1>1
<1> QED
  BY <1>1, <1>2 DEF Made, Complete

LEMMA MadeNothing == Made(0) = {"schema_migrations"}
BY DEF Made

LEMMA RecordedMade == "recorded" \in Complete /\ "schema_migrations" \in Complete
BY StatementFacts DEF Complete, Made

LEMMA FileIsThere ==
  ASSUME NEW f \in [main : Db, all : Db]
  PROVE  f # None
BY DEF None

LEMMA DbTyped ==
  ASSUME NEW db \in Db
  PROVE  /\ db.done \subseteq Complete /\ db.mail \subseteq Msgs /\ db.keys \subseteq Row
         /\ \A d \in SUBSET Complete : [db EXCEPT !.done = d] \in Db
         /\ \A ms \in SUBSET Msgs : [db EXCEPT !.mail = ms] \in Db
         /\ \A ks \in SUBSET Row : [db EXCEPT !.keys = ks] \in Db
BY DEF Db

LEMMA EmptyTyped == Empty \in Db /\ OneKeyEach(Empty)
BY DEF Empty, Db, OneKeyEach

LEMMA NoKeyIsNoRow == NoKey \notin Row
BY StartupAssumption DEF NoKey, Row

\* The newest key is the one that is later than all the others.
LEMMA NewestIs ==
  ASSUME NEW row \in Keys, \A k \in Keys \ {row} : k.key < row.key,
         Keys \subseteq Row
  PROVE  Newest = row
<1>1. \A k \in Keys : k.key \in Nat
  BY DEF Row
<1>2. \A k \in Keys : k.key <= row.key
  BY <1>1
<1>3. ASSUME NEW x \in Keys, \A k \in Keys : k.key <= x.key
      PROVE  x = row
  BY <1>1, <1>3
<1> QED
  BY <1>2, <1>3 DEF Newest

-----------------------------------------------------------------------------
(* Steps that change no database *)

LEMMA Unfolded ==
  ASSUME TypeOK
  PROVE  /\ old # None => FileOK(old) /\ old \in [main : Db, all : Db]
         /\ cur # None => FileOK(cur) /\ cur \in [main : Db, all : Db] /\ cur.all \in Db
                          /\ cur.all.keys \subseteq Row /\ cur.all.done \subseteq Complete
                          /\ OneKeyEach(cur.all)
         /\ applied \in 0 .. Count /\ pc \in States
         /\ crashes \in Nat /\ failures \in Nat
BY DEF TypeOK, FileOK, Db, States

\* The process gets on, or ends, and the databases stay as they are.
LEMMA FilesStay ==
  ASSUME StartupInv, UNCHANGED <<old, cur, ghosts>>,
         ensured' \in {ensured, NoKey}, announced' \in {announced, NoKey},
         announced' = NoKey \/ (Silent' => Silent),
         pc' = "log" => pc = "log" /\ ensured' = ensured,
         failures' \in Nat, failures' >= failures, crashes' \in Nat,
         selector' \in Selectors, applied' \in 0 .. Count, pc' \in States,
         UpToHere',
         old # None /\ pc' = "migrate" => cur # None \/ pc = "migrate" \/ failures' > 0
  PROVE  StartupInv'
<1>1. TypeOK'
  BY DEF StartupInv, TypeOK, FileOK, OneKeyEach, ghosts, States
<1>2. RecordedLast'
  BY DEF StartupInv, RecordedLast
<1>3. MailPlaced'
  <2>1. failures \in Nat
    BY DEF StartupInv, TypeOK
  <2>2. old # None /\ (cur # None \/ pc' = "migrate") => failures' > 0
    BY <2>1 DEF StartupInv, MailPlaced
  <2> QED
    BY <2>2 DEF StartupInv, MailPlaced, Stranded, ghosts
<1>4. KeysDated'
  <2>1. \A k \in Row : k.key <= failures + 1 => k.key <= failures' + 1
    BY DEF StartupInv, TypeOK, Row
  <2>2. (cur # None => cur.all.keys \subseteq Row) /\ (old # None => old.main.keys \subseteq Row)
    BY DEF StartupInv, TypeOK, FileOK, Db
  <2> QED
    BY <2>1, <2>2 DEF StartupInv, KeysDated
<1>5. KeyTold'
  <2>1. Newest' = Newest
    BY DEF Newest, Keys
  <2>2. (Silent => announced = NoKey)' /\ (pc = "log" => ensured # NoKey /\ ensured = Newest)'
    BY <2>1 DEF StartupInv, KeyTold
  <2> QED
    BY <2>1, <2>2 DEF StartupInv, KeyTold, ghosts
<1> QED
  BY <1>1, <1>2, <1>3, <1>4, <1>5 DEF StartupInv

LEMMA ExitsEffect ==
  ASSUME StartupInv, Exits
  PROVE  StartupInv'
<1>1. /\ failures' \in Nat /\ failures' >= failures
      /\ applied \in 0 .. Count /\ crashes \in Nat /\ selector \in Selectors
  BY DEF StartupInv, TypeOK, Exits, Fails
<1>2. UpToHere'
  BY DEF Exits, StartupInv, UpToHere, ServesComplete, Serves
<1> QED
  BY <1>1, <1>2, FilesStay DEF Exits, States, Silent

LEMMA StartStep == StartupInv /\ Start => StartupInv'
<1> SUFFICES ASSUME StartupInv, Start PROVE StartupInv'
  OBVIOUS
<1>1. applied \in 0 .. Count /\ crashes \in Nat /\ failures \in Nat
  BY DEF StartupInv, TypeOK
<1>2. UpToHere'
  BY DEF Start, UpToHere, ServesComplete, Serves
<1> QED
  BY <1>1, <1>2, FilesStay DEF Start, States, Silent

LEMMA CheckAppliedStep == StartupInv /\ CheckApplied => StartupInv'
<1> SUFFICES ASSUME StartupInv, CheckApplied PROVE StartupInv'
  OBVIOUS
<1>1. /\ crashes \in Nat /\ failures \in Nat /\ selector \in Selectors
      /\ applied' \in 0 .. Count
  BY StatementFacts DEF StartupInv, TypeOK, CheckApplied
<1>2. cur # None /\ "schema_migrations" \in cur.all.done
  BY DEF StartupInv, UpToHere, CheckApplied
<1>3. Made(applied') \subseteq cur.all.done
  BY <1>2, MadeNothing DEF StartupInv, RecordedLast, CheckApplied, Complete
<1>4. UpToHere'
  BY <1>2, <1>3 DEF CheckApplied, UpToHere, ServesComplete, Serves, Made
<1> QED
  BY <1>1, <1>4, FilesStay DEF CheckApplied, States, Silent

LEMMA MigratedStep == StartupInv /\ Migrated => StartupInv'
<1> SUFFICES ASSUME StartupInv, Migrated PROVE StartupInv'
  OBVIOUS
<1>1. /\ applied \in 0 .. Count /\ crashes \in Nat /\ failures \in Nat
      /\ selector \in Selectors
  BY DEF StartupInv, TypeOK
<1>2. cur # None /\ cur.all.done = Complete
  <2>1. cur # None /\ Complete \subseteq cur.all.done
    BY DEF Migrated, StartupInv, UpToHere, Complete
  <2> QED
    BY <2>1, Unfolded DEF StartupInv
<1>3. UpToHere'
  BY <1>2 DEF Migrated, UpToHere, ServesComplete, Serves
<1> QED
  BY <1>1, <1>3, FilesStay DEF Migrated, States, Silent

LEMMA ServingStep == StartupInv /\ (SetupTls \/ Listen) => StartupInv'
<1> SUFFICES ASSUME StartupInv, SetupTls \/ Listen PROVE StartupInv'
  OBVIOUS
<1>1. /\ applied \in 0 .. Count /\ crashes \in Nat /\ failures \in Nat
      /\ selector \in Selectors
  BY DEF StartupInv, TypeOK
<1>2. UpToHere'
  BY DEF SetupTls, Listen, StartupInv, UpToHere, ServesComplete, Serves
<1> QED
  BY <1>1, <1>2, FilesStay DEF SetupTls, Listen, States, Silent

LEMMA CrashStep == StartupInv /\ Crash => StartupInv'
<1> SUFFICES ASSUME StartupInv, Crash PROVE StartupInv'
  OBVIOUS
<1>1. /\ applied \in 0 .. Count /\ crashes' \in Nat /\ failures \in Nat
      /\ selector \in Selectors
  BY DEF StartupInv, TypeOK, Crash
<1>2. UpToHere'
  BY DEF Crash, UpToHere, ServesComplete, Serves
<1> QED
  BY <1>1, <1>2, FilesStay DEF Crash, States, Silent

LEMMA SetupFailsStep == StartupInv /\ (OpenFails \/ SetupFails) => StartupInv'
BY ExitsEffect DEF OpenFails, SetupFails

-----------------------------------------------------------------------------
(* Steps on the databases *)

\* The -wal file's contents go to the file: what the database holds stays.
LEMMA CheckpointedStays ==
  ASSUME StartupInv, cur # None, cur' = Checkpointed, UNCHANGED <<old, ghosts>>,
         ensured' = ensured, announced' = announced, selector' = selector,
         crashes' = crashes, applied' = applied, failures' \in Nat, failures' >= failures,
         pc' \in {"down", "stopped"} \/ (pc' = "serving" /\ pc = "serving")
  PROVE  StartupInv'
<1>1. cur \in [main : Db, all : Db] /\ cur.all \in Db /\ OneKeyEach(cur.all)
  BY Unfolded DEF StartupInv
<1>2. cur' \in [main : Db, all : Db] /\ cur'.all = cur.all /\ cur'.main = cur.all
  BY <1>1 DEF Checkpointed
<1>3. cur' # None
  BY <1>2, FileIsThere
<1>4. TypeOK'
  <2>1. FileOK(cur)'
    BY <1>1, <1>2 DEF FileOK, OneKeyEach
  <2>2. (old = None \/ FileOK(old))'
    BY DEF StartupInv, TypeOK, FileOK, OneKeyEach
  <2> QED
    BY <2>1, <2>2 DEF StartupInv, TypeOK, ghosts
<1>5. RecordedLast' /\ MailPlaced'
  <2>1. failures \in Nat
    BY DEF StartupInv, TypeOK
  <2> QED
    BY <1>2, <1>3, <2>1 DEF StartupInv, RecordedLast, MailPlaced, Stranded, ghosts
<1>6. UpToHere'
  BY <1>2, <1>3 DEF StartupInv, UpToHere, ServesComplete, Serves
<1>7. KeysDated'
  <2>1. \A k \in Row : k.key <= failures + 1 => k.key <= failures' + 1
    BY DEF StartupInv, TypeOK, Row
  <2>2. cur.all.keys \subseteq Row /\ (old # None => old.main.keys \subseteq Row)
    BY DEF StartupInv, TypeOK, FileOK, Db
  <2> QED
    BY <1>2, <2>1, <2>2 DEF StartupInv, KeysDated
<1>8. KeyTold'
  <2>1. Newest' = Newest
    BY <1>2 DEF Newest, Keys
  <2> QED
    BY <1>3, <2>1 DEF StartupInv, KeyTold, Silent, ghosts
<1> QED
  BY <1>4, <1>5, <1>6, <1>7, <1>8 DEF StartupInv

LEMMA ClosingStep == StartupInv /\ (MigrationFails \/ Checkpoint \/ Stop) => StartupInv'
<1> SUFFICES ASSUME StartupInv, MigrationFails \/ Checkpoint \/ Stop PROVE StartupInv'
  OBVIOUS
<1>1. /\ failures' \in Nat /\ failures' >= failures
      /\ pc \in {"check", "apply"} \/ Serves
  BY DEF StartupInv, TypeOK, MigrationFails, Checkpoint, Stop, Fails, Serves
<1>2. cur # None
  BY <1>1 DEF StartupInv, UpToHere
<1> QED
  BY <1>1, <1>2, CheckpointedStays DEF MigrationFails, Checkpoint, Stop, ghosts

LEMMA CreateFailsStep == StartupInv /\ CreateFails => StartupInv'
<1> SUFFICES ASSUME StartupInv, CreateFails PROVE StartupInv'
  OBVIOUS
<1>1. /\ pc' = "down" /\ failures' \in Nat /\ failures' = failures + 1
      /\ failures \in Nat /\ failures' >= failures
      /\ UNCHANGED <<old, applied, selector, ensured, announced, crashes, ghosts>>
      /\ applied \in 0 .. Count /\ crashes \in Nat /\ selector \in Selectors
  BY DEF StartupInv, TypeOK, CreateFails, Fails
<1>2. CASE cur' = cur
  <2>1. UpToHere'
    BY <1>1 DEF UpToHere, ServesComplete, Serves
  <2> QED
    BY <1>1, <1>2, <2>1, FilesStay DEF States, Silent
<1>3. CASE cur # None /\ cur' = Checkpointed
  BY <1>1, <1>3, CheckpointedStays
<1>4. CASE cur = None /\ cur' = NewFile
  <2>1. /\ cur' \in [main : Db, all : Db] /\ FileOK(cur)' /\ cur'.all = Empty
        /\ Keys' = {} /\ Newest' = NoKey
    BY <1>4, EmptyTyped DEF NewFile, FileOK, Empty, Keys, Newest, OneKeyEach
  <2>2. cur' # None
    BY <2>1, FileIsThere
  <2>3. TypeOK'
    <3>1. (old = None \/ FileOK(old))'
      BY <1>1 DEF StartupInv, TypeOK, FileOK, OneKeyEach
    <3> QED
      BY <1>1, <2>1, <3>1 DEF StartupInv, TypeOK, ghosts
  <2>4. RecordedLast'
    BY <1>1, <2>1 DEF StartupInv, RecordedLast, Empty
  <2>5. UpToHere'
    BY <1>1 DEF UpToHere, ServesComplete, Serves
  <2>6. MailPlaced'
    BY <1>1, <1>4, <2>1, <2>2 DEF StartupInv, MailPlaced, Stranded, Empty, ghosts
  <2>7. KeysDated'
    <3>1. old # None => old.main.keys \subseteq Row
      BY DEF StartupInv, TypeOK, FileOK, Db
    <3>2. \A k \in Row : k.key <= failures + 1 => k.key <= failures' + 1
      BY <1>1 DEF Row
    <3> QED
      BY <1>1, <2>1, <3>1, <3>2 DEF StartupInv, KeysDated, OneNewest, Empty
  <2>8. KeyTold'
    BY <1>1, <1>4, <2>1, <2>2 DEF StartupInv, KeyTold, Silent, ghosts
  <2> QED
    BY <2>3, <2>4, <2>5, <2>6, <2>7, <2>8 DEF StartupInv
<1> QED
  BY <1>2, <1>3, <1>4 DEF CreateFails

\* The renamed file is what a start finds; what was in its -wal file is lost.
LEMMA RenameOldStep == StartupInv /\ RenameOld => StartupInv'
<1> SUFFICES ASSUME StartupInv, RenameOld PROVE StartupInv'
  OBVIOUS
<1>1. /\ pc = "rename" /\ pc' = "migrate" /\ applied' = applied /\ selector' = selector
      /\ ensured' = ensured /\ announced' = announced /\ crashes' = crashes /\ committed' = committed
      /\ published' = published /\ unread' = unread
  BY DEF RenameOld
<1>2. CASE UNCHANGED <<old, cur, walLost>>
  <2>1. /\ failures' \in Nat /\ failures' >= failures
        /\ applied \in 0 .. Count /\ crashes \in Nat /\ selector \in Selectors
    <3>1. failures' = failures \/ failures' = failures + 1
      BY DEF RenameOld, Fails
    <3> QED
      BY <3>1 DEF StartupInv, TypeOK
  <2>2. old # None => cur # None \/ failures' > 0
    <3>1. CASE RenameWanted
      <4>1. failures' = failures + 1 \/ old' = None
        BY <3>1 DEF RenameOld, Fails
      <4> QED
        BY <1>2, <4>1 DEF StartupInv, TypeOK
    <3>2. CASE ~RenameWanted
      BY <3>2 DEF RenameWanted
    <3> QED
      BY <3>1, <3>2
  <2>3. UpToHere'
    BY <1>1 DEF UpToHere, ServesComplete, Serves
  <2> QED
    BY <1>1, <1>2, <2>1, <2>2, <2>3, FilesStay DEF States, Silent, ghosts
<1>3. CASE /\ RenameWanted
           /\ cur' = [main |-> old.main, all |-> old.main]
           /\ old' = None
           /\ walLost' = walLost \cup (old.all.mail \ old.main.mail)
           /\ UNCHANGED failures
  <2>1. /\ cur = None /\ old # None /\ old \in [main : Db, all : Db]
        /\ old.main \in Db /\ old.all \in Db /\ OneKeyEach(old.main)
        /\ old.main.mail \subseteq old.all.mail /\ old.all.mail \subseteq Msgs
    BY <1>3 DEF RenameWanted, StartupInv, TypeOK, FileOK, Db
  <2>2. cur' \in [main : Db, all : Db] /\ cur'.all = old.main /\ cur'.main = old.main
    BY <1>3, <2>1
  <2>3. cur' # None
    BY <2>2, FileIsThere
  <2>4. TypeOK'
    <3>1. FileOK(cur)'
      BY <2>1, <2>2 DEF FileOK, OneKeyEach
    <3>2. walLost' \subseteq Msgs
      BY <1>3, <2>1 DEF StartupInv, TypeOK
    <3> QED
      BY <1>1, <1>3, <3>1, <3>2 DEF StartupInv, TypeOK
  <2>5. RecordedLast'
    BY <1>3, <2>1, <2>2 DEF StartupInv, RecordedLast
  <2>6. UpToHere'
    BY <1>1 DEF UpToHere, ServesComplete, Serves
  <2>7. MailPlaced'
    <3>1. committed \subseteq walLost \cup old.all.mail
      BY <2>1 DEF StartupInv, MailPlaced, Stranded
    <3> QED
      BY <1>1, <1>3, <2>1, <2>2, <2>3, <3>1 DEF MailPlaced, Stranded
  <2>8. KeysDated'
    BY <1>3, <2>1, <2>2 DEF StartupInv, KeysDated
  <2>9. KeyTold'
    BY <1>1, <2>1, <2>3 DEF StartupInv, KeyTold, Silent
  <2> QED
    BY <2>4, <2>5, <2>6, <2>7, <2>8, <2>9 DEF StartupInv
<1> QED
  BY <1>2, <1>3 DEF RenameOld

LEMMA CreateMigrationsStep == StartupInv /\ CreateMigrations => StartupInv'
<1> SUFFICES ASSUME StartupInv, CreateMigrations PROVE StartupInv'
  OBVIOUS
<1> DEFINE file == IF cur = None THEN NewFile ELSE cur
<1>1. /\ pc = "migrate" /\ pc' = "check" /\ UNCHANGED <<old, applied, selector, ensured,
                                         announced, crashes, failures, ghosts>>
      /\ cur' = [file EXCEPT !.all.done = @ \cup {"schema_migrations"}]
  BY DEF CreateMigrations
<1>2. /\ file \in [main : Db, all : Db] /\ FileOK(file)
      /\ cur # None => file = cur
      /\ cur = None => file.all = Empty
  BY EmptyTyped DEF StartupInv, TypeOK, FileOK, NewFile
<1>3. /\ file.main \in Db /\ file.all \in Db
      /\ file.main.done \subseteq file.all.done /\ file.main.mail \subseteq file.all.mail
      /\ OneKeyEach(file.main) /\ OneKeyEach(file.all)
      /\ file.all.done \cup {"schema_migrations"} \in SUBSET Complete
  BY <1>2, RecordedMade DEF FileOK, Db
<1> HIDE DEF file
<1>4. /\ cur' \in [main : Db, all : Db]
      /\ cur'.main = file.main
      /\ cur'.all.done = file.all.done \cup {"schema_migrations"}
      /\ cur'.all.mail = file.all.mail /\ cur'.all.keys = file.all.keys
  BY <1>1, <1>2, <1>3 DEF Db
<1>5. cur' # None
  BY <1>4, FileIsThere
<1>6. TypeOK'
  <2>1. FileOK(cur)'
    BY <1>3, <1>4 DEF FileOK, OneKeyEach
  <2>2. (old = None \/ FileOK(old))'
    BY <1>1 DEF StartupInv, TypeOK, FileOK, OneKeyEach
  <2> QED
    BY <1>1, <2>1, <2>2 DEF StartupInv, TypeOK, ghosts
<1>7. RecordedLast'
  <2>1. "recorded" # "schema_migrations" /\ (cur = None => "recorded" \notin file.all.done)
    BY <1>2 DEF Empty
  <2>2. "recorded" \in file.all.done => file.all.done = Complete
    BY <1>2, <2>1 DEF StartupInv, RecordedLast
  <2> QED
    BY <1>1, <1>3, <1>4, <2>1, <2>2 DEF StartupInv, RecordedLast
<1>8. UpToHere'
  BY <1>1, <1>4, <1>5 DEF UpToHere, ServesComplete, Serves
<1>9. MailPlaced'
  <2>1. (IF cur = None THEN {} ELSE cur.all.mail) = file.all.mail
    BY <1>2 DEF Empty
  <2> QED
    BY <1>1, <1>4, <1>5, <2>1 DEF StartupInv, MailPlaced, Stranded, ghosts
<1>10. KeysDated'
  <2>1. /\ \A k \in file.all.keys : k.key <= failures + 1
        /\ OneNewest(file.all.keys)
    BY <1>2 DEF StartupInv, KeysDated, Empty, OneNewest
  <2> QED
    BY <1>1, <1>4, <1>5, <2>1 DEF StartupInv, KeysDated
<1>11. KeyTold'
  <2>1. CASE cur = None
    <3>1. published' = NoKey /\ announced' = NoKey
      BY <1>1, <2>1 DEF StartupInv, KeyTold, ghosts
    <3> QED
      BY <1>1, <3>1 DEF KeyTold
  <2>2. CASE cur # None
    <3>1. Newest' = Newest
      BY <1>2, <1>4, <2>2 DEF Newest, Keys
    <3> QED
      BY <1>1, <1>5, <2>2, <3>1 DEF StartupInv, KeyTold, Silent, ghosts
  <2> QED
    BY <2>1, <2>2
<1> QED
  BY <1>6, <1>7, <1>8, <1>9, <1>10, <1>11 DEF StartupInv

LEMMA CommitsEffect ==
  ASSUME NEW db \in Db, cur \in [main : Db, all : Db], Commits(db)
  PROVE  /\ cur' \in [main : Db, all : Db] /\ cur'.all = db /\ cur'.main = cur.main
         /\ cur' # None
<1>1. cur' \in [main : Db, all : Db] /\ cur'.all = db /\ cur'.main = cur.main
  BY DEF Commits
<1> QED
  BY <1>1, FileIsThere

\* What a transaction must keep for the rest to go on holding.
LEMMA CommitsKeepsTypes ==
  ASSUME StartupInv, cur # None, NEW db \in Db, Commits(db), UNCHANGED old,
         cur.all.done \subseteq db.done, cur.all.mail \subseteq db.mail, OneKeyEach(db)
  PROVE  /\ FileOK(cur)' /\ cur' # None /\ cur'.all = db /\ (old = None \/ FileOK(old))'
<1>1. cur \in [main : Db, all : Db] /\ FileOK(cur)
  BY Unfolded DEF StartupInv
<1>2. /\ cur' \in [main : Db, all : Db] /\ cur'.all = db /\ cur'.main = cur.main
      /\ cur' # None
  BY <1>1, CommitsEffect
<1>3. FileOK(cur)'
  <2>1. /\ cur'.main.done \subseteq cur'.all.done /\ cur'.main.mail \subseteq cur'.all.mail
    BY <1>1, <1>2 DEF FileOK
  <2> QED
    BY <1>1, <1>2, <2>1 DEF FileOK, OneKeyEach
<1>4. (old = None \/ FileOK(old))'
  BY DEF StartupInv, TypeOK, FileOK, OneKeyEach
<1> QED
  BY <1>2, <1>3, <1>4

LEMMA ApplyNextStep == StartupInv /\ ApplyNext => StartupInv'
<1> SUFFICES ASSUME StartupInv, ApplyNext PROVE StartupInv'
  OBVIOUS
<1> DEFINE s == Statements[applied + 1]
           db == [cur.all EXCEPT !.done = @ \cup {s}]
<1>1. /\ pc = "apply" /\ applied < Count /\ Commits(db) /\ applied' = applied + 1
      /\ UNCHANGED <<old, pc, selector, ensured, announced, crashes, failures, ghosts>>
  BY DEF ApplyNext
<1>2. cur # None /\ Made(applied) \subseteq cur.all.done
  BY <1>1 DEF StartupInv, UpToHere
<1>3. /\ cur.all \in Db /\ cur.all.done \subseteq Complete /\ OneKeyEach(cur.all)
      /\ applied \in 0 .. Count
  BY <1>2, Unfolded DEF StartupInv
<1>4. /\ applied + 1 \in 0 .. Count /\ s \in Complete
      /\ Made(applied + 1) = Made(applied) \cup {s}
  BY <1>1, <1>3, MadeStep
<1>5. /\ db \in Db /\ db.done = cur.all.done \cup {s}
      /\ db.mail = cur.all.mail /\ db.keys = cur.all.keys
  BY <1>3, <1>4 DEF Db
<1>6. OneKeyEach(db)
  BY <1>3, <1>5 DEF OneKeyEach
<1> HIDE DEF db
<1>7. /\ FileOK(cur)' /\ cur' # None /\ cur'.all = db /\ (old = None \/ FileOK(old))'
  BY <1>1, <1>2, <1>5, <1>6, CommitsKeepsTypes
<1>8. TypeOK'
  BY <1>1, <1>4, <1>7 DEF StartupInv, TypeOK, ghosts
<1>9. Made(applied + 1) \subseteq db.done /\ db.done \subseteq Complete
  BY <1>2, <1>3, <1>4, <1>5
<1>10. RecordedLast'
  <2>1. ASSUME "recorded" \in db.done PROVE db.done = Complete
    <3>1. CASE "recorded" \in cur.all.done
      BY <1>2, <1>5, <1>9, <3>1 DEF StartupInv, RecordedLast
    <3>2. CASE s = "recorded"
      <4>1. applied + 1 = Count
        BY <1>1, <1>3, <3>2, MadeStep, StatementFacts
      <4> QED
        BY <1>9, <4>1 DEF Complete
    <3> QED
      BY <1>5, <2>1, <3>1, <3>2
  <2> QED
    BY <1>1, <1>7, <2>1 DEF StartupInv, RecordedLast
<1>11. UpToHere'
  <2>1. "schema_migrations" \in db.done
    BY <1>9 DEF Made
  <2> QED
    BY <1>1, <1>7, <1>9, <2>1 DEF UpToHere, ServesComplete, Serves
<1>12. MailPlaced' /\ KeysDated'
  BY <1>1, <1>2, <1>5, <1>7 DEF StartupInv, MailPlaced, KeysDated, Stranded, ghosts
<1>13. KeyTold'
  <2>1. Keys' = Keys
    BY <1>5, <1>7 DEF Keys
  <2> QED
    BY <1>1, <1>2, <1>7, <2>1 DEF StartupInv, KeyTold, Silent, Newest, ghosts
<1> QED
  BY <1>8, <1>10, <1>11, <1>12, <1>13 DEF StartupInv

LEMMA AcceptStep ==
  ASSUME StartupInv, NEW m \in Msgs, Accept(m)
  PROVE  StartupInv'
<1> DEFINE db == [cur.all EXCEPT !.mail = @ \cup {m}]
<1>1. /\ pc = "serving" /\ Commits(db) /\ committed' = committed \cup {m}
      /\ UNCHANGED <<old, pc, applied, selector, ensured, announced, crashes, failures,
                     walLost, published, unread>>
  BY DEF Accept
<1>2. cur # None
  BY <1>1 DEF StartupInv, UpToHere, Serves
<1>3. cur.all \in Db /\ OneKeyEach(cur.all)
  BY <1>2, Unfolded DEF StartupInv
<1>4. /\ db \in Db /\ db.done = cur.all.done /\ db.mail = cur.all.mail \cup {m}
      /\ db.keys = cur.all.keys
  BY <1>3 DEF Db
<1>5. OneKeyEach(db)
  BY <1>3, <1>4 DEF OneKeyEach
<1> HIDE DEF db
<1>6. /\ FileOK(cur)' /\ cur' # None /\ cur'.all = db /\ (old = None \/ FileOK(old))'
  BY <1>1, <1>2, <1>4, <1>5, CommitsKeepsTypes
<1>7. TypeOK'
  BY <1>1, <1>6 DEF StartupInv, TypeOK
<1>8. RecordedLast' /\ UpToHere' /\ MailPlaced' /\ KeysDated'
  BY <1>1, <1>2, <1>4, <1>6
     DEF StartupInv, RecordedLast, UpToHere, ServesComplete, Serves, MailPlaced, KeysDated,
         Stranded
<1>9. KeyTold'
  <2>1. Keys' = Keys
    BY <1>4, <1>6 DEF Keys
  <2> QED
    BY <1>1, <1>2, <1>6, <2>1 DEF StartupInv, KeyTold, Silent, Newest
<1> QED
  BY <1>7, <1>8, <1>9 DEF StartupInv

LEMMA KeyFoundStep == StartupInv /\ KeyFound => StartupInv'
<1> SUFFICES ASSUME StartupInv, KeyFound PROVE StartupInv'
  OBVIOUS
<1>1. /\ pc = "key" /\ Keys # {} /\ ensured' = Newest /\ pc' = "log"
      /\ UNCHANGED <<old, cur, applied, selector, announced, crashes, failures, ghosts>>
  BY DEF KeyFound, Returns, AsFound, ghosts
<1>2. cur # None /\ cur.all.done = Complete
  BY <1>1 DEF StartupInv, UpToHere, ServesComplete, Serves
<1>3. Keys \subseteq Row
  BY <1>2, Unfolded DEF StartupInv, Keys
<1>4. Newest \in Row
  <2>1. PICK row \in Keys : \A k \in Keys \ {row} : k.key < row.key
    BY <1>1, <1>2 DEF StartupInv, KeysDated, OneNewest, Keys
  <2> QED
    BY <1>3, <2>1, NewestIs
<1>5. Newest' = Newest
  BY <1>1 DEF Newest, Keys
<1>6. TypeOK'
  <2>1. (cur = None \/ FileOK(cur))' /\ (old = None \/ FileOK(old))'
    BY <1>1 DEF StartupInv, TypeOK, FileOK, OneKeyEach
  <2> QED
    BY <1>1, <1>4, <2>1 DEF StartupInv, TypeOK, ghosts
<1>7. RecordedLast' /\ UpToHere' /\ MailPlaced' /\ KeysDated'
  BY <1>1, <1>2
     DEF StartupInv, RecordedLast, UpToHere, ServesComplete, Serves, MailPlaced, KeysDated,
         Stranded, ghosts
<1>8. KeyTold'
  <2>1. Newest # NoKey
    BY <1>4, NoKeyIsNoRow
  <2> QED
    BY <1>1, <1>2, <1>5, <2>1 DEF StartupInv, KeyTold, Silent, ghosts
<1> QED
  BY <1>6, <1>7, <1>8 DEF StartupInv

LEMMA KeyMadeStep == StartupInv /\ KeyMade => StartupInv'
<1> SUFFICES ASSUME StartupInv, KeyMade PROVE StartupInv'
  OBVIOUS
<1> DEFINE row == [sel |-> selector, key |-> failures' + 1]
           db == [cur.all EXCEPT !.keys = Others \cup {row}]
<1>1. /\ pc = "key" /\ Commits(db) /\ ensured' = row /\ pc' = "log"
      /\ UNCHANGED <<old, applied, selector, announced, crashes, committed, walLost, published>>
      /\ \/ Keys = {} /\ failures' = failures /\ unread' = unread
         \/ failures' = failures + 1 /\ unread' = TRUE
  BY DEF KeyMade, GenerateKey, Returns, NoKeyThere, Fails
<1>2. cur # None /\ cur.all.done = Complete
  BY <1>1 DEF StartupInv, UpToHere, ServesComplete, Serves
<1>3. cur.all \in Db /\ Keys \subseteq Row /\ OneKeyEach(cur.all) /\ failures \in Nat
  BY <1>2, Unfolded DEF StartupInv, Keys
<1>4. failures' \in Nat /\ failures' >= failures
  BY <1>1, <1>3
<1>5. row \in Row /\ row # NoKey
  <2>1. selector \in Selectors
    BY DEF StartupInv, TypeOK
  <2>2. failures' + 1 \in Nat
    BY <1>1, <1>3
  <2>3. row \in Row
    BY <2>1, <2>2 DEF Row
  <2> QED
    BY <2>3, NoKeyIsNoRow
<1>6. \A k \in Others : k \in Keys /\ k \in Row /\ k.sel # selector /\ k.key < failures' + 1
  <2>1. \A k \in Keys : k.key \in Nat /\ k.key <= failures + 1
    BY <1>2, <1>3 DEF StartupInv, KeysDated, Keys, Row
  <2> QED
    BY <1>1, <1>3, <1>4, <2>1 DEF Others
<1>7. row.sel = selector /\ row.key = failures' + 1
  OBVIOUS
<1> HIDE DEF row
<1>8. /\ db \in Db /\ db.done = cur.all.done /\ db.mail = cur.all.mail
      /\ db.keys = Others \cup {row}
  <2>1. Others \cup {row} \subseteq Row
    BY <1>5, <1>6
  <2> QED
    BY <1>3, <2>1 DEF Db
<1>9. OneKeyEach(db)
  BY <1>3, <1>6, <1>7, <1>8 DEF OneKeyEach, Keys
<1> HIDE DEF db
<1>10. /\ FileOK(cur)' /\ cur' # None /\ cur'.all = db /\ (old = None \/ FileOK(old))'
  BY <1>1, <1>2, <1>8, <1>9, CommitsKeepsTypes
<1>11. Newest' = row
  <2>1. \A k \in db.keys \ {row} : k.key < row.key
    BY <1>6, <1>7, <1>8
  <2>2. /\ row \in db.keys /\ db.keys \subseteq Row /\ \A k \in db.keys : k.key \in Nat
    BY <1>5, <1>6, <1>8 DEF Row
  <2>3. \A k \in db.keys : k.key <= row.key
    BY <2>1, <2>2
  <2>4. \A x \in db.keys : (\A k \in db.keys : k.key <= x.key) => x = row
    BY <2>1, <2>2
  <2> QED
    BY <1>10, <2>2, <2>3, <2>4 DEF Newest, Keys
<1>12. TypeOK'
  <2>1. unread' \in BOOLEAN
    BY <1>1 DEF StartupInv, TypeOK
  <2> QED
    BY <1>1, <1>4, <1>5, <1>10, <2>1 DEF StartupInv, TypeOK
<1>13. RecordedLast' /\ UpToHere'
  BY <1>1, <1>2, <1>8, <1>10
     DEF StartupInv, RecordedLast, UpToHere, ServesComplete, Serves
<1>14. MailPlaced'
  BY <1>1, <1>2, <1>3, <1>4, <1>8, <1>10 DEF StartupInv, MailPlaced, Stranded
<1>15. KeysDated'
  <2>1. \A k \in db.keys : k.key <= failures' + 1
    <3>1. \A k \in Others : k.key \in Nat
      BY <1>6 DEF Row
    <3> QED
      BY <1>4, <1>6, <1>7, <1>8, <3>1
  <2>2. OneNewest(db.keys)
    BY <1>6, <1>7, <1>8 DEF OneNewest
  <2>3. old # None => \A k \in old.main.keys : k.key <= failures' + 1
    <3>1. old # None => old.main.keys \subseteq Row
      BY DEF StartupInv, TypeOK, FileOK, Db
    <3>2. \A k \in Row : k.key <= failures + 1 => k.key <= failures' + 1
      BY <1>3, <1>4 DEF Row
    <3> QED
      BY <3>1, <3>2 DEF StartupInv, KeysDated
  <2> QED
    BY <1>1, <1>10, <2>1, <2>2, <2>3 DEF StartupInv, KeysDated
<1>16. KeyTold'
  <2>1. published # NoKey /\ ~unread => Keys # {}
    <3>1. Keys = {} => Newest = NoKey
      BY DEF Newest
    <3> QED
      BY <3>1 DEF StartupInv, KeyTold
  <2>2. announced' = NoKey /\ (published' # NoKey => unread')
    BY <1>1, <2>1 DEF StartupInv, KeyTold, Silent
  <2> QED
    BY <1>1, <1>5, <1>10, <1>11, <2>2 DEF KeyTold
<1> QED
  BY <1>12, <1>13, <1>14, <1>15, <1>16 DEF StartupInv

LEMMA LogKeyStep == StartupInv /\ LogKey => StartupInv'
<1> SUFFICES ASSUME StartupInv, LogKey PROVE StartupInv'
  OBVIOUS
<1>1. /\ pc = "log" /\ pc' = "tls" /\ announced' = ensured
      /\ published' = IF published = NoKey THEN ensured ELSE published
      /\ UNCHANGED <<old, cur, applied, selector, ensured, crashes, failures, committed,
                     walLost, unread>>
  BY DEF LogKey
<1>2. /\ cur # None /\ cur.all.done = Complete
      /\ ensured = Newest /\ ensured # NoKey /\ Newest' = Newest
  BY <1>1 DEF StartupInv, UpToHere, ServesComplete, Serves, KeyTold, Newest, Keys
<1>3. TypeOK'
  <2>1. (cur = None \/ FileOK(cur))' /\ (old = None \/ FileOK(old))'
    BY <1>1 DEF StartupInv, TypeOK, FileOK, OneKeyEach
  <2> QED
    BY <1>1, <2>1 DEF StartupInv, TypeOK
<1>4. RecordedLast' /\ UpToHere' /\ MailPlaced' /\ KeysDated'
  BY <1>1, <1>2
     DEF StartupInv, RecordedLast, UpToHere, ServesComplete, Serves, MailPlaced, KeysDated,
         Stranded
<1>5. KeyTold'
  <2>1. published' # NoKey /\ (~unread => published' = Newest)
    BY <1>1, <1>2 DEF StartupInv, KeyTold
  <2> QED
    BY <1>1, <1>2, <2>1 DEF KeyTold, Silent
<1> QED
  BY <1>3, <1>4, <1>5 DEF StartupInv

-----------------------------------------------------------------------------
(* The first state, and every step *)

LEMMA InitHolds == Init => StartupInv
<1> SUFFICES ASSUME Init PROVE StartupInv
  OBVIOUS
<1>1. /\ old \in {None} \cup Left /\ cur = None /\ pc = "stopped" /\ applied = 0
      /\ selector \in Selectors /\ ensured = NoKey /\ announced = NoKey /\ crashes = 0 /\ failures = 0
      /\ committed = (IF old = None THEN {} ELSE old.all.mail)
      /\ walLost = {} /\ published = NoKey /\ unread = FALSE
  BY DEF Init
<1>2. ASSUME old # None
      PROVE  /\ FileOK(old) /\ old.main.done \in {{}, Complete}
             /\ \A k \in old.main.keys : k.key = 0
             /\ OneNewest(old.main.keys)
  <2>1. \A ks \in OldKeys : /\ ks \subseteq Row /\ \A k \in ks : k.key = 0
                            /\ \A k, l \in ks : k = l
    BY DEF OldKeys, Row
  <2>2. \A ms \in SUBSET Msgs, ks \in OldKeys :
          /\ OldDb(ms, ks) \in Db /\ OneKeyEach(OldDb(ms, ks))
          /\ OldDb(ms, ks).done = Complete /\ OldDb(ms, ks).mail = ms
          /\ OldDb(ms, ks).keys = ks
    BY <2>1 DEF OldDb, Db, OneKeyEach
  <2>3. CASE \E b \in SUBSET Msgs, ks \in OldKeys :
               old = [main |-> Empty, all |-> OldDb(b, ks)]
    <3>1. PICK b \in SUBSET Msgs, ks \in OldKeys :
            old = [main |-> Empty, all |-> OldDb(b, ks)]
      BY <2>3
    <3> QED
      BY <2>2, <3>1, EmptyTyped DEF FileOK, OneNewest, Empty
  <2>4. CASE \E b \in SUBSET Msgs : \E a \in SUBSET b, ks \in OldKeys :
               old = [main |-> OldDb(a, ks), all |-> OldDb(b, ks)]
    <3>1. PICK b \in SUBSET Msgs : \E a \in SUBSET b, ks \in OldKeys :
            old = [main |-> OldDb(a, ks), all |-> OldDb(b, ks)]
      BY <2>4
    <3>2. PICK a \in SUBSET b, ks \in OldKeys :
            old = [main |-> OldDb(a, ks), all |-> OldDb(b, ks)]
      BY <3>1
    <3>3. a \in SUBSET Msgs
      OBVIOUS
    <3> HIDE DEF OldDb
    <3>4. FileOK(old)
      BY <2>2, <3>2, <3>3 DEF FileOK
    <3> QED
      BY <2>1, <2>2, <3>2, <3>3, <3>4 DEF OneNewest
  <2> QED
    BY <1>1, <1>2, <2>3, <2>4 DEF Left
<1>3. TypeOK
  <2>1. committed \subseteq Msgs
    BY <1>1, <1>2 DEF FileOK, Db
  <2>2. 0 \in 0 .. Count /\ 0 \in Nat
    BY StatementFacts
  <2> QED
    BY <1>1, <1>2, <2>1, <2>2 DEF TypeOK
<1>4. RecordedLast /\ UpToHere /\ MailPlaced /\ KeyTold
  BY <1>1, <1>2
     DEF RecordedLast, UpToHere, ServesComplete, Serves, MailPlaced, Stranded, KeyTold
<1>5. KeysDated
  BY <1>1, <1>2 DEF KeysDated
<1> QED
  BY <1>3, <1>4, <1>5 DEF StartupInv

LEMMA Unchanged == StartupInv /\ UNCHANGED vars => StartupInv'
<1> SUFFICES ASSUME StartupInv, UNCHANGED vars PROVE StartupInv'
  OBVIOUS
<1>1. /\ crashes \in Nat /\ failures \in Nat /\ selector \in Selectors
      /\ applied \in 0 .. Count /\ pc \in States
  BY Unfolded DEF StartupInv, TypeOK
<1>2. UpToHere'
  BY DEF vars, StartupInv, UpToHere, ServesComplete, Serves
<1> QED
  BY <1>1, <1>2, FilesStay DEF vars, Silent, ghosts

\* The inductive invariant: the record of the migration comes last, mail and
\* keys are where a later start will find them, and one key is the newest.
THEOREM StartupInvariant == Spec => []StartupInv
<1>1. StartupInv /\ [Next]_vars => StartupInv'
  BY Unchanged, StartStep, RenameOldStep, CreateMigrationsStep, CheckAppliedStep,
     ApplyNextStep, MigratedStep, KeyFoundStep, KeyMadeStep, LogKeyStep, ServingStep,
     ClosingStep, CreateFailsStep, SetupFailsStep, AcceptStep, CrashStep DEF Next, StartupStep
<1> QED
  BY InitHolds, <1>1, PTL DEF Spec

\* Files, keys and the process hold values of their types (db.Open, EnsureKey).
THEOREM StartupTyped == Spec => []TypeOK
<1>1. StartupInv => TypeOK
  BY DEF StartupInv
<1> QED
  BY <1>1, StartupInvariant, PTL

\* Whatever statement of the migration a start died or failed at, no server
\* runs on a schema that is not whole and recorded (migrate).
THEOREM SchemaIsWhole == Spec => []ServesComplete
<1>1. StartupInv => ServesComplete
  BY DEF StartupInv, UpToHere
<1> QED
  BY <1>1, StartupInvariant, PTL

\* Accepted mail is in the database the server runs on, but for what the
\* rename of a database left behind (Open).
THEOREM MailIsKept == Spec => []MailSurvives
<1>1. StartupInv => MailSurvives
  BY DEF StartupInv, UpToHere, Serves, MailPlaced, MailSurvives
<1> QED
  BY <1>1, StartupInvariant, PTL

\* The key announced is the one Sign uses, and the first one announced unless
\* reading it failed (EnsureKey, GenerateKey).
THEOREM KeyIsKept == Spec => []KeyKept
<1>1. StartupInv => KeyKept
  BY DEF StartupInv, KeyTold, KeyKept
<1> QED
  BY <1>1, StartupInvariant, PTL
=============================================================================
