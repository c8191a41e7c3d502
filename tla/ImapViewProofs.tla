--------------------------- MODULE ImapViewProofs ---------------------------
(***************************************************************************)
(* Proofs about what IMAP clients believe: for any number of clients,      *)
(* messages, mailbox rows and uids, a client's numbers, its cache and the  *)
(* UIDNEXT it was told are right but where the model says they cannot be.  *)
(***************************************************************************)
EXTENDS ImapView, FiniteSetTheorems, TLAPS

(* Numbers of messages *)

LEMMA Bounds ==
  /\ MaxBox \in Nat /\ MaxBox >= 1 /\ MaxMsg \in Nat /\ MaxUid \in Nat
BY ViewAssumption

LEMMA MailFinite ==
  ASSUME TypeOK
  PROVE  /\ IsFiniteSet(DOMAIN mail) /\ \A m \in DOMAIN mail : mail[m] \in Nat
         /\ \A S \in SUBSET DOMAIN mail : IsFiniteSet(S) /\ Cardinality(S) \in Nat
<1>1. nextMsg - 1 \in Int /\ DOMAIN mail \subseteq 1 .. nextMsg - 1
  BY Bounds DEF TypeOK
<1>2. IsFiniteSet(DOMAIN mail)
  BY <1>1, FS_Interval, FS_Subset
<1>3. \A S \in SUBSET DOMAIN mail : IsFiniteSet(S) /\ Cardinality(S) \in Nat
  BY <1>2, FS_Subset, FS_CardinalityType
<1> QED
  BY <1>2, <1>3 DEF TypeOK

\* A message that comes later has a greater number.
LEMMA SeqNumGrows ==
  ASSUME TypeOK, NEW m \in DOMAIN mail, NEW n \in DOMAIN mail
  PROVE  /\ SeqNum(m) \in Nat
         /\ mail[m] <= mail[n] => SeqNum(m) <= SeqNum(n)
         /\ mail[m] < mail[n] => SeqNum(m) < SeqNum(n)
<1> DEFINE UpTo(k) == {x \in DOMAIN mail : mail[x] <= mail[k]}
<1>1. \A k \in DOMAIN mail : /\ UpTo(k) \in SUBSET DOMAIN mail /\ IsFiniteSet(UpTo(k))
                             /\ Cardinality(UpTo(k)) \in Nat
                             /\ SeqNum(k) = Cardinality(UpTo(k))
  BY MailFinite DEF SeqNum
<1>2. mail[m] \in Nat /\ mail[n] \in Nat /\ \A x \in DOMAIN mail : mail[x] \in Nat
  BY MailFinite
<1>3. ASSUME mail[m] <= mail[n]
      PROVE  SeqNum(m) <= SeqNum(n)
  <2>1. UpTo(m) \subseteq UpTo(n)
    BY <1>2, <1>3
  <2> HIDE DEF UpTo
  <2> QED
    BY <1>1, <2>1, FS_Subset
<1>4. ASSUME mail[m] < mail[n]
      PROVE  SeqNum(m) < SeqNum(n)
  <2>1. UpTo(m) \subseteq UpTo(n) /\ n \in UpTo(n) /\ n \notin UpTo(m)
    BY <1>2, <1>4
  <2> HIDE DEF UpTo
  <2>2. UpTo(m) # UpTo(n)
    BY <2>1
  <2>3. Cardinality(UpTo(m)) # Cardinality(UpTo(n))
    BY <1>1, <2>1, <2>2, FS_Subset
  <2>4. Cardinality(UpTo(m)) <= Cardinality(UpTo(n))
    BY <1>1, <2>1, FS_Subset
  <2> QED
    BY <1>1, <2>3, <2>4
<1> QED
  BY <1>1, <1>3, <1>4

\* No two messages have one number.
LEMMA SeqNumDistinct ==
  ASSUME TypeOK, UidsDistinct, NEW m \in DOMAIN mail, NEW n \in DOMAIN mail,
         SeqNum(m) = SeqNum(n)
  PROVE  m = n
<1>1. mail[m] \in Nat /\ mail[n] \in Nat /\ SeqNum(m) \in Nat /\ SeqNum(n) \in Nat
  BY MailFinite, SeqNumGrows
<1>2. ~(mail[m] < mail[n]) /\ ~(mail[n] < mail[m])
  BY <1>1, SeqNumGrows
<1>3. mail[m] = mail[n]
  BY <1>1, <1>2
<1> QED
  BY <1>3 DEF UidsDistinct

LEMMA SeqNumSame ==
  ASSUME NEW m,
         {n \in DOMAIN mail' : mail'[n] <= mail'[m]} = {n \in DOMAIN mail : mail[n] <= mail[m]}
  PROVE  SeqNum(m)' = SeqNum(m)
BY DEF SeqNum

-----------------------------------------------------------------------------
(* What becomes of a client that does not move *)

\* Client d does and hears nothing.
Idle(d) ==
  /\ session'[d] = session[d] /\ view'[d] = view[d] /\ cache'[d] = cache[d]
  /\ synced'[d] = synced[d]

\* The messages in ms go.
Shrunk(ms) ==
  /\ DOMAIN mail' = DOMAIN mail \ ms
  /\ \A m \in DOMAIN mail' : mail'[m] = mail[m]

\* A message x of uid u comes.
Grown(x, u) ==
  /\ DOMAIN mail' = DOMAIN mail \cup {x} /\ x \notin DOMAIN mail
  /\ mail'[x] = u /\ \A m \in DOMAIN mail : mail'[m] = mail[m]

\* Messages go, or none; the numbers of d hold if it has none for them.
LEMMA IdleShrunk ==
  ASSUME ViewInv, NEW d \in Clients, Idle(d), NEW ms, Shrunk(ms),
         box' = box \/ (box' = 0 /\ DOMAIN mail \subseteq ms),
         uidNext' \in Nat, uidNext' >= uidNext, late' = late,
         box' = box => \A v \in Nat : Spent(v) => Spent(v)',
         d \notin stirred' => d \notin stirred /\ Numbered(d) \cap ms = {}
  PROVE  ClientInv(d)'
<1>1. /\ TypeOK /\ UidsDistinct /\ RowsAreOld /\ ClientInv(d)
  BY DEF ViewInv
<1>2. \A m \in DOMAIN mail' : m \in DOMAIN mail /\ mail'[m] = mail[m]
  BY DEF Shrunk
<1>3. box' # box => DOMAIN mail' = {}
  BY DEF Shrunk
<1>4. CASE box' = box
  <2>1. ASSUME d \notin stirred'
        PROVE  NumbersRight(d)'
    <3>1. NumbersRight(d) /\ Numbered(d) \cap ms = {} /\ Numbered(d)' = Numbered(d)
      BY <1>1, <2>1 DEF ClientInv, Idle, Numbered
    <3>2. ASSUME NEW n \in DOMAIN view[d]
          PROVE  /\ view[d][n] \in RowsOf(session[d].box)' /\ SeqNum(view[d][n])' = n
                 /\ \A m \in DOMAIN mail' : mail'[m] <= mail'[view[d][n]] => m \in Numbered(d)
      <4> DEFINE v == view[d][n]
      <4>1. /\ v \in RowsOf(session[d].box) /\ SeqNum(v) = n /\ v \in Numbered(d)
            /\ \A m \in DOMAIN mail : mail[m] <= mail[v] => m \in Numbered(d)
        BY <3>1 DEF NumbersRight, Numbered
      <4>2. v \in DOMAIN mail /\ v \notin ms /\ session[d].box = box
        BY <3>1, <4>1 DEF RowsOf
      <4> HIDE DEF v
      <4>3. v \in DOMAIN mail' /\ mail'[v] = mail[v]
        BY <4>2 DEF Shrunk
      <4>4. {k \in DOMAIN mail' : mail'[k] <= mail'[v]} = {k \in DOMAIN mail : mail[k] <= mail[v]}
        <5>1. \A k \in DOMAIN mail : mail[k] <= mail[v] => k \in DOMAIN mail'
          BY <3>1, <4>1 DEF Shrunk
        <5> QED
          BY <1>2, <4>3, <5>1
      <4>5. Cardinality({k \in DOMAIN mail' : mail'[k] <= mail'[v]}) = n
        BY <4>1, <4>4 DEF SeqNum
      <4>6. \A m \in DOMAIN mail' : mail'[m] <= mail'[v] => m \in Numbered(d)
        BY <1>2, <4>1, <4>3
      <4> QED
        BY <1>4, <4>2, <4>3, <4>5, <4>6 DEF RowsOf, SeqNum, Idle, v
    <3> QED
      BY <3>1, <3>2 DEF NumbersRight, Idle
  <2>2. session[d].found \subseteq Nat /\ \A u \in DOMAIN cache[d] : u \in Nat
    BY <1>1 DEF TypeOK, Session
  <2>3. CacheRight(d)' /\ FoundRight(d)'
    BY <1>1, <1>2, <1>4, <2>2 DEF ClientInv, CacheRight, FoundRight, Idle
  <2>4. NoneOverlooked(d)'
    <3>1. Older(d)' \subseteq Older(d) /\ Unseen(d)' \subseteq Unseen(d)
      BY <1>2 DEF Older, Unseen, Idle
    <3>2. Older(d) \in SUBSET DOMAIN mail /\ Unseen(d) \in SUBSET DOMAIN mail
      BY DEF Older, Unseen
    <3>3. /\ Cardinality(Older(d)') <= Cardinality(Older(d))
          /\ Cardinality(Unseen(d)') <= Cardinality(Unseen(d))
          /\ Cardinality(Older(d)') \in Nat /\ Cardinality(Unseen(d)') \in Nat
          /\ Cardinality(Older(d)) \in Nat /\ Cardinality(Unseen(d)) \in Nat
      BY <1>1, <3>1, <3>2, MailFinite, FS_Subset, FS_CardinalityType
    <3>4. /\ session[d].count \in Nat /\ late \in Nat /\ session[d].uidNext \in Nat
          /\ synced[d] \in Nat /\ uidNext \in Nat
      BY <1>1 DEF TypeOK, Session
    <3>7. /\ session[d].uidNext <= uidNext => session[d].uidNext <= uidNext'
          /\ synced[d] <= uidNext => synced[d] <= uidNext'
      BY <3>4
    <3> DEFINE o == Cardinality(Older(d))
               o2 == Cardinality(Older(d)')
               k == Cardinality(Unseen(d))
               k2 == Cardinality(Unseen(d)')
               c == session[d].count
    <3>5. /\ o \in Nat /\ o2 \in Nat /\ k \in Nat /\ k2 \in Nat /\ o2 <= o /\ k2 <= k
          /\ c \in Nat
      BY <3>3, <3>4
    <3> HIDE DEF o, o2, k, k2, c
    <3>6. (o <= c + late => o2 <= c + late) /\ (k <= late => k2 <= late)
      BY <3>4, <3>5
    <3> QED
      BY <1>1, <1>4, <3>6, <3>7 DEF ClientInv, NoneOverlooked, Idle, o, o2, k, k2, c
  <2> QED
    BY <2>1, <2>3, <2>4 DEF ClientInv
<1>5. CASE box' # box
  <2>1. DOMAIN mail' = {} /\ box' = 0
    BY <1>3, <1>5
  <2>2. ASSUME d \notin stirred'
        PROVE  NumbersRight(d)'
    <3>1. NumbersRight(d) /\ Numbered(d) \cap ms = {} /\ DOMAIN mail \subseteq ms
      BY <1>1, <1>5, <2>2 DEF ClientInv
    <3>2. \A n \in DOMAIN view[d] : view[d][n] \in DOMAIN mail /\ view[d][n] \in Numbered(d)
      BY <3>1 DEF NumbersRight, RowsOf, Numbered
    <3>3. DOMAIN view[d] = {}
      BY <3>1, <3>2
    <3> QED
      BY <3>1, <3>3 DEF NumbersRight, Idle
  <2>3. CacheRight(d)'
    <3>1. \A u \in DOMAIN cache[d] : cache[d][u].box # 0
      BY <1>1, Bounds DEF TypeOK
    <3> QED
      BY <2>1, <3>1 DEF CacheRight, Idle
  <2>4. session[d].pc # "out" => session[d].box # box'
    BY <1>1, <2>1 DEF RowsAreOld
  <2>5. FoundRight(d)' /\ NoneOverlooked(d)'
    BY <2>4 DEF FoundRight, NoneOverlooked, Idle
  <2> QED
    BY <2>2, <2>3, <2>5 DEF ClientInv
<1> QED
  BY <1>4, <1>5

\* A message comes that no uid anyone knows stands for, above all that d has
\* numbers for; if it is below the uid_next known it is one more moved in late.
LEMMA IdleGrown ==
  ASSUME ViewInv, NEW d \in Clients, Idle(d), NEW x, NEW u \in Nat, Grown(x, u),
         box' = box, uidNext' \in Nat, uidNext' >= uidNext,
         \A v \in Nat : Spent(v) => Spent(v)' /\ v # u,
         (late' = late /\ u >= uidNext) \/ late' = late + 1,
         d \notin stirred' =>
           d \notin stirred /\ \A m \in Numbered(d) \cap DOMAIN mail : mail[m] < u
  PROVE  ClientInv(d)'
<1>1. /\ TypeOK /\ UidsDistinct /\ RowsAreOld /\ ClientInv(d)
  BY DEF ViewInv
<1>2. /\ \A m \in DOMAIN mail' : m = x \/ m \in DOMAIN mail
      /\ \A m \in DOMAIN mail : m # x /\ mail'[m] = mail[m] /\ m \in DOMAIN mail'
      /\ \A m \in DOMAIN mail : mail[m] \in Nat
      /\ mail'[x] = u /\ x \in DOMAIN mail'
  BY <1>1, MailFinite DEF Grown
<1>3. ASSUME d \notin stirred'
      PROVE  NumbersRight(d)'
  <2>1. /\ NumbersRight(d) /\ Numbered(d)' = Numbered(d)
        /\ \A m \in Numbered(d) \cap DOMAIN mail : mail[m] < u
    BY <1>1, <1>3 DEF ClientInv, Idle, Numbered
  <2>2. ASSUME NEW n \in DOMAIN view[d]
        PROVE  /\ view[d][n] \in RowsOf(session[d].box)' /\ SeqNum(view[d][n])' = n
               /\ \A m \in DOMAIN mail' : mail'[m] <= mail'[view[d][n]] => m \in Numbered(d)
    <3> DEFINE v == view[d][n]
    <3>1. /\ v \in RowsOf(session[d].box) /\ SeqNum(v) = n /\ v \in Numbered(d)
          /\ \A m \in DOMAIN mail : mail[m] <= mail[v] => m \in Numbered(d)
      BY <2>1 DEF NumbersRight, Numbered
    <3>2. v \in DOMAIN mail /\ mail[v] < u /\ session[d].box = box
      BY <2>1, <3>1 DEF RowsOf
    <3> HIDE DEF v
    <3>3. v \in DOMAIN mail' /\ mail'[v] = mail[v] /\ mail[v] \in Nat
      BY <1>2, <3>2
    <3>4. {k \in DOMAIN mail' : mail'[k] <= mail'[v]} = {k \in DOMAIN mail : mail[k] <= mail[v]}
      BY <1>2, <3>2, <3>3
    <3>5. Cardinality({k \in DOMAIN mail' : mail'[k] <= mail'[v]}) = n
      BY <3>1, <3>4 DEF SeqNum
    <3>6. \A m \in DOMAIN mail' : mail'[m] <= mail'[v] => m \in Numbered(d)
      BY <1>2, <3>1, <3>2, <3>3
    <3> QED
      BY <3>2, <3>3, <3>5, <3>6 DEF RowsOf, SeqNum, Idle, v
  <2> QED
    BY <2>1, <2>2 DEF NumbersRight, Idle
<1>4. CacheRight(d)'
  <2>1. \A k \in DOMAIN cache[d] : k \in Nat
    BY <1>1 DEF TypeOK
  <2> QED
    BY <1>1, <1>2, <2>1 DEF ClientInv, CacheRight, Idle
<1>5. FoundRight(d)'
  <2>1. session[d].found \subseteq Nat
    BY <1>1 DEF TypeOK, Session
  <2> QED
    BY <1>1, <1>2, <2>1 DEF ClientInv, FoundRight, Idle
<1>6. NoneOverlooked(d)'
  <2> DEFINE s == session[d]
  <2>1. /\ s.count \in Nat /\ s.uidNext \in Nat /\ late \in Nat /\ synced[d] \in Nat
        /\ uidNext \in Nat
    BY <1>1 DEF TypeOK, Session
  <2>2. ASSUME NEW S \in SUBSET DOMAIN mail, NEW T, T \subseteq S \cup {x}
        PROVE  /\ Cardinality(S) \in Nat /\ Cardinality(T) \in Nat
               /\ Cardinality(T) <= Cardinality(S) + 1
               /\ x \notin T => Cardinality(T) <= Cardinality(S)
    <3>1. IsFiniteSet(S) /\ Cardinality(S) \in Nat
      BY <1>1, MailFinite
    <3>2. IsFiniteSet(S \cup {x}) /\ Cardinality(S \cup {x}) <= Cardinality(S) + 1
      <4> DEFINE e == Cardinality(S)
                 f == Cardinality(S \cup {x})
      <4>1. IsFiniteSet(S \cup {x}) /\ (f = e \/ f = e + 1) /\ e \in Nat
        BY <3>1, FS_AddElement
      <4> HIDE DEF e, f
      <4>2. f <= e + 1
        BY <4>1
      <4> QED
        BY <4>1, <4>2 DEF e, f
    <3>3. /\ Cardinality(S \cup {x}) \in Nat /\ IsFiniteSet(T) /\ Cardinality(T) \in Nat
          /\ Cardinality(T) <= Cardinality(S \cup {x})
      BY <2>2, <3>2, FS_Subset, FS_CardinalityType
    <3>4. x \notin T => T \in SUBSET S
      BY <2>2
    <3>5. x \notin T => Cardinality(T) <= Cardinality(S)
      BY <3>1, <3>4, FS_Subset
    <3> QED
      BY <3>1, <3>2, <3>3, <3>5
  <2>3. /\ Older(d) \in SUBSET DOMAIN mail /\ Older(d)' \subseteq Older(d) \cup {x}
        /\ x \in Older(d)' => u < s.uidNext
    BY <1>2 DEF Older, Idle
  <2>4. /\ Unseen(d) \in SUBSET DOMAIN mail /\ Unseen(d)' \subseteq Unseen(d) \cup {x}
        /\ x \in Unseen(d)' => u < synced[d]
    BY <1>2 DEF Unseen, Idle
  <2> DEFINE o == Cardinality(Older(d))
             o2 == Cardinality(Older(d)')
             k == Cardinality(Unseen(d))
             k2 == Cardinality(Unseen(d)')
  <2>5. /\ o \in Nat /\ o2 \in Nat /\ k \in Nat /\ k2 \in Nat
        /\ o2 <= o + 1 /\ (o2 <= o \/ u < s.uidNext)
        /\ k2 <= k + 1 /\ (k2 <= k \/ u < synced[d])
    <3>1. o \in Nat /\ o2 \in Nat /\ o2 <= o + 1 /\ (x \notin Older(d)' => o2 <= o)
      BY <2>2, <2>3
    <3>2. k \in Nat /\ k2 \in Nat /\ k2 <= k + 1 /\ (x \notin Unseen(d)' => k2 <= k)
      BY <2>2, <2>4
    <3> QED
      BY <2>3, <2>4, <3>1, <3>2
  <2> HIDE DEF o, o2, k, k2
  <2>6. s.uidNext <= uidNext => s.uidNext <= uidNext' /\ (o <= s.count + late => o2 <= s.count + late')
    BY <2>1, <2>5
  <2>7. synced[d] <= uidNext => synced[d] <= uidNext' /\ (k <= late => k2 <= late')
    BY <2>1, <2>5
  <2>8. s.pc = "counted" => s.pc \in {"opened", "counted"}
    OBVIOUS
  <2>9. s.box = box =>
          /\ s.pc \in {"opened", "counted"} => s.uidNext <= uidNext
          /\ s.pc = "counted" /\ ~s.miscounted => o <= s.count + late
          /\ s.pc \in {"ready", "expunge", "found"} =>
               synced[d] <= uidNext /\ (~s.miscounted => k <= late)
    BY <1>1 DEF ClientInv, NoneOverlooked, o, k
  <2>10. s.box = box =>
          /\ s.pc \in {"opened", "counted"} => s.uidNext <= uidNext'
          /\ s.pc = "counted" /\ ~s.miscounted => o2 <= s.count + late'
          /\ s.pc \in {"ready", "expunge", "found"} =>
               synced[d] <= uidNext' /\ (~s.miscounted => k2 <= late')
    BY <2>6, <2>7, <2>8, <2>9
  <2> QED
    BY <2>10 DEF NoneOverlooked, Idle, o2, k2
<1> QED
  BY <1>3, <1>4, <1>5, <1>6 DEF ClientInv

\* The name becomes that of a new row.
LEMMA IdleCreated ==
  ASSUME ViewInv, NEW d \in Clients, Idle(d), box = 0, box' = nextBox, mail' = mail,
         d \notin stirred' => d \notin stirred
  PROVE  ClientInv(d)'
<1>1. /\ TypeOK /\ UidsDistinct /\ RowsAreOld /\ ClientInv(d)
  BY DEF ViewInv
<1>2. /\ DOMAIN mail = {} /\ session[d].box # nextBox
      /\ \A u \in DOMAIN cache[d] : cache[d][u].box # nextBox
  <2>1. /\ nextBox \in Nat /\ session[d].box \in Nat
        /\ \A u \in DOMAIN cache[d] : cache[d][u].box \in Nat
    BY <1>1, Bounds DEF TypeOK, Session
  <2> QED
    BY <1>1, <2>1 DEF UidsDistinct, RowsAreOld
<1>3. ASSUME d \notin stirred'
      PROVE  NumbersRight(d)'
  <2>1. NumbersRight(d) /\ DOMAIN view[d] = {}
    BY <1>1, <1>2, <1>3 DEF ClientInv, NumbersRight, RowsOf
  <2> QED
    BY <2>1 DEF NumbersRight, Idle
<1>4. CacheRight(d)' /\ FoundRight(d)' /\ NoneOverlooked(d)'
  BY <1>2 DEF CacheRight, FoundRight, NoneOverlooked, Idle
<1> QED
  BY <1>3, <1>4 DEF ClientInv

-----------------------------------------------------------------------------
(* Others' steps *)

\* What of the types no other's step touches.
LEMMA ComesInEffect ==
  ASSUME TypeOK, NEW u \in Nat \ {0}, ComesIn(u)
  PROVE  /\ Grown(nextMsg, u) /\ nextMsg' \in 1 .. MaxMsg + 1
         /\ DOMAIN mail' \subseteq 1 .. nextMsg' - 1
         /\ mail' \in [DOMAIN mail' -> Nat \ {0}]
         /\ DOMAIN mail \subseteq DOMAIN mail'
         /\ 1 .. nextMsg - 1 \subseteq 1 .. nextMsg' - 1
<1>1. /\ nextMsg \in 1 .. MaxMsg + 1 /\ nextMsg <= MaxMsg /\ nextMsg' = nextMsg + 1
      /\ DOMAIN mail \subseteq 1 .. nextMsg - 1 /\ mail \in [DOMAIN mail -> Nat \ {0}]
      /\ MaxMsg \in Nat
      /\ mail' = [m \in DOMAIN mail \cup {nextMsg} |-> IF m = nextMsg THEN u ELSE mail[m]]
  BY Bounds DEF TypeOK, ComesIn
<1>2. nextMsg \notin 1 .. nextMsg - 1 /\ nextMsg' \in 1 .. MaxMsg + 1
  BY <1>1
<1>3. Grown(nextMsg, u)
  BY <1>1, <1>2 DEF Grown
<1>4. (1 .. nextMsg - 1) \cup {nextMsg} \subseteq 1 .. nextMsg' - 1
  BY <1>1
<1>5. DOMAIN mail' = DOMAIN mail \cup {nextMsg}
  BY <1>1
<1>6. mail' \in [DOMAIN mail' -> Nat \ {0}]
  BY <1>1, <1>5
<1> QED
  BY <1>1, <1>2, <1>3, <1>4, <1>5, <1>6

\* Beliefs stay well typed when messages come.
LEMMA BeliefsTyped ==
  ASSUME TypeOK, UNCHANGED beliefs, 1 .. nextMsg - 1 \subseteq 1 .. nextMsg' - 1
  PROVE  /\ DOMAIN view' = Clients /\ DOMAIN cache' = Clients /\ synced' \in [Clients -> Nat]
         /\ \A c \in Clients :
              /\ DOMAIN view'[c] \subseteq Nat /\ IsFiniteSet(DOMAIN view'[c])
              /\ Numbered(c)' \subseteq 1 .. nextMsg' - 1
         /\ \A c \in Clients : \A u \in DOMAIN cache'[c] :
              u \in Nat /\ cache'[c][u] \in [box : 1 .. MaxBox, msg : 1 .. nextMsg' - 1]
<1>1. view' = view /\ cache' = cache /\ synced' = synced
  BY DEF beliefs
<1>2. \A c \in Clients : Numbered(c)' = Numbered(c)
  BY <1>1 DEF Numbered
<1>3. \A e \in [box : 1 .. MaxBox, msg : 1 .. nextMsg - 1] :
        e \in [box : 1 .. MaxBox, msg : 1 .. nextMsg' - 1]
  OBVIOUS
<1>4. \A c \in Clients : \A u \in DOMAIN cache[c] :
        u \in Nat /\ cache[c][u] \in [box : 1 .. MaxBox, msg : 1 .. nextMsg - 1]
  BY DEF TypeOK
<1>5. \A c \in Clients : \A u \in DOMAIN cache'[c] :
        u \in Nat /\ cache'[c][u] \in [box : 1 .. MaxBox, msg : 1 .. nextMsg' - 1]
  BY <1>1, <1>3, <1>4
<1> QED
  BY <1>1, <1>2, <1>5 DEF TypeOK

LEMMA ArriveStep == ViewInv /\ Arrive => ViewInv'
<1> SUFFICES ASSUME ViewInv, Arrive PROVE ViewInv'
  OBVIOUS
<1>1. /\ TypeOK /\ UidsDistinct /\ RowsAreOld /\ uidNext \in Nat \ {0} /\ box # 0
      /\ ComesIn(uidNext) /\ uidNext' = uidNext + 1
      /\ UNCHANGED <<box, nextBox, deleted, held, session, beliefs, ghosts>>
  BY DEF ViewInv, TypeOK, Arrive, NewUid
<1>2. /\ Grown(nextMsg, uidNext) /\ nextMsg' \in 1 .. MaxMsg + 1
      /\ DOMAIN mail' \subseteq 1 .. nextMsg' - 1
      /\ mail' \in [DOMAIN mail' -> Nat \ {0}]
      /\ DOMAIN mail \subseteq DOMAIN mail'
      /\ 1 .. nextMsg - 1 \subseteq 1 .. nextMsg' - 1
  BY <1>1, ComesInEffect
<1>3. TypeOK'
  <2>1. uidNext' \in Nat \ {0} /\ deleted' \subseteq DOMAIN mail'
    BY <1>1, <1>2 DEF TypeOK
  <2> QED
    BY <1>1, <1>2, <2>1, BeliefsTyped DEF TypeOK, ghosts
<1>4. Pending' = Pending /\ \A v \in Nat : Spent(v) => Spent(v)' /\ v # uidNext
  <2>1. Pending' <=> Pending
    BY <1>1 DEF Pending
  <2>2. \A v \in Nat : v < uidNext => v < uidNext' /\ v # uidNext
    BY <1>1
  <2> QED
    BY <1>1, <2>1, <2>2 DEF Spent
<1>5. UidsDistinct'
  <2>1. \A m \in DOMAIN mail' : m = nextMsg \/ m \in DOMAIN mail
    BY <1>2 DEF Grown
  <2>2. /\ mail'[nextMsg] = uidNext
        /\ \A m \in DOMAIN mail : mail'[m] = mail[m] /\ mail[m] \in Nat /\ Spent(mail[m])
    BY <1>1, <1>2, MailFinite DEF Grown, UidsDistinct
  <2>3. \A m \in DOMAIN mail :
          mail[m] # uidNext /\ mail[m] < uidNext' /\ (Pending' => mail[m] # held'[2])
    BY <1>1, <1>4, <2>2 DEF Spent
  <2>4. Pending => held[2] >= 1 /\ held[2] < uidNext /\ held[2] \in Nat
    BY <1>1 DEF UidsDistinct, TypeOK
  <2>5. uidNext < uidNext' /\ (Pending' => uidNext # held'[2])
    BY <1>1, <1>4, <2>4
  <2>6. \A m, n \in DOMAIN mail' : mail'[m] = mail'[n] => m = n
    BY <1>1, <2>1, <2>2, <2>3 DEF UidsDistinct
  <2>7. \A m \in DOMAIN mail' : mail'[m] < uidNext' /\ (Pending' => mail'[m] # held'[2])
    BY <2>1, <2>2, <2>3, <2>5
  <2>8. Pending' => held'[2] >= 1 /\ held'[2] < uidNext'
    BY <1>1, <1>4, <2>4
  <2> QED
    BY <1>1, <2>6, <2>7, <2>8 DEF UidsDistinct, Spent
<1>6. RowsAreOld' /\ OnlyMeantDeleted'
  BY <1>1 DEF ViewInv, RowsAreOld, OnlyMeantDeleted, beliefs, ghosts
<1>7. ASSUME NEW d \in Clients
      PROVE  ClientInv(d)'
  <2>1. Idle(d) /\ (d \notin stirred' => d \notin stirred) /\ late' = late
    BY <1>1 DEF Idle, beliefs, ghosts
  <2>2. \A m \in DOMAIN mail : mail[m] < uidNext
    BY <1>1 DEF UidsDistinct, Spent
  <2>3. uidNext' \in Nat /\ uidNext' >= uidNext /\ uidNext >= uidNext /\ uidNext \in Nat
    BY <1>1
  <2> QED
    BY <1>1, <1>2, <1>4, <2>1, <2>2, <2>3, IdleGrown
<1> QED
  BY <1>3, <1>5, <1>6, <1>7 DEF ViewInv

\* What is spent stays so while the row and its counter do.
LEMMA SpentStays ==
  ASSUME box' = box, uidNext' = uidNext, held' = held
  PROVE  \A v \in Nat : Spent(v) => Spent(v)'
<1>1. Pending' <=> Pending
  BY DEF Pending
<1> QED
  BY <1>1 DEF Spent

\* Messages go, or none do: what is left has the uids it had.
LEMMA UidsShrunk ==
  ASSUME TypeOK, UidsDistinct, NEW ms, Shrunk(ms), box' = box,
         uidNext' = uidNext, held' = held
  PROVE  UidsDistinct'
<1>1. Pending' <=> Pending
  BY DEF Pending
<1>2. \A m \in DOMAIN mail' : m \in DOMAIN mail /\ mail'[m] = mail[m]
  BY DEF Shrunk
<1>3. \A m \in DOMAIN mail' : mail'[m] < uidNext' /\ (Pending' => mail'[m] # held'[2])
  BY <1>1, <1>2 DEF UidsDistinct, Spent
<1> QED
  BY <1>1, <1>2, <1>3 DEF UidsDistinct, Spent

LEMMA VanishEffect ==
  ASSUME TypeOK, NEW ms, NEW cs, Vanish(ms, cs)
  PROVE  /\ Shrunk(ms) /\ mail' \in [DOMAIN mail' -> Nat \ {0}]
         /\ DOMAIN mail' \subseteq 1 .. nextMsg - 1 /\ deleted' \subseteq DOMAIN mail'
         /\ stirred \subseteq stirred'
         /\ \A d \in cs : d \notin stirred' => d \notin stirred /\ Numbered(d) \cap ms = {}
         /\ cs \subseteq Clients => stirred' \subseteq Clients
BY DEF Vanish, Without, MarksWithout, Shrunk, TypeOK

LEMMA PurgeStep == ASSUME ViewInv, NEW m \in DOMAIN mail, Purge(m) PROVE ViewInv'
<1>1. /\ TypeOK /\ UidsDistinct /\ RowsAreOld /\ Vanish({m}, Clients)
      /\ UNCHANGED <<box, nextBox, nextMsg, uidNext, held, session, beliefs, mistaken, late>>
  BY DEF ViewInv, Purge
<1>2. /\ Shrunk({m}) /\ mail' \in [DOMAIN mail' -> Nat \ {0}]
      /\ DOMAIN mail' \subseteq 1 .. nextMsg - 1 /\ deleted' \subseteq DOMAIN mail'
      /\ stirred' \subseteq Clients
      /\ \A d \in Clients :
           d \notin stirred' => d \notin stirred /\ Numbered(d) \cap {m} = {}
  BY <1>1, VanishEffect
<1>3. TypeOK'
  BY <1>1, <1>2, BeliefsTyped DEF TypeOK
<1>4. UidsDistinct'
  BY <1>1, <1>2, UidsShrunk
<1>5. RowsAreOld' /\ OnlyMeantDeleted'
  BY <1>1 DEF ViewInv, RowsAreOld, OnlyMeantDeleted, beliefs
<1>6. ASSUME NEW d \in Clients
      PROVE  ClientInv(d)'
  <2>1. Idle(d) /\ uidNext' \in Nat /\ uidNext' >= uidNext
    BY <1>1 DEF Idle, beliefs, TypeOK
  <2> QED
    BY <1>1, <1>2, <2>1, SpentStays, IdleShrunk
<1> QED
  BY <1>3, <1>4, <1>5, <1>6 DEF ViewInv

LEMMA NothingGoes ==
  ASSUME mail' = mail
  PROVE  Shrunk({})
BY DEF Shrunk

LEMMA MarkElsewhereStep == ASSUME ViewInv, NEW m \in DOMAIN mail, MarkElsewhere(m) PROVE ViewInv'
<1>1. /\ TypeOK /\ UidsDistinct /\ RowsAreOld /\ deleted' = deleted \cup {m}
      /\ UNCHANGED <<box, nextBox, mail, nextMsg, uidNext, held, session, beliefs, ghosts>>
  BY DEF ViewInv, MarkElsewhere
<1>2. TypeOK'
  BY <1>1, BeliefsTyped DEF TypeOK, ghosts
<1>3. UidsDistinct'
  BY <1>1, NothingGoes, UidsShrunk
<1>4. RowsAreOld' /\ OnlyMeantDeleted'
  BY <1>1 DEF ViewInv, RowsAreOld, OnlyMeantDeleted, beliefs, ghosts
<1>5. ASSUME NEW d \in Clients
      PROVE  ClientInv(d)'
  <2>1. /\ Idle(d) /\ uidNext' \in Nat /\ uidNext' >= uidNext /\ late' = late
        /\ d \notin stirred' => d \notin stirred /\ Numbered(d) \cap {} = {}
    BY <1>1 DEF Idle, beliefs, TypeOK, ghosts
  <2> QED
    BY <1>1, <2>1, NothingGoes, SpentStays, IdleShrunk
<1> QED
  BY <1>2, <1>3, <1>4, <1>5 DEF ViewInv

LEMMA TakeUidStep == ViewInv /\ TakeUid => ViewInv'
<1> SUFFICES ASSUME ViewInv, TakeUid PROVE ViewInv'
  OBVIOUS
<1>1. /\ TypeOK /\ UidsDistinct /\ RowsAreOld /\ held = Nobody /\ box # 0
      /\ held' = <<box, uidNext>> /\ uidNext' = uidNext + 1 /\ uidNext \in Nat \ {0}
      /\ UNCHANGED <<box, nextBox, mail, nextMsg, deleted, session, beliefs, ghosts>>
  BY DEF ViewInv, TypeOK, TakeUid
<1>2. /\ ~Pending /\ held'[1] = box /\ held'[2] = uidNext
      /\ uidNext' \in Nat \ {0} /\ uidNext' >= uidNext /\ uidNext < uidNext'
  BY <1>1 DEF Pending
<1>3. TypeOK'
  BY <1>1, <1>2, BeliefsTyped DEF TypeOK, ghosts
<1>4. \A v \in Nat : Spent(v) => v < uidNext' /\ v # held'[2]
  BY <1>1, <1>2 DEF Spent
<1>5. \A v \in Nat : Spent(v) => Spent(v)'
  BY <1>4 DEF Spent
<1>6. UidsDistinct'
  <2>1. \A m \in DOMAIN mail : mail[m] \in Nat /\ Spent(mail[m])
    BY <1>1, MailFinite DEF UidsDistinct
  <2>2. \A m \in DOMAIN mail' : mail'[m] < uidNext' /\ mail'[m] # held'[2]
    BY <1>1, <1>4, <2>1
  <2> QED
    BY <1>1, <1>2, <2>2 DEF UidsDistinct, Spent
<1>7. RowsAreOld' /\ OnlyMeantDeleted'
  BY <1>1, <1>2 DEF ViewInv, RowsAreOld, OnlyMeantDeleted, beliefs, ghosts
<1>8. ASSUME NEW d \in Clients
      PROVE  ClientInv(d)'
  <2>1. /\ Idle(d) /\ late' = late
        /\ d \notin stirred' => d \notin stirred /\ Numbered(d) \cap {} = {}
    BY <1>1 DEF Idle, beliefs, ghosts
  <2> QED
    BY <1>1, <1>2, <1>5, <2>1, NothingGoes, IdleShrunk
<1> QED
  BY <1>3, <1>6, <1>7, <1>8 DEF ViewInv

\* A web delete moves its message in, or finds that the mailbox is gone.
LEMMA MoveInStep == ViewInv /\ MoveIn => ViewInv'
<1> SUFFICES ASSUME ViewInv, MoveIn PROVE ViewInv'
  OBVIOUS
<1>1. /\ TypeOK /\ UidsDistinct /\ RowsAreOld /\ held # Nobody /\ held' = Nobody
      /\ UNCHANGED <<box, nextBox, uidNext, deleted, session, beliefs, mistaken>>
      /\ uidNext \in Nat \ {0} /\ late \in Nat /\ Nobody \in (0 .. MaxBox) \X Nat
  BY Bounds DEF ViewInv, TypeOK, MoveIn, Nobody
<1>2. ~Pending' /\ held'[1] = 0
  BY <1>1 DEF Pending, Nobody
<1>3. \A v \in Nat : Spent(v) => Spent(v)'
  BY <1>1, <1>2 DEF Spent
<1>4. RowsAreOld' /\ OnlyMeantDeleted'
  BY <1>1, <1>2, Bounds DEF ViewInv, TypeOK, RowsAreOld, OnlyMeantDeleted, beliefs
<1>5. CASE held[1] # box
  <2>1. UNCHANGED <<mail, nextMsg, late, stirred>>
    BY <1>5 DEF MoveIn
  <2>2. TypeOK'
    BY <1>1, <2>1, BeliefsTyped DEF TypeOK
  <2>3. UidsDistinct'
    BY <1>1, <1>2, <2>1 DEF UidsDistinct, Spent
  <2>4. ASSUME NEW d \in Clients
        PROVE  ClientInv(d)'
    <3>1. /\ Idle(d) /\ uidNext' \in Nat /\ uidNext' >= uidNext
          /\ d \notin stirred' => d \notin stirred /\ Numbered(d) \cap {} = {}
      BY <1>1, <2>1 DEF Idle, beliefs
    <3> QED
      BY <1>1, <1>3, <2>1, <3>1, NothingGoes, IdleShrunk
  <2> QED
    BY <1>4, <2>2, <2>3, <2>4 DEF ViewInv
<1>6. CASE held[1] = box
  <2> DEFINE u == held[2]
  <2>1. /\ ComesIn(u) /\ late' = late + 1
        /\ stirred' = stirred \cup
             {c \in Clients : \E m \in Numbered(c) \cap DOMAIN mail : u < mail[m]}
    BY <1>6 DEF MoveIn
  <2>2. Pending
    BY <1>1, <1>6 DEF Pending
  <2>3. u \in Nat \ {0} /\ u < uidNext
    BY <1>1, <2>2 DEF UidsDistinct, TypeOK
  <2>4. /\ Grown(nextMsg, u) /\ nextMsg' \in 1 .. MaxMsg + 1
        /\ DOMAIN mail' \subseteq 1 .. nextMsg' - 1
        /\ mail' \in [DOMAIN mail' -> Nat \ {0}]
        /\ DOMAIN mail \subseteq DOMAIN mail'
        /\ 1 .. nextMsg - 1 \subseteq 1 .. nextMsg' - 1
    BY <1>1, <2>1, <2>3, ComesInEffect
  <2>5. \A v \in Nat : Spent(v) => v # u
    BY <2>2 DEF Spent
  <2> HIDE DEF u
  <2>6. TypeOK'
    <3>1. deleted' \subseteq DOMAIN mail' /\ late' \in Nat /\ stirred' \subseteq Clients
      BY <1>1, <2>1, <2>4 DEF TypeOK
    <3> QED
      BY <1>1, <2>4, <3>1, BeliefsTyped DEF TypeOK
  <2>7. UidsDistinct'
    <3>1. \A m \in DOMAIN mail' : m = nextMsg \/ m \in DOMAIN mail
      BY <2>4 DEF Grown
    <3>2. /\ mail'[nextMsg] = u
          /\ \A m \in DOMAIN mail :
               mail'[m] = mail[m] /\ mail[m] \in Nat /\ mail[m] < uidNext /\ mail[m] # u
      BY <1>1, <2>4, <2>5, MailFinite DEF Grown, UidsDistinct, Spent
    <3>3. \A m, n \in DOMAIN mail' : mail'[m] = mail'[n] => m = n
      BY <1>1, <3>1, <3>2 DEF UidsDistinct
    <3>4. \A m \in DOMAIN mail' : mail'[m] < uidNext'
      BY <1>1, <2>3, <3>1, <3>2
    <3>5. box # 0
      BY <1>1, <2>2, Bounds DEF Pending, TypeOK, RowsAreOld, Nobody
    <3> QED
      BY <1>1, <1>2, <3>3, <3>4, <3>5 DEF UidsDistinct, Spent
  <2>8. ASSUME NEW d \in Clients
        PROVE  ClientInv(d)'
    <3>1. Idle(d) /\ uidNext' \in Nat /\ uidNext' >= uidNext
      BY <1>1 DEF Idle, beliefs
    <3>2. ASSUME d \notin stirred'
          PROVE  d \notin stirred /\ \A m \in Numbered(d) \cap DOMAIN mail : mail[m] < u
      <4>1. d \notin stirred /\ \A m \in Numbered(d) \cap DOMAIN mail : ~(u < mail[m])
        BY <2>1, <3>2
      <4>2. \A m \in DOMAIN mail : mail[m] \in Nat /\ mail[m] # u
        BY <1>1, <2>5, MailFinite DEF UidsDistinct
      <4> QED
        BY <2>3, <4>1, <4>2
    <3> QED
      BY <1>1, <1>3, <2>1, <2>3, <2>4, <2>5, <3>1, <3>2, IdleGrown
  <2> QED
    BY <1>4, <2>6, <2>7, <2>8 DEF ViewInv
<1> QED
  BY <1>5, <1>6

LEMMA DeleteMailboxStep == ViewInv /\ DeleteMailbox => ViewInv'
<1> SUFFICES ASSUME ViewInv, DeleteMailbox PROVE ViewInv'
  OBVIOUS
<1>1. /\ TypeOK /\ UidsDistinct /\ RowsAreOld /\ box # 0 /\ box' = 0
      /\ Vanish(DOMAIN mail, Clients)
      /\ UNCHANGED <<nextBox, nextMsg, uidNext, held, session, beliefs, mistaken, late>>
  BY DEF ViewInv, DeleteMailbox
<1>2. /\ Shrunk(DOMAIN mail) /\ mail' \in [DOMAIN mail' -> Nat \ {0}]
      /\ DOMAIN mail' \subseteq 1 .. nextMsg - 1 /\ deleted' \subseteq DOMAIN mail'
      /\ stirred' \subseteq Clients
      /\ \A d \in Clients :
           d \notin stirred' => d \notin stirred /\ Numbered(d) \cap DOMAIN mail = {}
  BY <1>1, VanishEffect
<1>3. TypeOK'
  <2>1. box' \in 0 .. MaxBox
    BY <1>1, Bounds
  <2> QED
    BY <1>1, <1>2, <2>1, BeliefsTyped DEF TypeOK
<1>4. UidsDistinct'
  <2>1. DOMAIN mail' = {}
    BY <1>2 DEF Shrunk
  <2>2. ~Pending'
    BY <1>1 DEF Pending, RowsAreOld
  <2> QED
    BY <2>1, <2>2 DEF UidsDistinct
<1>5. RowsAreOld' /\ OnlyMeantDeleted'
  BY <1>1, Bounds DEF ViewInv, TypeOK, RowsAreOld, OnlyMeantDeleted, beliefs
<1>6. ASSUME NEW d \in Clients
      PROVE  ClientInv(d)'
  <2>1. Idle(d) /\ uidNext' \in Nat /\ uidNext' >= uidNext /\ box' # box
    BY <1>1 DEF Idle, beliefs, TypeOK
  <2> QED
    BY <1>1, <1>2, <2>1, IdleShrunk
<1> QED
  BY <1>3, <1>4, <1>5, <1>6 DEF ViewInv

LEMMA CreateMailboxStep == ViewInv /\ CreateMailbox => ViewInv'
<1> SUFFICES ASSUME ViewInv, CreateMailbox PROVE ViewInv'
  OBVIOUS
<1>1. /\ TypeOK /\ UidsDistinct /\ RowsAreOld /\ box = 0 /\ nextBox <= MaxBox
      /\ box' = nextBox /\ nextBox' = nextBox + 1 /\ uidNext' = 1
      /\ UNCHANGED <<mail, nextMsg, deleted, held, session, beliefs, ghosts>>
  BY DEF ViewInv, CreateMailbox
<1>2. /\ nextBox \in 1 .. MaxBox /\ nextBox' \in 1 .. MaxBox + 1 /\ nextBox < nextBox'
      /\ held[1] \in Nat /\ DOMAIN mail = {}
  BY <1>1, Bounds DEF TypeOK, UidsDistinct
<1>3. TypeOK'
  <2>1. 1 .. nextMsg - 1 \subseteq 1 .. nextMsg' - 1 /\ UNCHANGED beliefs
    BY <1>1
  <2>2. /\ DOMAIN view' = Clients /\ DOMAIN cache' = Clients /\ synced' \in [Clients -> Nat]
        /\ \A c \in Clients :
             /\ DOMAIN view'[c] \subseteq Nat /\ IsFiniteSet(DOMAIN view'[c])
             /\ Numbered(c)' \subseteq 1 .. nextMsg' - 1
        /\ \A c \in Clients : \A u \in DOMAIN cache'[c] :
             u \in Nat /\ cache'[c][u] \in [box : 1 .. MaxBox, msg : 1 .. nextMsg' - 1]
    BY <1>1, <2>1, BeliefsTyped
  <2>3. box' \in 0 .. MaxBox /\ uidNext' \in Nat \ {0}
    BY <1>1, <1>2, Bounds
  <2> QED
    BY <1>1, <1>2, <2>2, <2>3 DEF TypeOK, ghosts
<1>4. UidsDistinct'
  <2>1. ~Pending'
    BY <1>1, <1>2 DEF Pending, RowsAreOld
  <2> QED
    BY <1>1, <1>2, <2>1 DEF UidsDistinct
<1>5. RowsAreOld' /\ OnlyMeantDeleted'
  <2>1. /\ \A c \in Clients : session[c].box \in Nat
        /\ \A c \in Clients : \A u \in DOMAIN cache[c] : cache[c][u].box \in Nat
    BY <1>1, Bounds DEF TypeOK, Session
  <2>2. \A k \in Nat : k < nextBox => k < nextBox'
    BY <1>2
  <2> QED
    BY <1>1, <1>2, <2>1, <2>2 DEF ViewInv, RowsAreOld, OnlyMeantDeleted, beliefs, ghosts
<1>6. ASSUME NEW d \in Clients
      PROVE  ClientInv(d)'
  <2>1. Idle(d) /\ (d \notin stirred' => d \notin stirred)
    BY <1>1 DEF Idle, beliefs, ghosts
  <2> QED
    BY <1>1, <2>1, IdleCreated
<1> QED
  BY <1>3, <1>4, <1>5, <1>6 DEF ViewInv

-----------------------------------------------------------------------------
(* Clients' steps that leave the messages alone *)

\* Client c acts, the mailbox and what the other clients believe stay.
LEMMA OthersIdle ==
  ASSUME ViewInv, NEW c \in Clients,
         UNCHANGED <<box, mail, uidNext, held, late>>,
         \A d \in Clients \ {c} : Idle(d) /\ (d \notin stirred' => d \notin stirred),
         ClientInv(c)'
  PROVE  \A d \in Clients : ClientInv(d)'
<1> SUFFICES ASSUME NEW d \in Clients, d # c PROVE ClientInv(d)'
  OBVIOUS
<1>1. /\ Idle(d) /\ uidNext' \in Nat /\ uidNext' >= uidNext
      /\ d \notin stirred' => d \notin stirred /\ Numbered(d) \cap {} = {}
  BY DEF ViewInv, TypeOK
<1> QED
  BY <1>1, NothingGoes, SpentStays, IdleShrunk

\* The parts about the mailbox alone.
LEMMA StoreStays ==
  ASSUME ViewInv, UNCHANGED <<box, nextBox, mail, uidNext, held>>,
         \A c \in Clients : session'[c].box < nextBox
                            /\ (session'[c].pc # "out" => session'[c].box # 0),
         \A c \in Clients : \A u \in DOMAIN cache'[c] : cache'[c][u].box < nextBox
  PROVE  UidsDistinct' /\ RowsAreOld'
<1>1. UidsDistinct'
  BY NothingGoes, UidsShrunk DEF ViewInv
<1>2. RowsAreOld'
  BY DEF ViewInv, RowsAreOld
<1> QED
  BY <1>1, <1>2

\* Of one client's connection becoming s.
LEMMA NowEffect ==
  ASSUME TypeOK, NEW c \in Clients, NEW s \in Session, Now(c, s)
  PROVE  /\ session' \in [Clients -> Session] /\ session'[c] = s
         /\ \A d \in Clients : d # c => session'[d] = session[d]
BY DEF TypeOK, Now

\* A connection that stays with its mailbox, whatever else it comes to.
LEMMA StaysWithMailbox ==
  ASSUME ViewInv, NEW c \in Clients, UNCHANGED <<box, mail, uidNext, held, late, beliefs>>,
         session'[c].box = session[c].box, c \notin stirred' => c \notin stirred,
         session'[c].miscounted = session[c].miscounted,
         {session[c].pc, session'[c].pc} \subseteq {"ready", "expunge", "found"},
         FoundRight(c)'
  PROVE  ClientInv(c)'
<1>1. TypeOK /\ ClientInv(c)
  BY DEF ViewInv
<1>2. ASSUME c \notin stirred'
      PROVE  NumbersRight(c)'
  BY <1>1, <1>2 DEF ClientInv, NumbersRight, RowsOf, SeqNum, Numbered, beliefs
<1>3. CacheRight(c)'
  <2>1. Pending' <=> Pending
    BY DEF Pending
  <2> QED
    BY <1>1, <2>1 DEF ClientInv, CacheRight, Spent, beliefs
<1>4. NoneOverlooked(c)'
  <2>1. Unseen(c)' = Unseen(c)
    BY DEF Unseen, beliefs
  <2> QED
    BY <1>1, <2>1 DEF ClientInv, NoneOverlooked, beliefs
<1> QED
  BY <1>2, <1>3, <1>4 DEF ClientInv

LEMMA OpenStep == ASSUME ViewInv, NEW c \in Clients, Open(c) PROVE ViewInv'
<1> DEFINE s == [Out EXCEPT !.pc = "opened", !.box = box, !.uidNext = uidNext]
<1>1. /\ TypeOK /\ UidsDistinct /\ RowsAreOld /\ ClientInv(c) /\ box # 0 /\ Now(c, s)
      /\ view' = [view EXCEPT ![c] = NoNumbers]
      /\ UNCHANGED <<store, cache, synced, ghosts>>
  BY DEF ViewInv, Open
<1>2. s \in Session /\ s.pc = "opened" /\ s.box = box /\ s.uidNext = uidNext
  BY <1>1, Bounds DEF Session, Out, TypeOK
<1> HIDE DEF s
<1>3. /\ session' \in [Clients -> Session] /\ session'[c] = s
      /\ \A d \in Clients : d # c => session'[d] = session[d]
  BY <1>1, <1>2, NowEffect
<1>4. /\ DOMAIN view' = Clients /\ view'[c] = NoNumbers /\ DOMAIN NoNumbers = {}
      /\ \A d \in Clients : d # c => view'[d] = view[d]
  BY <1>1 DEF TypeOK, NoNumbers
<1>5. TypeOK'
  <2>1. \A d \in Clients :
          /\ DOMAIN view'[d] \subseteq Nat /\ IsFiniteSet(DOMAIN view'[d])
          /\ Numbered(d)' \subseteq 1 .. nextMsg - 1
    BY <1>1, <1>4, FS_EmptySet DEF TypeOK, Numbered
  <2> QED
    BY <1>1, <1>3, <1>4, <2>1 DEF TypeOK, store, ghosts
<1>6. UidsDistinct' /\ RowsAreOld'
  <2>1. \A d \in Clients : /\ session'[d].box < nextBox
                           /\ session'[d].pc # "out" => session'[d].box # 0
    BY <1>1, <1>2, <1>3 DEF RowsAreOld
  <2>2. \A d \in Clients : \A u \in DOMAIN cache'[d] : cache'[d][u].box < nextBox
    BY <1>1 DEF RowsAreOld
  <2> QED
    BY <1>1, <2>1, <2>2, StoreStays DEF store
<1>7. ClientInv(c)'
  <2>1. NumbersRight(c)'
    BY <1>4 DEF NumbersRight
  <2>2. CacheRight(c)'
    <3>1. Pending' <=> Pending
      BY <1>1 DEF Pending, store
    <3> QED
      BY <1>1, <3>1 DEF ClientInv, CacheRight, Spent, store
  <2>3. FoundRight(c)' /\ NoneOverlooked(c)'
    BY <1>1, <1>2, <1>3 DEF FoundRight, NoneOverlooked, store, TypeOK
  <2> QED
    BY <2>1, <2>2, <2>3 DEF ClientInv
<1>8. \A d \in Clients : ClientInv(d)'
  <2>1. \A d \in Clients \ {c} : Idle(d) /\ (d \notin stirred' => d \notin stirred)
    BY <1>1, <1>3, <1>4 DEF Idle, ghosts
  <2> QED
    BY <1>1, <1>7, <2>1, OthersIdle DEF store, ghosts
<1> QED
  BY <1>1, <1>5, <1>6, <1>8 DEF ViewInv, OnlyMeantDeleted, ghosts

LEMMA StatusStep == ASSUME ViewInv, NEW c \in Clients, Status(c) PROVE ViewInv'
<1> DEFINE k == Cardinality(RowsOf(session[c].box))
<1> PICK failed \in BOOLEAN :
      Now(c, [session[c] EXCEPT !.pc = "counted", !.miscounted = failed,
                                !.count = IF failed THEN 0 ELSE k])
  BY DEF Status
<1> DEFINE s == [session[c] EXCEPT !.pc = "counted", !.miscounted = failed,
                                   !.count = IF failed THEN 0 ELSE k]
<1>1. /\ TypeOK /\ UidsDistinct /\ RowsAreOld /\ ClientInv(c) /\ Now(c, s)
      /\ session[c].pc = "opened" /\ session[c] \in Session
      /\ UNCHANGED <<store, beliefs, ghosts>>
  BY DEF ViewInv, Status, TypeOK
<1>2. k \in Nat
  <2>1. RowsOf(session[c].box) \in SUBSET DOMAIN mail
    BY DEF RowsOf
  <2> QED
    BY <1>1, <2>1, MailFinite
<1> HIDE DEF k
<1>3. /\ s \in Session /\ s.pc = "counted" /\ s.box = session[c].box
      /\ s.uidNext = session[c].uidNext /\ (~s.miscounted => s.count = k)
  BY <1>1, <1>2 DEF Session
<1> HIDE DEF s
<1>4. /\ session' \in [Clients -> Session] /\ session'[c] = s
      /\ \A d \in Clients : d # c => session'[d] = session[d]
  BY <1>1, <1>3, NowEffect
<1>5. TypeOK'
  BY <1>1, <1>4, BeliefsTyped DEF TypeOK, store, ghosts
<1>6. UidsDistinct' /\ RowsAreOld'
  <2>1. \A d \in Clients : /\ session'[d].box < nextBox
                           /\ session'[d].pc # "out" => session'[d].box # 0
    BY <1>1, <1>3, <1>4 DEF RowsAreOld
  <2>2. \A d \in Clients : \A u \in DOMAIN cache'[d] : cache'[d][u].box < nextBox
    BY <1>1 DEF RowsAreOld, beliefs
  <2> QED
    BY <1>1, <2>1, <2>2, StoreStays DEF store
<1>7. ClientInv(c)'
  <2>1. c \notin stirred' => NumbersRight(c)'
    BY <1>1, <1>3, <1>4
       DEF ClientInv, NumbersRight, RowsOf, SeqNum, Numbered, beliefs, store, ghosts
  <2>2. CacheRight(c)'
    <3>1. Pending' <=> Pending
      BY <1>1 DEF Pending, store
    <3> QED
      BY <1>1, <3>1 DEF ClientInv, CacheRight, Spent, store, beliefs
  <2>3. FoundRight(c)'
    BY <1>3, <1>4 DEF FoundRight
  <2>4. NoneOverlooked(c)'
    <3>1. s.box = box => s.uidNext <= uidNext
      BY <1>1, <1>3 DEF ClientInv, NoneOverlooked
    <3>2. s.box = box => Cardinality(Older(c)') <= k + late
      <4>1. s.box = box => Older(c)' \in SUBSET DOMAIN mail /\ k = Cardinality(DOMAIN mail)
        BY <1>1, <1>3 DEF Older, store, RowsOf, k
      <4>2. /\ IsFiniteSet(DOMAIN mail) /\ Cardinality(DOMAIN mail) \in Nat
            /\ \A S \in SUBSET DOMAIN mail : Cardinality(S) <= Cardinality(DOMAIN mail)
                                             /\ Cardinality(S) \in Nat
        BY <1>1, MailFinite, FS_Subset
      <4>3. s.box = box => Cardinality(Older(c)') \in Nat /\ Cardinality(Older(c)') <= k
        BY <4>1, <4>2
      <4> DEFINE o == Cardinality(Older(c)')
      <4>4. s.box = box => o \in Nat /\ o <= k
        BY <4>3
      <4> HIDE DEF o
      <4>5. s.box = box => o <= k + late
        BY <1>1, <1>2, <4>4 DEF TypeOK
      <4> QED
        BY <4>5 DEF o
    <3> QED
      BY <1>1, <1>3, <1>4, <3>1, <3>2 DEF NoneOverlooked, store, ghosts
  <2> QED
    BY <2>1, <2>2, <2>3, <2>4 DEF ClientInv
<1>8. \A d \in Clients : ClientInv(d)'
  <2>1. \A d \in Clients \ {c} : Idle(d) /\ (d \notin stirred' => d \notin stirred)
    BY <1>1, <1>4 DEF Idle, ghosts, beliefs
  <2> QED
    BY <1>1, <1>7, <2>1, OthersIdle DEF store, ghosts
<1> QED
  BY <1>1, <1>5, <1>6, <1>8 DEF ViewInv, OnlyMeantDeleted, ghosts

\* A STORE of client c: messages are marked and the client, in state ready or
\* going back to it, believes what it did.
LEMMA StoreKeeps ==
  ASSUME ViewInv, NEW c \in Clients, NEW s \in Session,
         session' = [session EXCEPT ![c] = s], s.box = session[c].box, s.pc = "ready",
         s.miscounted = session[c].miscounted,
         session[c].pc \in {"ready", "found"},
         deleted' \subseteq DOMAIN mail, mistaken' = {}, stirred' = stirred,
         UNCHANGED <<box, nextBox, mail, nextMsg, uidNext, held, beliefs, late>>
  PROVE  ViewInv'
<1>1. TypeOK /\ UidsDistinct /\ RowsAreOld /\ box' = box /\ uidNext' = uidNext
  BY DEF ViewInv
<1>2. /\ session' \in [Clients -> Session] /\ session'[c] = s
      /\ \A d \in Clients : d # c => session'[d] = session[d]
  BY <1>1, NowEffect DEF Now
<1>3. TypeOK'
  BY <1>1, <1>2, BeliefsTyped DEF TypeOK
<1>4. UidsDistinct' /\ RowsAreOld'
  <2>1. \A d \in Clients : /\ session'[d].box < nextBox
                           /\ session'[d].pc # "out" => session'[d].box # 0
    BY <1>1, <1>2 DEF RowsAreOld
  <2>2. \A d \in Clients : \A u \in DOMAIN cache'[d] : cache'[d][u].box < nextBox
    BY <1>1 DEF RowsAreOld, beliefs
  <2> QED
    BY <2>1, <2>2, StoreStays
<1>5. ClientInv(c)'
  <2>1. FoundRight(c)'
    BY <1>2 DEF FoundRight
  <2> QED
    BY <1>2, <2>1, StaysWithMailbox
<1>6. \A d \in Clients \ {c} : Idle(d) /\ (d \notin stirred' => d \notin stirred)
  BY <1>2 DEF Idle, beliefs
<1>7. \A d \in Clients : ClientInv(d)'
  BY <1>5, <1>6, OthersIdle
<1> QED
  BY <1>3, <1>4, <1>7 DEF ViewInv, OnlyMeantDeleted

LEMMA StoreByNumberStep ==
  ASSUME ViewInv, NEW c \in Clients, NEW n \in DOMAIN view[c], StoreByNumber(c, n)
  PROVE  ViewInv'
<1> DEFINE hit == Matches(session[c].box, FALSE, {n})
<1>1. /\ TypeOK /\ UidsDistinct /\ ClientInv(c) /\ mistaken = {} /\ session[c].pc = "ready"
      /\ deleted' = deleted \cup hit /\ session[c] \in Session
      /\ mistaken' = mistaken \cup (IF c \in stirred THEN {} ELSE hit \ {view[c][n]})
      /\ UNCHANGED <<box, nextBox, mail, nextMsg, uidNext, held, session, beliefs, stirred, late>>
  BY DEF ViewInv, StoreByNumber, OnlyMeantDeleted, Ready, TypeOK
<1>2. hit \subseteq DOMAIN mail /\ \A m \in hit : m \in DOMAIN mail /\ SeqNum(m) = n
  BY DEF Matches, RowsOf
<1> HIDE DEF hit
<1>3. c \notin stirred => hit \ {view[c][n]} = {}
  <2>1. SUFFICES ASSUME c \notin stirred, NEW m \in hit PROVE m = view[c][n]
    OBVIOUS
  <2>2. view[c][n] \in DOMAIN mail /\ SeqNum(view[c][n]) = n
    BY <1>1, <2>1 DEF ClientInv, NumbersRight, RowsOf
  <2> QED
    BY <1>1, <1>2, <2>1, <2>2, SeqNumDistinct
<1>4. mistaken' = {} /\ deleted' \subseteq DOMAIN mail
  BY <1>1, <1>2, <1>3 DEF TypeOK
<1>5. session' = [session EXCEPT ![c] = session[c]]
  BY <1>1 DEF TypeOK
<1> QED
  BY <1>1, <1>4, <1>5, StoreKeeps

LEMMA StoreByUidStep ==
  ASSUME ViewInv, NEW c \in Clients, NEW u \in DOMAIN cache[c], StoreByUid(c, u)
  PROVE  ViewInv'
<1> DEFINE hit == Matches(session[c].box, TRUE, {u})
<1>1. /\ TypeOK /\ CacheRight(c) /\ mistaken = {} /\ session[c].pc = "ready"
      /\ deleted' = deleted \cup hit /\ session[c] \in Session
      /\ mistaken' = mistaken \cup (IF cache[c][u].box # session[c].box THEN {}
                                     ELSE hit \ {cache[c][u].msg})
      /\ UNCHANGED <<box, nextBox, mail, nextMsg, uidNext, held, session, beliefs, stirred, late>>
  BY DEF ViewInv, ClientInv, StoreByUid, OnlyMeantDeleted, Ready, TypeOK
<1>2. /\ hit \subseteq DOMAIN mail
      /\ \A m \in hit : m \in DOMAIN mail /\ mail[m] = u /\ session[c].box = box
  BY DEF Matches, RowsOf
<1> HIDE DEF hit
<1>3. cache[c][u].box = session[c].box => hit \ {cache[c][u].msg} = {}
  BY <1>1, <1>2 DEF CacheRight
<1>4. mistaken' = {} /\ deleted' \subseteq DOMAIN mail
  BY <1>1, <1>2, <1>3 DEF TypeOK
<1>5. session' = [session EXCEPT ![c] = session[c]]
  BY <1>1 DEF TypeOK
<1> QED
  BY <1>1, <1>4, <1>5, StoreKeeps

LEMMA StoreFoundStep ==
  ASSUME ViewInv, NEW c \in Clients, StoreFound(c)
  PROVE  ViewInv'
<1> DEFINE hit == Matches(session[c].box, TRUE, session[c].found)
           s   == [session[c] EXCEPT !.pc = "ready", !.found = {}, !.meant = {}]
<1>1. /\ TypeOK /\ FoundRight(c) /\ mistaken = {} /\ session[c].pc = "found"
      /\ deleted' = deleted \cup hit /\ session[c] \in Session
      /\ mistaken' = mistaken \cup (hit \ session[c].meant)
      /\ session' = [session EXCEPT ![c] = s]
      /\ UNCHANGED <<box, nextBox, mail, nextMsg, uidNext, held, beliefs, stirred, late>>
  BY DEF ViewInv, ClientInv, StoreFound, OnlyMeantDeleted, Now, TypeOK
<1>2. /\ hit \subseteq DOMAIN mail
      /\ \A m \in hit :
           m \in DOMAIN mail /\ mail[m] \in session[c].found /\ session[c].box = box
  BY DEF Matches, RowsOf
<1>3. /\ s \in Session /\ s.box = session[c].box /\ s.pc = "ready"
      /\ s.miscounted = session[c].miscounted
  BY <1>1 DEF Session
<1> HIDE DEF hit, s
<1>4. hit \ session[c].meant = {}
  BY <1>1, <1>2 DEF FoundRight
<1>5. mistaken' = {} /\ deleted' \subseteq DOMAIN mail
  BY <1>1, <1>2, <1>4 DEF TypeOK
<1> QED
  BY <1>1, <1>3, <1>5, StoreKeeps

\* A SEARCH: the connection comes to s, which keeps what it found.
LEMMA SearchKeeps ==
  ASSUME ViewInv, NEW c \in Clients, NEW s \in Session, Now(c, s),
         s.box = session[c].box, session[c].pc = "ready", s.pc \in {"expunge", "found"},
         s.miscounted = session[c].miscounted,
         UNCHANGED <<store, beliefs, ghosts>>,
         s.pc = "found" /\ s.box = box =>
           \A u \in s.found :
             Spent(u) /\ (\A m \in DOMAIN mail : mail[m] = u => m \in s.meant)
  PROVE  ViewInv'
<1>1. /\ TypeOK /\ UidsDistinct /\ RowsAreOld
      /\ UNCHANGED <<box, nextBox, mail, nextMsg, uidNext, deleted, held, beliefs,
                     stirred, mistaken, late>>
  BY DEF ViewInv, store, ghosts
<1>2. /\ session' \in [Clients -> Session] /\ session'[c] = s
      /\ \A d \in Clients : d # c => session'[d] = session[d]
  BY <1>1, NowEffect
<1>3. TypeOK'
  BY <1>1, <1>2, BeliefsTyped DEF TypeOK
<1>4. UidsDistinct' /\ RowsAreOld'
  <2>1. \A d \in Clients : /\ session'[d].box < nextBox
                           /\ session'[d].pc # "out" => session'[d].box # 0
    BY <1>1, <1>2 DEF RowsAreOld
  <2>2. \A d \in Clients : \A u \in DOMAIN cache'[d] : cache'[d][u].box < nextBox
    BY <1>1 DEF RowsAreOld, beliefs
  <2> QED
    BY <1>1, <2>1, <2>2, StoreStays
<1>5. ClientInv(c)'
  <2>1. Pending' <=> Pending
    BY <1>1 DEF Pending
  <2>2. FoundRight(c)'
    BY <1>1, <1>2, <2>1 DEF FoundRight, Spent
  <2> QED
    BY <1>1, <1>2, <2>2, StaysWithMailbox
<1>6. \A d \in Clients \ {c} : Idle(d) /\ (d \notin stirred' => d \notin stirred)
  BY <1>1, <1>2 DEF Idle, beliefs
<1>7. \A d \in Clients : ClientInv(d)'
  BY <1>1, <1>5, <1>6, OthersIdle
<1> QED
  BY <1>1, <1>3, <1>4, <1>7 DEF ViewInv, OnlyMeantDeleted

LEMMA SearchStep == ASSUME ViewInv, NEW c \in Clients, Search(c) PROVE ViewInv'
<1> DEFINE filtered == RowsOf(session[c].box) \ deleted
           found    == SearchMessages(TRUE, filtered)
           s        == [session[c] EXCEPT !.pc = "found", !.found = found, !.meant = filtered]
<1>1. /\ TypeOK /\ UidsDistinct /\ session[c] \in Session /\ session[c].pc = "ready"
      /\ Now(c, s) /\ UNCHANGED <<store, beliefs, ghosts>>
  BY DEF ViewInv, Search, Ready, TypeOK
<1>2. /\ filtered \subseteq DOMAIN mail /\ filtered \subseteq 1 .. MaxMsg
      /\ found = {mail[m] : m \in filtered} /\ found \subseteq Nat
  <2>1. filtered \subseteq DOMAIN mail
    BY DEF RowsOf
  <2>2. DOMAIN mail \subseteq 1 .. MaxMsg /\ \A m \in DOMAIN mail : mail[m] \in Nat
    BY <1>1, MailFinite, Bounds DEF TypeOK
  <2> QED
    BY <2>1, <2>2 DEF SearchMessages
<1> HIDE DEF filtered, found
<1>3. /\ s \in Session /\ s.pc = "found" /\ s.box = session[c].box /\ s.found = found
      /\ s.meant = filtered /\ s.miscounted = session[c].miscounted
  BY <1>1, <1>2 DEF Session
<1> HIDE DEF s
<1>4. \A u \in found :
        Spent(u) /\ (\A m \in DOMAIN mail : mail[m] = u => m \in filtered)
  BY <1>1, <1>2 DEF UidsDistinct
<1> QED
  BY <1>1, <1>3, <1>4, SearchKeeps

LEMMA ExpungeSearchStep == ASSUME ViewInv, NEW c \in Clients, ExpungeSearch(c) PROVE ViewInv'
<1> DEFINE filtered == RowsOf(session[c].box) \cap deleted
           found    == SearchMessages(FALSE, filtered)
           s        == [session[c] EXCEPT !.pc = "expunge", !.found = found]
<1>1. /\ session[c] \in Session /\ session[c].pc = "ready"
      /\ Now(c, s) /\ UNCHANGED <<store, beliefs, ghosts>>
  BY DEF ViewInv, ExpungeSearch, Ready, TypeOK
<1>2. found \subseteq Nat
  BY DEF SearchMessages
<1> HIDE DEF found
<1>3. /\ s \in Session /\ s.pc = "expunge" /\ s.box = session[c].box
      /\ s.miscounted = session[c].miscounted
  BY <1>1, <1>2 DEF Session
<1> HIDE DEF s
<1> QED
  BY <1>1, <1>3, SearchKeeps

LEMMA CrashStep == ViewInv /\ Crash => ViewInv'
<1> SUFFICES ASSUME ViewInv, Crash PROVE ViewInv'
  OBVIOUS
<1>1. /\ TypeOK /\ UidsDistinct /\ RowsAreOld /\ held' = Nobody
      /\ session' = [d \in Clients |-> Out] /\ view' = [d \in Clients |-> NoNumbers]
      /\ UNCHANGED <<box, nextBox, mail, nextMsg, uidNext, deleted, cache, synced, ghosts>>
  BY DEF ViewInv, Crash
<1>2. /\ Out \in Session /\ Out.pc = "out" /\ Out.box = 0 /\ Nobody \in (0 .. MaxBox) \X Nat
      /\ DOMAIN NoNumbers = {} /\ 0 < nextBox /\ Nobody[1] = 0
  BY <1>1, Bounds DEF Out, Session, Nobody, NoNumbers, TypeOK
<1>3. ~Pending'
  BY <1>1 DEF Pending
<1>4. \A v \in Nat : Spent(v) => Spent(v)'
  BY <1>1, <1>3 DEF Spent
<1>5. TypeOK'
  <2>1. \A d \in Clients :
          /\ DOMAIN view'[d] \subseteq Nat /\ IsFiniteSet(DOMAIN view'[d])
          /\ Numbered(d)' \subseteq 1 .. nextMsg - 1
    BY <1>1, <1>2, FS_EmptySet DEF Numbered
  <2> QED
    BY <1>1, <1>2, <2>1 DEF TypeOK, ghosts
<1>6. UidsDistinct'
  BY <1>1, <1>3, <1>4 DEF UidsDistinct, Spent
<1>7. RowsAreOld' /\ OnlyMeantDeleted'
  BY <1>1, <1>2 DEF ViewInv, RowsAreOld, OnlyMeantDeleted, ghosts
<1>8. ASSUME NEW d \in Clients
      PROVE  ClientInv(d)'
  <2>1. CacheRight(d) /\ \A u \in DOMAIN cache[d] : u \in Nat
    BY <1>1 DEF ViewInv, ClientInv, TypeOK
  <2>2. CacheRight(d)'
    BY <1>1, <1>4, <2>1 DEF CacheRight
  <2>3. NumbersRight(d)'
    BY <1>1, <1>2 DEF NumbersRight
  <2>4. FoundRight(d)' /\ NoneOverlooked(d)'
    BY <1>1, <1>2 DEF FoundRight, NoneOverlooked
  <2> QED
    BY <2>2, <2>3, <2>4 DEF ClientInv
<1> QED
  BY <1>5, <1>6, <1>7, <1>8 DEF ViewInv

LEMMA InitHolds == Init => ViewInv
<1> SUFFICES ASSUME Init PROVE ViewInv
  OBVIOUS
<1>1. /\ box = 1 /\ nextBox = 2 /\ mail = [m \in {} |-> 0] /\ nextMsg = 1 /\ uidNext = 1
      /\ deleted = {} /\ held = Nobody /\ session = [c \in Clients |-> Out]
      /\ view = [c \in Clients |-> NoNumbers]
      /\ cache = [c \in Clients |-> [u \in {} |-> 0]]
      /\ synced = [c \in Clients |-> 1]
      /\ stirred = {} /\ mistaken = {} /\ late = 0
  BY DEF Init
<1>2. /\ Out \in Session /\ Out.pc = "out" /\ Out.box = 0 /\ Nobody \in (0 .. MaxBox) \X Nat
      /\ DOMAIN NoNumbers = {} /\ Nobody[1] = 0 /\ DOMAIN mail = {}
  BY <1>1, Bounds DEF Out, Session, Nobody, NoNumbers
<1>3. \A d \in Clients : /\ DOMAIN view[d] = {} /\ DOMAIN cache[d] = {}
                         /\ Numbered(d) = {}
  BY <1>1, <1>2, FS_EmptySet DEF Numbered
<1>4. TypeOK
  BY <1>1, <1>2, <1>3, Bounds, FS_EmptySet DEF TypeOK
<1>5. UidsDistinct /\ RowsAreOld /\ OnlyMeantDeleted
  BY <1>1, <1>2, <1>3 DEF UidsDistinct, RowsAreOld, OnlyMeantDeleted, Pending
<1>6. ASSUME NEW d \in Clients PROVE ClientInv(d)
  BY <1>1, <1>2, <1>3
     DEF ClientInv, NumbersRight, CacheRight, FoundRight, NoneOverlooked
<1> QED
  BY <1>4, <1>5, <1>6 DEF ViewInv

LEMMA NothingHappens == ViewInv /\ UNCHANGED vars => ViewInv'
<1> SUFFICES ASSUME ViewInv, UNCHANGED vars PROVE ViewInv'
  OBVIOUS
<1>1. UNCHANGED <<box, nextBox, mail, nextMsg, uidNext, deleted, held, session,
                  view, cache, synced, stirred, mistaken, late>>
  BY DEF vars, store, beliefs, ghosts
<1>2. TypeOK /\ UidsDistinct /\ RowsAreOld /\ OnlyMeantDeleted
  BY DEF ViewInv
<1>3. TypeOK'
  BY <1>1, <1>2, BeliefsTyped DEF TypeOK, beliefs
<1>4. UidsDistinct' /\ RowsAreOld' /\ OnlyMeantDeleted'
  BY <1>1, <1>2, StoreStays DEF RowsAreOld, OnlyMeantDeleted
<1>5. ASSUME NEW d \in Clients PROVE ClientInv(d)'
  <2>1. /\ Idle(d) /\ uidNext' \in Nat /\ uidNext' >= uidNext
        /\ d \notin stirred' => d \notin stirred /\ Numbered(d) \cap {} = {}
    BY <1>1, <1>2 DEF Idle, TypeOK
  <2> QED
    BY <1>1, <2>1, NothingGoes, SpentStays, IdleShrunk
<1> QED
  BY <1>3, <1>4, <1>5 DEF ViewInv

\* Of the messages older than u, no more are numbered beyond k than there are
\* beyond k of them.
LEMMA BeyondCount ==
  ASSUME TypeOK, UidsDistinct, NEW u \in Nat, NEW k \in Nat, NEW l \in Nat,
         NEW S \in SUBSET DOMAIN mail,
         S = {m \in DOMAIN mail : mail[m] < u}, Cardinality(S) <= k + l,
         NEW T \in SUBSET S, \A m \in T : SeqNum(m) > k
  PROVE  Cardinality(T) \in Nat /\ Cardinality(T) <= l
<1> DEFINE o == Cardinality(S)
           t == Cardinality(T)
           f == [m \in T |-> SeqNum(m)]
<1>1. /\ IsFiniteSet(S) /\ o \in Nat /\ t \in Nat
      /\ \A m \in DOMAIN mail : mail[m] \in Nat /\ SeqNum(m) \in Nat
      /\ \A R \in SUBSET S : Cardinality(R) \in Nat /\ Cardinality(R) <= o
  BY MailFinite, SeqNumGrows, FS_Subset
<1>2. ASSUME NEW m \in T PROVE SeqNum(m) \in k + 1 .. o
  <2>1. {n \in DOMAIN mail : mail[n] <= mail[m]} \in SUBSET S
    BY <1>1
  <2>2. SeqNum(m) <= o
    BY <1>1, <2>1 DEF SeqNum
  <2>3. SeqNum(m) \in Nat /\ SeqNum(m) > k
    BY <1>1
  <2> HIDE DEF o
  <2> QED
    BY <1>1, <2>2, <2>3
<1>3. f \in Injection(T, k + 1 .. o)
  <2>1. f \in [T -> k + 1 .. o]
    BY <1>2
  <2>2. \A a, b \in T : f[a] = f[b] => a = b
    BY SeqNumDistinct
  <2> QED
    BY <2>1, <2>2 DEF Injection, IsInjective
<1> HIDE DEF f
<1>4. /\ IsFiniteSet(k + 1 .. o)
      /\ Cardinality(k + 1 .. o) = IF k + 1 > o THEN 0 ELSE o - (k + 1) + 1
  <2>1. k + 1 \in Int /\ o \in Int
    BY <1>1
  <2> QED
    BY <2>1, FS_Interval
<1>5. t <= Cardinality(k + 1 .. o)
  BY <1>3, <1>4, FS_Injection
<1> DEFINE w == Cardinality(k + 1 .. o)
<1>6. w = (IF k + 1 > o THEN 0 ELSE o - (k + 1) + 1) /\ t <= w
  BY <1>4, <1>5
<1>7. o <= k + l
  OBVIOUS
<1> HIDE DEF w, o, t
<1>8. t <= l
  BY <1>1, <1>6, <1>7
<1> QED
  BY <1>1, <1>8 DEF t

LEMMA ListMessagesStep == ASSUME ViewInv, NEW c \in Clients, ListMessages(c) PROVE ViewInv'
<1> DEFINE s    == session[c]
           rows == {m \in RowsOf(s.box) : SeqNum(m) <= s.count}
           uids == {mail[m] : m \in rows}
           known == [u \in DOMAIN cache[c] \cup uids |->
                       IF u \in DOMAIN cache[c] THEN cache[c][u]
                       ELSE [box |-> s.box, msg |-> CHOOSE m \in rows : mail[m] = u]]
           row(n) == CHOOSE m \in rows : SeqNum(m) = n
           v == [n \in {SeqNum(m) : m \in rows} |-> known[mail[row(n)]].msg]
           s2 == [s EXCEPT !.pc = "ready"]
<1>1. /\ TypeOK /\ UidsDistinct /\ RowsAreOld /\ OnlyMeantDeleted /\ ClientInv(c)
      /\ s.pc = "counted" /\ s \in Session
      /\ cache' = [cache EXCEPT ![c] = known]
      /\ view' = [view EXCEPT ![c] = v]
      /\ synced' = [synced EXCEPT ![c] = s.uidNext]
      /\ stirred' = IF \A u \in uids : known[u].box = s.box THEN stirred \ {c}
                    ELSE stirred \cup {c}
      /\ Now(c, s2)
      /\ UNCHANGED <<box, nextBox, mail, nextMsg, uidNext, deleted, held, mistaken, late>>
  BY DEF ViewInv, ListMessages, TypeOK, UidNextTold, store
<1>2. s2 \in Session /\ s2.pc = "ready" /\ s2.box = s.box /\ s2.miscounted = s.miscounted
  BY <1>1 DEF Session
<1>3. /\ session' \in [Clients -> Session] /\ session'[c] = s2
      /\ \A d \in Clients : d # c => session'[d] = session[d]
  BY <1>1, <1>2, NowEffect
<1>4. ASSUME NEW m \in rows
      PROVE  /\ m \in DOMAIN mail /\ s.box = box /\ SeqNum(m) <= s.count
             /\ SeqNum(m) \in Nat /\ mail[m] \in Nat /\ row(SeqNum(m)) = m
  <2>1. m \in DOMAIN mail /\ s.box = box /\ SeqNum(m) <= s.count
    BY DEF RowsOf
  <2>2. \A n \in rows : SeqNum(n) = SeqNum(m) => n = m
    BY <1>1, <2>1, SeqNumDistinct DEF RowsOf
  <2>3. row(SeqNum(m)) = m
    BY <2>2
  <2>4. SeqNum(m) \in Nat /\ mail[m] \in Nat
    BY <1>1, <2>1, SeqNumGrows, MailFinite
  <2> QED
    BY <2>1, <2>3, <2>4
<1>5. rows \subseteq DOMAIN mail
  BY <1>4
<1>6. /\ DOMAIN known = DOMAIN cache[c] \cup uids
      /\ \A u \in DOMAIN cache[c] : known[u] = cache[c][u]
  OBVIOUS
<1>7. ASSUME NEW m \in rows, mail[m] \notin DOMAIN cache[c]
      PROVE  known[mail[m]] = [box |-> s.box, msg |-> m]
  <2>1. \A n \in rows : mail[n] = mail[m] => n = m
    BY <1>1, <1>5 DEF UidsDistinct
  <2>2. (CHOOSE n \in rows : mail[n] = mail[m]) = m
    BY <2>1
  <2>3. mail[m] \in uids
    OBVIOUS
  <2> QED
    BY <1>7, <2>2, <2>3
<1>8. /\ DOMAIN v = {SeqNum(m) : m \in rows}
      /\ \A m \in rows : v[SeqNum(m)] = known[mail[m]].msg
  BY <1>4
<1>9. \A m \in rows : mail[m] \in uids
  OBVIOUS
<1>10. \A u \in uids : \E m \in rows : u = mail[m]
  OBVIOUS
<1>11. \A m \in RowsOf(s.box) : SeqNum(m) <= s.count => m \in rows
  OBVIOUS
<1> HIDE DEF s, s2, known, v, rows, uids
<1>12. ASSUME NEW u \in DOMAIN known
       PROVE  /\ u \in Nat /\ known[u] \in [box : 1 .. MaxBox, msg : 1 .. nextMsg - 1]
              /\ known[u].box < nextBox
              /\ known[u].box = box =>
                   Spent(u) /\ (\A m \in DOMAIN mail : mail[m] = u => m = known[u].msg)
  <2>1. CASE u \in DOMAIN cache[c]
    BY <1>1, <1>6, <2>1 DEF TypeOK, RowsAreOld, ClientInv, CacheRight
  <2>2. CASE u \notin DOMAIN cache[c]
    <3>1. PICK m \in rows : u = mail[m]
      BY <1>6, <1>10, <2>2
    <3>2. known[u] = [box |-> box, msg |-> m] /\ m \in DOMAIN mail /\ u \in Nat
      BY <1>4, <1>7, <2>2, <3>1
    <3>3. box \in 1 .. MaxBox /\ box < nextBox
      BY <1>1, <3>2, Bounds, SMTT(20) DEF TypeOK, UidsDistinct, RowsAreOld
    <3>4. m \in 1 .. nextMsg - 1
      BY <1>1, <3>2 DEF TypeOK
    <3> QED
      BY <1>1, <3>1, <3>2, <3>3, <3>4 DEF UidsDistinct
  <2> QED
    BY <2>1, <2>2
<1>13. /\ cache'[c] = known /\ view'[c] = v /\ synced'[c] = s.uidNext
       /\ DOMAIN cache' = Clients /\ DOMAIN view' = Clients /\ synced' \in [Clients -> Nat]
       /\ \A d \in Clients : d # c =>
            cache'[d] = cache[d] /\ view'[d] = view[d] /\ synced'[d] = synced[d]
  BY <1>1 DEF TypeOK, Session
<1>14. ASSUME NEW m \in rows, c \notin stirred' PROVE v[SeqNum(m)] = m
  <2>1. known[mail[m]].box = s.box
    BY <1>1, <1>9, <1>14
  <2>2. mail[m] \in DOMAIN known /\ s.box = box /\ m \in DOMAIN mail
    BY <1>4, <1>6, <1>9
  <2> QED
    BY <1>8, <1>12, <2>1, <2>2
<1>15. IsFiniteSet(DOMAIN v)
  <2>1. s.count \in Nat
    BY <1>1 DEF Session
  <2>2. IsFiniteSet(0 .. s.count)
    BY <2>1, FS_Interval
  <2>3. DOMAIN v \in SUBSET (0 .. s.count)
    BY <1>4, <1>8, <2>1
  <2> QED
    BY <2>2, <2>3, FS_Subset
<1>16. TypeOK'
  <2>1. Numbered(c)' \subseteq 1 .. nextMsg - 1 /\ DOMAIN v \subseteq Nat
    <3>1. \A m \in rows : v[SeqNum(m)] \in 1 .. nextMsg - 1 /\ SeqNum(m) \in Nat
      BY <1>4, <1>6, <1>8, <1>9, <1>12
    <3> QED
      BY <1>8, <1>13, <3>1 DEF Numbered
  <2>2. \A d \in Clients :
          /\ DOMAIN view'[d] \subseteq Nat /\ IsFiniteSet(DOMAIN view'[d])
          /\ Numbered(d)' \subseteq 1 .. nextMsg - 1
    BY <1>1, <1>13, <1>15, <2>1 DEF TypeOK, Numbered
  <2>3. \A d \in Clients : \A u \in DOMAIN cache'[d] :
          u \in Nat /\ cache'[d][u] \in [box : 1 .. MaxBox, msg : 1 .. nextMsg - 1]
    BY <1>1, <1>12, <1>13 DEF TypeOK
  <2>4. stirred' \subseteq Clients
    BY <1>1 DEF TypeOK
  <2> QED
    BY <1>1, <1>3, <1>13, <2>2, <2>3, <2>4 DEF TypeOK
<1>17. UidsDistinct' /\ RowsAreOld'
  <2>1. \A d \in Clients : /\ session'[d].box < nextBox
                           /\ session'[d].pc # "out" => session'[d].box # 0
    BY <1>1, <1>2, <1>3 DEF RowsAreOld, s
  <2>2. \A d \in Clients : \A u \in DOMAIN cache'[d] : cache'[d][u].box < nextBox
    BY <1>1, <1>12, <1>13 DEF RowsAreOld
  <2> QED
    BY <1>1, <2>1, <2>2, StoreStays
<1>18. ASSUME c \notin stirred' PROVE NumbersRight(c)'
  <2>1. \A m \in rows : v[SeqNum(m)] = m
    BY <1>14, <1>18
  <2>2. Numbered(c)' = rows
    BY <1>8, <1>13, <2>1 DEF Numbered
  <2>4. ASSUME NEW m \in rows
        PROVE  /\ m \in RowsOf(session[c].box)' /\ SeqNum(m)' = SeqNum(m)
               /\ \A k \in DOMAIN mail : mail[k] <= mail[m] => k \in rows
    <3>1. m \in DOMAIN mail /\ s.box = box /\ SeqNum(m) <= s.count /\ s.count \in Nat
      BY <1>1, <1>4 DEF Session
    <3>2. \A k \in DOMAIN mail :
            mail[k] <= mail[m] => SeqNum(k) <= SeqNum(m) /\ SeqNum(k) \in Nat /\ SeqNum(m) \in Nat
      BY <1>1, <3>1, SeqNumGrows
    <3>3. \A k \in DOMAIN mail : mail[k] <= mail[m] => k \in rows
      BY <1>11, <3>1, <3>2 DEF RowsOf
    <3> QED
      BY <1>1, <1>2, <1>3, <3>1, <3>3 DEF RowsOf, SeqNum
  <2> QED
    BY <1>1, <1>8, <1>13, <2>1, <2>2, <2>4 DEF NumbersRight
<1>19. CacheRight(c)'
  <2>1. Pending' <=> Pending
    BY <1>1 DEF Pending
  <2> QED
    BY <1>1, <1>12, <1>13, <2>1 DEF CacheRight, Spent
<1>20. FoundRight(c)'
  BY <1>2, <1>3 DEF FoundRight
<1>21. NoneOverlooked(c)'
  <2>0. s.box = box =>
          /\ s.uidNext <= uidNext
          /\ ~s.miscounted => Cardinality(Older(c)) <= s.count + late
    BY <1>1 DEF ClientInv, NoneOverlooked, s
  <2>1. SUFFICES ASSUME s.box = box, ~s.miscounted
                 PROVE  Cardinality(Unseen(c)') <= late
    BY <1>1, <1>2, <1>3, <1>13, <2>0 DEF NoneOverlooked
  <2>2. Cardinality(Older(c)) <= s.count + late
    BY <2>0, <2>1
  <2>3. Unseen(c)' \in SUBSET Older(c) /\ \A m \in Unseen(c)' : SeqNum(m) > s.count
    <3>1. Unseen(c)' = {m \in DOMAIN mail : mail[m] < s.uidNext /\ mail[m] \notin DOMAIN known}
      BY <1>1, <1>13 DEF Unseen
    <3>2. \A m \in Unseen(c)' : m \notin rows
      BY <1>6, <1>9, <3>1
    <3>3. \A m \in Unseen(c)' : m \in DOMAIN mail /\ mail[m] < s.uidNext
      BY <3>1
    <3>4. \A m \in Unseen(c)' : ~(SeqNum(m) <= s.count)
      BY <1>11, <2>1, <3>2, <3>3 DEF RowsOf
    <3>5. \A m \in Unseen(c)' : SeqNum(m) \in Nat
      BY <1>1, <3>3, SeqNumGrows
    <3>6. s.count \in Nat
      BY <1>1 DEF Session
    <3> QED
      BY <3>3, <3>4, <3>5, <3>6 DEF Older, s
  <2>4. s.uidNext \in Nat /\ s.count \in Nat /\ late \in Nat
    BY <1>1 DEF Session, TypeOK
  <2>5. Older(c) = {m \in DOMAIN mail : mail[m] < s.uidNext} /\ Older(c) \in SUBSET DOMAIN mail
    BY DEF Older, s
  <2> QED
    BY <1>1, <2>2, <2>3, <2>4, <2>5, BeyondCount
<1>22. \A d \in Clients : ClientInv(d)'
  <2>1. \A d \in Clients \ {c} : Idle(d) /\ (d \notin stirred' => d \notin stirred)
    BY <1>1, <1>3, <1>13 DEF Idle
  <2>2. ClientInv(c)'
    BY <1>18, <1>19, <1>20, <1>21 DEF ClientInv
  <2> QED
    BY <1>1, <2>1, <2>2, OthersIdle
<1> QED
  BY <1>1, <1>16, <1>17, <1>22 DEF ViewInv, OnlyMeantDeleted

-----------------------------------------------------------------------------
(* EXPUNGE *)

\* The numbers left in a view close up in their order.
LEMMA NewNumberGrows ==
  ASSUME NEW v, IsFiniteSet(DOMAIN v), DOMAIN v \subseteq Nat, NEW said,
         NEW a \in DOMAIN v \ said, NEW b \in DOMAIN v \ said
  PROVE  /\ NewNumber(v, said, a) \in Nat
         /\ NewNumber(v, said, a) <= Cardinality(DOMAIN v)
         /\ a < b => NewNumber(v, said, a) < NewNumber(v, said, b)
<1> DEFINE UpTo(n) == {k \in DOMAIN v \ said : k <= n}
<1>1. \A n \in DOMAIN v : /\ UpTo(n) \in SUBSET DOMAIN v /\ IsFiniteSet(UpTo(n))
                          /\ Cardinality(UpTo(n)) \in Nat
                          /\ Cardinality(UpTo(n)) <= Cardinality(DOMAIN v)
                          /\ NewNumber(v, said, n) = Cardinality(UpTo(n))
  BY FS_Subset, FS_CardinalityType DEF NewNumber
<1>2. a < b => UpTo(a) \in SUBSET UpTo(b) /\ b \in UpTo(b) /\ b \notin UpTo(a)
  OBVIOUS
<1> HIDE DEF UpTo
<1>3. a < b => /\ Cardinality(UpTo(a)) <= Cardinality(UpTo(b))
               /\ Cardinality(UpTo(a)) # Cardinality(UpTo(b))
  BY <1>1, <1>2, FS_Subset
<1> QED
  BY <1>1, <1>3

\* So what they stand for is what they stood for.
LEMMA DroppedKeeps ==
  ASSUME NEW v, IsFiniteSet(DOMAIN v), DOMAIN v \subseteq Nat, NEW said
  PROVE  /\ DOMAIN Dropped(v, said) = {NewNumber(v, said, n) : n \in DOMAIN v \ said}
         /\ DOMAIN Dropped(v, said) \subseteq Nat /\ IsFiniteSet(DOMAIN Dropped(v, said))
         /\ \A n \in DOMAIN v \ said : Dropped(v, said)[NewNumber(v, said, n)] = v[n]
<1> DEFINE D == DOMAIN v \ said
<1>1. \A a, b \in D : NewNumber(v, said, a) = NewNumber(v, said, b) => a = b
  <2>1. SUFFICES ASSUME NEW a \in D, NEW b \in D, NewNumber(v, said, a) = NewNumber(v, said, b)
                 PROVE  a = b
    OBVIOUS
  <2>2. ~(a < b) /\ ~(b < a)
    BY <2>1, NewNumberGrows
  <2> QED
    BY <2>2
<1>2. ASSUME NEW n \in D
      PROVE  Dropped(v, said)[NewNumber(v, said, n)] = v[n]
  <2>1. (CHOOSE k \in D : NewNumber(v, said, k) = NewNumber(v, said, n)) = n
    BY <1>1
  <2> QED
    BY <2>1 DEF Dropped
<1>3. /\ DOMAIN Dropped(v, said) = {NewNumber(v, said, n) : n \in D}
      /\ \A n \in D : NewNumber(v, said, n) \in 0 .. Cardinality(DOMAIN v)
  <2>1. Cardinality(DOMAIN v) \in Nat
    BY FS_CardinalityType
  <2> QED
    BY <2>1, NewNumberGrows DEF Dropped
<1>4. DOMAIN Dropped(v, said) \in SUBSET (0 .. Cardinality(DOMAIN v))
  BY <1>3
<1>5. IsFiniteSet(0 .. Cardinality(DOMAIN v))
  BY FS_CardinalityType, FS_Interval
<1>6. IsFiniteSet(DOMAIN Dropped(v, said))
  BY <1>4, <1>5, FS_Subset
<1> QED
  BY <1>2, <1>3, <1>4, <1>6

\* The new number of a message is how many messages that are left, and had a
\* number, come up to it.
LEMMA NewNumberCounts ==
  ASSUME TypeOK, UidsDistinct, NEW v, IsFiniteSet(DOMAIN v), DOMAIN v \subseteq Nat, NEW said,
         \A n \in DOMAIN v :
           /\ v[n] \in DOMAIN mail /\ SeqNum(v[n]) = n
           /\ \A m \in DOMAIN mail : mail[m] <= mail[v[n]] => \E k \in DOMAIN v : m = v[k],
         NEW n \in DOMAIN v \ said
  PROVE  NewNumber(v, said, n)
           = Cardinality({m \in DOMAIN mail : SeqNum(m) \notin said /\ mail[m] <= mail[v[n]]})
<1> DEFINE S == {k \in DOMAIN v \ said : k <= n}
           T == {m \in DOMAIN mail : SeqNum(m) \notin said /\ mail[m] <= mail[v[n]]}
           f == [k \in S |-> v[k]]
<1>1. ASSUME NEW k \in S PROVE v[k] \in T
  <2>1. /\ v[k] \in DOMAIN mail /\ SeqNum(v[k]) = k /\ k \notin said /\ k <= n
        /\ v[n] \in DOMAIN mail /\ SeqNum(v[n]) = n /\ k \in Nat /\ n \in Nat
    OBVIOUS
  <2>2. ~(mail[v[n]] < mail[v[k]])
    BY <2>1, SeqNumGrows
  <2> QED
    BY <2>1, <2>2, MailFinite
<1>2. ASSUME NEW m \in T PROVE \E k \in S : v[k] = m
  <2>1. PICK k \in DOMAIN v : m = v[k]
    OBVIOUS
  <2>2. SeqNum(m) = k /\ SeqNum(v[n]) = n /\ v[n] \in DOMAIN mail
    BY <2>1
  <2>3. k <= n
    BY <2>2, SeqNumGrows
  <2> QED
    BY <2>1, <2>2, <2>3
<1>3. \A a, b \in S : v[a] = v[b] => a = b
  OBVIOUS
<1>4. S \in SUBSET DOMAIN v
  OBVIOUS
<1>5. IsFiniteSet(S)
  BY <1>4, FS_Subset
<1> HIDE DEF S, T
<1>6. f \in Bijection(S, T)
  BY <1>1, <1>2, <1>3 DEF Bijection, Injection, Surjection, IsInjective
<1>7. Cardinality(T) = Cardinality(S)
  BY <1>5, <1>6, FS_Bijection DEF ExistsBijection
<1> QED
  BY <1>7 DEF NewNumber, S, T

LEMMA ExpungeStep == ASSUME ViewInv, NEW c \in Clients, Expunge(c) PROVE ViewInv'
<1> DEFINE s    == session[c]
           gone == RowsOf(s.box) \cap deleted
           said == s.found
           v    == view[c]
           w    == Dropped(v, said)
           s2   == [s EXCEPT !.pc = "ready", !.found = {}]
<1>1. /\ TypeOK /\ UidsDistinct /\ RowsAreOld /\ OnlyMeantDeleted /\ ClientInv(c)
      /\ s.pc = "expunge" /\ s \in Session
      /\ mail' = Without(gone) /\ deleted' = MarksWithout(gone)
      /\ view' = [view EXCEPT ![c] = w]
      /\ stirred' = stirred \cup {d \in Clients \ {c} : Numbered(d) \cap gone # {}}
                     \cup {d \in {c} : Matches(s.box, FALSE, said) # gone}
      /\ Now(c, s2)
      /\ UNCHANGED <<box, nextBox, nextMsg, uidNext, held, cache, synced, mistaken, late>>
  BY DEF ViewInv, Expunge, TypeOK
<1>2. s2 \in Session /\ s2.pc = "ready" /\ s2.box = s.box /\ s2.miscounted = s.miscounted
  BY <1>1 DEF Session
<1>3. gone \subseteq DOMAIN mail /\ (s.box = box => gone = DOMAIN mail \cap deleted)
  BY DEF RowsOf
<1>4. \A m \in DOMAIN mail : s.box = box => (m \in Matches(s.box, FALSE, said) <=> SeqNum(m) \in said)
  BY DEF Matches, RowsOf
<1> HIDE DEF s2, gone
<1>5. /\ session' \in [Clients -> Session] /\ session'[c] = s2
      /\ \A d \in Clients : d # c => session'[d] = session[d]
  BY <1>1, <1>2, NowEffect
<1>6. /\ Shrunk(gone) /\ mail' \in [DOMAIN mail' -> Nat \ {0}]
      /\ DOMAIN mail' \subseteq 1 .. nextMsg - 1 /\ deleted' \subseteq DOMAIN mail'
  BY <1>1 DEF Without, MarksWithout, Shrunk, TypeOK
<1>7. /\ DOMAIN view' = Clients /\ view'[c] = w
      /\ \A d \in Clients : d # c => view'[d] = view[d]
  BY <1>1 DEF TypeOK
<1>8. DOMAIN v \subseteq Nat /\ IsFiniteSet(DOMAIN v) /\ Numbered(c) \subseteq 1 .. nextMsg - 1
  BY <1>1 DEF TypeOK
<1>9. /\ DOMAIN w = {NewNumber(v, said, n) : n \in DOMAIN v \ said}
      /\ DOMAIN w \subseteq Nat /\ IsFiniteSet(DOMAIN w)
      /\ \A n \in DOMAIN v \ said : w[NewNumber(v, said, n)] = v[n]
  BY <1>8, DroppedKeeps
<1> HIDE DEF w
<1>10. Numbered(c)' = {v[n] : n \in DOMAIN v \ said}
  BY <1>7, <1>9 DEF Numbered
<1>11. TypeOK'
  <2>1. Numbered(c)' \subseteq 1 .. nextMsg - 1
    BY <1>8, <1>10 DEF Numbered
  <2>2. \A d \in Clients :
          /\ DOMAIN view'[d] \subseteq Nat /\ IsFiniteSet(DOMAIN view'[d])
          /\ Numbered(d)' \subseteq 1 .. nextMsg - 1
    BY <1>1, <1>7, <1>9, <2>1 DEF TypeOK, Numbered
  <2>3. stirred' \subseteq Clients
    BY <1>1 DEF TypeOK
  <2> QED
    BY <1>1, <1>5, <1>6, <1>7, <2>2, <2>3 DEF TypeOK
<1>12. UidsDistinct'
  BY <1>1, <1>6, UidsShrunk
<1>13. RowsAreOld'
  BY <1>1, <1>2, <1>5 DEF RowsAreOld
<1>14. \A u \in Nat : Spent(u) => Spent(u)'
  BY <1>1, SpentStays
<1>15. \A m \in DOMAIN mail' : m \in DOMAIN mail /\ mail'[m] = mail[m] /\ m \notin gone
  BY <1>6 DEF Shrunk
<1>16. ASSUME NEW d \in Clients, d # c PROVE ClientInv(d)'
  <2>1. Idle(d) /\ uidNext' \in Nat /\ uidNext' >= uidNext
    BY <1>1, <1>5, <1>7, <1>16 DEF Idle, TypeOK
  <2>2. d \notin stirred' => d \notin stirred /\ Numbered(d) \cap gone = {}
    BY <1>1, <1>16
  <2> QED
    BY <1>1, <1>6, <1>14, <2>1, <2>2, IdleShrunk
<1>17. ASSUME c \notin stirred' PROVE NumbersRight(c)'
  <2>1. /\ NumbersRight(c) /\ Matches(s.box, FALSE, said) = gone
    BY <1>1, <1>17 DEF ClientInv
  <2>2. \A n \in DOMAIN v :
          /\ v[n] \in DOMAIN mail /\ SeqNum(v[n]) = n /\ s.box = box
          /\ \A m \in DOMAIN mail : mail[m] <= mail[v[n]] => \E k \in DOMAIN v : m = v[k]
    BY <2>1 DEF NumbersRight, RowsOf, Numbered
  <2>3. ASSUME NEW n \in DOMAIN v \ said, NEW x, x = v[n]
        PROVE  /\ x \in RowsOf(session[c].box)'
               /\ Cardinality({m \in DOMAIN mail' : mail'[m] <= mail'[x]}) = NewNumber(v, said, n)
               /\ \A m \in DOMAIN mail' : mail'[m] <= mail'[x] => m \in Numbered(c)'
    <3>1. x \in DOMAIN mail /\ SeqNum(x) = n /\ s.box = box
      BY <2>2, <2>3
    <3>2. \A m \in DOMAIN mail : m \in gone <=> SeqNum(m) \in said
      BY <1>4, <2>1, <3>1
    <3>3. NewNumber(v, said, n)
            = Cardinality({m \in DOMAIN mail : SeqNum(m) \notin said /\ mail[m] <= mail[x]})
      BY <1>1, <1>8, <2>2, <2>3, NewNumberCounts
    <3>4. \A m \in DOMAIN mail : mail[m] <= mail[x] => \E k \in DOMAIN v : m = v[k]
      BY <2>2, <2>3
    <3>5. x \in DOMAIN mail' /\ mail'[x] = mail[x]
      BY <1>6, <3>1, <3>2 DEF Shrunk
    <3>6. {m \in DOMAIN mail' : mail'[m] <= mail'[x]}
            = {m \in DOMAIN mail : SeqNum(m) \notin said /\ mail[m] <= mail[x]}
      BY <1>6, <1>15, <3>2, <3>5 DEF Shrunk
    <3>7. Cardinality({m \in DOMAIN mail' : mail'[m] <= mail'[x]}) = NewNumber(v, said, n)
      BY <3>3, <3>6
    <3>8. ASSUME NEW m \in DOMAIN mail', mail'[m] <= mail'[x]
          PROVE  m \in Numbered(c)'
      <4>1. m \in DOMAIN mail /\ mail[m] <= mail[x] /\ SeqNum(m) \notin said
        BY <1>15, <3>2, <3>5, <3>8
      <4>2. PICK k \in DOMAIN v : m = v[k]
        BY <3>4, <4>1
      <4>3. k \notin said
        BY <2>2, <4>1, <4>2
      <4> QED
        BY <1>10, <4>2, <4>3
    <3> QED
      BY <1>1, <1>2, <1>5, <3>1, <3>5, <3>7, <3>8 DEF RowsOf
  <2>4. ASSUME NEW i \in DOMAIN w
        PROVE  /\ w[i] \in RowsOf(session[c].box)'
               /\ Cardinality({m \in DOMAIN mail' : mail'[m] <= mail'[w[i]]}) = i
               /\ \A m \in DOMAIN mail' : mail'[m] <= mail'[w[i]] => m \in Numbered(c)'
    <3>1. PICK n \in DOMAIN v \ said : i = NewNumber(v, said, n) /\ w[i] = v[n]
      BY <1>9
    <3> QED
      BY <2>3, <3>1
  <2> HIDE DEF s
  <2> QED
    BY <1>7, <2>4 DEF NumbersRight, SeqNum
<1>18. CacheRight(c)'
  <2>1. \A u \in DOMAIN cache[c] : u \in Nat
    BY <1>1 DEF TypeOK
  <2> QED
    BY <1>1, <1>14, <1>15, <2>1 DEF ClientInv, CacheRight
<1>19. FoundRight(c)'
  BY <1>2, <1>5 DEF FoundRight
<1>20. NoneOverlooked(c)'
  <2>0. s.box = box =>
          /\ synced[c] <= uidNext
          /\ ~s.miscounted => Cardinality(Unseen(c)) <= late
    BY <1>1 DEF ClientInv, NoneOverlooked
  <2>1. SUFFICES ASSUME s.box = box, ~s.miscounted
                 PROVE  Cardinality(Unseen(c)') <= late
    BY <1>1, <1>2, <1>5, <2>0 DEF NoneOverlooked
  <2>2. Cardinality(Unseen(c)) <= late
    BY <2>0, <2>1
  <2>3. Unseen(c)' \in SUBSET Unseen(c) /\ Unseen(c) \in SUBSET DOMAIN mail
    BY <1>1, <1>15 DEF Unseen
  <2>4. /\ Cardinality(Unseen(c)') <= Cardinality(Unseen(c))
        /\ Cardinality(Unseen(c)') \in Nat /\ Cardinality(Unseen(c)) \in Nat /\ late \in Nat
    BY <1>1, <2>3, MailFinite, FS_Subset, FS_CardinalityType DEF TypeOK
  <2> DEFINE k  == Cardinality(Unseen(c))
             k2 == Cardinality(Unseen(c)')
  <2>5. k2 <= k /\ k <= late /\ k \in Nat /\ k2 \in Nat /\ late \in Nat
    BY <2>2, <2>4
  <2> HIDE DEF k, k2
  <2>6. k2 <= late
    BY <2>5
  <2> QED
    BY <2>2, <2>6 DEF k2
<1>21. ClientInv(c)'
  BY <1>17, <1>18, <1>19, <1>20 DEF ClientInv
<1>22. \A d \in Clients : ClientInv(d)'
  BY <1>16, <1>21
<1> QED
  BY <1>1, <1>11, <1>12, <1>13, <1>22 DEF ViewInv, OnlyMeantDeleted

-----------------------------------------------------------------------------
(* The theorems *)

\* What clients believe keeps the inductive invariant through every step.
THEOREM ViewInvariant == Spec => []ViewInv
<1>1. ViewInv /\ [Next]_vars => ViewInv'
  <2> SUFFICES ASSUME ViewInv, [Next]_vars PROVE ViewInv'
    OBVIOUS
  <2>1. CASE Others
    BY <2>1, ArriveStep, TakeUidStep, MoveInStep, DeleteMailboxStep, CreateMailboxStep,
       PurgeStep, MarkElsewhereStep DEF Others
  <2>2. ASSUME NEW c \in Clients, Command(c) PROVE ViewInv'
    BY <2>2, OpenStep, StatusStep, ListMessagesStep, StoreByNumberStep, StoreByUidStep,
       SearchStep, StoreFoundStep, ExpungeSearchStep, ExpungeStep DEF Command
  <2>3. CASE Crash
    BY <2>3, CrashStep
  <2>4. CASE UNCHANGED vars
    BY <2>4, NothingHappens
  <2> QED
    BY <2>1, <2>2, <2>3, <2>4 DEF Next
<1> QED
  BY InitHolds, <1>1, PTL DEF Spec

\* The mailbox, the connections and the beliefs keep their types, and only
\* messages that are there are marked.
THEOREM ViewTyped == Spec => []TypeOK
<1>1. ViewInv => TypeOK
  BY DEF ViewInv
<1> QED
  BY ViewInvariant, <1>1, PTL

\* A client's numbers name what it takes them for through arrivals, marks and
\* its own EXPUNGEs, however fetchMessages counts the rows anew.
THEOREM NumbersHold == Spec => []ViewHolds
<1>1. ViewInv => ViewHolds
  BY DEF ViewInv, ClientInv, NumbersRight, ViewHolds
<1> QED
  BY ViewInvariant, <1>1, PTL

\* A STORE marks only what its client meant, by number, by uid or by what a
\* SEARCH found, whatever comes between the two commands.
THEOREM OnlyMeantIsDeleted == Spec => []OnlyMeantDeleted
<1>1. ViewInv => OnlyMeantDeleted
  BY DEF ViewInv
<1> QED
  BY ViewInvariant, <1>1, PTL

\* A uid in a cache is its message's for as long as the mailbox row lives.
THEOREM CacheIsTrue == Spec => []CacheTrue
<1>1. ViewInv => CacheTrue
  BY DEF ViewInv, ClientInv, CacheRight, CacheTrue
<1> QED
  BY ViewInvariant, <1>1, PTL

\* The UIDNEXT that Status tells hides no mail but what a web delete moved in
\* late, what a failed COUNT left out and, in a mailbox created anew, what the
\* client has old messages of the same uids for.
THEOREM NewMailIsFound == Spec => []NewMailFound
<1>1. ASSUME ViewInv, NEW c \in Clients
      PROVE  Missed(c) \ Masked(c) \subseteq Unseen(c)
  BY <1>1 DEF ViewInv, ClientInv, CacheRight, Missed, Masked, Unseen
<1>2. ViewInv => NewMailFound
  <2> SUFFICES ASSUME ViewInv, NEW c \in Clients, Ready(c), session[c].box = box,
                      ~session[c].miscounted
               PROVE  Cardinality(Missed(c) \ Masked(c)) <= late
    BY DEF NewMailFound
  <2> DEFINE S == Missed(c) \ Masked(c)
             U == Unseen(c)
  <2>1. Cardinality(U) <= late /\ TypeOK
    BY DEF ViewInv, ClientInv, NoneOverlooked, Ready
  <2>2. S \in SUBSET U /\ U \in SUBSET DOMAIN mail
    BY <1>1 DEF Unseen
  <2> HIDE DEF S, U
  <2>3. /\ Cardinality(S) <= Cardinality(U) /\ Cardinality(S) \in Nat
        /\ Cardinality(U) \in Nat /\ late \in Nat
    BY <2>1, <2>2, MailFinite, FS_Subset, FS_CardinalityType DEF TypeOK
  <2> DEFINE k == Cardinality(S)
             n == Cardinality(U)
  <2>4. k <= n /\ n <= late /\ k \in Nat /\ n \in Nat /\ late \in Nat
    BY <2>1, <2>3
  <2> HIDE DEF k, n
  <2>5. k <= late
    BY <2>4
  <2> QED
    BY <2>5 DEF k, S
<1> QED
  BY ViewInvariant, <1>2, PTL
=============================================================================
