-------------------------- MODULE RateLimiterProofs --------------------------
(***************************************************************************)
(* Proofs about the webmail's rate limiter, for any clients, rate, window  *)
(* and size of burst.                                                      *)
(***************************************************************************)
EXTENDS RateLimiter, TLAPS

(* What follows from the types *)

LEMMA Numbers ==
  /\ Rate \in Nat /\ Rate >= 1 /\ Window \in Nat /\ Window >= 1 /\ MaxBurst \in Nat
  /\ \A ip \in Ips : ip # "none"
BY LimiterAssumption

LEMMA EntryTyped ==
  ASSUME TypeOK, NEW ip \in Ips, Known(ip)
  PROVE  /\ visitors[ip] \in Visitor
         /\ visitors[ip].count \in Nat \ {0} /\ visitors[ip].resetIn \in -1 .. Window
BY DEF TypeOK, Known, Visitor

\* A request is counted once, and the reset stays.
LEMMA CountedIsVisitor ==
  ASSUME NEW v \in Visitor
  PROVE  /\ Counted(v) \in Visitor /\ Counted(v).resetIn = v.resetIn
         /\ Counted(v).count = v.count + 1
<1>1. v.count \in Nat \ {0} /\ v.resetIn \in -1 .. Window /\ v.count + 1 \in Nat \ {0}
  BY DEF Visitor
<1> QED
  BY <1>1 DEF Counted, Visitor

LEMMA NewIsVisitor == NewVisitor \in Visitor
BY Numbers DEF NewVisitor, Visitor

-----------------------------------------------------------------------------
(* The steps *)

LEMMA InitHolds == Init => LimiterInv
<1> SUFFICES ASSUME Init PROVE LimiterInv
  OBVIOUS
<1>1. DOMAIN visitors = {}
  BY DEF Init
<1>2. visitors \in [DOMAIN visitors -> Visitor]
  BY <1>1 DEF Init
<1> QED
  BY <1>1, <1>2, Numbers DEF Init, LimiterInv, TypeOK, Accounted, RefusedFull, Known

\* The entry that a request of ip leaves behind, and what it does to the count
\* of requests let through.
LEMMA AllowEffect ==
  ASSUME LimiterInv, NEW ip \in Ips, Allow(ip)
  PROVE  /\ DOMAIN visitors' = DOMAIN visitors \cup {ip}
         /\ visitors' \in [DOMAIN visitors' -> Visitor]
         /\ \A i \in DOMAIN visitors : i # ip => visitors'[i] = visitors[i]
         /\ passed' \in [Ips -> Nat]
         /\ \A i \in Ips : i # ip => passed'[i] = passed[i]
<1>1. /\ TypeOK /\ DOMAIN visitors \subseteq Ips
      /\ visitors \in [DOMAIN visitors -> Visitor] /\ passed \in [Ips -> Nat]
  BY DEF LimiterInv, TypeOK
<1>2. passed[ip] + 1 \in Nat
  BY <1>1
<1>3. CASE ~Known(ip) \/ Expired(visitors[ip])
  BY <1>1, <1>2, <1>3, NewIsVisitor DEF Allow, Granted
<1>4. CASE Known(ip) /\ ~Expired(visitors[ip])
  <2>1. visitors[ip] \in Visitor /\ ip \in DOMAIN visitors
    BY <1>1, <1>4, EntryTyped DEF Known
  <2>2. visitors' = [visitors EXCEPT ![ip] = Counted(@)]
    BY <1>4 DEF Allow
  <2>3. passed' = Granted(ip) \/ passed' = passed
    BY <1>4 DEF Allow
  <2> QED
    BY <1>1, <1>2, <2>1, <2>2, <2>3, CountedIsVisitor DEF Granted
<1> QED
  BY <1>3, <1>4

LEMMA AllowStep ==
  ASSUME LimiterInv, NEW ip \in Ips, Allow(ip)
  PROVE  LimiterInv'
<1>1. /\ TypeOK /\ Accounted(ip) /\ since \in 0 .. Window /\ sleep \in 0 .. Window
      /\ asked \in [Ips -> 0 .. MaxBurst]
      /\ passed \in [Ips -> Nat] /\ passed[ip] \in Nat
  BY DEF LimiterInv, TypeOK
<1>2. /\ since' = since /\ sleep' = sleep /\ refused' \in Ips \cup {"none"}
      /\ asked[ip] < MaxBurst /\ asked' = [asked EXCEPT ![ip] = @ + 1]
  BY DEF Allow
<1>3. asked' \in [Ips -> 0 .. MaxBurst]
  <2>1. asked[ip] + 1 \in 0 .. MaxBurst
    BY <1>1, <1>2, Numbers
  <2> QED
    BY <1>1, <1>2, <2>1
<1>4. TypeOK'
  BY <1>1, <1>2, <1>3, AllowEffect DEF TypeOK
<1>5. Accounted(ip)' /\ RefusedFull'
  <2>1. CASE ~Known(ip) \/ Expired(visitors[ip])
    <3>1. /\ ip \in DOMAIN visitors' /\ visitors'[ip] = NewVisitor
          /\ passed'[ip] = passed[ip] + 1 /\ refused' = "none"
      BY <1>1, <2>1 DEF Allow, Granted
    <3>2. passed[ip] <= Rate
      BY <1>1, <2>1 DEF Accounted
    <3> QED
      BY <1>1, <1>2, <3>1, <3>2, Numbers
         DEF Accounted, RefusedFull, Known, Expired, SeenWhole, Let, NewVisitor
  <2>2. CASE Known(ip) /\ ~Expired(visitors[ip])
    <3> DEFINE v == visitors[ip]
               w == visitors'[ip]
    <3>1. v \in Visitor /\ v.count \in Nat \ {0} /\ v.resetIn \in -1 .. Window
      BY <1>1, <2>2, EntryTyped
    <3>2. ip \in DOMAIN visitors /\ visitors' = [visitors EXCEPT ![ip] = Counted(@)]
      BY <2>2 DEF Allow, Known
    <3>3. /\ ip \in DOMAIN visitors' /\ w.resetIn = v.resetIn
          /\ w.count = v.count + 1
      BY <3>1, <3>2, CountedIsVisitor
    <3>4. IF w.count <= Rate
          THEN passed'[ip] = passed[ip] + 1 /\ refused' = "none"
          ELSE passed'[ip] = passed[ip] /\ refused' = ip
      BY <1>1, <2>2 DEF Allow, Granted
    <3> HIDE DEF v, w
    <3>5. /\ v.resetIn >= 0 /\ w.resetIn >= 0
          /\ IF Window - v.resetIn <= since
             THEN /\ (IF v.count > Rate THEN Rate ELSE v.count) <= passed[ip]
                  /\ passed[ip] <= Rate + (IF v.count > Rate THEN Rate ELSE v.count)
             ELSE passed[ip] <= (IF v.count > Rate THEN Rate ELSE v.count)
      BY <1>1, <2>2, <3>1, <3>3 DEF Accounted, SeenWhole, Let, Expired, v
    <3>6. IF Window - w.resetIn <= since
          THEN /\ (IF w.count > Rate THEN Rate ELSE w.count) <= passed'[ip]
               /\ passed'[ip] <= Rate + (IF w.count > Rate THEN Rate ELSE w.count)
          ELSE passed'[ip] <= (IF w.count > Rate THEN Rate ELSE w.count)
      BY <1>1, <3>1, <3>3, <3>4, <3>5, Numbers
    <3>7. Accounted(ip)'
      <4>1. ip \in DOMAIN visitors' /\ ~(w.resetIn < 0)
        BY <3>1, <3>3, <3>5
      <4> QED
        BY <1>2, <3>6, <4>1 DEF Accounted, SeenWhole, Let, Expired, Known, w
    <3>8. RefusedFull'
      BY <3>1, <3>3, <3>4, <3>5, Numbers DEF RefusedFull, Known, Expired, w
    <3> QED
      BY <3>7, <3>8
  <2> QED
    BY <2>1, <2>2
<1>6. ASSUME NEW i \in Ips, i # ip
      PROVE  Accounted(i)'
  <2>1. Accounted(i)
    BY DEF LimiterInv
  <2>2. /\ passed'[i] = passed[i]
        /\ i \in DOMAIN visitors' <=> i \in DOMAIN visitors
        /\ i \in DOMAIN visitors => visitors'[i] = visitors[i]
    <3>1. /\ DOMAIN visitors' = DOMAIN visitors \cup {ip}
          /\ \A j \in DOMAIN visitors : j # ip => visitors'[j] = visitors[j]
          /\ \A j \in Ips : j # ip => passed'[j] = passed[j]
      BY AllowEffect
    <3> QED
      BY <1>6, <3>1
  <2> QED
    BY <1>2, <2>1, <2>2 DEF Accounted, SeenWhole, Let, Expired, Known
<1> QED
  BY <1>4, <1>5, <1>6 DEF LimiterInv

LEMMA CleanupStep == LimiterInv /\ Cleanup => LimiterInv'
<1> SUFFICES ASSUME LimiterInv, Cleanup PROVE LimiterInv'
  OBVIOUS
<1>1. /\ DOMAIN visitors' = DOMAIN visitors \ Forgotten /\ DOMAIN visitors \subseteq Ips
      /\ \A i \in DOMAIN visitors' : visitors'[i] = visitors[i]
      /\ visitors' \in [DOMAIN visitors' -> Visitor]
      /\ since' = since /\ passed' = passed /\ refused' = "none"
  BY DEF Cleanup, LimiterInv, TypeOK
<1>2. TypeOK'
  BY <1>1, Numbers DEF Cleanup, LimiterInv, TypeOK
<1>3. ASSUME NEW i \in Ips
      PROVE  Accounted(i)'
  <2>1. Accounted(i)
    BY DEF LimiterInv
  <2>2. CASE i \in DOMAIN visitors'
    BY <1>1, <2>1, <2>2 DEF Accounted, Known, Expired, SeenWhole, Let
  <2>3. CASE i \notin DOMAIN visitors'
    <3>1. ~Known(i) \/ Expired(visitors[i])
      BY <1>1, <2>3 DEF Forgotten, Known
    <3> QED
      BY <1>1, <2>1, <2>3, <3>1 DEF Accounted, Known
  <2> QED
    BY <2>2, <2>3
<1> QED
  BY <1>1, <1>2, <1>3 DEF LimiterInv, RefusedFull

LEMMA TickStep == LimiterInv /\ Tick => LimiterInv'
<1> SUFFICES ASSUME LimiterInv, Tick PROVE LimiterInv'
  OBVIOUS
<1>1. /\ TypeOK /\ DOMAIN visitors \subseteq Ips
      /\ visitors \in [DOMAIN visitors -> Visitor]
      /\ since \in 0 .. Window /\ sleep \in 0 .. Window /\ passed \in [Ips -> Nat]
  BY DEF LimiterInv, TypeOK
<1>2. DOMAIN visitors' = DOMAIN visitors /\ refused' = "none"
  BY DEF Tick
<1>3. ASSUME NEW i \in DOMAIN visitors
      PROVE  /\ visitors'[i] \in Visitor /\ visitors'[i].count = visitors[i].count
             /\ visitors'[i].resetIn =
                  IF visitors[i].resetIn < 0 THEN visitors[i].resetIn
                  ELSE visitors[i].resetIn - 1
  <2>1. visitors[i] \in Visitor
    BY <1>1
  <2>2. visitors[i].resetIn \in -1 .. Window
    BY <2>1 DEF Visitor
  <2>3. (IF visitors[i].resetIn < 0 THEN visitors[i].resetIn
         ELSE visitors[i].resetIn - 1) \in -1 .. Window
    BY <2>2, Numbers
  <2>4. visitors'[i] = [visitors[i] EXCEPT !.resetIn = IF @ < 0 THEN @ ELSE @ - 1]
    BY DEF Tick
  <2> QED
    BY <2>1, <2>3, <2>4 DEF Visitor
<1>4. visitors' \in [DOMAIN visitors' -> Visitor]
  BY <1>2, <1>3 DEF Tick
<1>5. \/ /\ since < Window /\ since' = since + 1 /\ passed' = passed
      \/ /\ since' = 0 /\ passed' = [i \in Ips |-> 0]
  BY DEF Tick, GoOn, BeginAnew
<1>6. TypeOK'
  <2>1. sleep' \in 0 .. Window /\ since' \in 0 .. Window /\ passed' \in [Ips -> Nat]
    BY <1>1, <1>5, Numbers, SMTT(20) DEF Tick
  <2>2. asked' \in [Ips -> 0 .. MaxBurst]
    BY Numbers DEF Tick
  <2> QED
    BY <1>1, <1>2, <1>4, <2>1, <2>2 DEF TypeOK
<1>7. ASSUME NEW i \in Ips
      PROVE  Accounted(i)'
  <2>1. Accounted(i) /\ passed[i] \in Nat /\ Known(i)' = Known(i)
    BY <1>1, <1>2 DEF LimiterInv, Known
  <2>2. CASE ~Known(i)
    <3>1. passed[i] <= Rate /\ (passed'[i] = passed[i] \/ passed'[i] = 0)
      BY <1>5, <2>1, <2>2 DEF Accounted
    <3> QED
      BY <2>1, <2>2, <3>1, Numbers DEF Accounted
  <2>3. CASE Known(i)
    <3> DEFINE v == visitors[i]
               w == visitors'[i]
               c == IF v.count > Rate THEN Rate ELSE v.count
    <3>1. v.count \in Nat \ {0} /\ v.resetIn \in -1 .. Window
      BY <1>1, <2>3, EntryTyped
    <3>2. /\ w.count = v.count
          /\ w.resetIn = IF v.resetIn < 0 THEN v.resetIn ELSE v.resetIn - 1
      BY <1>3, <2>3 DEF Known
    <3>3. IF v.resetIn >= 0
          THEN IF Window - v.resetIn <= since
               THEN c <= passed[i] /\ passed[i] <= Rate + c
               ELSE passed[i] <= c
          ELSE passed[i] <= Rate
      BY <2>1, <2>3, <3>1 DEF Accounted, SeenWhole, Let, Expired
    <3>4. c \in 1 .. Rate
      BY <3>1, Numbers
    <3>5. \/ since < Window /\ since' = since + 1 /\ passed'[i] = passed[i]
          \/ since' = 0 /\ passed'[i] = 0
      BY <1>5
    <3> HIDE DEF v, w, c
    <3>6. IF w.resetIn >= 0
          THEN IF Window - w.resetIn <= since'
               THEN c <= passed'[i] /\ passed'[i] <= Rate + c
               ELSE passed'[i] <= c
          ELSE passed'[i] <= Rate
      BY <1>1, <2>1, <3>1, <3>2, <3>3, <3>4, <3>5, Numbers
    <3>7. w.resetIn \in Int
      BY <3>1, <3>2
    <3> QED
      BY <2>1, <2>3, <3>2, <3>6, <3>7 DEF Accounted, SeenWhole, Let, Expired, v, w, c
  <2> QED
    BY <2>2, <2>3
<1> QED
  BY <1>2, <1>6, <1>7 DEF LimiterInv, RefusedFull

-----------------------------------------------------------------------------
(* The theorems *)

\* The inductive invariant: what the observer counted is explained by the
\* entry, and a client just refused has a full one.
THEOREM LimiterInvariant == Spec => []LimiterInv
<1>1. LimiterInv /\ UNCHANGED vars => LimiterInv'
  BY DEF vars, LimiterInv, TypeOK, Accounted, RefusedFull, Known, Expired, SeenWhole, Let
<1>2. LimiterInv /\ [Next]_vars => LimiterInv'
  BY <1>1, AllowStep, CleanupStep, TickStep DEF Next
<1> QED
  BY InitHolds, <1>2, PTL DEF Spec

\* Entries, ghosts and the sleep hold values of their types: an entry counts the
\* request that made it, and its reset is at most a window away (visitor, Allow).
THEOREM LimiterTyped == Spec => []TypeOK
<1>1. LimiterInv => TypeOK
  BY DEF LimiterInv
<1> QED
  BY <1>1, LimiterInvariant, PTL

\* Whatever the traffic and however late the cleanup, no client gets more than
\* two windows' worth of requests through in a window's length (Allow, cleanup).
THEOREM TwiceAtMost == Spec => []AtMostTwice
<1>1. LimiterInv => AtMostTwice
  <2> SUFFICES ASSUME LimiterInv, NEW ip \in Ips PROVE passed[ip] <= 2 * Rate
    BY DEF AtMostTwice
  <2>1. TypeOK /\ Accounted(ip) /\ passed[ip] \in Nat
    BY DEF LimiterInv, TypeOK
  <2>2. Known(ip) => Let(ip) <= Rate /\ Let(ip) \in Nat
    BY <2>1, EntryTyped, Numbers DEF Let
  <2> QED
    BY <2>1, <2>2, Numbers DEF Accounted
<1> QED
  BY <1>1, LimiterInvariant, PTL

\* A 429 is earned: the client had Rate requests let through in the window's
\* length before it (Allow).
THEOREM RefusalsAreEarned == Spec => []RefusalsEarned
<1>1. LimiterInv => RefusalsEarned
  <2> SUFFICES ASSUME LimiterInv, refused # "none", since = Window
               PROVE  passed[refused] >= Rate
    BY DEF RefusalsEarned
  <2>1. /\ TypeOK /\ refused \in Ips /\ Known(refused) /\ ~Expired(visitors[refused])
        /\ visitors[refused].count > Rate /\ Accounted(refused)
    BY DEF LimiterInv, TypeOK, RefusedFull
  <2>2. visitors[refused].resetIn \in -1 .. Window /\ visitors[refused].resetIn >= 0
    BY <2>1, EntryTyped DEF Expired
  <2>3. SeenWhole(refused) /\ Let(refused) = Rate
    BY <2>1, <2>2, Numbers DEF SeenWhole, Let
  <2> QED
    BY <2>1, <2>3, Numbers DEF Accounted, TypeOK
<1> QED
  BY <1>1, LimiterInvariant, PTL

=============================================================================
