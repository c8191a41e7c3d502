-------------------------- MODULE SmtpSessionsProofs --------------------------
(* Theorems about SmtpSessions, for every value of its constants. *)
EXTENDS SmtpSessions, FiniteSetTheorems, SequenceTheorems, TLAPS

-----------------------------------------------------------------------------
(* Lemmas about sequences and sets *)

\* The loop's next address leaves what is before it.
LEMMA RangeOfTail ==
  ASSUME NEW S, NEW q \in Seq(S), q # << >>, IsInjective(q)
  PROVE  /\ Head(q) \in Range(q) /\ Head(q) \in S
         /\ Tail(q) \in Seq(S) /\ IsInjective(Tail(q))
         /\ Range(Tail(q)) = Range(q) \ {Head(q)}
<1>1. /\ Len(q) \in Nat /\ Len(q) # 0 /\ DOMAIN q = 1 .. Len(q)
      /\ Tail(q) \in Seq(S) /\ Head(q) = q[1] /\ Len(Tail(q)) = Len(q) - 1
      /\ \A i \in 1 .. Len(q) - 1 : Tail(q)[i] = q[i + 1]
      /\ DOMAIN Tail(q) = 1 .. Len(q) - 1
  BY EmptySeq, HeadTailProperties, LenProperties
<1>2. Head(q) \in Range(q) /\ Head(q) \in S
  BY <1>1 DEF Range
<1>3. IsInjective(Tail(q))
  BY <1>1 DEF IsInjective
<1>4. \A x \in Range(Tail(q)) : x \in Range(q) \ {Head(q)}
  BY <1>1 DEF Range, IsInjective
<1>5. ASSUME NEW x \in Range(q) \ {Head(q)}
      PROVE  x \in Range(Tail(q))
  <2>1. PICK i \in 1 .. Len(q) : q[i] = x
    BY <1>1 DEF Range
  <2>2. i # 1 /\ i - 1 \in 1 .. Len(q) - 1 /\ Tail(q)[i - 1] = x
    BY <1>1, <2>1
  <2> QED
    BY <1>1, <2>2 DEF Range
<1> QED
  BY <1>1, <1>2, <1>3, <1>4, <1>5

LEMMA TailIsShorter ==
  ASSUME NEW S, NEW q \in Seq(S), q # << >>
  PROVE  Head(q) \in S /\ Tail(q) # q
<1> DEFINE n == Len(q)
<1>1. n \in Nat /\ Head(q) \in S /\ Len(Tail(q)) = n - 1
  BY HeadTailProperties, LenProperties
<1>2. Tail(q) = q => Len(Tail(q)) = n
  OBVIOUS
<1> HIDE DEF n
<1>3. n - 1 # n
  BY <1>1
<1> QED
  BY <1>1, <1>2, <1>3

\* One more recipient.
LEMMA RangeOfAppend ==
  ASSUME NEW S, NEW q \in Seq(S), NEW x \in S
  PROVE  /\ Append(q, x) \in Seq(S)
         /\ Range(Append(q, x)) = Range(q) \cup {x}
         /\ (IsInjective(q) /\ x \notin Range(q)) => IsInjective(Append(q, x))
<1>1. /\ Append(q, x) \in Seq(S) /\ Len(q) \in Nat /\ DOMAIN q = 1 .. Len(q)
      /\ DOMAIN Append(q, x) = 1 .. Len(q) + 1
      /\ \A i \in 1 .. Len(q) : Append(q, x)[i] = q[i]
      /\ Append(q, x)[Len(q) + 1] = x
  BY AppendProperties, LenProperties
<1>2. Range(Append(q, x)) = Range(q) \cup {x}
  BY <1>1 DEF Range
<1>3. ASSUME IsInjective(q), x \notin Range(q)
      PROVE  IsInjective(Append(q, x))
  BY <1>1, <1>3 DEF IsInjective, Range
<1> QED
  BY <1>1, <1>2, <1>3

LEMMA EmptyRange ==
  /\ Range(<< >>) = {} /\ IsInjective(<< >>)
  /\ \A S : << >> \in Seq(S)
BY EmptySeq DEF Range, IsInjective

LEMMA SingleRange ==
  ASSUME NEW S, NEW x \in S
  PROVE  /\ <<x>> \in Seq(S) /\ <<x>> # << >>
         /\ Range(<<x>>) = {x} /\ IsInjective(<<x>>)
BY DEF Range, IsInjective

\* A session before its first message.
LEMMA NewSessionFacts ==
  /\ NewSession \in Session
  /\ NewSession.pc = "idle" /\ NewSession.user = Nil /\ NewSession.msg = Nil
  /\ NewSession.to = << >> /\ NewSession.left = << >> /\ NewSession.asked = {}
  /\ NewSession.live = TRUE
BY EmptyRange DEF NewSession, Session

-----------------------------------------------------------------------------
(* What each action does to its session *)

\* Only the session s changes.
OnlyOf(s) ==
  /\ s \in Sessions /\ sess' \in [Sessions -> Session]
  /\ \A t \in Sessions \ {s} : sess'[t] = sess[t]

LEMMA OnlyOfOne ==
  ASSUME sess \in [Sessions -> Session], NEW s \in Sessions, NEW r \in Session,
         sess' = [sess EXCEPT ![s] = r]
  PROVE  OnlyOf(s) /\ sess'[s] = r
BY DEF OnlyOf

LEMMA AuthEffect ==
  ASSUME TypeOK, NEW s \in Submission, NEW u \in Names, Auth(s, u)
  PROVE  /\ OnlyOf(s) /\ sess[s].pc = "idle"
         /\ sess'[s] = [sess[s] EXCEPT !.user = u]
         /\ sess'[s].pc = sess[s].pc /\ sess'[s].user = u
         /\ sess'[s].msg = sess[s].msg /\ sess'[s].to = sess[s].to
         /\ sess'[s].left = sess[s].left /\ sess'[s].asked = sess[s].asked
         /\ sess'[s].live = sess[s].live
BY ZenonT(30) DEF TypeOK, Auth, OnlyOf, Session, Sessions

LEMMA MailEffect ==
  ASSUME TypeOK, NEW s \in Inbound \cup Submission, NEW m \in Msgs, Mail(s, m)
  PROVE  /\ OnlyOf(s)
         /\ sess'[s].pc = "open" /\ sess'[s].user = sess[s].user
         /\ sess'[s].msg = m /\ sess'[s].to = sess[s].to
         /\ sess'[s].left = sess[s].left /\ sess'[s].asked = sess[s].asked
         /\ sess'[s].live = sess[s].live
BY DEF TypeOK, Mail, OnlyOf, Session, Sessions

LEMMA RcptEffect ==
  ASSUME TypeOK, NEW s \in Inbound \cup Submission, NEW a \in Addresses, Rcpt(s, a),
         sess' # sess
  PROVE  /\ OnlyOf(s) /\ UNCHANGED awaited
         /\ sess'[s].pc = sess[s].pc /\ sess'[s].user = sess[s].user
         /\ sess'[s].msg = sess[s].msg /\ sess'[s].to = Append(sess[s].to, a)
         /\ sess'[s].left = sess[s].left /\ sess'[s].asked = sess[s].asked \cup {a}
         /\ sess'[s].live = sess[s].live
<1>1. sess[s].to \in Seq(Addresses) /\ Append(sess[s].to, a) \in Seq(Addresses)
  BY RangeOfAppend DEF TypeOK, Session, Sessions
<1>2. /\ sess' = [sess EXCEPT ![s].to = Append(@, a), ![s].asked = @ \cup {a}]
      /\ UNCHANGED awaited
  BY DEF Rcpt, Rejected, Fault
<1> QED
  BY <1>1, <1>2, ZenonT(30) DEF TypeOK, OnlyOf, Session, Sessions

LEMMA ClearedFacts ==
  ASSUME NEW r \in Session
  PROVE  /\ Cleared(r) \in Session
         /\ Cleared(r).pc = "idle" /\ Cleared(r).user = r.user /\ Cleared(r).msg = Nil
         /\ Cleared(r).to = << >> /\ Cleared(r).left = r.left
         /\ Cleared(r).asked = {} /\ Cleared(r).live = r.live
BY EmptyRange DEF Cleared, Session

\* A session ends or is reset.
LEMMA EndEffect ==
  ASSUME TypeOK, NEW s \in Sessions,
         sess' = [sess EXCEPT ![s] = NewSession] \/ sess' = [sess EXCEPT ![s] = Cleared(@)]
  PROVE  /\ OnlyOf(s)
         /\ sess'[s].pc = "idle" /\ sess'[s].user \in {Nil, sess[s].user}
         /\ sess'[s].msg = Nil /\ sess'[s].to = << >> /\ sess'[s].asked = {}
         /\ sess'[s].live \in {TRUE, sess[s].live}
<1>1. sess \in [Sessions -> Session] /\ sess[s] \in Session
  BY DEF TypeOK
<1>2. Cleared(sess[s]) \in Session /\ NewSession \in Session
  BY <1>1, ClearedFacts, NewSessionFacts
<1>3. CASE sess' = [sess EXCEPT ![s] = NewSession]
  BY <1>1, <1>2, <1>3, OnlyOfOne, NewSessionFacts
<1>4. CASE sess' = [sess EXCEPT ![s] = Cleared(@)]
  <2>1. OnlyOf(s) /\ sess'[s] = Cleared(sess[s])
    BY <1>1, <1>2, <1>4 DEF OnlyOf
  <2> QED
    BY <1>1, <2>1, ClearedFacts
<1> QED
  BY <1>3, <1>4

LEMMA DataEffect ==
  ASSUME TypeOK, NEW s \in Inbound \cup Submission, Data(s)
  PROVE  /\ OnlyOf(s)
         /\ sess'[s].pc = "data" /\ sess'[s].user = sess[s].user
         /\ sess'[s].msg = sess[s].msg /\ sess'[s].to = sess[s].to
         /\ sess'[s].left = sess[s].to /\ sess'[s].asked = sess[s].asked
         /\ sess'[s].live = sess[s].live
BY DEF TypeOK, Data, OnlyOf, Session, Sessions

LEMMA ComposeEffect ==
  ASSUME TypeOK, NEW s \in Requests, NEW m \in Msgs, Compose(s, m)
  PROVE  \E a \in awaited[m] :
           /\ a \in Addresses /\ awaited[m] = {a} /\ OnlyOf(s)
           /\ sess'[s].pc = "data" /\ sess'[s].user = Author[m] /\ Author[m] # Nil
           /\ sess'[s].msg = m /\ sess'[s].to = <<a>> /\ sess'[s].left = <<a>>
           /\ sess'[s].asked = {a} /\ sess'[s].live = TRUE
<1>1. PICK a \in awaited[m] :
        /\ awaited[m] = {a}
        /\ sess' = [sess EXCEPT ![s] =
             [NewSession EXCEPT !.pc = "data", !.user = Author[m], !.msg = m,
                                !.to = <<a>>, !.left = <<a>>, !.asked = {a}]]
  BY DEF Compose
<1> DEFINE r == [NewSession EXCEPT !.pc = "data", !.user = Author[m], !.msg = m,
                                   !.to = <<a>>, !.left = <<a>>, !.asked = {a}]
<1>2. a \in Addresses /\ <<a>> \in Seq(Addresses)
  BY SingleRange DEF TypeOK
<1>3. Author[m] \in Names /\ Author[m] # Nil
  BY SessionsAssumption DEF Compose, TypeOK
<1>4. /\ r \in Session /\ r.pc = "data" /\ r.user = Author[m] /\ r.msg = m
      /\ r.to = <<a>> /\ r.left = <<a>> /\ r.asked = {a} /\ r.live = TRUE
  BY <1>2, <1>3, NewSessionFacts DEF Session
<1> HIDE DEF r
<1>5. s \in Sessions /\ sess \in [Sessions -> Session] /\ sess' = [sess EXCEPT ![s] = r]
  BY <1>1 DEF TypeOK, Sessions, r
<1>6. OnlyOf(s) /\ sess'[s] = r
  BY <1>4, <1>5, OnlyOfOne
<1> QED
  BY <1>1, <1>2, <1>3, <1>4, <1>6

\* The loop takes its next step, or ends.
LEMMA LoopEffect ==
  ASSUME TypeOK, NEW s \in Sessions,
         NEW q \in {sess[s].left, Tail(sess[s].left)}, NEW pc \in {"data", "250", "451"},
         sess[s].left = << >> => q = sess[s].left,
         sess' = [sess EXCEPT ![s].left = q, ![s].pc = pc]
  PROVE  /\ OnlyOf(s)
         /\ sess'[s].pc = pc /\ sess'[s].user = sess[s].user
         /\ sess'[s].msg = sess[s].msg /\ sess'[s].to = sess[s].to
         /\ sess'[s].left = q /\ sess'[s].asked = sess[s].asked
         /\ sess'[s].live = sess[s].live
<1>1. sess[s].left \in Seq(Addresses) /\ q \in Seq(Addresses)
  <2>1. sess[s].left \in Seq(Addresses)
    BY DEF TypeOK, Session
  <2>2. sess[s].left # << >> => Tail(sess[s].left) \in Seq(Addresses)
    BY <2>1, HeadTailProperties
  <2> QED
    BY <2>1, <2>2
<1> QED
  BY <1>1, ZenonT(30) DEF TypeOK, OnlyOf, Session

LEMMA HangUpEffect ==
  ASSUME TypeOK, NEW s \in Sessions, HangUp(s)
  PROVE  /\ OnlyOf(s)
         /\ sess'[s].pc = sess[s].pc /\ sess'[s].user = sess[s].user
         /\ sess'[s].msg = sess[s].msg /\ sess'[s].to = sess[s].to
         /\ sess'[s].left = sess[s].left /\ sess'[s].asked = sess[s].asked
         /\ sess'[s].live = FALSE
BY DEF TypeOK, HangUp, OnlyOf, Session

-----------------------------------------------------------------------------
(* Frames *)

\* The budget's terms are numbers.
LEMMA BudgetTyped ==
  ASSUME TypeOK, CopiesBudgeted, NEW m \in Msgs, NEW a \in Addresses
  PROVE  /\ IsFiniteSet(Deserted(m, a)) /\ Cardinality(Deserted(m, a)) \in Nat
         /\ copies[m][a] \in Nat /\ again[m] \in Nat
<1>1. Deserted(m, a) \in SUBSET {s \in Sessions : ~sess[s].live}
  BY DEF Deserted
<1>2. IsFiniteSet(Deserted(m, a))
  BY <1>1, FS_Subset DEF CopiesBudgeted
<1>3. Cardinality(Deserted(m, a)) \in Nat
  BY <1>2, FS_CardinalityType
<1> QED
  BY <1>2, <1>3 DEF TypeOK

\* The other sessions stay coherent: nothing they depend on shrinks.
LEMMA OthersCoherent ==
  ASSUME SessionsInv, NEW s \in Sessions, OnlyOf(s), NEW t \in Sessions \ {s},
         sess[t].live /\ sess[t].msg # Nil =>
           /\ awaited'[sess[t].msg] = awaited[sess[t].msg]
           /\ sess'[s].live => sess'[s].msg # sess[t].msg,
         \A m \in Msgs : told[m] \subseteq told'[m],
         \A m \in Msgs, a \in Addresses : Served(m, a) => Served(m, a)'
  PROVE  Coherent(t)'
<1>1. Coherent(t) /\ TypeOK /\ sess'[t] = sess[t]
  BY DEF SessionsInv, OnlyOf
<1>2. sess[t] \in Session
  BY <1>1 DEF TypeOK
<1>3. OfOneMessage(t)' /\ RecipientsOnce(t)'
  BY <1>1 DEF Coherent, OfOneMessage, RecipientsOnce, Busy
<1>4. OneAttempt(t)'
  <2> SUFFICES ASSUME sess[t].live, sess[t].msg # Nil
               PROVE  /\ \A w \in Sessions :
                           sess'[w].live /\ sess'[w].msg = sess[t].msg => w = t
                      /\ sess[t].asked \subseteq awaited'[sess[t].msg]
                      /\ Busy(t) => sess[t].asked = awaited'[sess[t].msg]
    BY <1>1 DEF OneAttempt, Busy
  <2> QED
    BY <1>1 DEF OneAttempt, OnlyOf, Coherent
<1>5. sess[t].msg # Nil => sess[t].msg \in Msgs
  BY <1>2 DEF Session
<1>6. Busy(t) => sess[t].msg # Nil
  BY <1>1 DEF Busy, Coherent, OfOneMessage
<1>7. NoneLeftOut(t)'
  BY <1>1, <1>5, <1>6 DEF NoneLeftOut, Busy, Coherent
<1>8. ServedBehind(t)'
  <2> SUFFICES ASSUME Busy(t), NEW a \in sess[t].asked \ Range(sess[t].left)
               PROVE  Served(sess[t].msg, a)'
    BY <1>1 DEF ServedBehind, Busy, Served
  <2>1. sess[t].msg \in Msgs /\ a \in Addresses
    BY <1>2, <1>5, <1>6 DEF Session
  <2>2. Served(sess[t].msg, a)
    BY <1>1 DEF Coherent, ServedBehind
  <2>3. \A m \in Msgs, b \in Addresses : Served(m, b) => Served(m, b)'
    OBVIOUS
  <2> QED
    BY <1>1, <2>1, <2>2, <2>3 DEF Served
<1> QED
  BY <1>3, <1>4, <1>7, <1>8 DEF Coherent

\* A step of the session s before DATA, or of Data itself, or of the end of the
\* loop: neither ledgers nor ghosts change, and no address is served.
LEMMA Quiet ==
  ASSUME SessionsInv, NEW s \in Sessions, OnlyOf(s), sess[s].live <=> sess'[s].live,
         UNCHANGED <<faults, awaited, told, copies, sent, dropped, again>>,
         users' \subseteq Names,
         sess'[s].pc = "idle" => sess'[s].to = << >>,
         OfOneMessage(s)', RecipientsOnce(s)', NoneLeftOut(s)', ServedBehind(s)',
         \/ sess'[s].msg \in {Nil, sess[s].msg}
         \/ \A t \in Sessions : sess[t].live => sess[t].msg # sess'[s].msg,
         sess'[s].live /\ sess'[s].msg # Nil =>
           /\ sess'[s].asked \subseteq awaited[sess'[s].msg]
           /\ Busy(s)' => sess'[s].asked = awaited[sess'[s].msg],
         \/ ~Busy(s)
         \/ Busy(s)' /\ sess'[s].msg = sess[s].msg /\ sess'[s].left = sess[s].left
  PROVE  SessionsInv'
<1>1. /\ TypeOK /\ LedgerKept /\ CopiesBudgeted
      /\ AckedDelivered /\ NotMisdelivered /\ SentIsSent
      /\ \A t \in Sessions : Coherent(t)
  BY DEF SessionsInv
<1>2. TypeOK'
  BY <1>1 DEF TypeOK, OnlyOf
<1>3. LedgerKept' /\ AckedDelivered' /\ NotMisdelivered' /\ SentIsSent'
  BY <1>1 DEF LedgerKept, AckedDelivered, NotMisdelivered, SentIsSent
<1>4. ASSUME NEW t \in Sessions, t # s, sess[t].live, sess[t].msg # Nil, sess'[s].live
      PROVE  sess'[s].msg # sess[t].msg
  BY <1>1, <1>4 DEF Coherent, OneAttempt
<1>5. \A t \in Sessions \ {s} : Coherent(t)'
  <2> TAKE t \in Sessions \ {s}
  <2>1. \A m \in Msgs : told[m] \subseteq told'[m]
    OBVIOUS
  <2>2. \A m \in Msgs, a \in Addresses : Served(m, a) => Served(m, a)'
    BY DEF Served
  <2> QED
    BY <1>4, <2>1, <2>2, OthersCoherent
<1>6. OneAttempt(s)'
  <2> SUFFICES ASSUME sess'[s].live, sess'[s].msg # Nil
               PROVE  \A t \in Sessions : sess'[t].live /\ sess'[t].msg = sess'[s].msg => t = s
    BY DEF OneAttempt
  <2> SUFFICES ASSUME NEW t \in Sessions, t # s, sess[t].live, sess[t].msg = sess'[s].msg
               PROVE  FALSE
    BY DEF OnlyOf
  <2> QED
    BY <1>4
<1>7. Coherent(s)'
  BY <1>6 DEF Coherent
<1>8. CopiesBudgeted'
  <2>1. {t \in Sessions : ~sess'[t].live} = {t \in Sessions : ~sess[t].live}
    BY DEF OnlyOf
  <2>2. ~sess[s].live => Busy(s)
    BY <1>1 DEF Coherent, OfOneMessage
  <2>3. ASSUME NEW m \in Msgs, NEW a \in Addresses
        PROVE  Deserted(m, a)' = Deserted(m, a) /\ (Due(m, a)' => Due(m, a))
    <3>1. Deserted(m, a)' = Deserted(m, a)
      BY <2>2 DEF Deserted, OnlyOf
    <3>2. Due(m, a)' => Due(m, a)
      BY DEF Due, OnlyOf, Busy
    <3> QED
      BY <3>1, <3>2
  <2>4. ASSUME NEW m \in Msgs, NEW a \in Addresses
        PROVE  copies'[m][a] + Cardinality(Deserted(m, a)') + (IF Due(m, a)' THEN 1 ELSE 0)
                 <= 1 + again'[m]
    <3>1. copies[m][a] + Cardinality(Deserted(m, a)) + (IF Due(m, a) THEN 1 ELSE 0)
            <= 1 + again[m]
      BY <1>1 DEF CopiesBudgeted
    <3>2. Cardinality(Deserted(m, a)) \in Nat /\ copies[m][a] \in Nat /\ again[m] \in Nat
      BY <1>1, BudgetTyped
    <3> QED
      BY <2>3, <3>1, <3>2
  <2> QED
    BY <1>1, <2>1, <2>4 DEF CopiesBudgeted
<1> QED
  BY <1>2, <1>3, <1>5, <1>7, <1>8 DEF SessionsInv

\* A step of the loop of Data or of its end: nobody awaits less, and what the
\* loop leaves behind is served.
LEMMA Progress ==
  ASSUME SessionsInv, NEW s \in Sessions, OnlyOf(s), sess[s].pc = "data",
         sess'[s].pc \in {"data", "250", "451"},
         sess'[s].user = sess[s].user, sess'[s].msg = sess[s].msg,
         sess'[s].to = sess[s].to, sess'[s].asked = sess[s].asked,
         sess'[s].live = sess[s].live,
         \/ sess'[s].left = sess[s].left
         \/ sess[s].left # << >> /\ sess'[s].left = Tail(sess[s].left),
         sess'[s].pc = "250" => sess'[s].left = << >>,
         UNCHANGED <<users, awaited, told, again>>,
         faults' \in Nat, copies' \in [Msgs -> [Addresses -> Nat]],
         dropped \subseteq dropped', dropped' \subseteq Msgs \X Addresses,
         \A m \in Msgs, a \in Addresses :
           \/ copies'[m][a] = copies[m][a]
           \/ /\ m = sess[s].msg /\ copies'[m][a] = copies[m][a] + 1
              /\ sess'[s].left # sess[s].left /\ a = Head(sess[s].left),
         sess'[s].left # sess[s].left =>
           \E a \in Addresses : a = Head(sess[s].left) /\ Served(sess[s].msg, a)',
         \/ UNCHANGED sent
         \/ /\ s \notin Inbound /\ sess[s].left = << >>
            /\ sent' = [sent EXCEPT ![sess[s].msg] = @ + 1]
  PROVE  SessionsInv'
<1> DEFINE m0 == sess[s].msg
           q == sess[s].left
           d == Head(q)
<1>1. /\ TypeOK /\ LedgerKept /\ CopiesBudgeted
      /\ AckedDelivered /\ NotMisdelivered /\ SentIsSent
      /\ \A t \in Sessions : Coherent(t)
  BY DEF SessionsInv
<1>2. Busy(s) /\ Busy(s)' /\ m0 \in Msgs /\ m0 # Nil /\ q \in Seq(Addresses)
  BY <1>1 DEF Busy, Coherent, OfOneMessage, TypeOK, Session
<1>3. IsInjective(q) /\ Range(q) \subseteq sess[s].asked
  BY <1>1, <1>2 DEF Coherent, RecipientsOnce
<1>4. /\ sess'[s].left # q => /\ q # << >> /\ d \in Range(q) /\ d \in Addresses
                              /\ Range(sess'[s].left) = Range(q) \ {d}
      /\ Range(sess'[s].left) \subseteq Range(q) /\ IsInjective(sess'[s].left)
  BY <1>2, <1>3, RangeOfTail
<1>5. TypeOK'
  <2>1. sent' \in [Msgs -> Nat]
    <3>1. sent \in [Msgs -> Nat] /\ sent[m0] + 1 \in Nat
      BY <1>1, <1>2 DEF TypeOK
    <3> QED
      BY <3>1
  <2> QED
    BY <1>1, <2>1 DEF TypeOK, OnlyOf
<1>6. \A m \in Msgs, a \in Addresses : copies[m][a] \in Nat /\ copies'[m][a] >= copies[m][a]
  BY <1>1 DEF TypeOK
<1>7. \A m \in Msgs, a \in Addresses : Served(m, a) => Served(m, a)'
  BY <1>6 DEF Served
<1>8. \A t \in Sessions \ {s} : Coherent(t)'
  <2> TAKE t \in Sessions \ {s}
  <2>1. sess[t].live /\ sess[t].msg # Nil =>
          /\ awaited'[sess[t].msg] = awaited[sess[t].msg]
          /\ sess'[s].live => sess'[s].msg # sess[t].msg
    BY <1>1 DEF Coherent, OneAttempt
  <2> HIDE DEF m0, q, d
  <2>2. \A m \in Msgs : told[m] \subseteq told'[m]
    OBVIOUS
  <2> QED
    BY <1>7, <2>1, <2>2, OthersCoherent
<1>9. Coherent(s)'
  <2>1. OfOneMessage(s)'
    BY <1>1, <1>2 DEF Coherent, OfOneMessage, Busy
  <2>2. RecipientsOnce(s)'
    BY <1>1, <1>2, <1>3, <1>4 DEF Coherent, RecipientsOnce
  <2>3. OneAttempt(s)'
    BY <1>1, <1>2, ZenonT(30) DEF Coherent, OneAttempt, OnlyOf
  <2>4. NoneLeftOut(s)'
    BY <1>1, <1>2 DEF Coherent, NoneLeftOut
  <2>5. ServedBehind(s)'
    <3> SUFFICES ASSUME NEW a \in sess[s].asked \ Range(sess'[s].left)
                 PROVE  Served(m0, a)'
      BY <1>2 DEF ServedBehind, Served
    <3>1. a \in Addresses
      BY <1>1 DEF TypeOK, Session
    <3>2. CASE a \notin Range(q)
      <4>1. Served(m0, a)
        BY <1>1, <1>2, <3>2 DEF Coherent, ServedBehind
      <4> QED
        BY <1>2, <1>7, <3>1, <4>1 DEF Served
    <3>3. CASE a \in Range(q)
      <4>1. sess'[s].left # q /\ a = d
        BY <1>4, <3>3
      <4> QED
        BY <4>1 DEF Served
    <3> QED
      BY <3>2, <3>3
  <2> QED
    BY <2>1, <2>2, <2>3, <2>4, <2>5 DEF Coherent
<1>10. CopiesBudgeted'
  <2>1. {t \in Sessions : ~sess'[t].live} = {t \in Sessions : ~sess[t].live}
    BY DEF OnlyOf
  <2>2. ASSUME NEW m \in Msgs, NEW a \in Addresses
        PROVE  copies'[m][a] + Cardinality(Deserted(m, a)') + (IF Due(m, a)' THEN 1 ELSE 0)
                 <= 1 + again'[m]
    <3>1. copies[m][a] + Cardinality(Deserted(m, a)) + (IF Due(m, a) THEN 1 ELSE 0)
            <= 1 + again[m]
      BY <1>1 DEF CopiesBudgeted
    <3>2. /\ Cardinality(Deserted(m, a)) \in Nat /\ copies[m][a] \in Nat /\ again[m] \in Nat
          /\ IsFiniteSet(Deserted(m, a))
      BY <1>1, BudgetTyped
    <3>3. Due(m, a)' => Due(m, a)
      <4> SUFFICES ASSUME Due(m, a)', NEW t \in Sessions, Busy(t), sess[t].live, sess[t].msg = m
                   PROVE  a \in Range(sess[t].left)
        BY DEF Due
      <4>1. CASE t = s
        BY <1>2, <1>4, <4>1 DEF Due
      <4>2. CASE t # s
        BY <4>2 DEF Due, OnlyOf, Busy
      <4> QED
        BY <4>1, <4>2
    <3>4. Deserted(m, a)' \subseteq Deserted(m, a)
      BY <1>4 DEF Deserted, OnlyOf
    <3>5. Cardinality(Deserted(m, a)') \in Nat
          /\ Cardinality(Deserted(m, a)') <= Cardinality(Deserted(m, a))
      BY <3>2, <3>4, FS_Subset, FS_CardinalityType
    <3>6. CASE copies'[m][a] = copies[m][a]
      BY <3>1, <3>2, <3>3, <3>5, <3>6, SMTT(20)
    <3>7. CASE copies'[m][a] # copies[m][a]
      <4>1. /\ m = m0 /\ copies'[m][a] = copies[m][a] + 1
            /\ sess'[s].left # q /\ a = d
        BY <3>7
      <4>2. a \in Range(q) /\ a \notin Range(sess'[s].left)
        BY <1>4, <4>1
      <4>3. CASE sess[s].live
        \* the copy that was due
        <5>1. Due(m, a)
          <6>1. a \in awaited[m]
            BY <1>1, <1>2, <1>3, <4>1, <4>2, <4>3 DEF Coherent, OneAttempt
          <6>2. \A t \in Sessions : sess[t].live /\ sess[t].msg = m => t = s
            BY <1>1, <1>2, <4>1, <4>3 DEF Coherent, OneAttempt
          <6> QED
            BY <4>2, <6>1, <6>2 DEF Due
        <5>2. ~Due(m, a)'
          BY <1>2, <4>1, <4>2, <4>3 DEF Due
        <5>3. copies[m][a] + Cardinality(Deserted(m, a)) + 1 <= 1 + again[m]
          BY <3>1, <5>1
        <5>4. (IF Due(m, a)' THEN 1 ELSE 0) = 0
          BY <5>2
        <5> HIDE DEF m0, q, d
        <5> QED
          BY <3>2, <3>5, <4>1, <5>3, <5>4, SMTT(20)
      <4>4. CASE ~sess[s].live
        \* one of the copies of deserted handlers
        <5>1. Deserted(m, a)' = Deserted(m, a) \ {s} /\ s \in Deserted(m, a)
          BY <4>1, <4>2, <4>4 DEF Deserted, OnlyOf
        <5>2. Cardinality(Deserted(m, a)') = Cardinality(Deserted(m, a)) - 1
          BY <3>2, <5>1, FS_RemoveElement
        <5>3. /\ (IF Due(m, a)' THEN 1 ELSE 0) <= (IF Due(m, a) THEN 1 ELSE 0)
              /\ (IF Due(m, a)' THEN 1 ELSE 0) \in {0, 1}
              /\ (IF Due(m, a) THEN 1 ELSE 0) \in {0, 1}
          BY <3>3
        <5>4. copies'[m][a] + Cardinality(Deserted(m, a)') =
                copies[m][a] + Cardinality(Deserted(m, a))
          <6> DEFINE c == copies[m][a]
                     k == Cardinality(Deserted(m, a))
          <6>1. copies'[m][a] = c + 1 /\ Cardinality(Deserted(m, a)') = k - 1
            BY <4>1, <5>2
          <6>2. c \in Nat /\ k \in Nat
            BY <3>2
          <6> HIDE DEF c, k
          <6>3. (c + 1) + (k - 1) = c + k
            BY <6>2
          <6>4. copies'[m][a] + Cardinality(Deserted(m, a)') = c + k
            BY <6>1, <6>3
          <6> QED
            BY <6>4 DEF c, k
        <5>5. again'[m] = again[m]
          OBVIOUS
        <5> DEFINE e == IF Due(m, a) THEN 1 ELSE 0
                   f == IF Due(m, a)' THEN 1 ELSE 0
        <5>6. copies[m][a] + Cardinality(Deserted(m, a)) + e <= 1 + again[m]
          BY <3>1
        <5>7. f <= e /\ f \in {0, 1} /\ e \in {0, 1}
          BY <5>3
        <5> HIDE DEF m0, q, d, e, f
        <5>8. copies'[m][a] + Cardinality(Deserted(m, a)') + f <= 1 + again'[m]
          BY <3>2, <5>4, <5>5, <5>6, <5>7
        <5> QED
          BY <5>8 DEF f
      <4> QED
        BY <4>3, <4>4, <1>1 DEF TypeOK, Session
    <3> QED
      BY <3>6, <3>7
  <2> QED
    BY <1>1, <2>1, <2>2 DEF CopiesBudgeted
<1>11. LedgerKept'
  BY <1>1 DEF LedgerKept
<1>12. AckedDelivered'
  <2> SUFFICES ASSUME NEW m \in Msgs, NEW a \in told[m]
               PROVE  Served(m, a)'
    BY DEF AckedDelivered, Served
  <2>1. Served(m, a) /\ a \in Addresses
    BY <1>1 DEF AckedDelivered, Served, TypeOK
  <2> QED
    BY <1>7, <2>1
<1>13. NotMisdelivered'
  <2> SUFFICES ASSUME NEW m \in Msgs, NEW a \in Addresses, copies'[m][a] > 0
               PROVE  a \in Addressees[m]
    BY DEF NotMisdelivered
  <2>1. CASE copies'[m][a] = copies[m][a]
    BY <1>1, <2>1 DEF NotMisdelivered
  <2>2. CASE m = m0 /\ a = d /\ sess'[s].left # q
    BY <1>1, <1>2, <1>3, <1>4, <2>2 DEF Coherent, OfOneMessage
  <2> QED
    BY <2>1, <2>2
<1>14. SentIsSent'
  <2> SUFFICES ASSUME NEW m \in Msgs, sent'[m] > 0, NEW a \in Addressees[m]
               PROVE  copies'[m][a] > 0 \/ <<m, a>> \in dropped'
    BY DEF SentIsSent
  <2>1. a \in Addresses
    BY SessionsAssumption
  <2>2. CASE sent[m] > 0
    <3>1. copies[m][a] > 0 \/ <<m, a>> \in dropped
      BY <1>1, <2>2 DEF SentIsSent
    <3> QED
      BY <1>6, <2>1, <3>1
  <2>3. CASE ~(sent[m] > 0)
    <3>1. m = m0 /\ s \notin Inbound /\ q = << >>
      BY <1>1, <2>3 DEF TypeOK
    <3>2. a \in sess[s].asked \/ a \in told[m]
      BY <1>1, <1>2, <3>1 DEF Coherent, NoneLeftOut
    <3>3. Served(m, a)
      <4>1. CASE a \in told[m]
        BY <1>1, <4>1 DEF AckedDelivered, Served
      <4>2. CASE a \in sess[s].asked
        BY <1>1, <1>2, <3>1, <4>2, EmptyRange DEF Coherent, ServedBehind
      <4> QED
        BY <3>2, <4>1, <4>2
    <3> QED
      BY <1>6, <2>1, <3>3 DEF Served
  <2> QED
    BY <2>2, <2>3
<1> QED
  BY <1>5, <1>8, <1>9, <1>10, <1>11, <1>12, <1>13, <1>14 DEF SessionsInv

-----------------------------------------------------------------------------
(* Every step keeps the invariant: before DATA *)

\* What coherence says of a session and its envelope.
LEMMA SessionFacts ==
  ASSUME SessionsInv, NEW s \in Sessions
  PROVE  /\ TypeOK /\ sess[s] \in Session /\ Coherent(s)
         /\ sess[s].msg # Nil => sess[s].msg \in Msgs
         /\ Busy(s) => sess[s].msg # Nil
         /\ Busy(s) => sess[s].pc # "idle" /\ sess[s].pc # "open"
BY DEF SessionsInv, TypeOK, Session, Coherent, OfOneMessage, Busy

LEMMA UserStep ==
  ASSUME SessionsInv, users' \subseteq Names, UNCHANGED <<sess, faults, ledger, ghosts>>
  PROVE  SessionsInv'
<1>1. TypeOK' /\ LedgerKept' /\ AckedDelivered' /\ NotMisdelivered' /\ SentIsSent'
  BY DEF SessionsInv, TypeOK, LedgerKept, AckedDelivered, NotMisdelivered, SentIsSent,
         ledger, ghosts
<1>2. CopiesBudgeted'
  BY DEF SessionsInv, CopiesBudgeted, Deserted, Due, Busy, ledger, ghosts
<1>3. \A s \in Sessions : Coherent(s)'
  BY DEF SessionsInv, Coherent, OfOneMessage, RecipientsOnce, OneAttempt, NoneLeftOut,
         ServedBehind, Served, Busy, ledger, ghosts
<1> QED
  BY <1>1, <1>2, <1>3 DEF SessionsInv

LEMMA AuthStep ==
  ASSUME SessionsInv, NEW s \in Submission, NEW u \in Names, Auth(s, u)
  PROVE  SessionsInv'
<1>1. s \in Sessions /\ s \notin Inbound
  BY SessionsAssumption DEF Sessions
<1>2. TypeOK /\ Coherent(s) /\ sess[s] \in Session
  BY <1>1, SessionFacts
<1>3. /\ OnlyOf(s) /\ sess[s].pc = "idle" /\ sess'[s].pc = "idle"
      /\ sess'[s].user = u /\ sess'[s].msg = sess[s].msg /\ sess'[s].to = sess[s].to
      /\ sess'[s].left = sess[s].left /\ sess'[s].asked = sess[s].asked
      /\ sess'[s].live = sess[s].live
  BY <1>2, AuthEffect
<1>4. OfOneMessage(s)' /\ RecipientsOnce(s)' /\ NoneLeftOut(s)' /\ ServedBehind(s)' /\ ~Busy(s)
  BY <1>1, <1>2, <1>3
     DEF Coherent, OfOneMessage, RecipientsOnce, NoneLeftOut, ServedBehind, Busy
<1>5. /\ UNCHANGED <<faults, awaited, told, copies, sent, dropped, again>>
      /\ users' \subseteq Names /\ sess'[s].msg = Nil /\ sess'[s].to = << >>
  BY <1>1, <1>2, <1>3 DEF Auth, ledger, ghosts, TypeOK, Coherent, OfOneMessage
<1> QED
  BY <1>1, <1>3, <1>4, <1>5, Quiet

LEMMA MailStep ==
  ASSUME SessionsInv, NEW s \in Inbound \cup Submission, NEW m \in Msgs, Mail(s, m)
  PROVE  SessionsInv'
<1>1. s \in Sessions /\ m # Nil
  BY SessionsAssumption DEF Sessions
<1>2. TypeOK /\ Coherent(s) /\ sess[s] \in Session
  BY <1>1, SessionFacts
<1>3. /\ OnlyOf(s) /\ sess'[s].pc = "open" /\ sess'[s].user = sess[s].user
      /\ sess'[s].msg = m /\ sess'[s].to = sess[s].to
      /\ sess'[s].left = sess[s].left /\ sess'[s].asked = sess[s].asked
      /\ sess'[s].live = sess[s].live
  BY <1>2, MailEffect
<1>4. /\ sess[s].pc = "idle" /\ sess[s].to = << >> /\ sess[s].asked = {}
      /\ sess[s].user = Author[m] /\ (s \in Submission => sess[s].user # Nil)
      /\ \A t \in Sessions : sess[t].live => sess[t].msg # m
  BY <1>1, <1>2, EmptyRange DEF Mail, TypeOK, Coherent, RecipientsOnce, Unattended
<1>5. OfOneMessage(s)' /\ RecipientsOnce(s)' /\ NoneLeftOut(s)' /\ ServedBehind(s)' /\ ~Busy(s)
      /\ ~Busy(s)'
  BY <1>1, <1>2, <1>3, <1>4
     DEF Coherent, OfOneMessage, RecipientsOnce, NoneLeftOut, ServedBehind, Busy
<1>6. /\ UNCHANGED <<faults, awaited, told, copies, sent, dropped, again>>
      /\ users' \subseteq Names
  BY <1>2 DEF Mail, ledger, ghosts, TypeOK
<1> QED
  BY <1>1, <1>3, <1>4, <1>5, <1>6, Quiet

LEMMA AcceptedStep ==
  ASSUME SessionsInv, NEW s \in Inbound \cup Submission, NEW a \in Addresses, Rcpt(s, a),
         sess' # sess
  PROVE  SessionsInv'
<1>1. s \in Sessions
  BY DEF Sessions
<1>2. TypeOK /\ Coherent(s) /\ sess[s] \in Session /\ LedgerKept
  BY <1>1, SessionFacts DEF SessionsInv
<1>3. /\ OnlyOf(s) /\ sess'[s].pc = sess[s].pc /\ sess'[s].user = sess[s].user
      /\ sess'[s].msg = sess[s].msg /\ sess'[s].to = Append(sess[s].to, a)
      /\ sess'[s].left = sess[s].left /\ sess'[s].asked = sess[s].asked \cup {a}
      /\ sess'[s].live = sess[s].live
  BY <1>2, RcptEffect
<1>4. /\ sess[s].pc = "open" /\ a \in awaited[sess[s].msg] \ sess[s].asked
      /\ sess[s].msg \in Msgs /\ sess[s].msg # Nil
  BY <1>1, <1>2 DEF Rcpt, Coherent, OfOneMessage, Session
<1>5. RecipientsOnce(s)'
  <2>1. sess[s].to \in Seq(Addresses)
    BY <1>2 DEF Session
  <2>2. /\ Range(Append(sess[s].to, a)) = Range(sess[s].to) \cup {a}
        /\ (IsInjective(sess[s].to) /\ a \notin Range(sess[s].to)) =>
             IsInjective(Append(sess[s].to, a))
    BY <2>1, RangeOfAppend
  <2> QED
    BY <1>2, <1>3, <1>4, <2>2 DEF Coherent, RecipientsOnce, Busy
<1>6. OfOneMessage(s)' /\ NoneLeftOut(s)' /\ ServedBehind(s)' /\ ~Busy(s) /\ ~Busy(s)'
  BY <1>2, <1>3, <1>4
     DEF Coherent, OfOneMessage, NoneLeftOut, ServedBehind, Busy, LedgerKept
<1>7. /\ UNCHANGED <<faults, awaited, told, copies, sent, dropped, again>>
      /\ users' \subseteq Names
  BY <1>2, SessionsAssumption DEF Rcpt, ghosts, TypeOK
<1>8. sess'[s].live /\ sess'[s].msg # Nil =>
        /\ sess'[s].asked \subseteq awaited[sess'[s].msg]
        /\ Busy(s)' => sess'[s].asked = awaited[sess'[s].msg]
  BY <1>2, <1>3, <1>4, <1>6 DEF Coherent, OneAttempt
<1> QED
  BY <1>1, <1>3, <1>4, <1>5, <1>6, <1>7, <1>8, Quiet

LEMMA EndStep ==
  ASSUME SessionsInv, NEW s \in Inbound \cup Submission, Reset(s) \/ Logout(s)
  PROVE  SessionsInv'
<1>1. s \in Sessions
  BY DEF Sessions
<1>2. TypeOK /\ Coherent(s) /\ sess[s] \in Session
  BY <1>1, SessionFacts
<1>3. sess' = [sess EXCEPT ![s] = NewSession] \/ sess' = [sess EXCEPT ![s] = Cleared(@)]
  BY DEF Reset, Logout
<1>4. /\ OnlyOf(s) /\ sess'[s].pc = "idle" /\ sess'[s].user \in {Nil, sess[s].user}
      /\ sess'[s].msg = Nil /\ sess'[s].to = << >> /\ sess'[s].asked = {}
      /\ sess'[s].live \in {TRUE, sess[s].live}
  BY <1>1, <1>2, <1>3, EndEffect
<1>5. ~Busy(s) /\ ~Busy(s)' /\ sess[s].live /\ sess'[s].live
  BY <1>1, <1>2, <1>4 DEF Reset, Logout, Busy, Coherent, OfOneMessage
<1>6. OfOneMessage(s)' /\ RecipientsOnce(s)' /\ NoneLeftOut(s)' /\ ServedBehind(s)'
  BY <1>2, <1>4, <1>5, EmptyRange
     DEF Coherent, OfOneMessage, RecipientsOnce, NoneLeftOut, ServedBehind, Busy
<1>7. /\ UNCHANGED <<faults, awaited, told, copies, sent, dropped, again>>
      /\ users' \subseteq Names
  BY <1>2 DEF Reset, Logout, ledger, ghosts, TypeOK
<1> QED
  BY <1>1, <1>4, <1>5, <1>6, <1>7, Quiet

LEMMA DataStep ==
  ASSUME SessionsInv, NEW s \in Inbound \cup Submission, Data(s)
  PROVE  SessionsInv'
<1>1. s \in Sessions
  BY DEF Sessions
<1>2. TypeOK /\ Coherent(s) /\ sess[s] \in Session /\ LedgerKept
  BY <1>1, SessionFacts DEF SessionsInv
<1>3. /\ OnlyOf(s) /\ sess'[s].pc = "data" /\ sess'[s].user = sess[s].user
      /\ sess'[s].msg = sess[s].msg /\ sess'[s].to = sess[s].to
      /\ sess'[s].left = sess[s].to /\ sess'[s].asked = sess[s].asked
      /\ sess'[s].live = sess[s].live
  BY <1>2, DataEffect
<1>4. /\ sess[s].pc = "open" /\ sess[s].asked = awaited[sess[s].msg] /\ sess[s].to # << >>
      /\ sess[s].msg \in Msgs /\ sess[s].msg # Nil
  BY <1>2 DEF Data, Coherent, OfOneMessage, Session
<1>5. RecipientsOnce(s)' /\ OfOneMessage(s)' /\ ~Busy(s)
  BY <1>2, <1>3, <1>4 DEF Coherent, RecipientsOnce, OfOneMessage, Busy
<1>6. ServedBehind(s)'
  BY <1>2, <1>3 DEF ServedBehind, Coherent, RecipientsOnce
<1>7. awaited[sess[s].msg] # {}
  <2>1. sess[s].to \in Seq(Addresses) /\ Head(sess[s].to) \in Range(sess[s].to)
    BY <1>2, <1>4, RangeOfTail DEF Session, Coherent, RecipientsOnce
  <2> QED
    BY <1>2, <1>4, <2>1 DEF Coherent, RecipientsOnce
<1>8. NoneLeftOut(s)'
  <2>1. s \notin Inbound => Author[sess[s].msg] # Nil
    BY <1>2, <1>4 DEF Coherent, OfOneMessage
  <2>2. UNCHANGED told
    BY DEF Data, ledger
  <2> QED
    BY <1>2, <1>3, <1>4, <1>7, <2>1, <2>2 DEF NoneLeftOut, LedgerKept
<1>9. /\ UNCHANGED <<faults, awaited, told, copies, sent, dropped, again>>
      /\ users' \subseteq Names
  BY <1>2 DEF Data, ledger, ghosts, TypeOK
<1> QED
  BY <1>1, <1>3, <1>4, <1>5, <1>6, <1>8, <1>9, Quiet

LEMMA ComposeStep ==
  ASSUME SessionsInv, NEW s \in Requests, NEW m \in Msgs, Compose(s, m)
  PROVE  SessionsInv'
<1>1. s \in Sessions /\ s \notin Inbound /\ m # Nil
  BY SessionsAssumption DEF Sessions
<1>2. TypeOK /\ Coherent(s) /\ LedgerKept
  BY <1>1, SessionFacts DEF SessionsInv
<1>3. PICK a \in awaited[m] :
        /\ a \in Addresses /\ awaited[m] = {a} /\ OnlyOf(s)
        /\ sess'[s].pc = "data" /\ sess'[s].user = Author[m] /\ Author[m] # Nil
        /\ sess'[s].msg = m /\ sess'[s].to = <<a>> /\ sess'[s].left = <<a>>
        /\ sess'[s].asked = {a} /\ sess'[s].live = TRUE
  BY <1>2, ComposeEffect
<1>4. /\ sess[s].pc = "idle" /\ ~Busy(s) /\ sess[s].live
      /\ \A t \in Sessions : sess[t].live => sess[t].msg # m
  BY <1>2 DEF Compose, Unattended, Busy, Coherent, OfOneMessage
<1>5. /\ UNCHANGED <<faults, awaited, told, copies, sent, dropped, again>>
      /\ users' \subseteq Names
  BY <1>2 DEF Compose, ledger, ghosts, TypeOK
<1>6. Range(<<a>>) = {a} /\ IsInjective(<<a>>)
  BY <1>3, SingleRange
<1>7. OfOneMessage(s)' /\ RecipientsOnce(s)' /\ ServedBehind(s)'
  BY <1>1, <1>2, <1>3, <1>6 DEF OfOneMessage, RecipientsOnce, ServedBehind, Busy, LedgerKept
<1>8. NoneLeftOut(s)'
  BY <1>2, <1>3, <1>5 DEF NoneLeftOut, LedgerKept
<1> QED
  BY <1>1, <1>3, <1>4, <1>5, <1>7, <1>8, Quiet

LEMMA RejectedStep ==
  ASSUME SessionsInv, NEW s \in Inbound \cup Submission, NEW a \in Addresses, Rcpt(s, a),
         sess' = sess
  PROVE  SessionsInv'
<1> DEFINE m0 == sess[s].msg
<1>1. s \in Sessions
  BY DEF Sessions
<1>2. TypeOK /\ Coherent(s) /\ sess[s] \in Session /\ LedgerKept /\ CopiesBudgeted
  BY <1>1, SessionFacts DEF SessionsInv
<1>3. sess[s].pc = "open" /\ a \in awaited[m0] \ sess[s].asked /\ m0 \in Msgs /\ m0 # Nil
  BY <1>2 DEF Rcpt, Coherent, OfOneMessage, Session
<1>4. ~(sess' = [sess EXCEPT ![s].to = Append(@, a), ![s].asked = @ \cup {a}])
  BY <1>1, <1>2, <1>3 DEF TypeOK, Session
<1>5. /\ s \in Inbound /\ awaited' = [awaited EXCEPT ![m0] = @ \ {a}]
      /\ faults' \in Nat /\ UNCHANGED <<users, told, copies, sent, dropped, again>>
  BY <1>2, <1>4 DEF Rcpt, Rejected, Fault, TypeOK, ghosts
<1>6. Author[m0] = Nil /\ sess[s].live
  BY <1>2, <1>3, <1>5 DEF Coherent, OfOneMessage, Busy
<1>7. TypeOK'
  BY <1>2, <1>3, <1>5 DEF TypeOK
<1>8. LedgerKept'
  BY <1>2, <1>3, <1>5, <1>6 DEF LedgerKept, TypeOK
<1>9. AckedDelivered' /\ NotMisdelivered' /\ SentIsSent'
  BY <1>5 DEF SessionsInv, AckedDelivered, NotMisdelivered, SentIsSent
<1>10. ASSUME NEW t \in Sessions
       PROVE  Coherent(t)'
  <2>1. Coherent(t)
    BY DEF SessionsInv
  <2>2. OfOneMessage(t)' /\ RecipientsOnce(t)' /\ NoneLeftOut(t)' /\ ServedBehind(t)'
    BY <1>5, <2>1 DEF Coherent, OfOneMessage, RecipientsOnce, NoneLeftOut, ServedBehind,
                      Served, Busy
  <2>3. OneAttempt(t)'
    <3>1. CASE t = s
      BY <1>2, <1>3, <1>5, <3>1 DEF Coherent, OneAttempt, Busy, TypeOK
    <3>2. CASE t # s
      BY <1>1, <1>2, <1>3, <1>5, <1>6, <2>1, <3>2 DEF Coherent, OneAttempt, Busy, TypeOK
    <3> QED
      BY <3>1, <3>2
  <2> QED
    BY <2>2, <2>3 DEF Coherent
<1>11. CopiesBudgeted'
  <2>1. ASSUME NEW m \in Msgs, NEW b \in Addresses
        PROVE  copies'[m][b] + Cardinality(Deserted(m, b)') + (IF Due(m, b)' THEN 1 ELSE 0)
                 <= 1 + again'[m]
    <3>1. copies[m][b] + Cardinality(Deserted(m, b)) + (IF Due(m, b) THEN 1 ELSE 0)
            <= 1 + again[m]
      BY <1>2 DEF CopiesBudgeted
    <3>2. Cardinality(Deserted(m, b)) \in Nat /\ copies[m][b] \in Nat /\ again[m] \in Nat
      BY <1>2, BudgetTyped
    <3>3. Deserted(m, b)' = Deserted(m, b)
      BY DEF Deserted
    <3>4. Due(m, b)' => Due(m, b)
      BY <1>2, <1>5 DEF Due, Busy, TypeOK
    <3>5. copies'[m][b] = copies[m][b] /\ again'[m] = again[m]
      BY <1>5
    <3> QED
      BY <3>1, <3>2, <3>3, <3>4, <3>5
  <2> QED
    BY <1>2, <2>1 DEF CopiesBudgeted
<1> QED
  BY <1>7, <1>8, <1>9, <1>10, <1>11 DEF SessionsInv

-----------------------------------------------------------------------------
(* Every step keeps the invariant: Data and handleCompose *)

LEMMA DeliveredStep ==
  ASSUME SessionsInv, NEW s \in Inbound, Delivered(s)
  PROVE  SessionsInv'
<1>1. s \in Sessions
  BY DEF Sessions
<1>2. TypeOK /\ sess[s] \in Session
  BY <1>1, SessionFacts
<1>3. sess' = [sess EXCEPT ![s].left = sess[s].left, ![s].pc = "250"]
  BY <1>1, <1>2 DEF Delivered, TypeOK, Session
<1>4. /\ OnlyOf(s)
      /\ sess'[s].pc = "250" /\ sess'[s].user = sess[s].user
      /\ sess'[s].msg = sess[s].msg /\ sess'[s].to = sess[s].to
      /\ sess'[s].left = sess[s].left /\ sess'[s].asked = sess[s].asked
      /\ sess'[s].live = sess[s].live
  BY <1>1, <1>2, <1>3, LoopEffect
<1>5. /\ sess[s].pc = "data" /\ sess[s].left = << >>
      /\ UNCHANGED <<users, awaited, told, again, faults, copies, dropped, sent>>
      /\ faults' \in Nat /\ copies' \in [Msgs -> [Addresses -> Nat]]
      /\ dropped' \subseteq Msgs \X Addresses
  BY <1>2 DEF Delivered, ledger, ghosts, TypeOK
<1> QED
  BY <1>1, <1>4, <1>5, Progress

\* One more copy.
LEMMA OneMoreFacts ==
  ASSUME copies \in [Msgs -> [Addresses -> Nat]], NEW m0 \in Msgs, NEW a0 \in Addresses,
         copies' = OneMore(m0, a0)
  PROVE  /\ copies' \in [Msgs -> [Addresses -> Nat]]
         /\ copies'[m0][a0] = copies[m0][a0] + 1 /\ copies'[m0][a0] > 0
         /\ \A m \in Msgs, a \in Addresses :
              copies'[m][a] = copies[m][a] \/
              (m = m0 /\ a = a0 /\ copies'[m][a] = copies[m][a] + 1)
<1>1. [copies[m0] EXCEPT ![a0] = copies[m0][a0] + 1] \in [Addresses -> Nat]
  OBVIOUS
<1>2. copies' = [copies EXCEPT ![m0] = [copies[m0] EXCEPT ![a0] = copies[m0][a0] + 1]]
  BY DEF OneMore
<1> QED
  BY <1>1, <1>2

LEMMA DeliverNextStep ==
  ASSUME SessionsInv, NEW s \in Inbound, DeliverNext(s)
  PROVE  SessionsInv'
<1> DEFINE a0 == Head(sess[s].left)
<1>1. s \in Sessions
  BY DEF Sessions
<1>2. TypeOK /\ sess[s] \in Session /\ Coherent(s)
  BY <1>1, SessionFacts
<1>3. /\ sess[s].pc = "data" /\ sess[s].left # << >> /\ sess[s].msg \in Msgs
      /\ UNCHANGED <<users, awaited, told, again, dropped, sent>>
      /\ dropped' \subseteq Msgs \X Addresses
  BY <1>2 DEF DeliverNext, ledger, TypeOK, Coherent, OfOneMessage, Session
<1>4. sess[s].left \in Seq(Addresses) /\ a0 \in Addresses
      /\ Tail(sess[s].left) # sess[s].left
  <2>1. sess[s].left \in Seq(Addresses)
    BY <1>2 DEF Session
  <2> QED
    BY <1>3, <2>1, TailIsShorter
<1>5. CASE /\ copies' = OneMore(sess[s].msg, a0)
           /\ Proceed(s) /\ UNCHANGED faults
  <2>1. sess' = [sess EXCEPT ![s].left = Tail(sess[s].left), ![s].pc = "data"]
    BY <1>1, <1>2, <1>3, <1>5 DEF Proceed, TypeOK, Session
  <2>2. /\ OnlyOf(s)
        /\ sess'[s].pc = "data" /\ sess'[s].user = sess[s].user
        /\ sess'[s].msg = sess[s].msg /\ sess'[s].to = sess[s].to
        /\ sess'[s].left = Tail(sess[s].left) /\ sess'[s].asked = sess[s].asked
        /\ sess'[s].live = sess[s].live
    BY <1>1, <1>2, <1>3, <2>1, LoopEffect
  <2>3. /\ copies' \in [Msgs -> [Addresses -> Nat]] /\ copies'[sess[s].msg][a0] > 0
        /\ \A m \in Msgs, a \in Addresses :
             copies'[m][a] = copies[m][a] \/
             (m = sess[s].msg /\ a = a0 /\ copies'[m][a] = copies[m][a] + 1)
    BY <1>2, <1>3, <1>4, <1>5, OneMoreFacts, SMTT(20) DEF TypeOK
  <2>4. \E a \in Addresses : a = a0 /\ Served(sess[s].msg, a)'
    BY <1>4, <2>2, <2>3 DEF Served
  <2>5. faults' \in Nat
    BY <1>2, <1>5 DEF TypeOK
  <2> QED
    BY <1>1, <1>3, <1>4, <2>2, <2>3, <2>4, <2>5, Progress
<1>6. CASE Fault /\ sess' = [sess EXCEPT ![s].pc = "451"] /\ UNCHANGED copies
  <2>1. sess' = [sess EXCEPT ![s].left = sess[s].left, ![s].pc = "451"]
    BY <1>1, <1>2, <1>6 DEF TypeOK, Session
  <2>2. /\ OnlyOf(s)
        /\ sess'[s].pc = "451" /\ sess'[s].user = sess[s].user
        /\ sess'[s].msg = sess[s].msg /\ sess'[s].to = sess[s].to
        /\ sess'[s].left = sess[s].left /\ sess'[s].asked = sess[s].asked
        /\ sess'[s].live = sess[s].live
    BY <1>1, <1>2, <2>1, LoopEffect
  <2>3. faults' \in Nat /\ copies' \in [Msgs -> [Addresses -> Nat]]
    BY <1>2, <1>6 DEF Fault, TypeOK
  <2> QED
    BY <1>1, <1>3, <1>6, <2>2, <2>3, Progress
<1> QED
  BY <1>5, <1>6 DEF DeliverNext

LEMMA SendNextStep ==
  ASSUME SessionsInv, NEW s \in Submission \cup Requests, SendNext(s)
  PROVE  SessionsInv'
<1> DEFINE a0 == Head(sess[s].left)
           m0 == sess[s].msg
<1>1. s \in Sessions /\ s \notin Inbound
  BY SessionsAssumption DEF Sessions
<1>2. TypeOK /\ sess[s] \in Session /\ Coherent(s)
  BY <1>1, SessionFacts
<1>3. /\ sess[s].pc = "data" /\ sess[s].left # << >> /\ m0 \in Msgs
      /\ UNCHANGED <<users, awaited, told, again, sent>>
      /\ Author[m0] # Nil
  BY <1>1, <1>2 DEF SendNext, ledger, TypeOK, Coherent, OfOneMessage, Session
<1>4. sess[s].left \in Seq(Addresses) /\ a0 \in Addresses
      /\ Tail(sess[s].left) # sess[s].left
  <2>1. sess[s].left \in Seq(Addresses)
    BY <1>2 DEF Session
  <2> QED
    BY <1>3, <2>1, TailIsShorter
<1>5. sess' = [sess EXCEPT ![s].left = Tail(sess[s].left), ![s].pc = "data"]
  BY <1>1, <1>2, <1>3 DEF SendNext, Proceed, TypeOK, Session
<1>6. /\ OnlyOf(s)
      /\ sess'[s].pc = "data" /\ sess'[s].user = sess[s].user
      /\ sess'[s].msg = sess[s].msg /\ sess'[s].to = sess[s].to
      /\ sess'[s].left = Tail(sess[s].left) /\ sess'[s].asked = sess[s].asked
      /\ sess'[s].live = sess[s].live
  BY <1>1, <1>2, <1>3, <1>5, LoopEffect
<1>7. CASE copies' = OneMore(m0, a0) /\ UNCHANGED <<dropped, faults>>
  <2>1. /\ copies' \in [Msgs -> [Addresses -> Nat]] /\ copies'[m0][a0] > 0
        /\ \A m \in Msgs, a \in Addresses :
             copies'[m][a] = copies[m][a] \/
             (m = m0 /\ a = a0 /\ copies'[m][a] = copies[m][a] + 1)
    BY <1>2, <1>3, <1>4, <1>7, OneMoreFacts, SMTT(20) DEF TypeOK
  <2>2. \E a \in Addresses : a = a0 /\ Served(m0, a)'
    BY <1>4, <1>6, <2>1 DEF Served
  <2>3. faults' \in Nat /\ dropped' \subseteq Msgs \X Addresses
    BY <1>2, <1>7 DEF TypeOK
  <2> QED
    BY <1>1, <1>3, <1>4, <1>6, <1>7, <2>1, <2>2, <2>3, Progress
<1>8. CASE /\ dropped' = dropped \cup {<<m0, a0>>} /\ UNCHANGED copies
           /\ UNCHANGED faults \/ Fault
  <2>1. \E a \in Addresses : a = a0 /\ Served(m0, a)'
    BY <1>3, <1>4, <1>6, <1>8 DEF Served
  <2>2. /\ faults' \in Nat /\ dropped' \subseteq Msgs \X Addresses
        /\ copies' \in [Msgs -> [Addresses -> Nat]]
    BY <1>2, <1>3, <1>4, <1>8 DEF TypeOK, Fault
  <2> QED
    BY <1>1, <1>3, <1>4, <1>6, <1>8, <2>1, <2>2, Progress
<1> QED
  BY <1>7, <1>8 DEF SendNext

LEMMA SaveToSentStep ==
  ASSUME SessionsInv, NEW s \in Submission \cup Requests, SaveToSent(s)
  PROVE  SessionsInv'
<1>1. s \in Sessions /\ s \notin Inbound
  BY SessionsAssumption DEF Sessions
<1>2. TypeOK /\ sess[s] \in Session
  BY <1>1, SessionFacts
<1>3. /\ sess[s].pc = "data" /\ sess[s].left = << >>
      /\ UNCHANGED <<users, awaited, told, again, copies, dropped>>
      /\ copies' \in [Msgs -> [Addresses -> Nat]] /\ dropped' \subseteq Msgs \X Addresses
  BY <1>2 DEF SaveToSent, Saves, ledger, TypeOK
<1>4. sess' = [sess EXCEPT ![s].left = sess[s].left, ![s].pc = "250"]
  BY <1>1, <1>2 DEF SaveToSent, TypeOK, Session
<1>5. /\ OnlyOf(s)
      /\ sess'[s].pc = "250" /\ sess'[s].user = sess[s].user
      /\ sess'[s].msg = sess[s].msg /\ sess'[s].to = sess[s].to
      /\ sess'[s].left = sess[s].left /\ sess'[s].asked = sess[s].asked
      /\ sess'[s].live = sess[s].live
  BY <1>1, <1>2, <1>4, LoopEffect
<1>6. faults' \in Nat /\ (UNCHANGED sent \/ sent' = [sent EXCEPT ![sess[s].msg] = @ + 1])
  BY <1>2 DEF SaveToSent, Fault, TypeOK
<1> QED
  BY <1>1, <1>3, <1>5, <1>6, Progress

LEMMA ReplyStep ==
  ASSUME SessionsInv, NEW s \in Sessions, Reply(s)
  PROVE  SessionsInv'
<1> DEFINE r == sess[s]
           m0 == sess[s].msg
<1>1. /\ TypeOK /\ LedgerKept /\ CopiesBudgeted /\ Coherent(s) /\ r \in Session
      /\ AckedDelivered /\ NotMisdelivered /\ SentIsSent
      /\ \A t \in Sessions : Coherent(t)
  BY SessionFacts DEF SessionsInv
<1>2. Busy(s) /\ m0 \in Msgs /\ m0 # Nil
  BY <1>1 DEF Reply, Busy, Coherent, OfOneMessage, Session
<1>3. sess' = [sess EXCEPT ![s] = NewSession] \/ sess' = [sess EXCEPT ![s] = Cleared(@)]
  BY DEF Reply
<1>4. /\ OnlyOf(s) /\ sess'[s].pc = "idle" /\ sess'[s].user \in {Nil, r.user}
      /\ sess'[s].msg = Nil /\ sess'[s].to = << >> /\ sess'[s].asked = {}
      /\ sess'[s].live \in {TRUE, r.live}
  BY <1>1, <1>3, EndEffect
<1>5. sess'[s].live
  <2>1. CASE r.live
    BY <1>4, <2>1
  <2>2. CASE ~r.live
    <3>1. sess' = [sess EXCEPT ![s] = NewSession]
      BY <2>2 DEF Reply
    <3> QED
      BY <1>1, <3>1, NewSessionFacts DEF TypeOK
  <2> QED
    BY <2>1, <2>2
\* what the sender comes to know
<1>6. \/ /\ r.live /\ r.pc = "250" /\ UNCHANGED again
         /\ told' = [told EXCEPT ![m0] = @ \cup r.asked]
         /\ awaited' = [awaited EXCEPT ![m0] = @ \ r.asked]
      \/ /\ r.live /\ r.pc = "451" /\ UNCHANGED <<awaited, told>>
         /\ again' = [again EXCEPT ![m0] = @ + 1]
      \/ ~r.live /\ UNCHANGED <<awaited, told, again>>
  <2>1. r.pc \in {"250", "451"}
    BY DEF Reply
  <2>2. CASE r.live /\ r.pc = "250"
    BY <2>2 DEF Reply
  <2>3. CASE r.live /\ r.pc # "250"
    BY <2>1, <2>3 DEF Reply, ledger
  <2>4. CASE ~r.live
    BY <2>4 DEF Reply, ledger
  <2> QED
    BY <2>2, <2>3, <2>4
<1>7. UNCHANGED <<users, faults, copies, sent, dropped>>
  BY DEF Reply
<1>8. r.live => r.asked = awaited[m0]
  BY <1>1, <1>2 DEF Coherent, OneAttempt
<1>9. TypeOK'
  <2>1. again' \in [Msgs -> Nat]
    <3>1. again \in [Msgs -> Nat] /\ again[m0] + 1 \in Nat
      BY <1>1, <1>2 DEF TypeOK
    <3> QED
      BY <1>6, <3>1
  <2>2. awaited' \in [Msgs -> SUBSET Addresses] /\ told' \in [Msgs -> SUBSET Addresses]
    <3>1. /\ awaited \in [Msgs -> SUBSET Addresses] /\ told \in [Msgs -> SUBSET Addresses]
          /\ r.asked \subseteq Addresses
      BY <1>1 DEF TypeOK, Session
    <3> QED
      BY <1>2, <1>6, <3>1
  <2> QED
    BY <1>1, <1>4, <1>7, <2>1, <2>2 DEF TypeOK, OnlyOf
<1>10. \A m \in Msgs : /\ told[m] \subseteq told'[m]
                       /\ m # m0 => awaited'[m] = awaited[m] /\ told'[m] = told[m]
                       /\ awaited'[m] \subseteq awaited[m]
                       /\ again'[m] \in {again[m], again[m] + 1}
                       /\ m # m0 => again'[m] = again[m]
  BY <1>1, <1>6 DEF TypeOK
<1>11. LedgerKept'
  <2> SUFFICES ASSUME NEW m \in Msgs
               PROVE  /\ awaited'[m] \subseteq Addressees[m]
                      /\ Author[m] # Nil /\ awaited'[m] # {} =>
                           Addressees[m] \subseteq awaited'[m] \cup told'[m]
    BY DEF LedgerKept
  <2>1. CASE m = m0 /\ r.live /\ r.pc = "250"
    BY <1>1, <1>6, <1>8, <2>1 DEF LedgerKept, TypeOK
  <2>2. CASE ~(m = m0 /\ r.live /\ r.pc = "250")
    <3>1. awaited'[m] = awaited[m] /\ told'[m] = told[m]
      BY <1>6, <1>10, <2>2
    <3> QED
      BY <1>1, <3>1 DEF LedgerKept
  <2> QED
    BY <2>1, <2>2
<1>12. AckedDelivered'
  <2> SUFFICES ASSUME NEW m \in Msgs, NEW a \in told'[m]
               PROVE  Served(m, a)
    BY <1>7 DEF AckedDelivered, Served
  <2>1. CASE a \in told[m]
    BY <1>1, <2>1 DEF AckedDelivered, Served
  <2>2. CASE a \notin told[m]
    <3>1. m = m0 /\ r.pc = "250" /\ a \in r.asked
      BY <1>1, <1>2, <1>6, <2>2 DEF TypeOK
    <3>2. r.left = << >>
      BY <1>1, <3>1 DEF Coherent, RecipientsOnce
    <3> QED
      BY <1>1, <1>2, <3>1, <3>2, EmptyRange DEF Coherent, ServedBehind
  <2> QED
    BY <2>1, <2>2
<1>13. NotMisdelivered' /\ SentIsSent'
  BY <1>1, <1>7 DEF NotMisdelivered, SentIsSent
<1>14. \A t \in Sessions \ {s} : Coherent(t)'
  <2> TAKE t \in Sessions \ {s}
  <2>1. sess[t].live /\ sess[t].msg # Nil =>
          /\ awaited'[sess[t].msg] = awaited[sess[t].msg]
          /\ sess'[s].live => sess'[s].msg # sess[t].msg
    <3> SUFFICES ASSUME sess[t].live, sess[t].msg # Nil
                 PROVE  awaited'[sess[t].msg] = awaited[sess[t].msg]
      BY <1>4
    <3>1. sess[t].msg \in Msgs
      BY SessionFacts
    <3>2. r.live => sess[t].msg # m0
      BY <1>1, <1>2 DEF Coherent, OneAttempt
    <3> QED
      BY <1>6, <1>10, <3>1, <3>2
  <2>2. \A m \in Msgs, a \in Addresses : Served(m, a) => Served(m, a)'
    BY <1>7 DEF Served
  <2>3. \A m \in Msgs : told[m] \subseteq told'[m]
    BY <1>10
  <2> HIDE DEF r, m0
  <2> QED
    BY <1>4, <2>1, <2>2, <2>3, OthersCoherent
<1>15. Coherent(s)'
  BY <1>1, <1>4, <1>5, EmptyRange
     DEF Coherent, OfOneMessage, RecipientsOnce, OneAttempt, NoneLeftOut, ServedBehind, Busy
<1>16. CopiesBudgeted'
  <2>0. ASSUME NEW t \in Sessions, ~sess'[t].live
        PROVE  t # s /\ ~sess[t].live /\ sess'[t] = sess[t]
    BY <1>4, <1>5, <2>0 DEF OnlyOf
  <2>1. {t \in Sessions : ~sess'[t].live} \in SUBSET {t \in Sessions : ~sess[t].live}
    BY <2>0
  <2>2. IsFiniteSet({t \in Sessions : ~sess'[t].live})
    BY <1>1, <2>1, FS_Subset DEF CopiesBudgeted
  <2>3. ASSUME NEW m \in Msgs, NEW a \in Addresses
        PROVE  copies'[m][a] + Cardinality(Deserted(m, a)') + (IF Due(m, a)' THEN 1 ELSE 0)
                 <= 1 + again'[m]
    <3> DEFINE e == IF Due(m, a) THEN 1 ELSE 0
               f == IF Due(m, a)' THEN 1 ELSE 0
    <3>1. copies[m][a] + Cardinality(Deserted(m, a)) + e <= 1 + again[m]
      BY <1>1 DEF CopiesBudgeted
    <3>2. /\ Cardinality(Deserted(m, a)) \in Nat /\ copies[m][a] \in Nat /\ again[m] \in Nat
          /\ IsFiniteSet(Deserted(m, a))
      BY <1>1, BudgetTyped
    <3>3. Deserted(m, a)' \in SUBSET Deserted(m, a)
      BY <2>0 DEF Deserted
    <3>4. Cardinality(Deserted(m, a)') \in Nat
          /\ Cardinality(Deserted(m, a)') <= Cardinality(Deserted(m, a))
      BY <3>2, <3>3, FS_Subset, FS_CardinalityType
    <3>5. copies'[m][a] = copies[m][a]
      BY <1>7
    <3>6. e \in {0, 1} /\ f \in {0, 1}
      OBVIOUS
    <3>7. again'[m] = again[m] => f <= e
      <4> SUFFICES ASSUME again'[m] = again[m], Due(m, a)'
                   PROVE  Due(m, a)
        OBVIOUS
      <4>1. a \in awaited'[m] /\ a \in awaited[m]
        BY <1>10 DEF Due
      <4>2. ~(m = m0 /\ r.live)
        <5>1. CASE m = m0 /\ r.live /\ r.pc = "250"
          BY <1>1, <1>6, <1>8, <4>1, <5>1 DEF TypeOK
        <5>2. CASE m = m0 /\ r.live /\ r.pc = "451"
          BY <1>1, <1>6, <5>2 DEF TypeOK
        <5> QED
          BY <5>1, <5>2 DEF Reply
      <4> SUFFICES ASSUME NEW t \in Sessions, Busy(t), sess[t].live, sess[t].msg = m
                   PROVE  a \in Range(sess[t].left)
        BY <4>1 DEF Due
      <4>3. t # s
        BY <4>2
      <4> QED
        BY <1>4, <4>3 DEF Due, OnlyOf, Busy
    <3>8. again'[m] \in {again[m], again[m] + 1}
      BY <1>10
    <3> HIDE DEF r, m0, e, f
    <3>9. copies'[m][a] + Cardinality(Deserted(m, a)') + f <= 1 + again'[m]
      BY <3>1, <3>2, <3>4, <3>5, <3>6, <3>7, <3>8
    <3> QED
      BY <3>9 DEF f
  <2> QED
    BY <2>2, <2>3 DEF CopiesBudgeted
<1> QED
  BY <1>9, <1>11, <1>12, <1>13, <1>14, <1>15, <1>16 DEF SessionsInv

-----------------------------------------------------------------------------
(* Every step keeps the invariant: what can go wrong *)

LEMMA HangUpStep ==
  ASSUME SessionsInv, NEW s \in Sessions, HangUp(s)
  PROVE  SessionsInv'
<1> DEFINE r == sess[s]
           m0 == sess[s].msg
<1>1. /\ TypeOK /\ LedgerKept /\ CopiesBudgeted /\ Coherent(s) /\ r \in Session
      /\ AckedDelivered /\ NotMisdelivered /\ SentIsSent
      /\ \A t \in Sessions : Coherent(t)
  BY SessionFacts DEF SessionsInv
<1>2. Busy(s) /\ r.live /\ m0 \in Msgs /\ m0 # Nil
  BY <1>1 DEF HangUp, Busy, Coherent, OfOneMessage, Session
<1>3. /\ OnlyOf(s)
      /\ sess'[s].pc = r.pc /\ sess'[s].user = r.user
      /\ sess'[s].msg = m0 /\ sess'[s].to = r.to
      /\ sess'[s].left = r.left /\ sess'[s].asked = r.asked
      /\ sess'[s].live = FALSE
  BY <1>1, HangUpEffect
<1>4. /\ again' = [again EXCEPT ![m0] = @ + 1] /\ faults' \in Nat
      /\ UNCHANGED <<users, awaited, told, copies, sent, dropped>>
  BY <1>1 DEF HangUp, Fault, ledger, TypeOK
<1>5. /\ again' \in [Msgs -> Nat] /\ again'[m0] = again[m0] + 1
      /\ \A m \in Msgs : m # m0 => again'[m] = again[m]
  <2>1. again \in [Msgs -> Nat] /\ again[m0] + 1 \in Nat
    BY <1>1, <1>2 DEF TypeOK
  <2> QED
    BY <1>2, <1>4, <2>1
<1>6. TypeOK'
  <2>1. sess' \in [Sessions -> Session]
    BY <1>3 DEF OnlyOf
  <2>2. \A t \in Sessions : sess'[t].pc = sess[t].pc /\ sess'[t].to = sess[t].to
    BY <1>3 DEF OnlyOf
  <2>3. \A t \in Sessions : sess'[t].pc = "idle" => sess'[t].to = << >>
    BY <1>1, <2>2 DEF TypeOK
  <2> QED
    BY <1>1, <1>4, <1>5, <2>1, <2>3 DEF TypeOK
<1>7. LedgerKept' /\ AckedDelivered' /\ NotMisdelivered' /\ SentIsSent'
  BY <1>1, <1>4 DEF LedgerKept, AckedDelivered, NotMisdelivered, SentIsSent
<1>8. \A t \in Sessions \ {s} : Coherent(t)'
  <2> TAKE t \in Sessions \ {s}
  <2>1. \A m \in Msgs, a \in Addresses : Served(m, a) => Served(m, a)'
    BY <1>4 DEF Served
  <2>2. /\ \A m \in Msgs : told[m] \subseteq told'[m]
        /\ awaited' = awaited /\ ~sess'[s].live
    BY <1>3, <1>4
  <2> QED
    BY <1>3, <2>1, <2>2, OthersCoherent
<1>9. Coherent(s)'
  BY <1>1, <1>2, <1>3, <1>4
     DEF Coherent, OfOneMessage, RecipientsOnce, OneAttempt, NoneLeftOut, ServedBehind,
         Served, Busy
<1>10. CopiesBudgeted'
  <2>0. ASSUME NEW t \in Sessions, t # s
        PROVE  sess'[t] = sess[t]
    BY <1>3, <2>0 DEF OnlyOf
  <2>1. {t \in Sessions : ~sess'[t].live} = {t \in Sessions : ~sess[t].live} \cup {s}
    BY <1>3, <2>0
  <2>2. IsFiniteSet({t \in Sessions : ~sess'[t].live})
    BY <1>1, <2>1, FS_AddElement DEF CopiesBudgeted
  <2>3. ASSUME NEW m \in Msgs, NEW a \in Addresses
        PROVE  copies'[m][a] + Cardinality(Deserted(m, a)') + (IF Due(m, a)' THEN 1 ELSE 0)
                 <= 1 + again'[m]
    <3> DEFINE e == IF Due(m, a) THEN 1 ELSE 0
               f == IF Due(m, a)' THEN 1 ELSE 0
    <3>1. copies[m][a] + Cardinality(Deserted(m, a)) + e <= 1 + again[m]
      BY <1>1 DEF CopiesBudgeted
    <3>2. /\ Cardinality(Deserted(m, a)) \in Nat /\ copies[m][a] \in Nat /\ again[m] \in Nat
          /\ IsFiniteSet(Deserted(m, a))
      BY <1>1, BudgetTyped
    <3>3. copies'[m][a] = copies[m][a] /\ e \in {0, 1} /\ f \in {0, 1}
      BY <1>4
    <3>4. CASE m # m0
      <4>1. Deserted(m, a)' = Deserted(m, a)
        BY <1>3, <2>0, <3>4 DEF Deserted
      <4>2. Due(m, a)' => Due(m, a)
        <5> SUFFICES ASSUME Due(m, a)', NEW t \in Sessions, Busy(t), sess[t].live,
                            sess[t].msg = m
                     PROVE  a \in Range(sess[t].left)
          BY <1>4 DEF Due
        <5> QED
          BY <2>0, <3>4 DEF Due, Busy
      <4>3. f <= e /\ again'[m] = again[m]
        BY <1>5, <3>4, <4>2
      <4> HIDE DEF e, f, r, m0
      <4>4. copies'[m][a] + Cardinality(Deserted(m, a)') + f <= 1 + again'[m]
        BY <3>1, <3>2, <3>3, <4>1, <4>3
      <4> QED
        BY <4>4 DEF f
    \* the sender may try again, and if the handler has not come to the address it may still
    <3>5. CASE m = m0 /\ a \in Range(r.left)
      <4>1. Deserted(m, a)' = Deserted(m, a) \cup {s} /\ s \notin Deserted(m, a)
        BY <1>2, <1>3, <2>0, <3>5 DEF Deserted
      <4>2. Cardinality(Deserted(m, a)') = Cardinality(Deserted(m, a)) + 1
        BY <3>2, <4>1, FS_AddElement
      <4>3. Due(m, a)
        <5>1. a \in awaited[m]
          BY <1>1, <1>2, <3>5 DEF Coherent, RecipientsOnce, OneAttempt
        <5>2. \A t \in Sessions : sess[t].live /\ sess[t].msg = m => t = s
          BY <1>1, <1>2, <3>5 DEF Coherent, OneAttempt
        <5> QED
          BY <3>5, <5>1, <5>2 DEF Due
      <4>4. e = 1 /\ again'[m] = again[m] + 1
        BY <1>5, <3>5, <4>3
      <4> HIDE DEF e, f, r, m0
      <4>5. copies'[m][a] + Cardinality(Deserted(m, a)') + f <= 1 + again'[m]
        BY <3>1, <3>2, <3>3, <4>2, <4>4
      <4> QED
        BY <4>5 DEF f
    <3>6. CASE m = m0 /\ a \notin Range(r.left)
      <4>1. Deserted(m, a)' = Deserted(m, a)
        BY <1>2, <1>3, <2>0, <3>6 DEF Deserted
      <4>2. again'[m] = again[m] + 1
        BY <1>5, <3>6
      <4> HIDE DEF e, f, r, m0
      <4>3. copies'[m][a] + Cardinality(Deserted(m, a)') + f <= 1 + again'[m]
        BY <3>1, <3>2, <3>3, <4>1, <4>2
      <4> QED
        BY <4>3 DEF f
    <3> QED
      BY <3>4, <3>5, <3>6
  <2> QED
    BY <2>2, <2>3 DEF CopiesBudgeted
<1> QED
  BY <1>6, <1>7, <1>8, <1>9, <1>10 DEF SessionsInv

LEMMA CrashStep ==
  ASSUME SessionsInv, Crash
  PROVE  SessionsInv'
<1> DEFINE cut(m) == \E s \in Sessions : /\ sess[s].msg = m /\ sess[s].live
                                         /\ sess[s].pc \in {"data", "250", "451"}
<1>1. /\ TypeOK /\ LedgerKept /\ CopiesBudgeted
      /\ AckedDelivered /\ NotMisdelivered /\ SentIsSent
  BY DEF SessionsInv
<1>2. /\ sess' = [s \in Sessions |-> NewSession]
      /\ again' = [m \in Msgs |-> IF cut(m) THEN again[m] + 1 ELSE again[m]]
      /\ faults' \in Nat /\ UNCHANGED <<users, awaited, told, copies, sent, dropped>>
  BY <1>1 DEF Crash, Fault, ledger, TypeOK
<1>3. /\ NewSession \in Session
      /\ \A s \in Sessions : /\ sess'[s].pc = "idle" /\ sess'[s].user = Nil
                             /\ sess'[s].msg = Nil /\ sess'[s].to = << >>
                             /\ sess'[s].asked = {} /\ sess'[s].live = TRUE
  BY <1>2, NewSessionFacts
<1>4. TypeOK'
  BY <1>1, <1>2, <1>3 DEF TypeOK
<1>5. LedgerKept' /\ AckedDelivered' /\ NotMisdelivered' /\ SentIsSent'
  BY <1>1, <1>2 DEF LedgerKept, AckedDelivered, NotMisdelivered, SentIsSent
<1>6. \A s \in Sessions : Coherent(s)'
  BY <1>3, EmptyRange
     DEF Coherent, OfOneMessage, RecipientsOnce, OneAttempt, NoneLeftOut, ServedBehind, Busy
<1>7. CopiesBudgeted'
  <2>1. IsFiniteSet({t \in Sessions : ~sess'[t].live})
    <3>1. {t \in Sessions : ~sess'[t].live} = {}
      BY <1>3
    <3> QED
      BY <3>1, FS_EmptySet
  <2>2. ASSUME NEW m \in Msgs, NEW a \in Addresses
        PROVE  copies'[m][a] + Cardinality(Deserted(m, a)') + (IF Due(m, a)' THEN 1 ELSE 0)
                 <= 1 + again'[m]
    <3> DEFINE e == IF Due(m, a) THEN 1 ELSE 0
               f == IF Due(m, a)' THEN 1 ELSE 0
    <3>1. copies[m][a] + Cardinality(Deserted(m, a)) + e <= 1 + again[m]
      BY <1>1 DEF CopiesBudgeted
    <3>2. Cardinality(Deserted(m, a)) \in Nat /\ copies[m][a] \in Nat /\ again[m] \in Nat
      BY <1>1, BudgetTyped
    <3>3. copies'[m][a] = copies[m][a] /\ e \in {0, 1} /\ f \in {0, 1}
      BY <1>2
    <3>4. Deserted(m, a)' = {}
      BY <1>3 DEF Deserted
    <3>5. Cardinality(Deserted(m, a)') = 0
      BY <3>4, FS_EmptySet
    <3>6. f <= e \/ again'[m] = again[m] + 1
      BY <1>2, <1>3 DEF Due, Busy
    <3>7. again'[m] \in {again[m], again[m] + 1}
      BY <1>2
    <3> HIDE DEF e, f
    <3>8. copies'[m][a] + Cardinality(Deserted(m, a)') + f <= 1 + again'[m]
      BY <3>1, <3>2, <3>3, <3>5, <3>6, <3>7
    <3> QED
      BY <3>8 DEF f
  <2> QED
    BY <2>1, <2>2 DEF CopiesBudgeted
<1> QED
  BY <1>4, <1>5, <1>6, <1>7 DEF SessionsInv

-----------------------------------------------------------------------------
(* The theorems *)

LEMMA InitInv == Init => SessionsInv
<1> SUFFICES ASSUME Init
             PROVE  SessionsInv
  OBVIOUS
<1>1. PICK mix \in Mixes :
        awaited = [m \in Msgs |-> IF m \in mix THEN Addressees[m] ELSE {}]
  BY DEF Init
<1>2. /\ sess = [s \in Sessions |-> NewSession] /\ NewSession \in Session
      /\ \A s \in Sessions : /\ sess[s].pc = "idle" /\ sess[s].user = Nil
                             /\ sess[s].msg = Nil /\ sess[s].to = << >>
                             /\ sess[s].asked = {} /\ sess[s].live = TRUE
  BY NewSessionFacts DEF Init
<1>3. TypeOK
  BY <1>1, <1>2, SessionsAssumption DEF Init, TypeOK
<1>4. LedgerKept /\ AckedDelivered /\ NotMisdelivered /\ SentIsSent
  BY <1>1, SessionsAssumption DEF Init, LedgerKept, AckedDelivered, NotMisdelivered, SentIsSent
<1>5. \A s \in Sessions : Coherent(s)
  BY <1>2, EmptyRange
     DEF Coherent, OfOneMessage, RecipientsOnce, OneAttempt, NoneLeftOut, ServedBehind, Busy
<1>6. CopiesBudgeted
  <2>1. {t \in Sessions : ~sess[t].live} = {}
    BY <1>2
  <2>2. ASSUME NEW m \in Msgs, NEW a \in Addresses
        PROVE  copies[m][a] + Cardinality(Deserted(m, a)) + (IF Due(m, a) THEN 1 ELSE 0)
                 <= 1 + again[m]
    <3>1. Deserted(m, a) = {}
      BY <1>2 DEF Deserted
    <3>2. Cardinality(Deserted(m, a)) = 0 /\ copies[m][a] = 0 /\ again[m] = 0
      BY <3>1, FS_EmptySet DEF Init
    <3> QED
      BY <3>2
  <2> QED
    BY <2>1, <2>2, FS_EmptySet DEF CopiesBudgeted
<1> QED
  BY <1>3, <1>4, <1>5, <1>6 DEF SessionsInv

LEMMA NextInv == SessionsInv /\ [Next]_vars => SessionsInv'
<1> SUFFICES ASSUME SessionsInv, [Next]_vars
             PROVE  SessionsInv'
  OBVIOUS
<1>1. ASSUME NEW u \in Names, CreateUser(u)
      PROVE  SessionsInv'
  <2>1. users' \subseteq Names /\ UNCHANGED <<sess, faults, ledger, ghosts>>
    BY <1>1 DEF CreateUser, SessionsInv, TypeOK
  <2> QED
    BY <2>1, UserStep
<1>2. ASSUME NEW s \in Inbound \cup Submission, NEW a \in Addresses, Rcpt(s, a)
      PROVE  SessionsInv'
  BY <1>2, AcceptedStep, RejectedStep
<1>3. CASE UNCHANGED vars
  <2>1. users' \subseteq Names /\ UNCHANGED <<sess, faults, ledger, ghosts>>
    BY <1>3 DEF vars, SessionsInv, TypeOK
  <2> QED
    BY <2>1, UserStep
<1>4. CASE Next
  BY <1>1, <1>2, <1>4, AuthStep, MailStep, DataStep, EndStep, ComposeStep, DeliverNextStep,
     DeliveredStep, SendNextStep, SaveToSentStep, ReplyStep, HangUpStep, CrashStep DEF Next
<1> QED
  BY <1>3, <1>4

\* SessionsInv holds in every state.
THEOREM SessionsInvariant == Spec => []SessionsInv
<1> QED
  BY InitInv, NextInv, PTL DEF Spec

\* Sessions, ledgers and ghosts are of their types, and no recipients are left
\* over from one message to the next.
THEOREM SessionsTyped == Spec => []TypeOK
<1>1. SessionsInv => TypeOK
  BY DEF SessionsInv
<1> QED
  BY <1>1, SessionsInvariant, PTL

\* Data and handleCompose: who was told 250 has had every address served.
THEOREM AckedIsDelivered == Spec => []AckedDelivered
<1>1. SessionsInv => AckedDelivered
  BY DEF SessionsInv
<1> QED
  BY <1>1, SessionsInvariant, PTL

\* Data over s.to: a message reaches only its addressees.
THEOREM NothingIsMisdelivered == Spec => []NotMisdelivered
<1>1. SessionsInv => NotMisdelivered
  BY DEF SessionsInv
<1> QED
  BY <1>1, SessionsInvariant, PTL

\* Data answered by 451, cut off or deserted: copies beyond the first are as many
\* at most as the DATAs the sender heard no 250 to.
THEOREM CopiesAreExplained == Spec => []CopiesExplained
<1>1. SessionsInv => CopiesExplained
  <2> SUFFICES ASSUME SessionsInv, NEW m \in Msgs, NEW a \in Addresses
               PROVE  copies[m][a] <= 1 + again[m]
    BY DEF CopiesExplained
  <2> DEFINE e == IF Due(m, a) THEN 1 ELSE 0
  <2>1. copies[m][a] + Cardinality(Deserted(m, a)) + e <= 1 + again[m] /\ e \in {0, 1}
    BY DEF SessionsInv, CopiesBudgeted
  <2>2. Cardinality(Deserted(m, a)) \in Nat /\ copies[m][a] \in Nat /\ again[m] \in Nat
    BY BudgetTyped DEF SessionsInv
  <2> HIDE DEF e
  <2> QED
    BY <2>1, <2>2
<1> QED
  BY <1>1, SessionsInvariant, PTL

\* SaveToSent: what stands in Sent was handed on to each addressee.
THEOREM SentWasSent == Spec => []SentIsSent
<1>1. SessionsInv => SentIsSent
  BY DEF SessionsInv
<1> QED
  BY <1>1, SessionsInvariant, PTL
=============================================================================
