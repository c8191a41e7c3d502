---------------------------- MODULE MailboxProofs ----------------------------
(* MailStore implements Mailbox, for every value of the constants. *)
EXTENDS MailStoreProofs

\* The bounds of the model, which the abstract specification quantifies over.
Bounds ==
  /\ nextBox <= MaxBox + 1 /\ nextMsg <= MaxMsg + 1
  /\ \A b \in DOMAIN boxes : boxes[b].uidNext <= MaxUid + 1

\* No step leaves the bounds.
LEMMA BoundsStep ==
  ASSUME TypeOK, Bounds, [Next]_vars
  PROVE  Bounds'
<1>0. /\ DbTypeOK /\ MaxBox \in Nat /\ MaxMsg \in Nat /\ MaxUid \in Nat
      /\ \A b \in DOMAIN boxes : b \in Nat /\ b < nextBox
  BY StoreAssumption DEF TypeOK, DbTypeOK
<1>1. ASSUME NEW b \in DOMAIN boxes, NEW u, NEW fs, AddMessage(b, u, fs)
      PROVE  Bounds'
  BY <1>0, <1>1, AdvancedType DEF AddMessage, Bounds, DbTypeOK
<1>2. ASSUME NEW b \in DOMAIN boxes, boxes' = UidAdvanced(b), TakenUid(b) <= MaxUid,
             UNCHANGED <<nextBox, nextMsg>>
      PROVE  Bounds'
  BY <1>0, <1>2, AdvancedType DEF Bounds
<1>3. ASSUME NEW u \in Users, CreateUser(u)
      PROVE  Bounds'
  BY <1>0, <1>3 DEF CreateUser, Bounds, DbTypeOK
<1>4. ASSUME NEW u \in Users, NEW name \in Names, CreateMailbox(u, name)
      PROVE  Bounds'
  BY <1>0, <1>4 DEF CreateMailbox, Put, Bounds, DbTypeOK
<1>5. ASSUME NEW u \in Users, NEW name \in Names, DeleteMailbox(u, name)
      PROVE  Bounds'
  BY <1>0, <1>5 DEF DeleteMailbox, Drop, Bounds, DbTypeOK
<1>6. ASSUME NEW u \in Users, NEW old \in Names, NEW new \in Names,
             RenameMailbox(u, old, new)
      PROVE  Bounds'
  <2>1. PICK b \in DOMAIN boxes : boxes' = [boxes EXCEPT ![b].name = new]
    BY <1>6 DEF RenameMailbox, BoxesOf
  <2>2. DOMAIN boxes' = DOMAIN boxes
        /\ \A a \in DOMAIN boxes : boxes'[a].uidNext = boxes[a].uidNext
    BY <1>0, <2>1 DEF DbTypeOK, Box
  <2> QED
    BY <1>6, <2>2 DEF RenameMailbox, Bounds
<1>7. ASSUME UNCHANGED <<boxes, nextBox, nextMsg>>
      PROVE  Bounds'
  BY <1>7 DEF Bounds
<1>8. \/ UNCHANGED <<boxes, nextBox, nextMsg>>
      \/ \E b \in DOMAIN boxes : \E u, fs : AddMessage(b, u, fs)
      \/ \E b \in DOMAIN boxes : /\ boxes' = UidAdvanced(b) /\ TakenUid(b) <= MaxUid
                                 /\ UNCHANGED <<nextBox, nextMsg>>
      \/ \E u \in Users : CreateUser(u)
      \/ \E u \in Users, name \in Names :
           \/ CreateMailbox(u, name) \/ DeleteMailbox(u, name)
           \/ \E new \in Names : RenameMailbox(u, name, new)
  BY <1>0, BoxesOfType
     DEF Next, vars, db, Deliver, SaveToSent, ImapCommand, Select, Append, Expunge,
         UpdateMessagesFlags, CopyMessages, ImapStep, CreateMessage, StoreFlag,
         FindDest, CopyOne, SkipUid, WebRequest, View, DeleteMessage, WebStep,
         MarkSeen, Purge, FindTrash, TakeTrashUid, MoveToTrash, Crash
<1> QED
  BY <1>1, <1>2, <1>3, <1>4, <1>5, <1>6, <1>7, <1>8

LEMMA BoundsAlways == Spec => []Bounds
<1>1. Init => Bounds
  BY StoreAssumption DEF Init, Bounds
<1>2. TypeOK /\ Bounds /\ [Next]_vars => Bounds'
  BY BoundsStep
<1> QED
  BY <1>1, <1>2, StoreInvariant, PTL DEF Spec

\* What a step does to messages, flags and history.
LEMMA MailSteps ==
  ASSUME TypeOK, [Next]_vars
  PROVE  \/ UNCHANGED <<messages, flags, history>>
         \/ \E b \in DOMAIN boxes : \E u, fs : AddMessage(b, u, fs)
         \/ \E c \in Conns : Expunge(c) \/ StoreFlag(c)
         \/ \E r \in Reqs : MarkSeen(r) \/ Purge(r) \/ MoveToTrash(r)
         \/ \E u \in Users, name \in Names : DeleteMailbox(u, name)
<1>0. DbTypeOK
  BY DEF TypeOK, DbTypeOK
<1> QED
  BY <1>0, BoxesOfType
     DEF Next, vars, db, CreateUser, Deliver, SaveToSent, CreateMailbox,
         RenameMailbox, ImapCommand, Select, Append, UpdateMessagesFlags,
         CopyMessages, ImapStep, CreateMessage, FindDest, CopyOne, SkipUid,
         WebRequest, View, DeleteMessage, WebStep, FindTrash, TakeTrashUid, Crash

LEMMA MailDomain ==
  ASSUME TypeOK, Bounds
  PROVE  /\ DOMAIN MailShown = DOMAIN messages
         /\ \A m \in DOMAIN messages :
              /\ m \in 1 .. MaxMsg
              /\ MailShown[m] = [box |-> messages[m].box, uid |-> messages[m].uid]
         /\ DOMAIN boxes \subseteq 1 .. MaxBox
BY StoreAssumption DEF MailShown, TypeOK, Bounds

\* A statement on a row's flags is a change of one message's marks, or none.
LEMMA MarkStep ==
  ASSUME TypeOK, TypeOK', Bounds, ReferentialIntegrity, ReferentialIntegrity',
         NEW m, \A f \in flags : f[1] # m => f \in flags',
         \A f \in flags' : f[1] # m => f \in flags,
         UNCHANGED <<messages, history>>
  PROVE  Mail!Next \/ UNCHANGED Mail!vars
<1>1. CASE m \in DOMAIN messages
  <2> DEFINE fs == {g \in Flags : <<m, g>> \in flags'}
  <2>1. flags' = {f \in flags : f[1] # m} \cup ({m} \X fs)
    BY <1>1 DEF TypeOK
  <2>2. fs \in SUBSET Flags /\ m \in 1 .. MaxMsg
    BY <1>1, MailDomain
  <2>3. MailShown' = MailShown /\ m \in DOMAIN MailShown
    BY <1>1 DEF MailShown
  <2> HIDE DEF fs
  <2>4. Mail!Mark(m)
    BY <2>1, <2>2, <2>3 DEF Mail!Mark
  <2> QED
    BY <2>2, <2>4 DEF Mail!Next
<1>2. CASE m \notin DOMAIN messages
  <2>1. flags' = flags
    BY <1>2 DEF ReferentialIntegrity, TypeOK
  <2> QED
    BY <2>1 DEF Mail!vars, MailShown
<1> QED
  BY <1>1, <1>2

\* Messages that go take their marks with them.
LEMMA GoStep ==
  ASSUME NEW ms, RemoveMessages(ms), history' = history
  PROVE  Mail!Go(ms)
<1>1. MailShown' = [m \in DOMAIN MailShown \ ms |-> MailShown[m]]
  BY DEF RemoveMessages, Drop, MailShown
<1> QED
  BY <1>1 DEF Mail!Go, RemoveMessages, FlagsWithout

LEMMA ArriveStep ==
  ASSUME UidInv, TypeOK', Bounds, NEW b \in DOMAIN boxes, NEW u, NEW fs,
         AddMessage(b, u, fs)
  PROVE  Mail!Next
<1>1. /\ TypeOK /\ DbTypeOK /\ UidNextAbove
      /\ \A h \in history : h[3] < nextMsg
  BY UidInvFacts DEF UidInv
<1>2. /\ nextMsg \notin DOMAIN messages /\ nextMsg \in 1 .. MaxMsg
  BY <1>1, StoreAssumption DEF AddMessage, DbTypeOK
<1>a. PICK made : flags' = flags \cup ({nextMsg} \X made)
  BY DEF AddMessage
<1>3. made \subseteq Flags
  <2> SUFFICES ASSUME NEW g \in made PROVE g \in Flags
    OBVIOUS
  <2>1. <<nextMsg, g>> \in flags'
    BY <1>a
  <2>2. flags' \subseteq (1 .. nextMsg' - 1) \X Flags
    BY DEF TypeOK
  <2> QED
    BY <2>1, <2>2
<1>4. /\ TakenUid(b) \in 0 .. MaxUid /\ b \in 1 .. MaxBox
      /\ \A h \in history : h[1] = b => h[2] < TakenUid(b)
  BY <1>1, AdvancedType, MailDomain, StoreAssumption
     DEF AddMessage, UidNextAbove
<1>5. MailShown' = [n \in DOMAIN MailShown \cup {nextMsg} |->
                      IF n = nextMsg THEN [box |-> b, uid |-> TakenUid(b)]
                      ELSE MailShown[n]]
  BY DEF AddMessage, Put, MailShown
<1>6. Mail!Places(nextMsg, b, TakenUid(b))
  BY <1>5 DEF Mail!Places, AddMessage
<1>7. nextMsg \notin DOMAIN MailShown /\ \A h \in history : h[3] # nextMsg
  BY <1>1, <1>2, UidInvFacts DEF MailShown
<1>8. Mail!Arrive(nextMsg)
  BY <1>a, <1>3, <1>4, <1>6, <1>7 DEF Mail!Arrive
<1> QED
  BY <1>2, <1>8 DEF Mail!Next

\* The move of a web delete uses a uid kept for it, or 0.
LEMMA MoveStep ==
  ASSUME UidInv, Bounds, NEW r \in Reqs, MoveToTrash(r)
  PROVE  Mail!Next \/ UNCHANGED Mail!vars
<1>0. /\ TypeOK /\ DbTypeOK /\ UidsReserved /\ op[r].kind = "move"
      /\ op[r].uid \in Nat
  BY UidInvFacts DEF UidInv, MoveToTrash
<1>1. CASE UNCHANGED <<messages, history>>
  BY <1>1 DEF MoveToTrash, Mail!vars, MailShown
<1>2. CASE ~ UNCHANGED <<messages, history>>
  <2>0. PICK m, b, u : m = op[r].msg /\ b = op[r].box /\ u = op[r].uid
    OBVIOUS
  <2>1. /\ CanMove(m, b, u)
        /\ messages' = [messages EXCEPT ![m].box = b, ![m].uid = u]
        /\ history' = history \cup {<<b, u, m>>}
        /\ flags' = flags
    BY <1>2, <2>0 DEF MoveToTrash
  <2>2. m \in DOMAIN messages /\ b \in DOMAIN boxes
        /\ \A n \in MessagesIn({b}) \ {m} : messages[n].uid # u
    BY <2>1 DEF CanMove
  <2>3. /\ m \in 1 .. MaxMsg /\ b \in 1 .. MaxBox
        /\ DOMAIN MailShown = DOMAIN messages
    BY <1>0, <2>2, MailDomain
  <2>4. u \in 0 .. MaxUid /\ (u = 0 \/ \A h \in history : h[1] = b => h[2] # u)
    <3>1. CASE u = 0
      BY <3>1, StoreAssumption
    <3>2. CASE u # 0
      <4>1. Holds(r) /\ boxes[b].uidNext \in Nat
        BY <1>0, <2>0, <2>2, <3>2, UidInvFacts DEF Holds
      <4> QED
        BY <1>0, <2>0, <2>2, <4>1, StoreAssumption DEF UidsReserved, Bounds
    <3> QED
      BY <3>1, <3>2
  <2>5. \A n \in DOMAIN MailShown \ {m} : MailShown[n] # [box |-> b, uid |-> u]
    BY <2>2 DEF MailShown, MessagesIn
  <2>6. /\ DOMAIN messages' = DOMAIN messages
        /\ messages'[m].box = b /\ messages'[m].uid = u
        /\ \A n \in DOMAIN messages \ {m} : messages'[n] = messages[n]
    BY <1>0, <2>1, <2>2 DEF DbTypeOK, Message
  <2>7. MailShown' = [n \in DOMAIN MailShown \cup {m} |->
                        IF n = m THEN [box |-> b, uid |-> u] ELSE MailShown[n]]
    <3>1. DOMAIN MailShown \cup {m} = DOMAIN messages'
      BY <2>2, <2>6 DEF MailShown
    <3>2. \A n \in DOMAIN messages' :
            [box |-> messages'[n].box, uid |-> messages'[n].uid]
              = IF n = m THEN [box |-> b, uid |-> u] ELSE MailShown[n]
      BY <2>2, <2>6 DEF MailShown
    <3> QED
      BY <3>1, <3>2 DEF MailShown
  <2>8. Mail!Move(m)
    BY <2>1, <2>2, <2>3, <2>4, <2>5, <2>7 DEF Mail!Move, Mail!Places
  <2> QED
    BY <2>3, <2>8 DEF Mail!Next
<1> QED
  BY <1>1, <1>2

LEMMA MailboxStep ==
  ASSUME UidInv, TypeOK', Bounds, ReferentialIntegrity, ReferentialIntegrity',
         [Next]_vars
  PROVE  Mail!Next \/ UNCHANGED Mail!vars
<1>0. TypeOK
  BY DEF UidInv
<1>1. CASE UNCHANGED <<messages, flags, history>>
  BY <1>1 DEF Mail!vars, MailShown
<1>2. ASSUME NEW b \in DOMAIN boxes, NEW u, NEW fs, AddMessage(b, u, fs)
      PROVE  Mail!Next
  BY <1>2, ArriveStep
<1>3. ASSUME NEW c \in Conns, Expunge(c)
      PROVE  Mail!Next
  <2>1. PICK b \in DOMAIN boxes : b = handle[c]
    BY <1>3 DEF Expunge, Expunged, MessagesIn, ReferentialIntegrity
  <2>2. Mail!Go(Expunged(b)) /\ b \in 1 .. MaxBox
    BY <1>0, <1>3, <2>1, GoStep, MailDomain DEF Expunge
  <2>3. Expunged(b) = {m \in Mail!Standing({b}) : <<m, "Deleted">> \in flags}
    BY DEF Expunged, Mail!Standing, MessagesIn, MailShown
  <2>4. Mail!Remove
    BY <2>2, <2>3 DEF Mail!Remove
  <2> QED
    BY <2>4 DEF Mail!Next
<1>4. ASSUME NEW c \in Conns, StoreFlag(c)
      PROVE  Mail!Next \/ UNCHANGED Mail!vars
  <2>1. PICK m, s : \/ flags' = FlagsAfter(op[c].mode, m, s)
                    \/ flags' = flags
    BY <1>4 DEF StoreFlag
  <2>2. /\ \A f \in flags : f[1] # m => f \in flags'
        /\ \A f \in flags' : f[1] # m => f \in flags
    BY <2>1 DEF FlagsAfter, FlagsWithout
  <2> QED
    BY <1>0, <1>4, <2>2, MarkStep DEF StoreFlag
<1>5. ASSUME NEW r \in Reqs, MarkSeen(r)
      PROVE  Mail!Next \/ UNCHANGED Mail!vars
  <2>1. PICK m : \/ flags' = FlagsAfter("add", m, "Seen")
                 \/ flags' = flags
    BY <1>5 DEF MarkSeen
  <2>2. /\ \A f \in flags : f[1] # m => f \in flags'
        /\ \A f \in flags' : f[1] # m => f \in flags
    BY <2>1 DEF FlagsAfter, FlagsWithout
  <2> QED
    BY <1>0, <1>5, <2>2, MarkStep DEF MarkSeen
<1>6. ASSUME NEW r \in Reqs, Purge(r)
      PROVE  Mail!Next \/ UNCHANGED Mail!vars
  <2>1. CASE UNCHANGED <<messages, flags>>
    BY <1>6, <2>1 DEF Purge, Mail!vars, MailShown
  <2>2. CASE RemoveMessages({op[r].msg})
    <3>1. CASE op[r].msg \in DOMAIN messages
      <4>1. PICK m \in DOMAIN MailShown : m = op[r].msg
        BY <3>1 DEF MailShown
      <4>2. Mail!Go({m})
        BY <1>6, <2>2, <4>1, GoStep DEF Purge
      <4> QED
        BY <4>2 DEF Mail!Next, Mail!Remove
    <3>2. CASE op[r].msg \notin DOMAIN messages
      <4>1. messages' = messages
        BY <1>0, <2>2, <3>2 DEF RemoveMessages, Drop, TypeOK
      <4>2. flags' = flags
        BY <2>2, <3>2 DEF RemoveMessages, FlagsWithout, ReferentialIntegrity
      <4> QED
        BY <1>6, <4>1, <4>2 DEF Purge, Mail!vars, MailShown
    <3> QED
      BY <3>1, <3>2
  <2> QED
    BY <1>6, <2>1, <2>2 DEF Purge
<1>7. ASSUME NEW r \in Reqs, MoveToTrash(r)
      PROVE  Mail!Next \/ UNCHANGED Mail!vars
  BY <1>7, MoveStep
<1>8. ASSUME NEW u \in Users, NEW name \in Names, DeleteMailbox(u, name)
      PROVE  Mail!Next
  <2>1. PICK bs \in SUBSET (DOMAIN boxes) : bs = BoxesOf(u, name)
    BY DEF BoxesOf
  <2>2. Mail!Go(MessagesIn(bs)) /\ bs \in SUBSET (1 .. MaxBox)
    BY <1>0, <1>8, <2>1, GoStep, MailDomain DEF DeleteMailbox
  <2>3. MessagesIn(bs) = Mail!Standing(bs)
    BY DEF Mail!Standing, MessagesIn, MailShown
  <2>4. Mail!Remove
    BY <2>2, <2>3 DEF Mail!Remove
  <2> QED
    BY <2>4 DEF Mail!Next
<1> QED
  BY <1>0, <1>1, <1>2, <1>3, <1>4, <1>5, <1>6, <1>7, <1>8, MailSteps

\* Every statement of every handler, with anything between it and the next, is
\* a step of the mailbox an IMAP client counts on, or changes nothing there.
THEOREM StoreImplementsMailbox == Spec => ImplementsMailbox
<1>1. Init => Mail!Init
  BY DEF Init, Mail!Init, MailShown
<1>2. UidInv /\ TypeOK' /\ Bounds /\ ReferentialIntegrity /\ ReferentialIntegrity'
        /\ [Next]_vars => [Mail!Next]_Mail!vars
  BY MailboxStep
<1>3. Spec => Mail!Spec
  BY <1>1, <1>2, UidInvariant, StoreInvariant, BoundsAlways, PTL DEF Spec, Mail!Spec
<1> QED
  BY <1>3 DEF ImplementsMailbox

==============================================================================
