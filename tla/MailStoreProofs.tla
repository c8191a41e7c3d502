--------------------------- MODULE MailStoreProofs ---------------------------
(* Theorems about MailStore, for every value of its constants. *)
EXTENDS MailStore, TLAPS

\* The part of TypeOK that speaks of the tables.
DbTypeOK ==
  /\ users \subseteq Users
  /\ nextBox \in Nat \ {0} /\ nextMsg \in Nat \ {0}
  /\ DOMAIN boxes \subseteq 1 .. nextBox - 1
  /\ boxes \in [DOMAIN boxes -> Box]
  /\ DOMAIN messages \subseteq 1 .. nextMsg - 1
  /\ messages \in [DOMAIN messages -> Message]
  /\ flags \subseteq (1 .. nextMsg - 1) \X Flags
  /\ history \subseteq (1 .. nextBox - 1) \X Nat \X (1 .. nextMsg - 1)

-----------------------------------------------------------------------------
(* Lemmas about the tables *)

LEMMA DropType ==
  ASSUME NEW S, NEW table, table \in [DOMAIN table -> S],
         NEW ids
  PROVE  /\ DOMAIN Drop(table, ids) = DOMAIN table \ ids
         /\ Drop(table, ids) \in [DOMAIN table \ ids -> S]
         /\ \A i \in DOMAIN table \ ids : Drop(table, ids)[i] = table[i]
BY DEF Drop

LEMMA AdvancedType ==
  ASSUME DbTypeOK, NEW b \in DOMAIN boxes
  PROVE  /\ TakenUid(b) = boxes[b].uidNext
         /\ boxes[b].uidNext \in Nat
         /\ DOMAIN UidAdvanced(b) = DOMAIN boxes
         /\ UidAdvanced(b) \in [DOMAIN boxes -> Box]
         /\ UidAdvanced(b)[b].uidNext = boxes[b].uidNext + 1
         /\ UidAdvanced(b)[b].owner = boxes[b].owner
         /\ UidAdvanced(b)[b].name = boxes[b].name
         /\ \A a \in DOMAIN boxes : a # b => UidAdvanced(b)[a] = boxes[a]
<1>1. boxes[b] \in Box
  BY DEF DbTypeOK
<1>2. boxes[b].uidNext + 1 \in Nat \ {0}
  BY <1>1 DEF Box
<1>3. [boxes[b] EXCEPT !.uidNext = @ + 1] \in Box
  BY <1>1, <1>2 DEF Box
<1> QED
  BY <1>1, <1>2, <1>3 DEF UidAdvanced, TakenUid, Box, DbTypeOK

LEMMA RowsType ==
  ASSUME DbTypeOK, NEW b
  PROVE  /\ MessagesIn({b}) \subseteq DOMAIN messages
         /\ Rows(b) \subseteq Row
         /\ \A row \in Rows(b) : row.id \in DOMAIN messages
<1>1. \A m \in DOMAIN messages : m \in Nat /\ messages[m].uid \in Nat
  BY DEF DbTypeOK, Message
<1> QED
  BY <1>1 DEF Rows, MessagesIn, Row

LEMMA AddMessageType ==
  ASSUME DbTypeOK, NEW b \in DOMAIN boxes, NEW u \in Users,
         NEW fs \in SUBSET Flags, AddMessage(b, u, fs)
  PROVE  DbTypeOK'
<1> DEFINE new == [box |-> b, uid |-> TakenUid(b), owner |-> u]
<1>1. new \in Message /\ b \in 1 .. nextBox - 1
  BY AdvancedType DEF DbTypeOK, Message
<1>2. /\ DOMAIN boxes' = DOMAIN boxes
      /\ boxes' \in [DOMAIN boxes -> Box]
  BY AdvancedType DEF AddMessage
<1>3. /\ DOMAIN messages' = DOMAIN messages \cup {nextMsg}
      /\ messages' \in [DOMAIN messages \cup {nextMsg} -> Message]
  <2>1. messages \in [DOMAIN messages -> Message]
    BY DEF DbTypeOK
  <2>2. messages' = Put(messages, nextMsg, new)
    BY DEF AddMessage
  <2> HIDE DEF new
  <2> QED
    BY <1>1, <2>1, <2>2 DEF Put
<1>4. nextMsg' = nextMsg + 1 /\ nextBox' = nextBox /\ users' = users
  BY DEF AddMessage
<1>5. flags' \subseteq (1 .. nextMsg' - 1) \X Flags
  <2>1. flags' \subseteq flags \cup ({nextMsg} \X fs)
    BY DEF AddMessage, FlagsMade
  <2> QED
    BY <1>4, <2>1 DEF DbTypeOK
<1>6. history' \subseteq (1 .. nextBox' - 1) \X Nat \X (1 .. nextMsg' - 1)
  BY <1>1, <1>4 DEF AddMessage, DbTypeOK, Message
<1> QED
  BY <1>2, <1>3, <1>4, <1>5, <1>6 DEF DbTypeOK

LEMMA RemoveMessagesType ==
  ASSUME DbTypeOK, NEW ms, RemoveMessages(ms),
         UNCHANGED <<users, nextBox, nextMsg, history>>,
         DOMAIN boxes' \subseteq DOMAIN boxes, boxes' \in [DOMAIN boxes' -> Box]
  PROVE  DbTypeOK'
<1>1. /\ DOMAIN messages' = DOMAIN messages \ ms
      /\ messages' \in [DOMAIN messages \ ms -> Message]
  BY DropType DEF RemoveMessages, DbTypeOK
<1>2. flags' \subseteq flags
  BY DEF RemoveMessages, FlagsWithout
<1> QED
  BY <1>1, <1>2 DEF DbTypeOK

LEMMA NamesType == \A i \in 1 .. 4 : DefaultNames[i] \in AllNames
BY DEF AllNames

LEMMA BoxesOfType ==
  ASSUME DbTypeOK, NEW u, NEW name
  PROVE  BoxesOf(u, name) \subseteq DOMAIN boxes
BY DEF BoxesOf

-----------------------------------------------------------------------------
(* Lemmas about the handlers in flight *)

LEMMA OpKinds ==
  ASSUME NEW o \in Op
  PROVE  /\ o.kind = "append" => o \in AppendOp
         /\ o.kind = "store"  => o \in StoreOp
         /\ o.kind = "copy"   => o \in CopyOp
         /\ o.kind = "copyTo" => o \in CopyToOp
         /\ o.kind = "view"   => o \in ViewOp
         /\ o.kind = "delete" => o \in DeleteOp
         /\ o.kind = "trash"  => o \in TrashOp
         /\ o.kind = "move"   => o \in MoveOp
BY DEF Op, Idle, AppendOp, StoreOp, CopyOp, CopyToOp, ViewOp, DeleteOp,
       TrashOp, MoveOp

LEMMA GotoType ==
  ASSUME op \in [Procs -> Op], NEW p \in Procs, NEW o \in Op, Goto(p, o)
  PROVE  /\ op' \in [Procs -> Op]
         /\ op'[p] = o
         /\ \A q \in Procs : q # p => op'[q] = op[q]
BY DEF Goto

LEMMA AfterStatementType ==
  ASSUME NEW o \in StoreOp, NEW r, NEW s
  PROVE  /\ AfterStatement(o, r, s) \in {Idle} \cup StoreOp
         /\ AfterStatement(o, r, s) \in StoreOp
              => AfterStatement(o, r, s).rows \subseteq o.rows
BY DEF AfterStatement, StoreOp, Statements, Idle

LEMMA FlagsAfterType ==
  ASSUME NEW mode, NEW m, NEW s
  PROVE  /\ FlagsAfter(mode, m, s) \subseteq flags \cup {<<m, s>>}
         /\ s = "clear" => FlagsAfter(mode, m, s) \subseteq flags
         /\ m \notin DOMAIN messages => FlagsAfter(mode, m, s) \subseteq flags
BY DEF FlagsAfter, FlagsWithout

-----------------------------------------------------------------------------
(* Type correctness *)

LEMMA TypeInit == Init => TypeOK
BY DEF Init, TypeOK, Op, Idle

\* A uid taken and not used.
LEMMA SkipUidType ==
  ASSUME DbTypeOK, NEW b \in DOMAIN boxes, SkipUid(b)
  PROVE  DbTypeOK'
<1>1. DOMAIN boxes' = DOMAIN boxes /\ boxes' \in [DOMAIN boxes -> Box]
  BY AdvancedType DEF SkipUid
<1> QED
  BY <1>1 DEF SkipUid, DbTypeOK

LEMMA CreateUserType ==
  ASSUME DbTypeOK, NEW u \in Users, CreateUser(u)
  PROVE  DbTypeOK'
<1>1. \A b \in nextBox .. nextBox + 3 : b - nextBox + 1 \in 1 .. 4
  BY DEF DbTypeOK
<1>2. \A b \in DOMAIN boxes' :
        /\ b < nextBox => b \in DOMAIN boxes
        /\ ~(b < nextBox) => b \in nextBox .. nextBox + 3
  BY DEF CreateUser, DbTypeOK
<1>3. boxes' \in [DOMAIN boxes' -> Box]
  BY <1>1, <1>2, NamesType DEF CreateUser, DbTypeOK, Box
<1>4. DOMAIN boxes' \subseteq 1 .. nextBox' - 1
  BY DEF CreateUser, DbTypeOK
<1> QED
  BY <1>3, <1>4 DEF CreateUser, DbTypeOK

LEMMA AccountsType ==
  ASSUME DbTypeOK, NEW u \in Users,
         \/ Deliver(u)
         \/ SaveToSent(u)
         \/ \E name \in Names :
              \/ CreateMailbox(u, name)
              \/ DeleteMailbox(u, name)
              \/ \E new \in Names : RenameMailbox(u, name, new)
  PROVE  DbTypeOK'
<1>1. CASE Deliver(u)
  BY <1>1, StoreAssumption, AddMessageType, BoxesOfType DEF Deliver
<1>2. CASE SaveToSent(u)
  <2>1. {"Seen"} \in SUBSET Flags
    BY StoreAssumption DEF StoreAssumption
  <2> QED
    BY <1>2, <2>1, AddMessageType, BoxesOfType DEF SaveToSent
<1>3. ASSUME NEW name \in Names, CreateMailbox(u, name)
      PROVE  DbTypeOK'
  <2>1. [owner |-> u, name |-> name, uidNext |-> 1] \in Box
    BY DEF Box, AllNames
  <2>2. /\ DOMAIN boxes' = DOMAIN boxes \cup {nextBox}
        /\ boxes' \in [DOMAIN boxes \cup {nextBox} -> Box]
    BY <1>3, <2>1 DEF CreateMailbox, Put, DbTypeOK
  <2> QED
    BY <1>3, <2>2 DEF CreateMailbox, DbTypeOK
<1>4. ASSUME NEW name \in Names, DeleteMailbox(u, name)
      PROVE  DbTypeOK'
  <2>1. DOMAIN boxes' \subseteq DOMAIN boxes /\ boxes' \in [DOMAIN boxes' -> Box]
    BY <1>4 DEF Drop, DeleteMailbox, DbTypeOK
  <2> QED
    BY <1>4, <2>1, RemoveMessagesType DEF DeleteMailbox
<1>5. ASSUME NEW name \in Names, NEW new \in Names, RenameMailbox(u, name, new)
      PROVE  DbTypeOK'
  <2>1. PICK b \in BoxesOf(u, name) : boxes' = [boxes EXCEPT ![b].name = new]
    BY <1>5 DEF RenameMailbox
  <2>2. b \in DOMAIN boxes /\ boxes[b] \in Box /\ new \in AllNames
    BY BoxesOfType DEF DbTypeOK, AllNames
  <2>3. DOMAIN boxes' = DOMAIN boxes /\ boxes' \in [DOMAIN boxes -> Box]
    BY <2>1, <2>2 DEF DbTypeOK, Box
  <2> QED
    BY <1>5, <2>3 DEF RenameMailbox, DbTypeOK
<1> QED
  BY <1>1, <1>2, <1>3, <1>4, <1>5

LEMMA ImapType ==
  ASSUME TypeOK, NEW c \in Conns, ImapCommand(c) \/ ImapStep(c)
  PROVE  TypeOK'
<1> USE DEF Procs
<1>0. DbTypeOK /\ handle \in [Conns -> Nat] /\ op \in [Procs -> Op]
  BY DEF TypeOK, DbTypeOK
<1>a. /\ UserOf[c] \in Users
      /\ op[c] \in Op
      /\ c \in Procs
  BY <1>0, StoreAssumption DEF StoreAssumption
<1>b. Idle \in Op
  BY DEF Op
<1>c. ASSUME UNCHANGED db PROVE DbTypeOK'
  BY <1>0, <1>c DEF db, DbTypeOK
<1>d. ASSUME DbTypeOK', handle' \in [Conns -> Nat], op' \in [Procs -> Op]
      PROVE  TypeOK'
  BY <1>d DEF TypeOK, DbTypeOK
<1>1. CASE Select(c)
  <2>1. handle' \in [Conns -> Nat]
    BY <1>0, <1>1, BoxesOfType DEF Select, DbTypeOK
  <2> QED
    BY <1>0, <1>1, <1>c, <1>d, <2>1 DEF Select
<1>2. CASE Append(c)
  <2>1. PICK name \in Names, fs \in SUBSET Flags : \E b \in BoxesOf(UserOf[c], name) :
          Goto(c, [kind |-> "append", box |-> b, fs |-> fs])
    BY <1>2 DEF Append
  <2>2. PICK b \in BoxesOf(UserOf[c], name) :
          Goto(c, [kind |-> "append", box |-> b, fs |-> fs])
    BY <2>1
  <2>3. [kind |-> "append", box |-> b, fs |-> fs] \in Op
    BY <1>0, <2>2, BoxesOfType DEF DbTypeOK, Op, AppendOp
  <2> QED
    BY <1>0, <1>a, <1>2, <1>c, <1>d, <2>2, <2>3, GotoType DEF Append
<1>3. CASE Expunge(c)
  <2>1. DbTypeOK'
    BY <1>0, <1>3, RemoveMessagesType DEF Expunge, DbTypeOK
  <2> QED
    BY <1>0, <1>3, <1>d, <2>1 DEF Expunge
<1>4. CASE UpdateMessagesFlags(c)
  <2>1. PICK mode \in Modes, fs \in SUBSET Flags, rows \in SUBSET Rows(handle[c]) :
          Goto(c, [kind |-> "store", mode |-> mode, fs |-> fs, rows |-> rows,
                   todo |-> Statements(mode, fs)])
    BY <1>4 DEF UpdateMessagesFlags
  <2>2. [kind |-> "store", mode |-> mode, fs |-> fs, rows |-> rows,
         todo |-> Statements(mode, fs)] \in Op
    BY <1>0, <2>1, RowsType DEF Op, StoreOp, Statements
  <2> QED
    BY <1>0, <1>a, <1>4, <1>c, <1>d, <2>1, <2>2, GotoType DEF UpdateMessagesFlags
<1>5. CASE CopyMessages(c)
  <2>1. PICK rows \in SUBSET Rows(handle[c]), dest \in Names :
          Goto(c, [kind |-> "copy", rows |-> rows, dest |-> dest])
    BY <1>5 DEF CopyMessages
  <2>2. [kind |-> "copy", rows |-> rows, dest |-> dest] \in Op
    BY <1>0, <2>1, RowsType DEF Op, CopyOp, AllNames
  <2> QED
    BY <1>0, <1>a, <1>5, <1>c, <1>d, <2>1, <2>2, GotoType DEF CopyMessages
<1>6. CASE CreateMessage(c)
  <2>1. op[c] \in AppendOp
    BY <1>a, <1>6, OpKinds DEF CreateMessage
  <2>2. op[c].fs \in SUBSET Flags
    BY <2>1 DEF AppendOp
  <2>3. DbTypeOK'
    BY <1>0, <1>a, <1>6, <1>c, <2>2, AddMessageType DEF CreateMessage
  <2> QED
    BY <1>0, <1>a, <1>b, <1>6, <1>d, <2>3, GotoType DEF CreateMessage
<1>7. CASE StoreFlag(c)
  <2>1. op[c] \in StoreOp
    BY <1>a, <1>7, OpKinds DEF StoreFlag
  <2>2. PICK r \in op[c].rows, s \in op[c].todo :
          /\ \/ flags' = FlagsAfter(op[c].mode, r.id, s)
             \/ flags' = flags
          /\ Goto(c, AfterStatement(op[c], r, s))
    BY <1>7 DEF StoreFlag
  <2>3. s \in Flags \cup {"clear"}
    BY <2>1 DEF StoreOp
  <2>4. flags' \subseteq (1 .. nextMsg - 1) \X Flags
    <3>1. CASE s = "clear" \/ r.id \notin DOMAIN messages
      BY <1>0, <2>2, <3>1, FlagsAfterType DEF DbTypeOK
    <3>2. CASE s \in Flags /\ r.id \in DOMAIN messages
      <4>1. <<r.id, s>> \in (1 .. nextMsg - 1) \X Flags
        BY <1>0, <3>2 DEF DbTypeOK
      <4> QED
        BY <1>0, <2>2, <4>1, FlagsAfterType DEF DbTypeOK
    <3> QED
      BY <2>3, <3>1, <3>2
  <2>5. DbTypeOK'
    BY <1>0, <1>7, <2>4 DEF StoreFlag, DbTypeOK
  <2>6. AfterStatement(op[c], r, s) \in Op
    BY <2>1, AfterStatementType DEF Op
  <2> QED
    BY <1>0, <1>a, <1>7, <1>d, <2>2, <2>5, <2>6, GotoType DEF StoreFlag
<1>8. CASE FindDest(c)
  <2>1. op[c] \in CopyOp
    BY <1>a, <1>8, OpKinds DEF FindDest
  <2>2. CASE Goto(c, Idle)
    BY <1>0, <1>a, <1>b, <1>8, <1>c, <1>d, <2>2, GotoType DEF FindDest
  <2>3. ASSUME NEW b \in BoxesOf(UserOf[c], op[c].dest),
               Goto(c, [kind |-> "copyTo", rows |-> op[c].rows, box |-> b])
        PROVE  TypeOK'
    <3>1. [kind |-> "copyTo", rows |-> op[c].rows, box |-> b] \in Op
      BY <1>0, <2>1, <2>3, BoxesOfType DEF DbTypeOK, Op, CopyOp, CopyToOp
    <3> QED
      BY <1>0, <1>a, <1>8, <1>c, <1>d, <2>3, <3>1, GotoType DEF FindDest
  <2> QED
    BY <1>8, <2>2, <2>3 DEF FindDest
<1>9. CASE CopyOne(c)
  <2>1. op[c] \in CopyToOp
    BY <1>a, <1>9, OpKinds DEF CopyOne
  <2>2. PICK r \in op[c].rows :
          /\ \/ /\ op[c].box \in DOMAIN boxes
                /\ r.id \in DOMAIN messages
                /\ AddMessage(op[c].box, messages[r.id].owner, {})
             \/ op[c].box \in DOMAIN boxes /\ SkipUid(op[c].box)
             \/ UNCHANGED db
          /\ \/ Goto(c, Idle)
             \/ Goto(c, [op[c] EXCEPT !.rows = @ \ {r}])
    BY <1>9 DEF CopyOne
  <2>3. DbTypeOK'
    <3>1. r.id \in DOMAIN messages => messages[r.id].owner \in Users
      BY <1>0 DEF DbTypeOK, Message
    <3> QED
      BY <1>0, <1>c, <2>2, <3>1, AddMessageType, SkipUidType
  <2>4. [op[c] EXCEPT !.rows = @ \ {r}] \in Op
    BY <2>1 DEF CopyToOp, Op
  <2> QED
    BY <1>0, <1>a, <1>b, <1>9, <1>d, <2>2, <2>3, <2>4, GotoType DEF CopyOne
<1> QED
  BY <1>1, <1>2, <1>3, <1>4, <1>5, <1>6, <1>7, <1>8, <1>9
     DEF ImapCommand, ImapStep

LEMMA WebType ==
  ASSUME TypeOK, ReferentialIntegrity,
         NEW r \in Reqs, WebRequest(r) \/ WebStep(r)
  PROVE  TypeOK'
<1> USE DEF Procs
<1>0. DbTypeOK /\ handle \in [Conns -> Nat] /\ op \in [Procs -> Op]
  BY DEF TypeOK, DbTypeOK
<1>a. /\ UserOf[r] \in Users
      /\ op[r] \in Op
      /\ r \in Procs
  BY <1>0, StoreAssumption DEF StoreAssumption
<1>b. Idle \in Op
  BY DEF Op
<1>c. ASSUME UNCHANGED db PROVE DbTypeOK'
  BY <1>0, <1>c DEF db, DbTypeOK
<1>d. ASSUME DbTypeOK', UNCHANGED handle, op' \in [Procs -> Op]
      PROVE  TypeOK'
  BY <1>0, <1>d DEF TypeOK, DbTypeOK
<1>1. CASE View(r)
  <2>1. PICK m \in DOMAIN messages : Goto(r, [kind |-> "view", msg |-> m])
    BY <1>1 DEF View
  <2>2. [kind |-> "view", msg |-> m] \in Op
    BY <1>0 DEF DbTypeOK, Op, ViewOp
  <2> QED
    BY <1>0, <1>a, <1>1, <1>c, <1>d, <2>1, <2>2, GotoType DEF View
<1>2. CASE DeleteMessage(r)
  <2>1. PICK m \in DOMAIN messages :
          Goto(r, [kind |-> "delete", msg |-> m,
                   name |-> boxes[messages[m].box].name])
    BY <1>2 DEF DeleteMessage
  <2>2. boxes[messages[m].box].name \in AllNames
    BY <1>0, <2>1 DEF ReferentialIntegrity, DbTypeOK, Box
  <2>3. [kind |-> "delete", msg |-> m, name |-> boxes[messages[m].box].name] \in Op
    BY <1>0, <2>2 DEF DbTypeOK, Op, DeleteOp
  <2> QED
    BY <1>0, <1>a, <1>2, <1>c, <1>d, <2>1, <2>3, GotoType DEF DeleteMessage
<1>3. CASE MarkSeen(r)
  <2>1. \/ flags' = FlagsAfter("add", op[r].msg, "Seen")
        \/ flags' = flags
    BY <1>3 DEF MarkSeen
  <2>2. flags' \subseteq (1 .. nextMsg - 1) \X Flags
    <3>1. op[r].msg \in DOMAIN messages
            => <<op[r].msg, "Seen">> \in (1 .. nextMsg - 1) \X Flags
      BY <1>0, StoreAssumption DEF DbTypeOK, StoreAssumption
    <3> QED
      BY <1>0, <2>1, <3>1, FlagsAfterType DEF DbTypeOK
  <2>3. DbTypeOK'
    BY <1>0, <1>3, <2>2 DEF MarkSeen, DbTypeOK
  <2> QED
    BY <1>0, <1>a, <1>b, <1>3, <1>d, <2>3, GotoType DEF MarkSeen
<1>4. CASE Purge(r)
  <2>1. ASSUME RemoveMessages({op[r].msg}) PROVE DbTypeOK'
    BY <1>0, <1>4, <2>1, RemoveMessagesType DEF Purge, DbTypeOK
  <2>2. ASSUME UNCHANGED <<messages, flags>> PROVE DbTypeOK'
    BY <1>0, <1>4, <2>2 DEF Purge, DbTypeOK
  <2> QED
    BY <1>0, <1>a, <1>b, <1>4, <1>d, <2>1, <2>2, GotoType DEF Purge
<1>5. CASE FindTrash(r)
  <2>1. op[r] \in DeleteOp
    BY <1>a, <1>5, OpKinds DEF FindTrash
  <2>2. CASE Goto(r, Idle)
    BY <1>0, <1>a, <1>b, <1>5, <1>c, <1>d, <2>2, GotoType DEF FindTrash
  <2>3. ASSUME NEW b \in BoxesOf(UserOf[r], "Trash"),
               Goto(r, [kind |-> "trash", msg |-> op[r].msg, box |-> b])
        PROVE  TypeOK'
    <3>1. [kind |-> "trash", msg |-> op[r].msg, box |-> b] \in Op
      BY <1>0, <2>1, BoxesOfType DEF DbTypeOK, Op, DeleteOp, TrashOp
    <3> QED
      BY <1>0, <1>a, <1>5, <1>c, <1>d, <2>3, <3>1, GotoType DEF FindTrash
  <2> QED
    BY <1>5, <2>2, <2>3 DEF FindTrash
<1>6. CASE TakeTrashUid(r)
  <2>1. op[r] \in TrashOp
    BY <1>a, <1>6, OpKinds DEF TakeTrashUid
  <2>2. CASE /\ op[r].box \in DOMAIN boxes
             /\ boxes' = UidAdvanced(op[r].box)
             /\ Goto(r, [kind |-> "move", msg |-> op[r].msg, box |-> op[r].box,
                         uid |-> TakenUid(op[r].box)])
    <3>1. [kind |-> "move", msg |-> op[r].msg, box |-> op[r].box,
           uid |-> TakenUid(op[r].box)] \in Op
      BY <1>0, <2>1, <2>2, AdvancedType DEF Op, TrashOp, MoveOp
    <3>2. DOMAIN boxes' = DOMAIN boxes /\ boxes' \in [DOMAIN boxes -> Box]
      BY <1>0, <2>2, AdvancedType
    <3>3. DbTypeOK'
      BY <1>0, <1>6, <3>2 DEF TakeTrashUid, DbTypeOK
    <3> QED
      BY <1>0, <1>a, <1>6, <1>d, <2>2, <3>1, <3>3, GotoType DEF TakeTrashUid
  <2>3. CASE /\ Goto(r, [kind |-> "move", msg |-> op[r].msg, box |-> op[r].box,
                         uid |-> 0])
             /\ UNCHANGED boxes
    <3>1. [kind |-> "move", msg |-> op[r].msg, box |-> op[r].box,
           uid |-> 0] \in Op
      BY <2>1 DEF Op, TrashOp, MoveOp
    <3>2. DbTypeOK'
      BY <1>0, <1>6, <2>3 DEF TakeTrashUid, DbTypeOK
    <3> QED
      BY <1>0, <1>a, <1>6, <1>d, <2>3, <3>1, <3>2, GotoType DEF TakeTrashUid
  <2> QED
    BY <1>6, <2>2, <2>3 DEF TakeTrashUid
<1>7. CASE MoveToTrash(r)
  <2>1. op[r] \in MoveOp
    BY <1>a, <1>7, OpKinds DEF MoveToTrash
  <2>2. CASE /\ CanMove(op[r].msg, op[r].box, op[r].uid)
             /\ messages' = [messages EXCEPT ![op[r].msg].box = op[r].box,
                                             ![op[r].msg].uid = op[r].uid]
             /\ history' = history \cup {<<op[r].box, op[r].uid, op[r].msg>>}
    <3>1. op[r].msg \in DOMAIN messages /\ op[r].box \in DOMAIN boxes
      BY <2>2 DEF CanMove
    <3>2. op[r].box \in Nat /\ op[r].uid \in Nat
      BY <2>1 DEF MoveOp
    <3>3. messages' \in [DOMAIN messages -> Message]
      BY <1>0, <2>2, <3>1, <3>2 DEF DbTypeOK, Message
    <3>4. DbTypeOK'
      BY <1>0, <1>7, <2>2, <3>1, <3>2, <3>3 DEF MoveToTrash, DbTypeOK
    <3> QED
      BY <1>0, <1>a, <1>b, <1>7, <1>d, <3>4, GotoType DEF MoveToTrash
  <2>3. CASE UNCHANGED <<messages, history>>
    <3>1. DbTypeOK'
      BY <1>0, <1>7, <2>3 DEF MoveToTrash, DbTypeOK
    <3> QED
      BY <1>0, <1>a, <1>b, <1>7, <1>d, <3>1, GotoType DEF MoveToTrash
  <2> QED
    BY <1>7, <2>2, <2>3 DEF MoveToTrash
<1> QED
  BY <1>1, <1>2, <1>3, <1>4, <1>5, <1>6, <1>7 DEF WebRequest, WebStep

LEMMA TypeStep ==
  ASSUME TypeOK, ReferentialIntegrity, [Next]_vars
  PROVE  TypeOK'
<1>0. DbTypeOK /\ (UNCHANGED <<handle, op>> /\ DbTypeOK' => TypeOK')
  BY DEF TypeOK, DbTypeOK
<1>1. ASSUME NEW u \in Users, CreateUser(u) PROVE TypeOK'
  BY <1>0, <1>1, CreateUserType DEF CreateUser
<1>2. ASSUME NEW u \in Users, Deliver(u) \/ SaveToSent(u) PROVE TypeOK'
  BY <1>0, <1>2, AccountsType DEF Deliver, SaveToSent
<1>3. ASSUME NEW u \in Users, NEW name \in Names,
             \/ CreateMailbox(u, name)
             \/ DeleteMailbox(u, name)
             \/ \E new \in Names : RenameMailbox(u, name, new)
      PROVE  TypeOK'
  <2>1. DbTypeOK'
    BY <1>0, <1>3, AccountsType
  <2> QED
    BY <1>0, <1>3, <2>1 DEF CreateMailbox, DeleteMailbox, RenameMailbox
<1>4. ASSUME NEW c \in Conns, ImapCommand(c) \/ ImapStep(c) PROVE TypeOK'
  BY <1>4, ImapType
<1>5. ASSUME NEW r \in Reqs, WebRequest(r) \/ WebStep(r) PROVE TypeOK'
  BY <1>5, WebType
<1>6. CASE Crash
  <2>1. DbTypeOK'
    BY <1>0, <1>6 DEF Crash, db, DbTypeOK
  <2>2. handle' \in [Conns -> Nat] /\ op' \in [Procs -> Op]
    BY <1>6 DEF Crash, Op
  <2> QED
    BY <2>1, <2>2 DEF TypeOK, DbTypeOK
<1>7. CASE UNCHANGED vars
  BY <1>7 DEF vars, TypeOK
<1> QED
  BY <1>1, <1>2, <1>3, <1>4, <1>5, <1>6, <1>7 DEF Next

-----------------------------------------------------------------------------
(* Referential integrity *)

LEMMA AddMessageIntegrity ==
  ASSUME DbTypeOK, ReferentialIntegrity, NEW b \in DOMAIN boxes,
         NEW u, NEW fs, AddMessage(b, u, fs)
  PROVE  ReferentialIntegrity'
<1>1. DOMAIN boxes' = DOMAIN boxes
  BY AdvancedType DEF AddMessage
<1>2. /\ DOMAIN messages' = DOMAIN messages \cup {nextMsg}
      /\ messages'[nextMsg].box = b
      /\ \A m \in DOMAIN messages : messages'[m] = messages[m]
  BY DEF AddMessage, Put, DbTypeOK
<1>3. \A f \in flags' : f \in flags \/ f[1] = nextMsg
  BY DEF AddMessage
<1> QED
  BY <1>1, <1>2, <1>3 DEF ReferentialIntegrity

\* Rows that go take their flags along and leave no message without mailbox.
LEMMA RemoveMessagesIntegrity ==
  ASSUME ReferentialIntegrity, NEW ms, RemoveMessages(ms),
         \A m \in DOMAIN messages \ ms : messages[m].box \in DOMAIN boxes'
  PROVE  ReferentialIntegrity'
BY DEF ReferentialIntegrity, RemoveMessages, FlagsWithout, Drop

LEMMA SkipUidIntegrity ==
  ASSUME DbTypeOK, ReferentialIntegrity, NEW b \in DOMAIN boxes, SkipUid(b)
  PROVE  ReferentialIntegrity'
BY AdvancedType DEF SkipUid, ReferentialIntegrity

\* A flag statement only adds flags of a message that is there.
LEMMA FlagsAfterIntegrity ==
  ASSUME ReferentialIntegrity, NEW mode, NEW m, NEW s,
         flags' = FlagsAfter(mode, m, s) \/ flags' = flags,
         UNCHANGED <<boxes, messages>>
  PROVE  ReferentialIntegrity'
<1>1. \A f \in flags' : f \in flags \/ (f = <<m, s>> /\ m \in DOMAIN messages)
  BY FlagsAfterType
<1> QED
  BY <1>1 DEF ReferentialIntegrity

LEMMA IntegrityStep ==
  ASSUME TypeOK, ReferentialIntegrity, [Next]_vars
  PROVE  ReferentialIntegrity'
<1>0. DbTypeOK
  BY DEF TypeOK, DbTypeOK
<1>a. ASSUME UNCHANGED <<boxes, messages, flags>> PROVE ReferentialIntegrity'
  BY <1>a DEF ReferentialIntegrity
<1>b. ASSUME UNCHANGED db PROVE ReferentialIntegrity'
  BY <1>a, <1>b DEF db
<1>1. ASSUME NEW u \in Users, CreateUser(u) PROVE ReferentialIntegrity'
  <2>1. DOMAIN boxes \subseteq DOMAIN boxes'
    BY <1>1 DEF CreateUser
  <2> QED
    BY <1>1, <2>1 DEF CreateUser, ReferentialIntegrity
<1>2. ASSUME NEW u \in Users, Deliver(u) \/ SaveToSent(u)
      PROVE  ReferentialIntegrity'
  BY <1>0, <1>2, AddMessageIntegrity, BoxesOfType DEF Deliver, SaveToSent
<1>3. ASSUME NEW u \in Users, NEW name \in Names, CreateMailbox(u, name)
      PROVE  ReferentialIntegrity'
  <2>1. DOMAIN boxes \subseteq DOMAIN boxes'
    BY <1>3 DEF CreateMailbox, Put
  <2> QED
    BY <1>3, <2>1 DEF CreateMailbox, ReferentialIntegrity
<1>4. ASSUME NEW u \in Users, NEW name \in Names, DeleteMailbox(u, name)
      PROVE  ReferentialIntegrity'
  <2>1. DOMAIN boxes' = DOMAIN boxes \ BoxesOf(u, name)
    BY <1>4 DEF DeleteMailbox, Drop
  <2>2. \A m \in DOMAIN messages \ MessagesIn(BoxesOf(u, name)) :
          messages[m].box \in DOMAIN boxes'
    BY <2>1 DEF MessagesIn, ReferentialIntegrity
  <2> QED
    BY <1>4, <2>2, RemoveMessagesIntegrity DEF DeleteMailbox
<1>5. ASSUME NEW u \in Users, NEW name \in Names, NEW new \in Names,
             RenameMailbox(u, name, new)
      PROVE  ReferentialIntegrity'
  <2>1. DOMAIN boxes' = DOMAIN boxes
    BY <1>5 DEF RenameMailbox
  <2> QED
    BY <1>5, <2>1 DEF RenameMailbox, ReferentialIntegrity
<1>6. ASSUME NEW c \in Conns, ImapCommand(c) PROVE ReferentialIntegrity'
  <2>1. CASE Expunge(c)
    BY <2>1, RemoveMessagesIntegrity DEF Expunge, ReferentialIntegrity
  <2>2. CASE ~Expunge(c)
    BY <1>6, <1>b, <2>2
       DEF ImapCommand, Select, Append, UpdateMessagesFlags, CopyMessages
  <2> QED
    BY <2>1, <2>2
<1>7. ASSUME NEW c \in Conns, ImapStep(c) PROVE ReferentialIntegrity'
  <2>1. CASE CreateMessage(c)
    BY <1>0, <1>b, <2>1, AddMessageIntegrity DEF CreateMessage
  <2>2. CASE StoreFlag(c)
    BY <2>2, FlagsAfterIntegrity DEF StoreFlag
  <2>3. CASE FindDest(c)
    BY <1>b, <2>3 DEF FindDest
  <2>4. CASE CopyOne(c)
    BY <1>0, <1>b, <2>4, AddMessageIntegrity, SkipUidIntegrity DEF CopyOne
  <2> QED
    BY <1>7, <2>1, <2>2, <2>3, <2>4 DEF ImapStep
<1>8. ASSUME NEW r \in Reqs, WebRequest(r) PROVE ReferentialIntegrity'
  BY <1>8, <1>b DEF WebRequest, View, DeleteMessage
<1>9. ASSUME NEW r \in Reqs, WebStep(r) PROVE ReferentialIntegrity'
  <2>1. CASE MarkSeen(r)
    BY <2>1, FlagsAfterIntegrity DEF MarkSeen
  <2>2. CASE Purge(r)
    <3>1. CASE RemoveMessages({op[r].msg})
      BY <2>2, <3>1, RemoveMessagesIntegrity DEF Purge, ReferentialIntegrity
    <3>2. CASE UNCHANGED <<messages, flags>>
      BY <1>a, <2>2, <3>2 DEF Purge
    <3> QED
      BY <2>2, <3>1, <3>2 DEF Purge
  <2>3. CASE FindTrash(r)
    BY <1>b, <2>3 DEF FindTrash
  <2>4. CASE TakeTrashUid(r)
    <3>1. DOMAIN boxes' = DOMAIN boxes
      BY <1>0, <2>4, AdvancedType DEF TakeTrashUid
    <3> QED
      BY <2>4, <3>1 DEF TakeTrashUid, ReferentialIntegrity
  <2>5. CASE MoveToTrash(r)
    <3>1. CASE /\ CanMove(op[r].msg, op[r].box, op[r].uid)
               /\ messages' = [messages EXCEPT ![op[r].msg].box = op[r].box,
                                               ![op[r].msg].uid = op[r].uid]
      <4>1. /\ DOMAIN messages' = DOMAIN messages
            /\ \A m \in DOMAIN messages :
                 messages'[m].box \in {messages[m].box, op[r].box}
        BY <1>0, <3>1 DEF CanMove, DbTypeOK, Message
      <4> QED
        BY <2>5, <3>1, <4>1 DEF MoveToTrash, CanMove, ReferentialIntegrity
    <3>2. CASE UNCHANGED messages
      BY <1>a, <2>5, <3>2 DEF MoveToTrash
    <3> QED
      BY <2>5, <3>1, <3>2 DEF MoveToTrash
  <2> QED
    BY <1>9, <2>1, <2>2, <2>3, <2>4, <2>5 DEF WebStep
<1>10. CASE Crash
  BY <1>10, <1>b DEF Crash
<1>11. CASE UNCHANGED vars
  BY <1>11, <1>a DEF vars
<1> QED
  BY <1>1, <1>2, <1>3, <1>4, <1>5, <1>6, <1>7, <1>8, <1>9, <1>10, <1>11
     DEF Next

LEMMA StoreInvariant == Spec => [](TypeOK /\ ReferentialIntegrity)
<1>1. Init => TypeOK /\ ReferentialIntegrity
  BY TypeInit DEF Init, ReferentialIntegrity
<1>2. TypeOK /\ ReferentialIntegrity /\ [Next]_vars
        => (TypeOK /\ ReferentialIntegrity)'
  BY TypeStep, IntegrityStep
<1> QED
  BY <1>1, <1>2, PTL DEF Spec

\* Tables, handles and handlers keep their types.
THEOREM TypeCorrect == Spec => []TypeOK
BY StoreInvariant, PTL

\* Foreign keys and cascades keep messages in mailboxes and flags on messages
\* through every interleaving of statements.
THEOREM NoOrphans == Spec => []ReferentialIntegrity
BY StoreInvariant, PTL

-----------------------------------------------------------------------------
(* Ids that are referred to were issued *)

LEMMA IssuedKept ==
  ASSUME TypeOK, IdsIssued, NEW q \in Procs, op'[q] = op[q],
         nextBox' \in Nat, nextBox' >= nextBox,
         nextMsg' \in Nat, nextMsg' >= nextMsg
  PROVE  Issued(q)'
<1>1. op[q] \in Op /\ Issued(q) /\ nextBox \in Nat /\ nextMsg \in Nat
  BY DEF TypeOK, IdsIssued
<1>2. /\ op[q].kind \in {"append", "copyTo", "trash", "move"} => op[q].box \in Nat
      /\ op[q].kind \in {"view", "delete", "trash", "move"} => op[q].msg \in Nat
      /\ op[q].kind \in {"store", "copy", "copyTo"}
           => \A row \in op[q].rows : row.id \in Nat
  BY <1>1, OpKinds
     DEF AppendOp, StoreOp, CopyOp, CopyToOp, ViewOp, DeleteOp, TrashOp, MoveOp, Row
<1> QED
  BY <1>1, <1>2 DEF Issued

\* The counters never go back.
LEMMA CountersGrow ==
  ASSUME TypeOK, [Next]_vars
  PROVE  /\ nextBox' \in Nat /\ nextBox' >= nextBox
         /\ nextMsg' \in Nat /\ nextMsg' >= nextMsg
<1>0. nextBox \in Nat /\ nextMsg \in Nat
  BY DEF TypeOK
<1>1. /\ nextBox' \in {nextBox, nextBox + 1, nextBox + 4}
      /\ nextMsg' \in {nextMsg, nextMsg + 1}
  BY DEF Next, vars, db, CreateUser, Deliver, SaveToSent, CreateMailbox,
         DeleteMailbox, RenameMailbox, AddMessage, ImapCommand, Select, Append,
         Expunge, UpdateMessagesFlags, CopyMessages, ImapStep, CreateMessage,
         StoreFlag, FindDest, CopyOne, SkipUid, WebRequest, View, DeleteMessage,
         WebStep, MarkSeen, Purge, FindTrash, TakeTrashUid, MoveToTrash, Crash
<1> QED
  BY <1>0, <1>1

\* Issued(q) for a process that has just taken up o.
LEMMA IdsGoto ==
  ASSUME TypeOK, TypeOK', IdsIssued, [Next]_vars, NEW p \in Procs, NEW o \in Op,
         Goto(p, o), Issued(p)', UNCHANGED handle
  PROVE  IdsIssued'
<1>1. \A q \in Procs : q # p => op'[q] = op[q]
  BY GotoType DEF TypeOK
<1>2. \A q \in Procs : Issued(q)'
  BY <1>1, IssuedKept, CountersGrow
<1>3. \A c \in Conns : handle'[c] < nextBox'
  BY CountersGrow DEF IdsIssued, TypeOK
<1> QED
  BY <1>2, <1>3 DEF IdsIssued

LEMMA IdsStay ==
  ASSUME TypeOK, IdsIssued, [Next]_vars, UNCHANGED <<op, handle>>
  PROVE  IdsIssued'
<1>1. \A q \in Procs : Issued(q)'
  BY IssuedKept, CountersGrow
<1>2. \A c \in Conns : handle'[c] < nextBox'
  BY CountersGrow DEF IdsIssued, TypeOK
<1> QED
  BY <1>1, <1>2 DEF IdsIssued

LEMMA IdleIssued ==
  ASSUME NEW p, op'[p] = Idle
  PROVE  Issued(p)'
BY DEF Issued, Idle

LEMMA IdsStep ==
  ASSUME TypeOK, TypeOK', IdsIssued, [Next]_vars
  PROVE  IdsIssued'
<1> USE DEF Procs
<1>0. DbTypeOK /\ handle \in [Conns -> Nat] /\ op \in [Procs -> Op]
  BY DEF TypeOK, DbTypeOK
<1>a. Idle \in Op
  BY DEF Op
<1>b. \A b \in DOMAIN boxes : b < nextBox /\ b < nextBox'
  BY CountersGrow DEF TypeOK
<1>c. \A m \in DOMAIN messages : m < nextMsg /\ m < nextMsg'
  BY CountersGrow DEF TypeOK
<1>d. \A p \in Procs : op[p] \in Op /\ Issued(p)
  BY <1>0 DEF IdsIssued
<1>e. ASSUME NEW p \in Procs, Goto(p, Idle), UNCHANGED handle
      PROVE  IdsIssued'
  BY <1>0, <1>a, <1>e, GotoType, IdleIssued, IdsGoto
<1>f. \A b, row : row \in Rows(b) => row.id < nextMsg /\ row.id < nextMsg'
  BY <1>0, <1>c, RowsType
<1>1. CASE UNCHANGED <<op, handle>>
  BY <1>1, IdsStay
<1>2. ASSUME NEW c \in Conns, Select(c) PROVE IdsIssued'
  <2>1. PICK b \in DOMAIN boxes : handle' = [handle EXCEPT ![c] = b]
    BY <1>0, <1>2, BoxesOfType DEF Select
  <2>2. \A q \in Procs : Issued(q)'
    BY <1>2, IssuedKept, CountersGrow DEF Select
  <2>3. \A d \in Conns : handle'[d] < nextBox'
    BY <1>0, <1>b, <2>1, CountersGrow DEF IdsIssued, DbTypeOK
  <2> QED
    BY <2>2, <2>3 DEF IdsIssued
<1>3. ASSUME NEW c \in Conns, Append(c) PROVE IdsIssued'
  <2>1. PICK b \in DOMAIN boxes, fs \in SUBSET Flags :
          Goto(c, [kind |-> "append", box |-> b, fs |-> fs])
    BY <1>0, <1>3, BoxesOfType DEF Append
  <2> DEFINE o == [kind |-> "append", box |-> b, fs |-> fs]
  <2>2. o \in Op
    BY <1>0 DEF DbTypeOK, Op, AppendOp
  <2>3. op'[c] = o
    BY <1>0, <2>1, <2>2, GotoType
  <2>4. Issued(c)'
    BY <1>b, <2>3 DEF Issued
  <2> HIDE DEF o
  <2> QED
    BY <1>3, <2>1, <2>2, <2>4, IdsGoto DEF Append, o
<1>4. ASSUME NEW c \in Conns, UpdateMessagesFlags(c) PROVE IdsIssued'
  <2>1. PICK mode \in Modes, fs \in SUBSET Flags, rows \in SUBSET Rows(handle[c]) :
          Goto(c, [kind |-> "store", mode |-> mode, fs |-> fs, rows |-> rows,
                   todo |-> Statements(mode, fs)])
    BY <1>4 DEF UpdateMessagesFlags
  <2> DEFINE o == [kind |-> "store", mode |-> mode, fs |-> fs, rows |-> rows,
                   todo |-> Statements(mode, fs)]
  <2>2. o \in Op
    BY <1>0, RowsType DEF Op, StoreOp, Statements
  <2>3. op'[c] = o
    BY <1>0, <2>1, <2>2, GotoType
  <2>4. Issued(c)'
    BY <1>f, <2>3 DEF Issued
  <2> QED
    BY <1>4, <2>1, <2>2, <2>4, IdsGoto DEF UpdateMessagesFlags
<1>5. ASSUME NEW c \in Conns, CopyMessages(c) PROVE IdsIssued'
  <2>1. PICK rows \in SUBSET Rows(handle[c]), dest \in Names :
          Goto(c, [kind |-> "copy", rows |-> rows, dest |-> dest])
    BY <1>5 DEF CopyMessages
  <2> DEFINE o == [kind |-> "copy", rows |-> rows, dest |-> dest]
  <2>2. o \in Op
    BY <1>0, RowsType DEF Op, CopyOp, AllNames
  <2>3. op'[c] = o
    BY <1>0, <2>1, <2>2, GotoType
  <2>4. Issued(c)'
    BY <1>f, <2>3 DEF Issued
  <2> QED
    BY <1>5, <2>1, <2>2, <2>4, IdsGoto DEF CopyMessages
<1>6. ASSUME NEW c \in Conns, CreateMessage(c) PROVE IdsIssued'
  BY <1>6, <1>e DEF CreateMessage
<1>7. ASSUME NEW c \in Conns, StoreFlag(c) PROVE IdsIssued'
  <2>1. op[c] \in StoreOp
    BY <1>d, <1>7, OpKinds DEF StoreFlag
  <2>2. PICK r \in op[c].rows, s \in op[c].todo :
          Goto(c, AfterStatement(op[c], r, s))
    BY <1>7 DEF StoreFlag
  <2> DEFINE o == AfterStatement(op[c], r, s)
  <2>3. o \in {Idle} \cup StoreOp /\ o \in Op
    BY <2>1, AfterStatementType DEF Op
  <2>4. op'[c] = o
    BY <1>0, <2>2, <2>3, GotoType
  <2>5. CASE o = Idle
    BY <1>7, <1>e, <2>2, <2>5 DEF StoreFlag
  <2>6. CASE o \in StoreOp
    <3>1. o.rows \subseteq op[c].rows
      BY <2>1, <2>6, AfterStatementType
    <3>2. \A row \in op[c].rows : row.id < nextMsg
      BY <1>d, <1>7 DEF Issued, StoreFlag
    <3>3. nextMsg' = nextMsg
      BY <1>7 DEF StoreFlag
    <3>4. Issued(c)'
      <4> HIDE DEF o
      <4> QED
        BY <2>4, <2>6, <3>1, <3>2, <3>3 DEF Issued, StoreOp
    <3> QED
      BY <1>7, <2>2, <2>3, <3>4, IdsGoto DEF StoreFlag
  <2> QED
    BY <2>3, <2>5, <2>6
<1>8. ASSUME NEW c \in Conns, FindDest(c) PROVE IdsIssued'
  <2>1. op[c] \in CopyOp
    BY <1>d, <1>8, OpKinds DEF FindDest
  <2>2. ASSUME NEW b \in DOMAIN boxes,
               Goto(c, [kind |-> "copyTo", rows |-> op[c].rows, box |-> b])
        PROVE  IdsIssued'
    <3> DEFINE o == [kind |-> "copyTo", rows |-> op[c].rows, box |-> b]
    <3>1. o \in Op
      BY <1>0, <2>1 DEF DbTypeOK, Op, CopyOp, CopyToOp
    <3>2. op'[c] = o
      BY <1>0, <2>2, <3>1, GotoType
    <3>3. \A row \in op[c].rows : row.id < nextMsg
      BY <1>d, <1>8 DEF Issued, FindDest
    <3>4. nextMsg' = nextMsg
      BY <1>8 DEF FindDest, db
    <3>5. Issued(c)'
      BY <1>b, <3>2, <3>3, <3>4 DEF Issued
    <3> QED
      BY <1>8, <2>2, <3>1, <3>5, IdsGoto DEF FindDest
  <2> QED
    BY <1>0, <1>8, <1>e, <2>2, BoxesOfType DEF FindDest
<1>9. ASSUME NEW c \in Conns, CopyOne(c) PROVE IdsIssued'
  <2>1. op[c] \in CopyToOp
    BY <1>d, <1>9, OpKinds DEF CopyOne
  <2>2. ASSUME NEW r, Goto(c, [op[c] EXCEPT !.rows = @ \ {r}])
        PROVE  IdsIssued'
    <3> DEFINE o == [op[c] EXCEPT !.rows = @ \ {r}]
    <3>1. /\ o \in Op
          /\ o.kind = "copyTo" /\ o.box = op[c].box /\ o.rows \subseteq op[c].rows
      BY <2>1 DEF CopyToOp, Op
    <3>2. op'[c] = o
      BY <1>0, <2>2, <3>1, GotoType
    <3>3. /\ op[c].box < nextBox /\ op[c].box \in Nat
          /\ \A row \in op[c].rows : row.id < nextMsg /\ row.id \in Nat
      BY <1>d, <1>9, <2>1 DEF Issued, CopyOne, CopyToOp, Row
    <3>4. Issued(c)'
      <4> HIDE DEF o
      <4> QED
        BY <1>0, <3>1, <3>2, <3>3, CountersGrow DEF Issued, DbTypeOK
    <3> QED
      BY <1>9, <2>2, <3>1, <3>4, IdsGoto DEF CopyOne
  <2> QED
    BY <1>9, <1>e, <2>2 DEF CopyOne
<1>10. ASSUME NEW r \in Reqs, View(r) PROVE IdsIssued'
  <2>1. PICK m \in DOMAIN messages : Goto(r, [kind |-> "view", msg |-> m])
    BY <1>10 DEF View
  <2>2. [kind |-> "view", msg |-> m] \in Op
    BY <1>0 DEF DbTypeOK, Op, ViewOp
  <2>3. op'[r] = [kind |-> "view", msg |-> m]
    BY <1>0, <2>1, <2>2, GotoType
  <2>4. Issued(r)'
    BY <1>c, <2>3 DEF Issued
  <2> QED
    BY <1>10, <2>1, <2>2, <2>4, IdsGoto DEF View
<1>11. ASSUME NEW r \in Reqs, DeleteMessage(r) PROVE IdsIssued'
  <2>1. PICK m \in DOMAIN messages :
          Goto(r, [kind |-> "delete", msg |-> m,
                   name |-> boxes[messages[m].box].name])
    BY <1>11 DEF DeleteMessage
  <2> DEFINE o == [kind |-> "delete", msg |-> m,
                   name |-> boxes[messages[m].box].name]
  <2>2. op'[r] = o
    BY <1>0, <2>1 DEF Goto
  <2>3. o \in Op
    BY <2>2 DEF TypeOK
  <2>4. Issued(r)'
    BY <1>c, <2>2 DEF Issued
  <2> QED
    BY <1>11, <2>1, <2>3, <2>4, IdsGoto DEF DeleteMessage
<1>12. ASSUME NEW r \in Reqs, MarkSeen(r) \/ Purge(r) \/ MoveToTrash(r)
       PROVE  IdsIssued'
  BY <1>12, <1>e DEF MarkSeen, Purge, MoveToTrash
<1>13. ASSUME NEW r \in Reqs, FindTrash(r) PROVE IdsIssued'
  <2>1. op[r] \in DeleteOp
    BY <1>d, <1>13, OpKinds DEF FindTrash
  <2>2. ASSUME NEW b \in DOMAIN boxes,
               Goto(r, [kind |-> "trash", msg |-> op[r].msg, box |-> b])
        PROVE  IdsIssued'
    <3> DEFINE o == [kind |-> "trash", msg |-> op[r].msg, box |-> b]
    <3>1. o \in Op
      BY <1>0, <2>1 DEF DbTypeOK, Op, DeleteOp, TrashOp
    <3>2. op'[r] = o
      BY <1>0, <2>2, <3>1, GotoType
    <3>3. op[r].msg < nextMsg /\ nextMsg' = nextMsg
      BY <1>d, <1>13 DEF Issued, FindTrash, db
    <3>4. Issued(r)'
      BY <1>b, <3>2, <3>3 DEF Issued
    <3> QED
      BY <1>13, <2>2, <3>1, <3>4, IdsGoto DEF FindTrash
  <2> QED
    BY <1>0, <1>13, <1>e, <2>2, BoxesOfType DEF FindTrash
<1>14. ASSUME NEW r \in Reqs, TakeTrashUid(r) PROVE IdsIssued'
  <2>1. op[r] \in TrashOp
    BY <1>d, <1>14, OpKinds DEF TakeTrashUid
  <2>2. PICK u : Goto(r, [kind |-> "move", msg |-> op[r].msg,
                          box |-> op[r].box, uid |-> u])
    BY <1>14 DEF TakeTrashUid
  <2> DEFINE o == [kind |-> "move", msg |-> op[r].msg, box |-> op[r].box, uid |-> u]
  <2>3. op'[r] = o
    BY <1>0, <2>2 DEF Goto
  <2>4. o \in Op
    BY <2>3 DEF TypeOK
  <2>5. /\ op[r].box < nextBox /\ op[r].msg < nextMsg
        /\ nextBox' = nextBox /\ nextMsg' = nextMsg
    BY <1>d, <1>14 DEF Issued, TakeTrashUid
  <2>6. Issued(r)'
    BY <2>3, <2>5 DEF Issued
  <2> QED
    BY <1>14, <2>2, <2>4, <2>6, IdsGoto DEF TakeTrashUid
<1>15. CASE Crash
  <2>1. \A q \in Procs : Issued(q)'
    BY <1>15, IdleIssued DEF Crash
  <2> QED
    BY <1>15, <2>1 DEF Crash, IdsIssued, TypeOK
<1>16. ASSUME NEW c \in Conns, Expunge(c) PROVE UNCHANGED <<op, handle>>
  BY <1>16 DEF Expunge
<1>17. ASSUME NEW u \in Users,
              \/ CreateUser(u) \/ Deliver(u) \/ SaveToSent(u)
              \/ \E name \in Names :
                   \/ CreateMailbox(u, name) \/ DeleteMailbox(u, name)
                   \/ \E new \in Names : RenameMailbox(u, name, new)
       PROVE  UNCHANGED <<op, handle>>
  BY <1>17 DEF CreateUser, Deliver, SaveToSent, CreateMailbox, DeleteMailbox,
               RenameMailbox
<1> QED
  BY <1>1, <1>2, <1>3, <1>4, <1>5, <1>6, <1>7, <1>8, <1>9, <1>10, <1>11, <1>12,
     <1>13, <1>14, <1>15, <1>16, <1>17
     DEF Next, vars, ImapCommand, ImapStep, WebRequest, WebStep

-----------------------------------------------------------------------------
(* A uid names one message *)

\* The conjuncts of UidInv that relate uids to the history.
UidFacts == UidNamesOneMessage /\ UidNextAbove /\ HistoryComplete /\ UidsReserved

LEMMA UidInvFacts ==
  ASSUME UidInv
  PROVE  /\ DbTypeOK /\ UidFacts
         /\ \A h \in history : h[1] \in Nat /\ h[2] \in Nat /\ h[3] \in Nat
         /\ \A h \in history : h[1] < nextBox /\ h[3] < nextMsg
         /\ \A b \in DOMAIN boxes :
              b \in Nat /\ b < nextBox /\ boxes[b].uidNext \in Nat \ {0}
         /\ \A r \in Reqs : op[r].kind = "move" =>
              /\ op[r].box \in Nat /\ op[r].uid \in Nat /\ op[r].msg \in Nat
              /\ op[r].box < nextBox
<1>1. \A r \in Reqs : op[r] \in Op /\ Issued(r)
  BY DEF UidInv, TypeOK, IdsIssued, Procs
<1>2. \A r \in Reqs : op[r].kind = "move" => op[r] \in MoveOp
  BY <1>1, OpKinds
<1>3. \A r \in Reqs : op[r].kind = "move" =>
        /\ op[r].box \in Nat /\ op[r].uid \in Nat /\ op[r].msg \in Nat
        /\ op[r].box < nextBox
  BY <1>1, <1>2 DEF MoveOp, Issued
<1>4. \A h \in history : h[1] \in 1 .. nextBox - 1 /\ h[2] \in Nat
                           /\ h[3] \in 1 .. nextMsg - 1
  BY DEF UidInv, TypeOK
<1>5. nextBox \in Nat /\ nextMsg \in Nat
  BY DEF UidInv, TypeOK
<1>6. \A b \in DOMAIN boxes : b \in 1 .. nextBox - 1 /\ boxes[b].uidNext \in Nat \ {0}
  BY DEF UidInv, TypeOK, Box
<1> QED
  BY <1>3, <1>4, <1>5, <1>6 DEF UidInv, UidFacts, TypeOK, DbTypeOK

\* Steps that show no message at a new place and hand no uid to a request:
\* mailboxes that stay do not lower uid_next, mailboxes that come are new.
LEMMA UidsKept ==
  ASSUME UidInv, UNCHANGED history,
         \A b \in DOMAIN boxes' :
           \/ /\ b \in DOMAIN boxes
              /\ boxes'[b].uidNext \in {boxes[b].uidNext, boxes[b].uidNext + 1}
           \/ b >= nextBox,
         \A m \in DOMAIN messages' :
           m \in DOMAIN messages /\ messages'[m] = messages[m],
         \A r \in Reqs : op'[r] = op[r] \/ op'[r].kind # "move"
  PROVE  UidFacts'
<1>1. UidNamesOneMessage' /\ HistoryComplete'
  BY UidInvFacts DEF UidFacts, UidNamesOneMessage, HistoryComplete
<1>a. ASSUME NEW b \in Nat, b < nextBox, b \in DOMAIN boxes'
      PROVE  /\ b \in DOMAIN boxes
             /\ \A u \in Nat : u < boxes[b].uidNext => u < boxes'[b].uidNext
  <2>1. nextBox \in Nat
    BY UidInvFacts DEF DbTypeOK
  <2>2. b \in DOMAIN boxes
    BY <1>a, <2>1
  <2>3. /\ boxes[b].uidNext \in Nat
        /\ boxes'[b].uidNext \in {boxes[b].uidNext, boxes[b].uidNext + 1}
    BY <1>a, <2>1, <2>2, UidInvFacts
  <2> QED
    BY <2>2, <2>3
<1>2. UidNextAbove'
  BY <1>a, UidInvFacts DEF UidFacts, UidNextAbove
<1>3. ASSUME NEW r \in Reqs, Holds(r)'
      PROVE  /\ Holds(r) /\ op'[r] = op[r]
             /\ op[r].uid < boxes'[op[r].box].uidNext
  BY <1>3, <1>a, UidInvFacts DEF UidFacts, UidsReserved, Holds
<1>4. UidsReserved'
  BY <1>3 DEF UidInv, UidsReserved
<1> QED
  BY <1>1, <1>2, <1>4 DEF UidFacts

\* Delivery, Sent copy, APPEND and COPY show a new message under a new uid.
LEMMA AddMessageUids ==
  ASSUME UidInv, NEW b \in DOMAIN boxes, NEW u, NEW fs, AddMessage(b, u, fs),
         \A r \in Reqs : op'[r] = op[r]
  PROVE  UidFacts'
<1> DEFINE uid == boxes[b].uidNext
<1>1. /\ DOMAIN boxes' = DOMAIN boxes
      /\ uid \in Nat
      /\ boxes'[b].uidNext = uid + 1
      /\ \A a \in DOMAIN boxes : a # b => boxes'[a] = boxes[a]
      /\ history' = history \cup {<<b, uid, nextMsg>>}
  BY UidInvFacts, AdvancedType DEF AddMessage
<1>2. /\ DOMAIN messages' = DOMAIN messages \cup {nextMsg}
      /\ messages'[nextMsg].box = b /\ messages'[nextMsg].uid = uid
      /\ \A m \in DOMAIN messages : messages'[m] = messages[m]
  BY UidInvFacts DEF AddMessage, Put, DbTypeOK, TakenUid
<1>3. \A h \in history : h[1] = b => h[2] < uid
  BY DEF UidInv, UidNextAbove
<1> HIDE DEF uid
<1>4. UidNamesOneMessage'
  BY <1>1, <1>3, UidInvFacts DEF UidFacts, UidNamesOneMessage
<1>5. UidNextAbove'
  BY <1>1, <1>3, UidInvFacts DEF UidFacts, UidNextAbove, uid
<1>6. HistoryComplete'
  BY <1>1, <1>2 DEF UidInv, HistoryComplete
<1>7. \A r \in Reqs : Holds(r)' => Holds(r) /\ op'[r] = op[r]
  BY <1>1 DEF Holds
<1>8. \A r \in Reqs : Holds(r) /\ op[r].box = b => op[r].uid < uid
  BY DEF UidInv, UidsReserved, uid
<1>9. UidsReserved'
  BY <1>1, <1>7, <1>8, UidInvFacts DEF UidFacts, UidsReserved, Holds
<1> QED
  BY <1>4, <1>5, <1>6, <1>9 DEF UidFacts

\* The web delete takes a uid no other request holds ...
LEMMA TakeTrashUidUids ==
  ASSUME UidInv, NEW r \in Reqs, op[r].box \in DOMAIN boxes,
         boxes' = UidAdvanced(op[r].box),
         op'[r] = [kind |-> "move", msg |-> op[r].msg, box |-> op[r].box,
                   uid |-> TakenUid(op[r].box)],
         \A q \in Reqs : q # r => op'[q] = op[q],
         UNCHANGED <<messages, history>>
  PROVE  UidFacts'
<1> DEFINE b == op[r].box
           uid == boxes[b].uidNext
<1>1. /\ DOMAIN boxes' = DOMAIN boxes
      /\ b \in DOMAIN boxes /\ uid \in Nat
      /\ boxes'[b].uidNext = uid + 1
      /\ \A a \in DOMAIN boxes : a # b => boxes'[a] = boxes[a]
      /\ op'[r].box = b /\ op'[r].uid = uid
  BY UidInvFacts, AdvancedType
<1>2. \A h \in history : h[1] = b => h[2] < uid
  BY DEF UidInv, UidNextAbove
<1>3. \A q \in Reqs : Holds(q) /\ op[q].box = b => op[q].uid < uid
  BY DEF UidInv, UidsReserved
<1> HIDE DEF b, uid
<1>4. UidNamesOneMessage' /\ HistoryComplete'
  BY DEF UidInv, UidNamesOneMessage, HistoryComplete
<1>5. UidNextAbove'
  BY <1>1, <1>2, UidInvFacts DEF UidFacts, UidNextAbove, uid
<1>6. ASSUME NEW q \in Reqs, Holds(q)', q # r
      PROVE  /\ Holds(q) /\ op'[q] = op[q]
             /\ op[q].uid < boxes'[op[q].box].uidNext
             /\ op[q].box = b => op[q].uid # uid
  <2>1. Holds(q) /\ op'[q] = op[q]
    BY <1>1, <1>6 DEF Holds
  <2> QED
    BY <1>1, <1>3, <2>1, UidInvFacts DEF UidFacts, UidsReserved, Holds, uid
<1>7. UidsReserved'
  <2> SUFFICES ASSUME NEW q \in Reqs, Holds(q)'
               PROVE  /\ op'[q].uid < boxes'[op'[q].box].uidNext
                      /\ \A h \in history : h[1] = op'[q].box => h[2] # op'[q].uid
                      /\ \A p \in Reqs : (/\ Holds(p)'
                                          /\ op'[p].box = op'[q].box
                                          /\ op'[p].uid = op'[q].uid) => p = q
    BY DEF UidsReserved
  <2>1. CASE q = r
    BY <1>1, <1>2, <1>6, <2>1, UidInvFacts
  <2>2. CASE q # r
    <3>1. Holds(q) /\ op'[q] = op[q]
      BY <1>6, <2>2
    <3>2. \A p \in Reqs : p # r /\ Holds(p)' => Holds(p) /\ op'[p] = op[p]
      BY <1>6
    <3> QED
      BY <1>1, <1>6, <2>2, <3>1, <3>2 DEF UidInv, UidsReserved
  <2> QED
    BY <2>1, <2>2
<1> QED
  BY <1>4, <1>5, <1>7 DEF UidFacts

\* ... and shows the message under it.
LEMMA MoveToTrashUids ==
  ASSUME UidInv, NEW r \in Reqs, op[r].kind = "move", op'[r] = Idle,
         CanMove(op[r].msg, op[r].box, op[r].uid),
         messages' = [messages EXCEPT ![op[r].msg].box = op[r].box,
                                      ![op[r].msg].uid = op[r].uid],
         history' = history \cup {<<op[r].box, op[r].uid, op[r].msg>>},
         \A q \in Reqs : q # r => op'[q] = op[q],
         UNCHANGED boxes
  PROVE  UidFacts'
<1> DEFINE b == op[r].box
           uid == op[r].uid
           msg == op[r].msg
<1>1. /\ b \in DOMAIN boxes /\ msg \in DOMAIN messages /\ uid \in Nat
      /\ history' = history \cup {<<b, uid, msg>>}
  BY UidInvFacts DEF CanMove
<1>2. /\ DOMAIN messages' = DOMAIN messages
      /\ messages'[msg].box = b /\ messages'[msg].uid = uid
      /\ \A m \in DOMAIN messages : m # msg => messages'[m] = messages[m]
  BY <1>1, UidInvFacts DEF DbTypeOK, Message
<1>3. /\ uid # 0 => /\ Holds(r)
                    /\ uid < boxes[b].uidNext
                    /\ \A h \in history : h[1] = b => h[2] # uid
      /\ \A q \in Reqs : Holds(q) /\ q # r /\ op[q].box = b => op[q].uid # uid
  BY <1>1, UidInvFacts DEF UidFacts, UidsReserved, Holds
<1>u. uid < boxes[b].uidNext
  BY <1>1, <1>3, UidInvFacts
<1> HIDE DEF b, uid, msg
<1>4. UidNamesOneMessage'
  BY <1>1, <1>3, UidInvFacts DEF UidFacts, UidNamesOneMessage
<1>5. UidNextAbove'
  BY <1>1, <1>u, UidInvFacts DEF UidFacts, UidNextAbove
<1>6. HistoryComplete'
  BY <1>1, <1>2 DEF UidInv, HistoryComplete
<1>7. \A q \in Reqs : Holds(q)' => Holds(q) /\ q # r /\ op'[q] = op[q]
  BY DEF Holds, Idle
<1>8. UidsReserved'
  BY <1>1, <1>3, <1>7 DEF UidInv, UidsReserved
<1> QED
  BY <1>4, <1>5, <1>6, <1>8 DEF UidFacts

LEMMA UidFactsStep ==
  ASSUME UidInv, [Next]_vars
  PROVE  UidFacts'
<1>0. DbTypeOK /\ op \in [Procs -> Op] /\ Idle \in Op
  BY DEF UidInv, TypeOK, DbTypeOK, Op
<1>a. \A b \in DOMAIN boxes : b < nextBox /\ b \in Nat /\ nextBox \in Nat
  BY <1>0 DEF DbTypeOK
<1>b. ASSUME UNCHANGED <<boxes, messages, history>>,
             \A r \in Reqs : op'[r] = op[r] \/ op'[r].kind # "move"
      PROVE  UidFacts'
  BY <1>b, UidsKept
<1>c. ASSUME NEW b \in DOMAIN boxes, SkipUid(b), \A r \in Reqs : op'[r] = op[r]
      PROVE  UidFacts'
  BY <1>0, <1>c, UidsKept, AdvancedType DEF SkipUid
<1>d. ASSUME NEW c \in Conns, NEW o, Goto(c, o)
      PROVE  \A r \in Reqs : op'[r] = op[r]
  BY <1>0, <1>d, StoreAssumption DEF StoreAssumption, Goto, Procs
<1>e. ASSUME NEW r \in Reqs, NEW o, Goto(r, o)
      PROVE  op'[r] = o /\ \A q \in Reqs : q # r => op'[q] = op[q]
  BY <1>0, <1>e DEF Goto, Procs
<1>1. ASSUME NEW u \in Users, CreateUser(u) PROVE UidFacts'
  <2>1. \A b \in DOMAIN boxes' : (b \in DOMAIN boxes /\ boxes'[b] = boxes[b])
                                   \/ b >= nextBox
    BY <1>a, <1>0, <1>1 DEF CreateUser, DbTypeOK
  <2> QED
    BY <1>1, <2>1, UidsKept DEF CreateUser
<1>2. ASSUME NEW u \in Users, Deliver(u) \/ SaveToSent(u) PROVE UidFacts'
  BY <1>0, <1>2, AddMessageUids, BoxesOfType DEF Deliver, SaveToSent
<1>3. ASSUME NEW u \in Users, NEW name \in Names, CreateMailbox(u, name)
      PROVE  UidFacts'
  <2>1. \A b \in DOMAIN boxes' : (b \in DOMAIN boxes /\ boxes'[b] = boxes[b])
                                   \/ b >= nextBox
    BY <1>a, <1>0, <1>3 DEF CreateMailbox, Put, DbTypeOK
  <2> QED
    BY <1>3, <2>1, UidsKept DEF CreateMailbox
<1>4. ASSUME NEW u \in Users, NEW name \in Names, DeleteMailbox(u, name)
      PROVE  UidFacts'
  <2>1. /\ \A b \in DOMAIN boxes' : b \in DOMAIN boxes /\ boxes'[b] = boxes[b]
        /\ \A m \in DOMAIN messages' :
             m \in DOMAIN messages /\ messages'[m] = messages[m]
    BY <1>4 DEF DeleteMailbox, RemoveMessages, Drop
  <2> QED
    BY <1>4, <2>1, UidsKept DEF DeleteMailbox
<1>5. ASSUME NEW u \in Users, NEW name \in Names, NEW new \in Names,
             RenameMailbox(u, name, new)
      PROVE  UidFacts'
  <2>1. \A b \in DOMAIN boxes' :
          b \in DOMAIN boxes /\ boxes'[b].uidNext = boxes[b].uidNext
    BY <1>0, <1>5 DEF RenameMailbox, DbTypeOK, Box
  <2> QED
    BY <1>5, <2>1, UidsKept DEF RenameMailbox
<1>6. ASSUME NEW c \in Conns, ImapCommand(c) PROVE UidFacts'
  <2>1. CASE Expunge(c)
    <3>1. \A m \in DOMAIN messages' :
            m \in DOMAIN messages /\ messages'[m] = messages[m]
      BY <2>1 DEF Expunge, RemoveMessages, Drop
    <3> QED
      BY <2>1, <3>1, UidsKept DEF Expunge
  <2>2. CASE Select(c)
    BY <1>b, <2>2 DEF Select, db
  <2>3. CASE Append(c) \/ UpdateMessagesFlags(c) \/ CopyMessages(c)
    BY <1>b, <1>d, <2>3 DEF Append, UpdateMessagesFlags, CopyMessages, db
  <2> QED
    BY <1>6, <2>1, <2>2, <2>3 DEF ImapCommand
<1>7. ASSUME NEW c \in Conns, ImapStep(c) PROVE UidFacts'
  <2>1. \A r \in Reqs : op'[r] = op[r]
    BY <1>7, <1>d DEF ImapStep, CreateMessage, StoreFlag, FindDest, CopyOne
  <2>2. CASE CreateMessage(c)
    BY <1>b, <2>1, <2>2, AddMessageUids DEF CreateMessage, db
  <2>3. CASE StoreFlag(c)
    BY <1>b, <2>1, <2>3 DEF StoreFlag
  <2>4. CASE FindDest(c)
    BY <1>b, <2>1, <2>4 DEF FindDest, db
  <2>5. CASE CopyOne(c)
    BY <1>b, <1>c, <2>1, <2>5, AddMessageUids DEF CopyOne, db
  <2> QED
    BY <1>7, <2>2, <2>3, <2>4, <2>5 DEF ImapStep
<1>8. ASSUME NEW r \in Reqs, View(r) \/ DeleteMessage(r) \/ MarkSeen(r) \/ FindTrash(r)
      PROVE  UidFacts'
  <2>1. op'[r].kind # "move"
    <3>1. CASE View(r)
      BY <1>e, <3>1 DEF View
    <3>2. CASE DeleteMessage(r)
      BY <1>e, <3>2 DEF DeleteMessage
    <3>3. CASE MarkSeen(r)
      BY <1>e, <3>3 DEF MarkSeen, Idle
    <3>4. CASE FindTrash(r)
      <4>1. CASE Goto(r, Idle)
        BY <1>e, <4>1 DEF Idle
      <4>2. ASSUME NEW b,
                   Goto(r, [kind |-> "trash", msg |-> op[r].msg, box |-> b])
            PROVE  op'[r].kind # "move"
        <5>1. op'[r] = [kind |-> "trash", msg |-> op[r].msg, box |-> b]
          BY <1>e, <4>2
        <5> QED
          BY <5>1
      <4> QED
        BY <3>4, <4>1, <4>2 DEF FindTrash
    <3> QED
      BY <1>8, <3>1, <3>2, <3>3, <3>4
  <2>2. \A q \in Reqs : q # r => op'[q] = op[q]
    BY <1>8, <1>e DEF View, DeleteMessage, MarkSeen, FindTrash
  <2> QED
    BY <1>b, <1>8, <2>1, <2>2 DEF View, DeleteMessage, MarkSeen, FindTrash, db
<1>9. ASSUME NEW r \in Reqs, Purge(r) PROVE UidFacts'
  <2>1. \A m \in DOMAIN messages' :
          m \in DOMAIN messages /\ messages'[m] = messages[m]
    BY <1>9 DEF Purge, RemoveMessages, Drop
  <2>2. op'[r] = Idle /\ \A q \in Reqs : q # r => op'[q] = op[q]
    BY <1>9, <1>e DEF Purge
  <2> QED
    BY <1>9, <2>1, <2>2, UidsKept DEF Purge, Idle
<1>10. ASSUME NEW r \in Reqs, TakeTrashUid(r) PROVE UidFacts'
  <2>1. CASE /\ op[r].box \in DOMAIN boxes
             /\ boxes' = UidAdvanced(op[r].box)
             /\ Goto(r, [kind |-> "move", msg |-> op[r].msg, box |-> op[r].box,
                         uid |-> TakenUid(op[r].box)])
    BY <1>10, <1>e, <2>1, TakeTrashUidUids DEF TakeTrashUid
  <2>2. CASE /\ Goto(r, [kind |-> "move", msg |-> op[r].msg, box |-> op[r].box,
                         uid |-> 0])
             /\ UNCHANGED boxes
    <3>1. op'[r].uid = 0 /\ \A q \in Reqs : q # r => op'[q] = op[q]
      BY <1>e, <2>2
    <3>2. \A q \in Reqs : Holds(q)' => Holds(q) /\ op'[q] = op[q]
      BY <2>2, <3>1 DEF Holds
    <3> QED
      BY <1>10, <2>2, <3>2
         DEF TakeTrashUid, UidInv, UidFacts, UidNamesOneMessage, UidNextAbove,
             HistoryComplete, UidsReserved
  <2> QED
    BY <1>10, <2>1, <2>2 DEF TakeTrashUid
<1>11. ASSUME NEW r \in Reqs, MoveToTrash(r) PROVE UidFacts'
  <2>1. op'[r] = Idle /\ \A q \in Reqs : q # r => op'[q] = op[q]
    BY <1>11, <1>e DEF MoveToTrash
  <2>2. CASE UNCHANGED <<messages, history>>
    BY <1>b, <1>11, <2>1, <2>2 DEF MoveToTrash, Idle
  <2> QED
    BY <1>11, <2>1, <2>2, MoveToTrashUids DEF MoveToTrash
<1>12. CASE Crash
  BY <1>12, <1>b DEF Crash, db, Procs, Idle
<1>13. CASE UNCHANGED vars
  BY <1>13, <1>b DEF vars
<1> QED
  BY <1>1, <1>2, <1>3, <1>4, <1>5, <1>6, <1>7, <1>8, <1>9, <1>10, <1>11, <1>12,
     <1>13 DEF Next, WebRequest, WebStep

\* UidInv is inductive once messages are known to be in mailboxes that exist.
LEMMA UidInvariant == Spec => [](UidInv /\ ReferentialIntegrity)
<1>1. Init => UidInv /\ ReferentialIntegrity
  <2>1. Init => IdsIssued
    <3>1. Init => \A p \in Procs : Issued(p)
      BY DEF Init, Issued, Idle
    <3> QED
      BY <3>1 DEF Init, IdsIssued
  <2>2. Init => UidsReserved
    BY DEF Init, UidsReserved, Holds, Idle, Procs
  <2> QED
    BY <2>1, <2>2, TypeInit
       DEF Init, UidInv, UidNamesOneMessage, UidNextAbove, HistoryComplete,
           ReferentialIntegrity
<1>2. UidInv /\ ReferentialIntegrity /\ [Next]_vars
        => (UidInv /\ ReferentialIntegrity)'
  <2> SUFFICES ASSUME UidInv, ReferentialIntegrity, [Next]_vars
               PROVE  (UidInv /\ ReferentialIntegrity)'
    OBVIOUS
  <2>1. TypeOK' /\ ReferentialIntegrity'
    BY TypeStep, IntegrityStep DEF UidInv
  <2>2. IdsIssued'
    BY <2>1, IdsStep DEF UidInv
  <2>3. UidFacts'
    BY UidFactsStep
  <2> QED
    BY <2>1, <2>2, <2>3 DEF UidInv, UidFacts
<1> QED
  BY <1>1, <1>2, PTL DEF Spec

\* No uid ever comes to stand for another message, for any number of clients,
\* mailboxes and messages, with crashes and failing writes.
THEOREM UidsNameOneMessage == Spec => []UidNamesOneMessage
<1>1. UidInv => UidNamesOneMessage
  BY DEF UidInv
<1> QED
  BY <1>1, UidInvariant, PTL

-----------------------------------------------------------------------------
(* Every account keeps its INBOX *)

\* Mailboxes belong to registered accounts, so a new account has none yet.
OwnersRegistered == \A b \in DOMAIN boxes : boxes[b].owner \in users

\* Steps that leave names and owners of mailboxes alone.
LEMMA NamesKept ==
  ASSUME OwnersRegistered, InboxAlways, UNCHANGED users,
         DOMAIN boxes' = DOMAIN boxes,
         \A b \in DOMAIN boxes : /\ boxes'[b].owner = boxes[b].owner
                                 /\ boxes'[b].name = boxes[b].name
  PROVE  OwnersRegistered' /\ InboxAlways'
<1>1. \A u : BoxesOf(u, "INBOX")' = BoxesOf(u, "INBOX")
  BY DEF BoxesOf
<1> QED
  BY <1>1 DEF OwnersRegistered, InboxAlways

\* Only CreateUser, CreateMailbox, DeleteMailbox and RenameMailbox do not.
LEMMA OtherStepsKeepNames ==
  ASSUME DbTypeOK, [Next]_vars,
         ~ \E u \in Users :
             \/ CreateUser(u)
             \/ \E name \in Names :
                  \/ CreateMailbox(u, name) \/ DeleteMailbox(u, name)
                  \/ \E new \in Names : RenameMailbox(u, name, new)
  PROVE  /\ UNCHANGED users
         /\ DOMAIN boxes' = DOMAIN boxes
         /\ \A b \in DOMAIN boxes : /\ boxes'[b].owner = boxes[b].owner
                                    /\ boxes'[b].name = boxes[b].name
<1>1. /\ UNCHANGED users
      /\ UNCHANGED boxes \/ \E b \in DOMAIN boxes : boxes' = UidAdvanced(b)
  BY BoxesOfType
     DEF Next, vars, db, Deliver, SaveToSent, AddMessage, ImapCommand, Select,
         Append, Expunge, UpdateMessagesFlags, CopyMessages, ImapStep,
         CreateMessage, StoreFlag, FindDest, CopyOne, SkipUid, WebRequest, View,
         DeleteMessage, WebStep, MarkSeen, Purge, FindTrash, TakeTrashUid,
         MoveToTrash, Crash
<1> QED
  BY <1>1, AdvancedType

LEMMA InboxStep ==
  ASSUME TypeOK, OwnersRegistered, InboxAlways, [Next]_vars
  PROVE  OwnersRegistered' /\ InboxAlways'
<1>0. DbTypeOK /\ nextBox \in Nat /\ \A b \in DOMAIN boxes : b < nextBox /\ b \in Nat
  BY DEF TypeOK, DbTypeOK
<1>1. ASSUME NEW u \in Users, CreateUser(u)
      PROVE  OwnersRegistered' /\ InboxAlways'
  <2>1. \A b \in DOMAIN boxes' :
          \/ b \in DOMAIN boxes /\ boxes'[b] = boxes[b]
          \/ /\ b \in nextBox .. nextBox + 3
             /\ boxes'[b].owner = u
             /\ boxes'[b].name = DefaultNames[b - nextBox + 1]
    BY <1>0, <1>1 DEF CreateUser
  <2>2. \A b \in DOMAIN boxes : b \in DOMAIN boxes' /\ boxes'[b] = boxes[b]
    BY <1>0, <1>1 DEF CreateUser
  <2>3. nextBox \in DOMAIN boxes' /\ boxes'[nextBox].owner = u
          /\ boxes'[nextBox].name = "INBOX"
    BY <1>0, <1>1 DEF CreateUser, DefaultNames
  <2>4. users' = users \cup {u} /\ u \notin users
    BY <1>1 DEF CreateUser
  <2>5. OwnersRegistered'
    BY <2>1, <2>4 DEF OwnersRegistered
  <2>6. ASSUME NEW v \in users
        PROVE  BoxesOf(v, "INBOX")' = BoxesOf(v, "INBOX")
    BY <2>1, <2>2, <2>4 DEF BoxesOf
  <2>7. BoxesOf(u, "INBOX")' = {nextBox}
    <3>1. \A b \in nextBox .. nextBox + 3 :
            DefaultNames[b - nextBox + 1] = "INBOX" => b = nextBox
      <4>1. \A b \in nextBox .. nextBox + 3 :
              b - nextBox + 1 \in {1, 2, 3, 4}
                /\ (b - nextBox + 1 = 1 => b = nextBox)
        BY <1>0
      <4>2. \A i \in {1, 2, 3, 4} : DefaultNames[i] = "INBOX" => i = 1
        BY DEF DefaultNames
      <4> QED
        BY <4>1, <4>2
    <3>2. \A b \in DOMAIN boxes : boxes'[b].owner # u
      BY <2>2, <2>4 DEF OwnersRegistered
    <3> QED
      BY <2>1, <2>3, <3>1, <3>2 DEF BoxesOf
  <2> QED
    BY <2>2, <2>3, <2>4, <2>5, <2>6, <2>7 DEF InboxAlways
<1>2. ASSUME NEW u \in Users, NEW name \in Names, CreateMailbox(u, name)
      PROVE  OwnersRegistered' /\ InboxAlways'
  <2>1. /\ DOMAIN boxes' = DOMAIN boxes \cup {nextBox}
        /\ \A b \in DOMAIN boxes : boxes'[b] = boxes[b]
        /\ boxes'[nextBox].owner = u /\ boxes'[nextBox].name = name
        /\ u \in users /\ users' = users /\ BoxesOf(u, name) = {}
    BY <1>0, <1>2 DEF CreateMailbox, Put
  <2>2. name # "INBOX"
    BY <2>1 DEF InboxAlways
  <2>3. \A v : BoxesOf(v, "INBOX")' = BoxesOf(v, "INBOX")
    BY <2>1, <2>2 DEF BoxesOf
  <2> QED
    BY <2>1, <2>3 DEF OwnersRegistered, InboxAlways
<1>3. ASSUME NEW u \in Users, NEW name \in Names, DeleteMailbox(u, name)
      PROVE  OwnersRegistered' /\ InboxAlways'
  <2>1. /\ DOMAIN boxes' = DOMAIN boxes \ BoxesOf(u, name)
        /\ \A b \in DOMAIN boxes' : boxes'[b] = boxes[b]
        /\ name # "INBOX" /\ users' = users
    BY <1>3 DEF DeleteMailbox, Drop, Protected
  <2>2. \A v : BoxesOf(v, "INBOX")' = BoxesOf(v, "INBOX")
    BY <2>1 DEF BoxesOf
  <2>3. \A v : BoxesOf(v, "INBOX")' \subseteq DOMAIN boxes'
    BY DEF BoxesOf
  <2>4. OwnersRegistered'
    BY <2>1 DEF OwnersRegistered
  <2>5. InboxAlways'
    BY <2>1, <2>2, <2>3 DEF InboxAlways
  <2> QED
    BY <2>4, <2>5
<1>4. ASSUME NEW u \in Users, NEW name \in Names, NEW new \in Names,
             RenameMailbox(u, name, new)
      PROVE  OwnersRegistered' /\ InboxAlways'
  <2>1. PICK b \in BoxesOf(u, name) : boxes' = [boxes EXCEPT ![b].name = new]
    BY <1>4 DEF RenameMailbox
  <2>2. /\ b \in DOMAIN boxes /\ boxes[b].owner = u /\ boxes[b].name = name
        /\ name # "INBOX" /\ users' = users /\ BoxesOf(u, new) = {}
    BY <1>4, <2>1 DEF RenameMailbox, BoxesOf, Protected
  <2>3. new # "INBOX"
    BY <2>2 DEF InboxAlways, OwnersRegistered
  <2>4. /\ DOMAIN boxes' = DOMAIN boxes
        /\ boxes'[b].owner = u /\ boxes'[b].name = new
        /\ \A a \in DOMAIN boxes : a # b => boxes'[a] = boxes[a]
    BY <1>0, <2>1, <2>2 DEF DbTypeOK, Box
  <2>5. \A v : BoxesOf(v, "INBOX")' = BoxesOf(v, "INBOX")
    BY <2>2, <2>3, <2>4 DEF BoxesOf
  <2> QED
    BY <2>2, <2>4, <2>5 DEF OwnersRegistered, InboxAlways
<1> QED
  BY <1>0, <1>1, <1>2, <1>3, <1>4, OtherStepsKeepNames, NamesKept

\* An account always has exactly one INBOX, so an accepted message is never
\* dropped for want of one.
THEOREM InboxKept == Spec => []InboxAlways
<1>1. Init => OwnersRegistered /\ InboxAlways
  BY DEF Init, OwnersRegistered, InboxAlways
<1>2. TypeOK /\ OwnersRegistered /\ InboxAlways /\ [Next]_vars
        => (OwnersRegistered /\ InboxAlways)'
  BY InboxStep
<1> QED
  BY <1>1, <1>2, TypeCorrect, PTL DEF Spec

-----------------------------------------------------------------------------
(* Mail stays with its account *)

\* Rows that stay keep their owner; rows that come have ids not used before.
LEMMA OwnersKept ==
  ASSUME TypeOK, [Next]_vars
  PROVE  /\ \A b \in DOMAIN boxes' :
              \/ b \in DOMAIN boxes /\ boxes'[b].owner = boxes[b].owner
              \/ b >= nextBox
         /\ \A m \in DOMAIN messages' :
              \/ m \in DOMAIN messages /\ messages'[m].owner = messages[m].owner
              \/ m = nextMsg
<1>0. DbTypeOK /\ nextBox \in Nat
  BY DEF TypeOK, DbTypeOK
<1>a. \A b \in DOMAIN boxes :
        /\ DOMAIN UidAdvanced(b) = DOMAIN boxes
        /\ \A a \in DOMAIN boxes : UidAdvanced(b)[a].owner = boxes[a].owner
  BY <1>0, AdvancedType
<1>1. \A b \in DOMAIN boxes' :
        \/ b \in DOMAIN boxes /\ boxes'[b].owner = boxes[b].owner
        \/ b >= nextBox
  <2>1. ASSUME NEW u \in Users, CreateUser(u) \/
               \E name \in Names : CreateMailbox(u, name) \/ DeleteMailbox(u, name)
        PROVE  \A b \in DOMAIN boxes' :
                 (b \in DOMAIN boxes /\ boxes'[b] = boxes[b]) \/ b >= nextBox
    <3>1. CASE CreateUser(u)
      BY <1>0, <3>1 DEF CreateUser, DbTypeOK
    <3>2. ASSUME NEW name \in Names, CreateMailbox(u, name)
          PROVE  /\ DOMAIN boxes' = DOMAIN boxes \cup {nextBox}
                 /\ \A b \in DOMAIN boxes : boxes'[b] = boxes[b]
      BY <1>0, <3>2 DEF CreateMailbox, Put, DbTypeOK
    <3>3. ASSUME NEW name \in Names, DeleteMailbox(u, name)
          PROVE  \A b \in DOMAIN boxes' : b \in DOMAIN boxes /\ boxes'[b] = boxes[b]
      BY <3>3 DEF DeleteMailbox, Drop
    <3> QED
      BY <1>0, <2>1, <3>1, <3>2, <3>3
  <2>2. ASSUME NEW u \in Users, NEW name \in Names, NEW new \in Names,
               RenameMailbox(u, name, new)
        PROVE  /\ DOMAIN boxes' = DOMAIN boxes
               /\ \A b \in DOMAIN boxes : boxes'[b].owner = boxes[b].owner
    BY <1>0, <2>2, BoxesOfType DEF RenameMailbox, DbTypeOK, Box
  <2>3. CASE ~ \E u \in Users :
                 \/ CreateUser(u)
                 \/ \E name \in Names :
                      \/ CreateMailbox(u, name) \/ DeleteMailbox(u, name)
                      \/ \E new \in Names : RenameMailbox(u, name, new)
    BY <1>0, <2>3, OtherStepsKeepNames
  <2> QED
    BY <2>1, <2>2, <2>3
<1>2. ASSUME NEW b, NEW u, NEW fs, AddMessage(b, u, fs)
      PROVE  \A m \in DOMAIN messages' :
               (m \in DOMAIN messages /\ messages'[m] = messages[m]) \/ m = nextMsg
  BY <1>2 DEF AddMessage, Put
<1>3. ASSUME NEW ms, RemoveMessages(ms)
      PROVE  \A m \in DOMAIN messages' :
               m \in DOMAIN messages /\ messages'[m] = messages[m]
  BY <1>3 DEF RemoveMessages, Drop
<1>4. ASSUME NEW r \in Reqs, MoveToTrash(r)
      PROVE  /\ DOMAIN messages' = DOMAIN messages
             /\ \A m \in DOMAIN messages : messages'[m].owner = messages[m].owner
  BY <1>0, <1>4 DEF MoveToTrash, CanMove, DbTypeOK, Message
<1>5. \/ UNCHANGED messages
      \/ \E b, u, fs : AddMessage(b, u, fs)
      \/ \E ms : RemoveMessages(ms)
      \/ \E r \in Reqs : MoveToTrash(r)
  BY DEF Next, vars, db, CreateUser, Deliver, SaveToSent, CreateMailbox,
         DeleteMailbox, RenameMailbox, ImapCommand, Select, Append, Expunge,
         UpdateMessagesFlags, CopyMessages, ImapStep, CreateMessage, StoreFlag,
         FindDest, CopyOne, SkipUid, WebRequest, View, DeleteMessage, WebStep,
         MarkSeen, Purge, FindTrash, TakeTrashUid, Crash
<1> QED
  BY <1>1, <1>2, <1>3, <1>4, <1>5

LEMMA AtHomeKept ==
  ASSUME TypeOK, IdsIssued, [Next]_vars, NEW q \in Procs, op'[q] = op[q], AtHome(q)
  PROVE  AtHome(q)'
<1>1. op[q] \in Op /\ Issued(q) /\ nextBox \in Nat /\ nextMsg \in Nat
  BY DEF TypeOK, IdsIssued
<1>2. /\ op[q].kind \in {"append", "copyTo", "trash", "move"} => op[q].box \in Nat
      /\ op[q].kind \in {"delete", "trash", "move"} => op[q].msg \in Nat
      /\ op[q].kind \in {"copy", "copyTo"} => \A row \in op[q].rows : row.id \in Nat
  BY <1>1, OpKinds
     DEF AppendOp, CopyOp, CopyToOp, DeleteOp, TrashOp, MoveOp, Row
<1>3. ASSUME NEW b \in Nat, b < nextBox, b \in DOMAIN boxes'
      PROVE  b \in DOMAIN boxes /\ boxes'[b].owner = boxes[b].owner
  BY <1>1, <1>3, OwnersKept
<1>4. ASSUME NEW m \in Nat, m < nextMsg, m \in DOMAIN messages'
      PROVE  m \in DOMAIN messages /\ messages'[m].owner = messages[m].owner
  BY <1>1, <1>4, OwnersKept
<1>5. (/\ op[q].kind \in {"append", "copyTo", "trash", "move"}
       /\ op[q].box \in DOMAIN boxes') => boxes'[op[q].box].owner = UserOf[q]
  BY <1>1, <1>2, <1>3 DEF Issued, AtHome
<1>6. (/\ op[q].kind \in {"delete", "trash", "move"}
       /\ op[q].msg \in DOMAIN messages') => messages'[op[q].msg].owner = UserOf[q]
  BY <1>1, <1>2, <1>4 DEF Issued, AtHome
<1>7. op[q].kind \in {"copy", "copyTo"}
        => \A row \in op[q].rows :
             row.id \in DOMAIN messages' => messages'[row.id].owner = UserOf[q]
  BY <1>1, <1>2, <1>4 DEF Issued, AtHome
<1> QED
  BY <1>5, <1>6, <1>7 DEF AtHome

\* No step moves mail to another account's mailbox.
LEMMA MailStaysStep ==
  ASSUME HomeInv, [Next]_vars
  PROVE  MailStaysHome'
<1>0. DbTypeOK
  BY DEF HomeInv, TypeOK, DbTypeOK
<1>a. \A m \in DOMAIN messages : /\ messages[m].box \in DOMAIN boxes
                                 /\ messages[m].box \in Nat
                                 /\ messages[m].box < nextBox
                                 /\ boxes[messages[m].box].owner = messages[m].owner
  BY DEF HomeInv, TypeOK, ReferentialIntegrity, MailStaysHome
<1>b. ASSUME NEW m \in DOMAIN messages', NEW b \in DOMAIN boxes, b \in DOMAIN boxes',
             messages'[m].box = b, messages'[m].owner = boxes[b].owner
      PROVE  boxes'[messages'[m].box].owner = messages'[m].owner
  <2>1. b < nextBox /\ b \in Nat /\ nextBox \in Nat
    BY <1>0 DEF DbTypeOK
  <2>2. boxes'[b].owner = boxes[b].owner
    BY <1>b, <2>1, OwnersKept DEF HomeInv
  <2> QED
    BY <1>b, <2>2
<1>c. ASSUME \A m \in DOMAIN messages' :
               m \in DOMAIN messages /\ messages'[m] = messages[m]
      PROVE  MailStaysHome'
  BY <1>a, <1>b, <1>c DEF MailStaysHome
<1>d. ASSUME NEW b \in DOMAIN boxes, NEW fs, NEW u, u = boxes[b].owner,
             AddMessage(b, u, fs)
      PROVE  MailStaysHome'
  <2>1. /\ DOMAIN messages' = DOMAIN messages \cup {nextMsg}
        /\ messages'[nextMsg].box = b /\ messages'[nextMsg].owner = u
        /\ \A m \in DOMAIN messages : messages'[m] = messages[m]
    BY <1>0, <1>d DEF AddMessage, Put, DbTypeOK
  <2> QED
    BY <1>a, <1>b, <1>d, <2>1 DEF MailStaysHome
<1>e. ASSUME NEW ms, RemoveMessages(ms) PROVE MailStaysHome'
  BY <1>c, <1>e DEF RemoveMessages, Drop
<1>f. \A p \in Procs : AtHome(p)
  BY DEF HomeInv
<1>1. ASSUME NEW u \in Users, Deliver(u) \/ SaveToSent(u) PROVE MailStaysHome'
  BY <1>1, <1>d DEF Deliver, SaveToSent, BoxesOf
<1>2. ASSUME NEW c \in Conns, CreateMessage(c) PROVE MailStaysHome'
  <2>1. CASE op[c].box \in DOMAIN boxes /\ AddMessage(op[c].box, UserOf[c], op[c].fs)
    BY <1>2, <1>d, <1>f, <2>1 DEF CreateMessage, AtHome, Procs
  <2> QED
    BY <1>2, <1>c, <2>1 DEF CreateMessage, db
<1>3. ASSUME NEW c \in Conns, CopyOne(c) PROVE MailStaysHome'
  <2>1. ASSUME NEW r \in op[c].rows, op[c].box \in DOMAIN boxes,
               r.id \in DOMAIN messages,
               AddMessage(op[c].box, messages[r.id].owner, {})
        PROVE  MailStaysHome'
    BY <1>3, <1>d, <1>f, <2>1 DEF CopyOne, AtHome, Procs
  <2> QED
    BY <1>3, <1>c, <2>1 DEF CopyOne, SkipUid, db
<1>4. ASSUME NEW r \in Reqs, MoveToTrash(r) PROVE MailStaysHome'
  <2>1. CASE /\ CanMove(op[r].msg, op[r].box, op[r].uid)
             /\ messages' = [messages EXCEPT ![op[r].msg].box = op[r].box,
                                             ![op[r].msg].uid = op[r].uid]
    <3>1. /\ op[r].msg \in DOMAIN messages /\ op[r].box \in DOMAIN boxes
          /\ messages[op[r].msg].owner = UserOf[r]
          /\ boxes[op[r].box].owner = UserOf[r]
      BY <1>4, <1>f, <2>1 DEF CanMove, AtHome, MoveToTrash, Procs
    <3>2. /\ DOMAIN messages' = DOMAIN messages
          /\ messages'[op[r].msg].box = op[r].box
          /\ messages'[op[r].msg].owner = UserOf[r]
          /\ \A m \in DOMAIN messages : m # op[r].msg => messages'[m] = messages[m]
      BY <1>0, <2>1, <3>1 DEF DbTypeOK, Message
    <3>3. boxes' = boxes
      BY <1>4 DEF MoveToTrash
    <3> QED
      BY <1>a, <3>1, <3>2, <3>3 DEF MailStaysHome
  <2> QED
    BY <1>4, <1>c, <2>1 DEF MoveToTrash
<1>5. \/ UNCHANGED messages
      \/ \E ms : RemoveMessages(ms)
      \/ \E u \in Users : Deliver(u) \/ SaveToSent(u)
      \/ \E c \in Conns : CreateMessage(c) \/ CopyOne(c)
      \/ \E r \in Reqs : MoveToTrash(r)
  BY DEF Next, vars, db, CreateUser, CreateMailbox, DeleteMailbox,
         RenameMailbox, ImapCommand, Select, Append, Expunge,
         UpdateMessagesFlags, CopyMessages, ImapStep, StoreFlag, FindDest,
         WebRequest, View, DeleteMessage, WebStep, MarkSeen, Purge, FindTrash,
         TakeTrashUid, Crash
<1> QED
  BY <1>1, <1>2, <1>3, <1>4, <1>5, <1>c, <1>e

LEMMA HandlesStay ==
  ASSUME HomeInv, [Next]_vars, NEW c \in Conns, handle'[c] = handle[c],
         handle'[c] \in DOMAIN boxes'
  PROVE  boxes'[handle'[c]].owner = UserOf[c]
<1>1. handle[c] < nextBox /\ handle[c] \in Nat /\ nextBox \in Nat
  BY DEF HomeInv, TypeOK, IdsIssued
<1> QED
  BY <1>1, OwnersKept DEF HomeInv

\* HomeInv for a step in which process p takes up o.
LEMMA HomeGoto ==
  ASSUME HomeInv, [Next]_vars, NEW p \in Procs, NEW o, Goto(p, o),
         UNCHANGED handle, AtHome(p)'
  PROVE  /\ \A c \in Conns :
              handle'[c] \in DOMAIN boxes' => boxes'[handle'[c]].owner = UserOf[c]
         /\ \A q \in Procs : AtHome(q)'
<1>1. \A q \in Procs : q # p => op'[q] = op[q]
  BY DEF Goto, HomeInv, TypeOK
<1>2. \A q \in Procs : q # p => AtHome(q)'
  BY <1>1, AtHomeKept DEF HomeInv
<1> QED
  BY <1>2, HandlesStay

LEMMA HomeStep ==
  ASSUME HomeInv, [Next]_vars
  PROVE  /\ \A c \in Conns :
              handle'[c] \in DOMAIN boxes' => boxes'[handle'[c]].owner = UserOf[c]
         /\ \A q \in Procs : AtHome(q)'
<1> DEFINE Goal == /\ \A c \in Conns : handle'[c] \in DOMAIN boxes'
                                         => boxes'[handle'[c]].owner = UserOf[c]
                   /\ \A q \in Procs : AtHome(q)'
<1> USE DEF Procs
<1>0. DbTypeOK /\ op \in [Procs -> Op] /\ handle \in [Conns -> Nat]
  BY DEF HomeInv, TypeOK, DbTypeOK
<1>a. ASSUME NEW p \in Procs, NEW o, Goto(p, o) PROVE op'[p] = o
  BY <1>0, <1>a DEF Goto
<1>b. ASSUME NEW p \in Procs, Goto(p, Idle), UNCHANGED handle PROVE Goal
  <2>1. op'[p] = Idle
    BY <1>a, <1>b
  <2>2. AtHome(p)'
    BY <2>1 DEF AtHome, Idle
  <2> QED
    BY <1>b, <2>2, HomeGoto
<1>c. \A m \in DOMAIN messages :
        /\ messages[m].box \in DOMAIN boxes
        /\ boxes[messages[m].box].owner = messages[m].owner
  BY DEF HomeInv, ReferentialIntegrity, MailStaysHome
<1>d. \A p \in Procs : AtHome(p)
  BY DEF HomeInv
<1>1. ASSUME UNCHANGED <<op, handle>> PROVE Goal
  BY <1>1, <1>d, AtHomeKept, HandlesStay DEF HomeInv
<1>2. ASSUME NEW c \in Conns, Select(c) PROVE Goal
  <2>1. PICK b \in DOMAIN boxes : /\ boxes[b].owner = UserOf[c]
                                  /\ handle' = [handle EXCEPT ![c] = b]
    BY <1>2 DEF Select, BoxesOf
  <2>2. handle'[c] = b /\ \A d \in Conns : d # c => handle'[d] = handle[d]
    BY <1>0, <2>1
  <2>3. \A d \in Conns : d # c /\ handle'[d] \in DOMAIN boxes'
                           => boxes'[handle'[d]].owner = UserOf[d]
    BY <2>2, HandlesStay
  <2>4. boxes' = boxes /\ op' = op
    BY <1>2 DEF Select, db
  <2> QED
    BY <1>d, <2>1, <2>2, <2>3, <2>4, AtHomeKept DEF HomeInv
<1>3. ASSUME NEW c \in Conns, Append(c) PROVE Goal
  <2>1. PICK b, fs :
          /\ b \in DOMAIN boxes /\ boxes[b].owner = UserOf[c]
          /\ Goto(c, [kind |-> "append", box |-> b, fs |-> fs])
    BY <1>3 DEF Append, BoxesOf
  <2>2. op'[c] = [kind |-> "append", box |-> b, fs |-> fs] /\ boxes' = boxes
    BY <1>3, <1>a, <2>1 DEF Append, db
  <2>3. AtHome(c)'
    BY <2>1, <2>2 DEF AtHome
  <2> QED
    BY <1>3, <2>1, <2>3, HomeGoto DEF Append
<1>4. ASSUME NEW c \in Conns, UpdateMessagesFlags(c) PROVE Goal
  <2>1. PICK mode, fs, rows :
          Goto(c, [kind |-> "store", mode |-> mode, fs |-> fs, rows |-> rows,
                   todo |-> Statements(mode, fs)])
    BY <1>4 DEF UpdateMessagesFlags
  <2>2. op'[c].kind = "store"
    <3>1. op'[c] = [kind |-> "store", mode |-> mode, fs |-> fs, rows |-> rows,
                    todo |-> Statements(mode, fs)]
      BY <1>a, <2>1
    <3> QED
      BY <3>1
  <2>3. AtHome(c)'
    BY <2>2 DEF AtHome
  <2> QED
    BY <1>4, <2>1, <2>3, HomeGoto DEF UpdateMessagesFlags
<1>5. ASSUME NEW c \in Conns, CopyMessages(c) PROVE Goal
  <2>1. PICK rows \in SUBSET Rows(handle[c]), dest \in Names :
          Goto(c, [kind |-> "copy", rows |-> rows, dest |-> dest])
    BY <1>5 DEF CopyMessages
  <2>2. \A row \in rows : row.id \in DOMAIN messages
                            => messages[row.id].owner = UserOf[c]
    <3>1. \A row \in rows : /\ row.id \in DOMAIN messages
                            /\ messages[row.id].box = handle[c]
      BY <1>0, <2>1 DEF Rows, MessagesIn
    <3> QED
      BY <1>c, <3>1 DEF HomeInv
  <2>3. op'[c] = [kind |-> "copy", rows |-> rows, dest |-> dest]
          /\ messages' = messages
    BY <1>5, <1>a, <2>1 DEF CopyMessages, db
  <2>4. AtHome(c)'
    BY <2>2, <2>3 DEF AtHome
  <2> QED
    BY <1>5, <2>1, <2>4, HomeGoto DEF CopyMessages
<1>6. ASSUME NEW c \in Conns, CreateMessage(c) PROVE Goal
  BY <1>6, <1>b DEF CreateMessage
<1>7. ASSUME NEW c \in Conns, StoreFlag(c) PROVE Goal
  <2>1. op[c] \in StoreOp
    BY <1>0, <1>7, OpKinds DEF StoreFlag
  <2>2. PICK r \in op[c].rows, s \in op[c].todo :
          Goto(c, AfterStatement(op[c], r, s))
    BY <1>7 DEF StoreFlag
  <2>3. op'[c] \in {Idle} \cup StoreOp
    BY <1>a, <2>1, <2>2, AfterStatementType
  <2>4. AtHome(c)'
    BY <2>3 DEF AtHome, Idle, StoreOp
  <2> QED
    BY <1>7, <2>2, <2>4, HomeGoto DEF StoreFlag
<1>8. ASSUME NEW c \in Conns, FindDest(c) PROVE Goal
  <2>1. ASSUME NEW b \in DOMAIN boxes, boxes[b].owner = UserOf[c],
               Goto(c, [kind |-> "copyTo", rows |-> op[c].rows, box |-> b])
        PROVE  Goal
    <3>1. /\ op'[c] = [kind |-> "copyTo", rows |-> op[c].rows, box |-> b]
          /\ boxes' = boxes /\ messages' = messages
      BY <1>8, <1>a, <2>1 DEF FindDest, db
    <3>2. \A row \in op[c].rows : row.id \in DOMAIN messages
                                    => messages[row.id].owner = UserOf[c]
      BY <1>8, <1>d DEF FindDest, AtHome
    <3>3. AtHome(c)'
      BY <2>1, <3>1, <3>2 DEF AtHome
    <3> QED
      BY <1>8, <2>1, <3>3, HomeGoto DEF FindDest
  <2> QED
    BY <1>8, <1>b, <2>1 DEF FindDest, BoxesOf
<1>9. ASSUME NEW c \in Conns, CopyOne(c) PROVE Goal
  <2>1. op[c] \in CopyToOp /\ op[c].kind = "copyTo"
    BY <1>0, <1>9, OpKinds DEF CopyOne
  <2>2. ASSUME NEW r, Goto(c, [op[c] EXCEPT !.rows = @ \ {r}])
        PROVE  Goal
    <3>1. op'[c] = [op[c] EXCEPT !.rows = @ \ {r}]
      BY <1>a, <2>2
    <3>2. /\ op'[c].kind = "copyTo" /\ op'[c].box = op[c].box
          /\ op'[c].rows \subseteq op[c].rows
      BY <2>1, <3>1 DEF CopyToOp
    <3>3. /\ op[c].box \in Nat /\ op[c].box < nextBox /\ nextBox \in Nat
          /\ \A row \in op[c].rows : row.id \in Nat /\ row.id < nextMsg
          /\ nextMsg \in Nat
      BY <2>1 DEF CopyToOp, Row, HomeInv, IdsIssued, Issued, TypeOK
    <3>4. op[c].box \in DOMAIN boxes' => boxes'[op[c].box].owner = UserOf[c]
      BY <1>d, <2>1, <3>3, OwnersKept DEF AtHome, HomeInv
    <3>5. \A row \in op[c].rows :
            row.id \in DOMAIN messages' => messages'[row.id].owner = UserOf[c]
      BY <1>d, <2>1, <3>3, OwnersKept DEF AtHome, HomeInv
    <3>6. AtHome(c)'
      BY <3>2, <3>4, <3>5 DEF AtHome
    <3> QED
      BY <1>9, <2>2, <3>6, HomeGoto DEF CopyOne
  <2> QED
    BY <1>9, <1>b, <2>2 DEF CopyOne
<1>10. ASSUME NEW r \in Reqs, View(r) PROVE Goal
  <2>1. PICK m : Goto(r, [kind |-> "view", msg |-> m])
    BY <1>10 DEF View
  <2>2. op'[r] = [kind |-> "view", msg |-> m]
    BY <1>a, <2>1
  <2>3. AtHome(r)'
    BY <2>2 DEF AtHome
  <2> QED
    BY <1>10, <2>1, <2>3, HomeGoto DEF View
<1>11. ASSUME NEW r \in Reqs, DeleteMessage(r) PROVE Goal
  <2>1. PICK m \in DOMAIN messages :
          /\ Finds(r, m)
          /\ Goto(r, [kind |-> "delete", msg |-> m,
                      name |-> boxes[messages[m].box].name])
    BY <1>11 DEF DeleteMessage
  <2>2. /\ op'[r] = [kind |-> "delete", msg |-> m,
                     name |-> boxes[messages[m].box].name]
        /\ messages' = messages
    BY <1>11, <1>a, <2>1 DEF DeleteMessage, db
  <2>3. messages[m].owner = UserOf[r]
    BY <1>c, <2>1 DEF Finds
  <2>4. AtHome(r)'
    BY <2>2, <2>3 DEF AtHome
  <2> QED
    BY <1>11, <2>1, <2>4, HomeGoto DEF DeleteMessage
<1>12. ASSUME NEW r \in Reqs, MarkSeen(r) \/ Purge(r) \/ MoveToTrash(r) PROVE Goal
  BY <1>12, <1>b DEF MarkSeen, Purge, MoveToTrash
<1>13. ASSUME NEW r \in Reqs, FindTrash(r) PROVE Goal
  <2>1. ASSUME NEW b \in DOMAIN boxes, boxes[b].owner = UserOf[r],
               Goto(r, [kind |-> "trash", msg |-> op[r].msg, box |-> b])
        PROVE  Goal
    <3>1. /\ op'[r] = [kind |-> "trash", msg |-> op[r].msg, box |-> b]
          /\ boxes' = boxes /\ messages' = messages
      BY <1>13, <1>a, <2>1 DEF FindTrash, db
    <3>2. op[r].msg \in DOMAIN messages => messages[op[r].msg].owner = UserOf[r]
      BY <1>13, <1>d DEF FindTrash, AtHome
    <3>3. AtHome(r)'
      BY <2>1, <3>1, <3>2 DEF AtHome
    <3> QED
      BY <1>13, <2>1, <3>3, HomeGoto DEF FindTrash
  <2> QED
    BY <1>13, <1>b, <2>1 DEF FindTrash, BoxesOf
<1>14. ASSUME NEW r \in Reqs, TakeTrashUid(r) PROVE Goal
  <2>1. PICK u : Goto(r, [kind |-> "move", msg |-> op[r].msg,
                          box |-> op[r].box, uid |-> u])
    BY <1>14 DEF TakeTrashUid
  <2>2. /\ op'[r] = [kind |-> "move", msg |-> op[r].msg,
                     box |-> op[r].box, uid |-> u]
        /\ messages' = messages
    BY <1>14, <1>a, <2>1 DEF TakeTrashUid
  <2>3. /\ op[r].box \in DOMAIN boxes => boxes[op[r].box].owner = UserOf[r]
        /\ op[r].msg \in DOMAIN messages => messages[op[r].msg].owner = UserOf[r]
    BY <1>14, <1>d DEF TakeTrashUid, AtHome
  <2>4. /\ DOMAIN boxes' = DOMAIN boxes
        /\ \A b \in DOMAIN boxes : boxes'[b].owner = boxes[b].owner
    BY <1>0, <1>14, AdvancedType DEF TakeTrashUid
  <2>5. AtHome(r)'
    BY <2>2, <2>3, <2>4 DEF AtHome
  <2> QED
    BY <1>14, <2>1, <2>5, HomeGoto DEF TakeTrashUid
<1>15. ASSUME Crash PROVE Goal
  <2>1. \A q \in Procs : op'[q] = Idle
    BY <1>15 DEF Crash
  <2>2. \A q \in Procs : AtHome(q)'
    BY <2>1 DEF AtHome, Idle
  <2>3. \A c \in Conns : handle'[c] = 0
    BY <1>15 DEF Crash
  <2>4. 0 \notin DOMAIN boxes'
    BY <1>0, <1>15 DEF Crash, db, DbTypeOK
  <2> QED
    BY <2>2, <2>3, <2>4
<1>16. ASSUME NEW c \in Conns, Expunge(c) PROVE UNCHANGED <<op, handle>>
  BY <1>16 DEF Expunge
<1>17. ASSUME NEW u \in Users,
              \/ CreateUser(u) \/ Deliver(u) \/ SaveToSent(u)
              \/ \E name \in Names :
                   \/ CreateMailbox(u, name) \/ DeleteMailbox(u, name)
                   \/ \E new \in Names : RenameMailbox(u, name, new)
       PROVE  UNCHANGED <<op, handle>>
  BY <1>17 DEF CreateUser, Deliver, SaveToSent, CreateMailbox, DeleteMailbox,
               RenameMailbox
<1> HIDE DEF Goal
<1>18. Goal
  BY <1>1, <1>2, <1>3, <1>4, <1>5, <1>6, <1>7, <1>8, <1>9, <1>10, <1>11, <1>12,
     <1>13, <1>14, <1>15, <1>16, <1>17
     DEF Next, vars, ImapCommand, ImapStep, WebRequest, WebStep
<1> QED
  BY <1>18 DEF Goal

\* No interleaving of handlers, mailbox management and account creation puts
\* one account's mail into another account's mailbox.
THEOREM MailStaysWithItsAccount == Spec => []MailStaysHome
<1>1. Init => HomeInv
  <2>1. Init => \A p \in Procs : Issued(p) /\ AtHome(p)
    BY DEF Init, Issued, AtHome, Idle
  <2> QED
    BY <2>1, TypeInit
       DEF Init, HomeInv, IdsIssued, ReferentialIntegrity, MailStaysHome
<1>2. HomeInv /\ [Next]_vars => HomeInv'
  <2> SUFFICES ASSUME HomeInv, [Next]_vars PROVE HomeInv'
    OBVIOUS
  <2>1. TypeOK' /\ ReferentialIntegrity'
    BY TypeStep, IntegrityStep DEF HomeInv
  <2>2. IdsIssued'
    BY <2>1, IdsStep DEF HomeInv
  <2> QED
    BY <2>1, <2>2, MailStaysStep, HomeStep DEF HomeInv
<1>3. HomeInv => MailStaysHome
  BY DEF HomeInv
<1> QED
  BY <1>1, <1>2, <1>3, PTL DEF Spec

-----------------------------------------------------------------------------
(* New mail is numbered above all mail seen *)

\* A row that is new has been added with the uid uid_next had.
LEMMA NewRowsAdded ==
  ASSUME TypeOK, [Next]_vars, NEW m \in DOMAIN messages' \ DOMAIN messages
  PROVE  \E b \in DOMAIN boxes : \E u, fs : AddMessage(b, u, fs) /\ m = nextMsg
<1>0. DbTypeOK
  BY DEF TypeOK, DbTypeOK
<1>1. ASSUME NEW b, NEW u, NEW fs, AddMessage(b, u, fs)
      PROVE  m = nextMsg
  BY <1>1 DEF AddMessage, Put
<1>2. ASSUME NEW ms, RemoveMessages(ms)
      PROVE  FALSE
  BY <1>2 DEF RemoveMessages, Drop
<1>3. ASSUME NEW r \in Reqs, MoveToTrash(r)
      PROVE  FALSE
  BY <1>0, <1>3 DEF MoveToTrash, CanMove, DbTypeOK
<1>4. \/ UNCHANGED messages
      \/ \E b \in DOMAIN boxes : \E u, fs : AddMessage(b, u, fs)
      \/ \E ms : RemoveMessages(ms)
      \/ \E r \in Reqs : MoveToTrash(r)
  BY <1>0, BoxesOfType
     DEF Next, vars, db, CreateUser, Deliver, SaveToSent, CreateMailbox,
         DeleteMailbox, RenameMailbox, ImapCommand, Select, Append, Expunge,
         UpdateMessagesFlags, CopyMessages, ImapStep, CreateMessage, StoreFlag,
         FindDest, CopyOne, SkipUid, WebRequest, View, DeleteMessage, WebStep,
         MarkSeen, Purge, FindTrash, TakeTrashUid, Crash
<1> QED
  BY <1>1, <1>2, <1>3, <1>4

\* Delivered, saved, appended and copied mail gets a uid above all uids its
\* mailbox has shown, also while web deletes hold uids they have not used.
THEOREM NewMailIsNumberedLast == Spec => NewMailAscends
<1> DEFINE Above == \A m \in DOMAIN messages' \ DOMAIN messages : Ascends(m)
<1>1. ASSUME UidInv, [Next]_vars, NEW m \in DOMAIN messages' \ DOMAIN messages
      PROVE  Ascends(m)
  <2>1. TypeOK /\ DbTypeOK /\ UidNextAbove
    BY <1>1, UidInvFacts DEF UidInv
  <2>2. PICK b \in DOMAIN boxes : \E u, fs : AddMessage(b, u, fs) /\ m = nextMsg
    BY <1>1, <2>1, NewRowsAdded
  <2>3. messages'[m].box = b /\ messages'[m].uid = boxes[b].uidNext
    BY <2>1, <2>2 DEF AddMessage, Put, TakenUid
  <2> QED
    BY <2>1, <2>3 DEF Ascends, UidNextAbove
<1>2. UidInv /\ [Next]_vars => [Above]_vars
  BY <1>1
<1> QED
  BY <1>2, UidInvariant, PTL DEF Spec, NewMailAscends

-----------------------------------------------------------------------------
(* Mail vanishes on request only, where nobody manages mailboxes *)

\* The handler in flight in r purges only what is in Trash, and moves mail
\* only to Trash.
PurgesTrash(r) ==
  /\ (/\ op[r].kind = "delete" /\ op[r].name = "Trash"
      /\ op[r].msg \in DOMAIN messages)
       => boxes[messages[op[r].msg].box].name = "Trash"
  /\ op[r].kind \in {"trash", "move"}
       => op[r].box \in DOMAIN boxes /\ boxes[op[r].box].name = "Trash"

TrashInv == \A r \in Reqs : PurgesTrash(r)

LEMMA NobodyManages ==
  ASSUME Admins = {}, TypeOK, [Next]_vars
  PROVE  /\ \A b \in DOMAIN boxes :
              b \in DOMAIN boxes' /\ boxes'[b].name = boxes[b].name
         /\ ~ \E u \in Users, name \in Names : DeleteMailbox(u, name)
<1>0. DbTypeOK
  BY DEF TypeOK, DbTypeOK
<1>1. ~ \E u \in Users, name \in Names :
          \/ CreateMailbox(u, name) \/ DeleteMailbox(u, name)
          \/ \E new \in Names : RenameMailbox(u, name, new)
  BY DEF CreateMailbox, DeleteMailbox, RenameMailbox
<1>2. ASSUME NEW u \in Users, CreateUser(u)
      PROVE  \A b \in DOMAIN boxes : b \in DOMAIN boxes' /\ boxes'[b] = boxes[b]
  BY <1>0, <1>2 DEF CreateUser, DbTypeOK
<1>3. CASE ~ \E u \in Users : CreateUser(u)
  BY <1>0, <1>1, <1>3, OtherStepsKeepNames
<1> QED
  BY <1>1, <1>2, <1>3

\* A row that stays keeps its mailbox or is moved where a web delete wants it.
LEMMA RowsMove ==
  ASSUME TypeOK, [Next]_vars, NEW m \in DOMAIN messages, m \in DOMAIN messages'
  PROVE  \/ messages'[m].box = messages[m].box
         \/ \E r \in Reqs : op[r].kind = "move" /\ messages'[m].box = op[r].box
<1>0. DbTypeOK
  BY DEF TypeOK, DbTypeOK
<1>1. ASSUME NEW b, NEW u, NEW fs, AddMessage(b, u, fs)
      PROVE  messages'[m] = messages[m]
  BY <1>0, <1>1 DEF AddMessage, Put, DbTypeOK
<1>2. ASSUME NEW ms, RemoveMessages(ms)
      PROVE  messages'[m] = messages[m]
  BY <1>2 DEF RemoveMessages, Drop
<1>3. ASSUME NEW r \in Reqs, MoveToTrash(r)
      PROVE  \/ messages'[m].box = messages[m].box
             \/ op[r].kind = "move" /\ messages'[m].box = op[r].box
  BY <1>0, <1>3 DEF MoveToTrash, CanMove, DbTypeOK, Message
<1>4. \/ UNCHANGED messages
      \/ \E b, u, fs : AddMessage(b, u, fs)
      \/ \E ms : RemoveMessages(ms)
      \/ \E r \in Reqs : MoveToTrash(r)
  BY DEF Next, vars, db, CreateUser, Deliver, SaveToSent, CreateMailbox,
         DeleteMailbox, RenameMailbox, ImapCommand, Select, Append, Expunge,
         UpdateMessagesFlags, CopyMessages, ImapStep, CreateMessage, StoreFlag,
         FindDest, CopyOne, SkipUid, WebRequest, View, DeleteMessage, WebStep,
         MarkSeen, Purge, FindTrash, TakeTrashUid, Crash
<1> QED
  BY <1>1, <1>2, <1>3, <1>4

\* What a step does to the handler in flight in request r.
LEMMA RequestSteps ==
  ASSUME TypeOK, [Next]_vars, NEW r \in Reqs
  PROVE  \/ op'[r] = op[r]
         \/ op'[r].kind \notin {"delete", "trash", "move"}
         \/ DeleteMessage(r) \/ FindTrash(r) \/ TakeTrashUid(r)
<1>0. op \in [Procs -> Op]
  BY DEF TypeOK
<1>1. ASSUME NEW p \in Procs, NEW o, Goto(p, o), p # r
      PROVE  op'[r] = op[r]
  BY <1>0, <1>1 DEF Goto, Procs
<1>2. ASSUME NEW o, Goto(r, o)
      PROVE  op'[r] = o
  BY <1>0, <1>2 DEF Goto, Procs
<1>3. ASSUME NEW c \in Conns, ImapCommand(c) \/ ImapStep(c)
      PROVE  op'[r] = op[r]
  <2>1. c \in Procs /\ c # r
    BY StoreAssumption DEF StoreAssumption, Procs
  <2>2. UNCHANGED op \/ \E o : Goto(c, o)
    BY <1>3 DEF ImapCommand, Select, Append, Expunge, UpdateMessagesFlags,
                CopyMessages, ImapStep, CreateMessage, StoreFlag, FindDest, CopyOne
  <2> QED
    BY <1>1, <2>1, <2>2
<1>4. ASSUME NEW q \in Reqs, q # r, WebRequest(q) \/ WebStep(q)
      PROVE  op'[r] = op[r]
  <2>1. \E o : Goto(q, o)
    BY <1>4 DEF WebRequest, View, DeleteMessage, WebStep, MarkSeen, Purge,
                FindTrash, TakeTrashUid, MoveToTrash
  <2> QED
    BY <1>1, <1>4, <2>1 DEF Procs
<1>5. ASSUME View(r) \/ MarkSeen(r) \/ Purge(r) \/ MoveToTrash(r)
      PROVE  op'[r].kind \notin {"delete", "trash", "move"}
  <2>1. CASE View(r)
    BY <1>2, <2>1 DEF View
  <2>2. CASE MarkSeen(r) \/ Purge(r) \/ MoveToTrash(r)
    <3>1. op'[r] = Idle
      BY <1>2, <2>2 DEF MarkSeen, Purge, MoveToTrash
    <3> QED
      BY <3>1 DEF Idle
  <2> QED
    BY <1>5, <2>1, <2>2
<1>6. ASSUME Crash
      PROVE  op'[r].kind \notin {"delete", "trash", "move"}
  BY <1>6 DEF Crash, Idle, Procs
<1> QED
  BY <1>3, <1>4, <1>5, <1>6
     DEF Next, vars, CreateUser, Deliver, SaveToSent, CreateMailbox, DeleteMailbox,
         RenameMailbox, WebRequest, WebStep

LEMMA TrashStep ==
  ASSUME Admins = {}, TypeOK, IdsIssued, ReferentialIntegrity, TrashInv, [Next]_vars
  PROVE  TrashInv'
<1>0. /\ op \in [Procs -> Op] /\ nextMsg \in Nat
      /\ \A r \in Reqs : Issued(r)
      /\ \A m \in DOMAIN messages : messages[m].box \in DOMAIN boxes
  BY DEF TypeOK, IdsIssued, Procs, ReferentialIntegrity
<1> SUFFICES ASSUME NEW r \in Reqs PROVE PurgesTrash(r)'
  BY DEF TrashInv
<1>1. CASE op'[r] = op[r]
  <2>1. ASSUME op[r].kind = "delete", op[r].name = "Trash",
               op[r].msg \in DOMAIN messages'
        PROVE  boxes'[messages'[op[r].msg].box].name = "Trash"
    <3>1. op[r].msg \in Nat /\ op[r].msg < nextMsg
      BY <1>0, <2>1, OpKinds DEF Procs, Issued, DeleteOp
    <3>2. op[r].msg \in DOMAIN messages
      BY <1>0, <2>1, <3>1, OwnersKept
    <3>3. boxes[messages[op[r].msg].box].name = "Trash"
      BY <2>1, <3>2 DEF TrashInv, PurgesTrash
    <3> QED
      BY <1>0, <2>1, <3>2, <3>3, RowsMove, NobodyManages DEF TrashInv, PurgesTrash
  <2> QED
    BY <1>1, <2>1, NobodyManages DEF TrashInv, PurgesTrash
<1>2. CASE op'[r].kind \notin {"delete", "trash", "move"}
  BY <1>2 DEF PurgesTrash
<1>3. ASSUME NEW o, Goto(r, o)
      PROVE  op'[r] = o
  BY <1>0, <1>3 DEF Goto, Procs
<1>4. CASE DeleteMessage(r)
  BY <1>3, <1>4 DEF DeleteMessage, db, PurgesTrash
<1>5. CASE FindTrash(r)
  <2>1. CASE Goto(r, Idle)
    BY <1>3, <2>1 DEF PurgesTrash, Idle
  <2>2. ASSUME NEW b \in BoxesOf(UserOf[r], "Trash"),
               Goto(r, [kind |-> "trash", msg |-> op[r].msg, box |-> b])
        PROVE  PurgesTrash(r)'
    <3>1. op'[r] = [kind |-> "trash", msg |-> op[r].msg, box |-> b]
      BY <1>3, <2>2
    <3>2. b \in DOMAIN boxes /\ boxes[b].name = "Trash" /\ boxes' = boxes
      BY <1>5, <2>2 DEF FindTrash, BoxesOf, db
    <3> QED
      BY <3>1, <3>2 DEF PurgesTrash
  <2> QED
    BY <1>5, <2>1, <2>2 DEF FindTrash
<1>6. CASE TakeTrashUid(r)
  <2>1. op[r].box \in DOMAIN boxes /\ boxes[op[r].box].name = "Trash"
    BY <1>6 DEF TakeTrashUid, TrashInv, PurgesTrash
  <2>2. op'[r].kind = "move" /\ op'[r].box = op[r].box
    BY <1>3, <1>6 DEF TakeTrashUid
  <2> QED
    BY <2>1, <2>2, NobodyManages DEF PurgesTrash
<1> QED
  BY <1>1, <1>2, <1>4, <1>5, <1>6, RequestSteps

\* A row goes by EXPUNGE, by a purge or with its mailbox.
LEMMA RowsGo ==
  ASSUME TypeOK, [Next]_vars, NEW m \in DOMAIN messages, m \notin DOMAIN messages'
  PROVE  \/ \E c \in Conns : m \in Expunged(handle[c])
         \/ \E r \in Reqs : /\ op[r].kind = "delete" /\ PurgesAt(op[r].name)
                            /\ m = op[r].msg
         \/ \E u \in Users, name \in Names : DeleteMailbox(u, name)
<1>0. DbTypeOK
  BY DEF TypeOK, DbTypeOK
<1>1. ASSUME NEW b, NEW u, NEW fs, AddMessage(b, u, fs)
      PROVE  FALSE
  BY <1>1 DEF AddMessage, Put
<1>2. ASSUME NEW r \in Reqs, MoveToTrash(r)
      PROVE  FALSE
  BY <1>0, <1>2 DEF MoveToTrash, CanMove, DbTypeOK
<1>3. ASSUME NEW ms, RemoveMessages(ms)
      PROVE  m \in ms
  BY <1>3 DEF RemoveMessages, Drop
<1>4. \/ UNCHANGED messages
      \/ \E b, u, fs : AddMessage(b, u, fs)
      \/ \E c \in Conns : Expunge(c)
      \/ \E r \in Reqs : MoveToTrash(r) \/ Purge(r)
      \/ \E u \in Users, name \in Names : DeleteMailbox(u, name)
  BY DEF Next, vars, db, CreateUser, Deliver, SaveToSent, CreateMailbox,
         RenameMailbox, ImapCommand, Select, Append,
         UpdateMessagesFlags, CopyMessages, ImapStep, CreateMessage, StoreFlag,
         FindDest, CopyOne, SkipUid, WebRequest, View, DeleteMessage, WebStep,
         MarkSeen, FindTrash, TakeTrashUid, Crash
<1> QED
  BY <1>1, <1>2, <1>3, <1>4 DEF Expunge, Purge

\* While no client creates, deletes or renames mailboxes, mail that goes was
\* flagged \Deleted or stood in Trash, whatever happens between the look a web
\* delete takes at a message and its DELETE.
THEOREM MailVanishesOnRequest ==
  ASSUME Admins = {}
  PROVE  Spec => VanishOnRequest
<1> DEFINE Inv == UidInv /\ ReferentialIntegrity /\ TrashInv
           Asked == \A m \in DOMAIN messages :
                      Vanishes(m) => \/ <<m, "Deleted">> \in flags
                                     \/ boxes[messages[m].box].name = "Trash"
<1>1. Init => TrashInv
  BY DEF Init, TrashInv, PurgesTrash, Idle, Procs
<1>2. TrashInv /\ UidInv /\ ReferentialIntegrity /\ [Next]_vars => TrashInv'
  BY TrashStep DEF UidInv
<1>3. TrashInv /\ UidInv /\ [Next]_vars => [Asked]_vars
  <2> SUFFICES ASSUME TrashInv, UidInv, [Next]_vars,
                      NEW m \in DOMAIN messages, Vanishes(m)
               PROVE  \/ <<m, "Deleted">> \in flags
                      \/ boxes[messages[m].box].name = "Trash"
    OBVIOUS
  <2>1. TypeOK /\ m \notin DOMAIN messages'
    BY DEF UidInv, Vanishes
  <2>2. CASE \E c \in Conns : m \in Expunged(handle[c])
    BY <2>2 DEF Expunged
  <2>3. CASE \E r \in Reqs : /\ op[r].kind = "delete" /\ PurgesAt(op[r].name)
                             /\ m = op[r].msg
    BY <2>3 DEF TrashInv, PurgesTrash, PurgesAt
  <2> QED
    BY <2>1, <2>2, <2>3, RowsGo, NobodyManages
<1> QED
  BY <1>1, <1>2, <1>3, UidInvariant, PTL DEF Spec, VanishOnRequest
=============================================================================
