------------------------------ MODULE MailStore ------------------------------
(***************************************************************************)
(* The SQLite store of picomailgo (tables users, mailboxes, messages and   *)
(* message_flags) and every handler that writes to it: SMTP delivery, the  *)
(* Sent copy, the IMAP backend and the webmail view and delete requests.   *)
(*                                                                         *)
(* All writes go through one connection, so a transaction, or a statement  *)
(* run outside one, is atomic; each is one action.  Reads come from other  *)
(* connections and see the last commit.  A handler made of several reads   *)
(* and statements keeps what it has read in its entry of op, and the       *)
(* actions of all other processes may fall between its steps.              *)
(***************************************************************************)
EXTENDS Integers, FiniteSets

CONSTANTS
  Users,        \* accounts that may be registered
  Conns,        \* authenticated IMAP connections
  Reqs,         \* goroutines serving authenticated webmail requests
  UserOf,       \* the account behind each connection and request
  Admins,       \* accounts whose clients create, delete and rename mailboxes
  Names,        \* mailbox names that IMAP commands use
  Flags,        \* message flags in use
  Faults,       \* "crash": the server may stop; "io": a write may fail
  MaxBox,       \* bound: mailbox rows ever created
  MaxMsg,       \* bound: message rows ever created
  MaxUid        \* bound: uids handed out in a mailbox

Procs == Conns \cup Reqs

\* The mailboxes of a new account, in the order of their rows.
DefaultNames == <<"INBOX", "Sent", "Drafts", "Trash">>

AllNames == Names \cup {DefaultNames[i] : i \in 1 .. 4}

ASSUME StoreAssumption ==
  /\ UserOf \in [Procs -> Users]
  /\ Conns \cap Reqs = {}
  /\ Admins \subseteq Users
  /\ {"Seen", "Deleted"} \subseteq Flags
  /\ "clear" \notin Flags
  /\ Faults \subseteq {"crash", "io"}
  /\ MaxBox \in Nat /\ MaxMsg \in Nat /\ MaxUid \in Nat

VARIABLES
  users,        \* registered accounts
  boxes,        \* mailbox id -> owner, name and uid_next
  nextBox,      \* AUTOINCREMENT of mailboxes: ids are never used twice
  messages,     \* message id -> mailbox id and uid (and, ghost, whose mail it is)
  nextMsg,      \* AUTOINCREMENT of messages
  flags,        \* rows <<message id, flag>> of message_flags
  handle,       \* mailbox id a connection has selected, 0 for none
  op,           \* what the handler in flight in each process remembers
  history       \* ghost: every <<mailbox, uid, message>> a client could see

db   == <<users, boxes, nextBox, messages, nextMsg, flags, history>>
vars == <<users, boxes, nextBox, messages, nextMsg, flags, handle, op, history>>

Box     == [owner : Users, name : AllNames, uidNext : Nat \ {0}]
Message == [box : Nat, uid : Nat, owner : Users]
Row     == [id : Nat, uid : Nat]

Modes == {"set", "add", "remove"}

Idle == [kind |-> "idle"]

AppendOp == [kind : {"append"}, box : Nat, fs : SUBSET Flags]
StoreOp  == [kind : {"store"}, mode : Modes, fs : SUBSET Flags,
             rows : SUBSET Row, todo : SUBSET (Flags \cup {"clear"})]
CopyOp   == [kind : {"copy"}, rows : SUBSET Row, dest : AllNames]
CopyToOp == [kind : {"copyTo"}, rows : SUBSET Row, box : Nat]
ViewOp   == [kind : {"view"}, msg : Nat]
DeleteOp == [kind : {"delete"}, msg : Nat, name : AllNames]
TrashOp  == [kind : {"trash"}, msg : Nat, box : Nat]
MoveOp   == [kind : {"move"}, msg : Nat, box : Nat, uid : Nat]

Op == {Idle} \cup AppendOp \cup StoreOp \cup CopyOp \cup CopyToOp
        \cup ViewOp \cup DeleteOp \cup TrashOp \cup MoveOp

-----------------------------------------------------------------------------
(* Queries and single statements *)

Put(table, id, row) ==
  [i \in DOMAIN table \cup {id} |-> IF i = id THEN row ELSE table[i]]

Drop(table, ids) == [i \in DOMAIN table \ ids |-> table[i]]

\* Mutant: a query that leaves out "user_id = ?".
BoxesNamed(u, name) == {b \in DOMAIN boxes : boxes[b].name = name}

\* SELECT id FROM mailboxes WHERE user_id = ? AND name = ?
BoxesOf(u, name) ==
  {b \in DOMAIN boxes : boxes[b].owner = u /\ boxes[b].name = name}

MessagesIn(bs) == {m \in DOMAIN messages : messages[m].box \in bs}

\* What fetchMessages keeps of the rows of mailbox b.
Rows(b) == {[id |-> m, uid |-> messages[m].uid] : m \in MessagesIn({b})}

\* JOIN mailboxes ... WHERE mb.user_id = ?: others' messages are not found.
Finds(p, m) == boxes[messages[m].box].owner = UserOf[p]

\* UNIQUE(mailbox_id, uid)
UidFree(b, u) == \A m \in MessagesIn({b}) : messages[m].uid # u

\* Mutant: a connection opened without the foreign_keys pragma.
FlagsKept(ms) == flags

\* ON DELETE CASCADE of message_flags
FlagsWithout(ms) == {f \in flags : f[1] \notin ms}

\* Mutants: SELECT COUNT(*) + 1, and RETURNING off by two.
UidByCount(b) == Cardinality(MessagesIn({b})) + 1
UidTwoBack(b) == boxes[b].uidNext - 2

\* UPDATE mailboxes SET uid_next = uid_next + 1 ... RETURNING uid_next - 1
TakenUid(b) == boxes[b].uidNext

\* Mutant: a SELECT uid_next that forgets to advance it.
NotAdvanced(b) == boxes

UidAdvanced(b) == [boxes EXCEPT ![b].uidNext = @ + 1]

\* Mutant: a name check that never matches.
NeverProtected(name) == FALSE

\* The user's INBOX can be neither deleted nor renamed.
Protected(name) == name = "INBOX"

\* The INSERTs of flags in a transaction: an error of one is ignored.
FlagsMade(fs) == IF "io" \in Faults THEN SUBSET fs ELSE {fs}

\* The transaction shared by delivery, Sent copy and APPEND.
AddMessage(b, owner, fs) ==
  /\ TakenUid(b) <= MaxUid /\ nextMsg <= MaxMsg
  /\ UidFree(b, TakenUid(b))
  /\ boxes' = UidAdvanced(b)
  /\ messages' = Put(messages, nextMsg,
                     [box |-> b, uid |-> TakenUid(b), owner |-> owner])
  /\ nextMsg' = nextMsg + 1
  /\ \E made \in FlagsMade(fs) : flags' = flags \cup ({nextMsg} \X made)
  /\ history' = history \cup {<<b, TakenUid(b), nextMsg>>}
  /\ UNCHANGED <<users, nextBox>>

\* Message rows ms go, and their flags with them.
RemoveMessages(ms) ==
  /\ messages' = Drop(messages, ms)
  /\ flags' = FlagsWithout(ms)

Goto(p, o) == op' = [op EXCEPT ![p] = o]

-----------------------------------------------------------------------------
(* Accounts, delivery and mailbox management: one transaction each *)

\* auth.CreateUser: the account and its four mailboxes, or neither.
CreateUser(u) ==
  /\ u \notin users /\ nextBox + 3 <= MaxBox
  /\ users' = users \cup {u}
  /\ boxes' = [b \in DOMAIN boxes \cup (nextBox .. nextBox + 3) |->
                 IF b < nextBox THEN boxes[b]
                 ELSE [owner |-> u, name |-> DefaultNames[b - nextBox + 1],
                       uidNext |-> 1]]
  /\ nextBox' = nextBox + 4
  /\ UNCHANGED <<messages, nextMsg, flags, handle, op, history>>

\* deliverToInbox for a recipient that Rcpt or deliverLocal found in users.
Deliver(u) ==
  /\ u \in users
  /\ \E b \in BoxesOf(u, "INBOX") : AddMessage(b, u, {})
  /\ UNCHANGED <<handle, op>>

\* SaveToSent: without a Sent mailbox nothing happens.
SaveToSent(u) ==
  /\ \E b \in BoxesOf(u, "Sent") : AddMessage(b, u, {"Seen"})
  /\ UNCHANGED <<handle, op>>

CreateMailbox(u, name) ==
  /\ u \in users \cap Admins
  /\ BoxesOf(u, name) = {} /\ nextBox <= MaxBox
  /\ boxes' = Put(boxes, nextBox, [owner |-> u, name |-> name, uidNext |-> 1])
  /\ nextBox' = nextBox + 1
  /\ UNCHANGED <<users, messages, nextMsg, flags, handle, op, history>>

\* The mailbox row goes, by cascade its messages, and by cascade their flags.
DeleteMailbox(u, name) ==
  /\ u \in Admins /\ ~Protected(name)
  /\ BoxesOf(u, name) # {}
  /\ boxes' = Drop(boxes, BoxesOf(u, name))
  /\ RemoveMessages(MessagesIn(BoxesOf(u, name)))
  /\ UNCHANGED <<users, nextBox, nextMsg, handle, op, history>>

\* UNIQUE(user_id, name) refuses a name in use.
RenameMailbox(u, old, new) ==
  /\ u \in Admins /\ ~Protected(old)
  /\ BoxesOf(u, new) = {}
  /\ \E b \in BoxesOf(u, old) : boxes' = [boxes EXCEPT ![b].name = new]
  /\ UNCHANGED <<users, nextBox, messages, nextMsg, flags, handle, op, history>>

-----------------------------------------------------------------------------
(* IMAP commands of connection c *)

\* GetMailbox: the handle keeps the row's id, whatever becomes of the row.
Select(c) ==
  /\ op[c] = Idle
  /\ \E name \in Names : \E b \in BoxesOf(UserOf[c], name) :
       handle' = [handle EXCEPT ![c] = b]
  /\ UNCHANGED <<db, op>>

\* APPEND names its mailbox: GetMailbox, then CreateMessage on what it found.
Append(c) ==
  /\ op[c] = Idle
  /\ \E name \in Names, fs \in SUBSET Flags :
       \E b \in BoxesOf(UserOf[c], name) :
         Goto(c, [kind |-> "append", box |-> b, fs |-> fs])
  /\ UNCHANGED <<db, handle>>

CreateMessage(c) ==
  /\ op[c].kind = "append"
  /\ \/ /\ op[c].box \in DOMAIN boxes
        /\ AddMessage(op[c].box, UserOf[c], op[c].fs)
     \/ /\ op[c].box \notin DOMAIN boxes \/ "io" \in Faults
        /\ UNCHANGED db
  /\ Goto(c, Idle)
  /\ UNCHANGED handle

\* Mutant: any flag counts.
ExpungedAny(b) == {m \in MessagesIn({b}) : \E f \in Flags : <<m, f>> \in flags}

\* One DELETE for every message of the mailbox that is flagged \Deleted now.
Expunged(b) == {m \in MessagesIn({b}) : <<m, "Deleted">> \in flags}

Expunge(c) ==
  /\ op[c] = Idle
  /\ Expunged(handle[c]) # {}
  /\ RemoveMessages(Expunged(handle[c]))
  /\ UNCHANGED <<users, boxes, nextBox, nextMsg, handle, op, history>>

\* The statements UpdateMessagesFlags runs for one message.
Statements(mode, fs) == fs \cup (IF mode = "set" THEN {"clear"} ELSE {})

\* STORE: fetchMessages picks the rows; the sequence set may select any.
UpdateMessagesFlags(c) ==
  /\ op[c] = Idle
  /\ \E mode \in Modes, fs \in SUBSET Flags :
     \E rows \in (SUBSET Rows(handle[c])) \ {{}} :
       /\ Statements(mode, fs) # {}
       /\ Goto(c, [kind |-> "store", mode |-> mode, fs |-> fs, rows |-> rows,
                   todo |-> Statements(mode, fs)])
  /\ UNCHANGED <<db, handle>>

\* message_flags after statement s for message m; the foreign key refuses a
\* flag of a message that is gone, and the handler ignores the error.
FlagsAfter(mode, m, s) ==
  CASE s = "clear"     -> FlagsWithout({m})
    [] mode = "remove" -> flags \ {<<m, s>>}
    [] OTHER           -> IF m \in DOMAIN messages THEN flags \cup {<<m, s>>}
                          ELSE flags

\* What is left after statement s for row r: more statements for r, the next
\* row, or nothing.
AfterStatement(o, r, s) ==
  CASE o.todo # {s} -> [o EXCEPT !.todo = @ \ {s}]
    [] o.rows # {r} -> [o EXCEPT !.rows = @ \ {r},
                                 !.todo = Statements(o.mode, o.fs)]
    [] OTHER        -> Idle

\* r is the next of the rows in ORDER BY uid.
NextRow(rows, r) == r \in rows /\ \A q \in rows : r.uid <= q.uid

\* One statement, outside any transaction; the DELETE of a set comes first.
StoreFlag(c) ==
  /\ op[c].kind = "store"
  /\ \E r \in op[c].rows, s \in op[c].todo :
       /\ NextRow(op[c].rows, r)
       /\ "clear" \in op[c].todo => s = "clear"
       /\ \/ flags' = FlagsAfter(op[c].mode, r.id, s)
          \/ "io" \in Faults /\ flags' = flags
       /\ Goto(c, AfterStatement(op[c], r, s))
  /\ UNCHANGED <<users, boxes, nextBox, messages, nextMsg, handle, history>>

\* COPY: the rows are read once, then the destination is looked up by name.
CopyMessages(c) ==
  /\ op[c] = Idle
  /\ \E rows \in (SUBSET Rows(handle[c])) \ {{}}, dest \in Names :
       Goto(c, [kind |-> "copy", rows |-> rows, dest |-> dest])
  /\ UNCHANGED <<db, handle>>

FindDest(c) ==
  /\ op[c].kind = "copy"
  /\ IF BoxesOf(UserOf[c], op[c].dest) = {}
     THEN Goto(c, Idle)
     ELSE \E b \in BoxesOf(UserOf[c], op[c].dest) :
            Goto(c, [kind |-> "copyTo", rows |-> op[c].rows, box |-> b])
  /\ UNCHANGED <<db, handle>>

\* INSERT ... SELECT inserts nothing for a source that is gone, but the uid
\* is taken and committed.
SkipUid(b) ==
  /\ TakenUid(b) <= MaxUid
  /\ boxes' = UidAdvanced(b)
  /\ UNCHANGED <<users, nextBox, messages, nextMsg, flags, history>>

\* One transaction per row.  A failed statement, a missing destination for
\* one, ends the command there; a failed commit only skips the row.
CopyOne(c) ==
  /\ op[c].kind = "copyTo"
  /\ \E r \in op[c].rows :
       /\ NextRow(op[c].rows, r)
       /\ \/ /\ op[c].box \in DOMAIN boxes
             /\ \/ /\ r.id \in DOMAIN messages
                   /\ AddMessage(op[c].box, messages[r.id].owner, {})
                \/ r.id \notin DOMAIN messages /\ SkipUid(op[c].box)
                \/ "io" \in Faults /\ UNCHANGED db
             /\ Goto(c, IF op[c].rows = {r} THEN Idle
                        ELSE [op[c] EXCEPT !.rows = @ \ {r}])
          \/ /\ op[c].box \notin DOMAIN boxes \/ "io" \in Faults
             /\ Goto(c, Idle)
             /\ UNCHANGED db
  /\ UNCHANGED handle

-----------------------------------------------------------------------------
(* Webmail requests of goroutine r *)

\* handleMessage: getMessage finds the message, then markSeen flags it.
View(r) ==
  /\ op[r] = Idle
  /\ \E m \in DOMAIN messages :
       Finds(r, m) /\ Goto(r, [kind |-> "view", msg |-> m])
  /\ UNCHANGED <<db, handle>>

MarkSeen(r) ==
  /\ op[r].kind = "view"
  /\ \/ flags' = FlagsAfter("add", op[r].msg, "Seen")
     \/ "io" \in Faults /\ flags' = flags
  /\ Goto(r, Idle)
  /\ UNCHANGED <<users, boxes, nextBox, messages, nextMsg, handle, history>>

\* handleDeleteMessage reads the name of the mailbox the message is in ...
DeleteMessage(r) ==
  /\ op[r] = Idle
  /\ \E m \in DOMAIN messages :
       /\ Finds(r, m)
       /\ Goto(r, [kind |-> "delete", msg |-> m,
                   name |-> boxes[messages[m].box].name])
  /\ UNCHANGED <<db, handle>>

\* ... deletes the message for good if that name was Trash ...
PurgesAt(name) == name = "Trash"

Purge(r) ==
  /\ op[r].kind = "delete" /\ PurgesAt(op[r].name)
  /\ \/ RemoveMessages({op[r].msg})
     \/ "io" \in Faults /\ UNCHANGED <<messages, flags>>
  /\ Goto(r, Idle)
  /\ UNCHANGED <<users, boxes, nextBox, nextMsg, handle, history>>

\* ... or else looks Trash up, giving up if there is none, ...
FindTrash(r) ==
  /\ op[r].kind = "delete" /\ ~PurgesAt(op[r].name)
  /\ IF BoxesOf(UserOf[r], "Trash") = {}
     THEN Goto(r, Idle)
     ELSE \E b \in BoxesOf(UserOf[r], "Trash") :
            Goto(r, [kind |-> "trash", msg |-> op[r].msg, box |-> b])
  /\ UNCHANGED <<db, handle>>

\* ... takes a uid of Trash in a statement of its own, whose failure goes
\* unnoticed and leaves uid = 0, ...
TakeTrashUid(r) ==
  /\ op[r].kind = "trash"
  /\ \/ /\ op[r].box \in DOMAIN boxes /\ TakenUid(op[r].box) <= MaxUid
        /\ boxes' = UidAdvanced(op[r].box)
        /\ Goto(r, [kind |-> "move", msg |-> op[r].msg, box |-> op[r].box,
                    uid |-> TakenUid(op[r].box)])
     \/ /\ op[r].box \notin DOMAIN boxes \/ "io" \in Faults
        /\ Goto(r, [kind |-> "move", msg |-> op[r].msg, box |-> op[r].box,
                    uid |-> 0])
        /\ UNCHANGED boxes
  /\ UNCHANGED <<users, nextBox, messages, nextMsg, flags, handle, history>>

\* The UPDATE finds its row and satisfies the foreign key and UNIQUE.
CanMove(m, b, u) ==
  /\ m \in DOMAIN messages /\ b \in DOMAIN boxes
  /\ \A n \in MessagesIn({b}) \ {m} : messages[n].uid # u

\* ... and moves the message there in another one.
MoveToTrash(r) ==
  /\ op[r].kind = "move"
  /\ \/ /\ CanMove(op[r].msg, op[r].box, op[r].uid)
        /\ messages' = [messages EXCEPT ![op[r].msg].box = op[r].box,
                                        ![op[r].msg].uid = op[r].uid]
        /\ history' = history \cup {<<op[r].box, op[r].uid, op[r].msg>>}
     \/ /\ ~CanMove(op[r].msg, op[r].box, op[r].uid) \/ "io" \in Faults
        /\ UNCHANGED <<messages, history>>
  /\ Goto(r, Idle)
  /\ UNCHANGED <<users, boxes, nextBox, nextMsg, flags, handle>>

-----------------------------------------------------------------------------
\* The server stops: sessions and handlers are gone, the database stays.
Crash ==
  /\ "crash" \in Faults
  /\ handle' = [c \in Conns |-> 0]
  /\ op' = [p \in Procs |-> Idle]
  /\ UNCHANGED db

Init ==
  /\ users = {}
  /\ boxes = << >> /\ nextBox = 1
  /\ messages = << >> /\ nextMsg = 1
  /\ flags = {}
  /\ handle = [c \in Conns |-> 0]
  /\ op = [p \in Procs |-> Idle]
  /\ history = {}

\* The next statement of the handler in flight.
ImapStep(c) == CreateMessage(c) \/ StoreFlag(c) \/ FindDest(c) \/ CopyOne(c)
WebStep(r)  == MarkSeen(r) \/ Purge(r) \/ FindTrash(r) \/ TakeTrashUid(r)
                 \/ MoveToTrash(r)

\* A client's next command or request.
ImapCommand(c) == Select(c) \/ Append(c) \/ Expunge(c)
                    \/ UpdateMessagesFlags(c) \/ CopyMessages(c)
WebRequest(r)  == View(r) \/ DeleteMessage(r)

Next ==
  \/ \E u \in Users : CreateUser(u) \/ Deliver(u) \/ SaveToSent(u)
  \/ \E u \in Users, name \in Names :
       \/ CreateMailbox(u, name)
       \/ DeleteMailbox(u, name)
       \/ \E new \in Names : RenameMailbox(u, name, new)
  \/ \E c \in Conns : ImapCommand(c) \/ ImapStep(c)
  \/ \E r \in Reqs : WebRequest(r) \/ WebStep(r)
  \/ Crash

\* The Go scheduler runs every started handler on; clients owe us nothing.
Fairness ==
  /\ \A c \in Conns : WF_vars(ImapStep(c))
  /\ \A r \in Reqs : WF_vars(WebStep(r))

Spec == Init /\ [][Next]_vars /\ Fairness

-----------------------------------------------------------------------------
(* What the store promises *)

\* Every table, handle and handler in flight holds values of its type, and
\* every row's id is below the AUTOINCREMENT counter that produced it.
TypeOK ==
  /\ users \subseteq Users
  /\ nextBox \in Nat \ {0} /\ nextMsg \in Nat \ {0}
  /\ DOMAIN boxes \subseteq 1 .. nextBox - 1
  /\ boxes \in [DOMAIN boxes -> Box]
  /\ DOMAIN messages \subseteq 1 .. nextMsg - 1
  /\ messages \in [DOMAIN messages -> Message]
  /\ flags \subseteq (1 .. nextMsg - 1) \X Flags
  /\ handle \in [Conns -> Nat]
  /\ op \in [Procs -> Op]
  /\ history \subseteq (1 .. nextBox - 1) \X Nat \X (1 .. nextMsg - 1)

\* A uid once shown in a mailbox never comes to stand for another message,
\* through appends, copies, expunges and the web delete that takes its uid
\* one statement before it uses it.  (uid 0 is what a failed allocation in
\* handleDeleteMessage leaves.)
UidNamesOneMessage ==
  \A g, h \in history : (g[1] = h[1] /\ g[2] = h[2] /\ g[2] # 0) => g[3] = h[3]

\* No message points at a mailbox that is gone and no flag at a message that
\* is gone, whatever DeleteMailbox or Expunge removes between the statements
\* of a STORE, COPY or web delete.
ReferentialIntegrity ==
  /\ \A m \in DOMAIN messages : messages[m].box \in DOMAIN boxes
  /\ \A f \in flags : f[1] \in DOMAIN messages

\* A registered account has one INBOX at all times, so deliverToInbox never
\* takes its silent ErrNoRows exit for a recipient that Rcpt accepted.
InboxAlways ==
  \A u \in users : \E b \in DOMAIN boxes : BoxesOf(u, "INBOX") = {b}

\* Mail stays in mailboxes of the account it belongs to, although handlers
\* carry message and mailbox ids across statements after checking them once.
MailStaysHome ==
  \A m \in DOMAIN messages :
    messages[m].box \in DOMAIN boxes
      => boxes[messages[m].box].owner = messages[m].owner

\* m has just gone although its mailbox has not.
Vanishes(m) ==
  /\ m \in DOMAIN messages /\ m \notin DOMAIN messages'
  /\ messages[m].box \in DOMAIN boxes'

\* A message that goes while its mailbox stays was flagged \Deleted or was in
\* a Trash: EXPUNGE removes only what is flagged, the web purges only Trash.
VanishOnRequest ==
  [][\A m \in DOMAIN messages :
       Vanishes(m) => \/ <<m, "Deleted">> \in flags
                      \/ boxes[messages[m].box].name = "Trash"]_vars

\* m stands above every uid seen in its mailbox before.
Ascends(m) ==
  \A h \in history : h[1] = messages'[m].box => h[2] < messages'[m].uid

\* Mail that is delivered, saved, appended or copied into a mailbox gets a uid
\* above all uids seen there before, which IMAP clients rely on to find new
\* mail; expunges, deletes and moves that share uid_next do not disturb this.
NewMailAscends ==
  [][\A m \in DOMAIN messages' \ DOMAIN messages : Ascends(m)]_vars

\* The message request r is deleting.
Deleting(r, m) ==
  op[r].kind \in {"delete", "trash", "move"} /\ op[r].msg = m

\* A web delete that is let run ends with the message gone or in the Trash,
\* also when several requests delete the same message.
DeleteTakesEffect ==
  \A r \in Reqs, m \in 1 .. MaxMsg :
    Deleting(r, m) ~> \/ m \notin DOMAIN messages
                      \/ boxes[messages[m].box].name = "Trash"

-----------------------------------------------------------------------------
(* MailStore implements Mailbox *)

\* Where each message stands.
MailShown ==
  [m \in DOMAIN messages |-> [box |-> messages[m].box, uid |-> messages[m].uid]]

Mail == INSTANCE Mailbox WITH
  Ids <- 1 .. MaxMsg, Boxes <- 1 .. MaxBox, Uids <- 0 .. MaxUid,
  mail <- MailShown, marks <- flags, seen <- history

\* Whatever falls between the statements of STORE, COPY and web deletes, each
\* of them is one step of the mailbox a client counts on or changes nothing
\* there: mail arrives numbered last, moves to uids never shown, and goes
\* with its flags.
ImplementsMailbox == Mail!Spec

-----------------------------------------------------------------------------
(* The inductive invariant behind UidNamesOneMessage *)

\* uid_next of a mailbox is above every uid ever shown there.
UidNextAbove ==
  \A h \in history : h[1] \in DOMAIN boxes => h[2] < boxes[h[1]].uidNext

\* Where a message stands is recorded.
HistoryComplete ==
  \A m \in DOMAIN messages : <<messages[m].box, messages[m].uid, m>> \in history

\* Request r holds a uid of a mailbox that still exists.
Holds(r) ==
  op[r].kind = "move" /\ op[r].box \in DOMAIN boxes /\ op[r].uid # 0

\* A uid taken for a move has not been shown, is below uid_next and is held
\* by one request only.
UidsReserved ==
  \A r \in Reqs : Holds(r) =>
    /\ op[r].uid < boxes[op[r].box].uidNext
    /\ \A h \in history : h[1] = op[r].box => h[2] # op[r].uid
    /\ \A q \in Reqs : (/\ Holds(q)
                        /\ op[q].box = op[r].box
                        /\ op[q].uid = op[r].uid) => q = r

\* What the handler in flight in p refers to has been issued: the counters
\* are past it, so no later row gets an id that p still holds.
Issued(p) ==
  /\ op[p].kind \in {"append", "copyTo", "trash", "move"} => op[p].box < nextBox
  /\ op[p].kind \in {"view", "delete", "trash", "move"} => op[p].msg < nextMsg
  /\ op[p].kind \in {"store", "copy", "copyTo"}
       => \A row \in op[p].rows : row.id < nextMsg

IdsIssued ==
  /\ \A c \in Conns : handle[c] < nextBox
  /\ \A p \in Procs : Issued(p)

\* What UidNamesOneMessage needs to be inductive.
UidInv ==
  /\ TypeOK
  /\ IdsIssued
  /\ UidNamesOneMessage
  /\ UidNextAbove
  /\ HistoryComplete
  /\ UidsReserved

-----------------------------------------------------------------------------
(* The inductive invariant behind MailStaysHome *)

\* The handler in flight in p refers only to rows of p's own account, unless
\* they are gone.
AtHome(p) ==
  /\ (/\ op[p].kind \in {"append", "copyTo", "trash", "move"}
      /\ op[p].box \in DOMAIN boxes)
       => boxes[op[p].box].owner = UserOf[p]
  /\ (/\ op[p].kind \in {"delete", "trash", "move"}
      /\ op[p].msg \in DOMAIN messages)
       => messages[op[p].msg].owner = UserOf[p]
  /\ op[p].kind \in {"copy", "copyTo"}
       => \A row \in op[p].rows :
            row.id \in DOMAIN messages => messages[row.id].owner = UserOf[p]

\* What MailStaysHome needs to be inductive.
HomeInv ==
  /\ TypeOK
  /\ ReferentialIntegrity
  /\ IdsIssued
  /\ MailStaysHome
  /\ \A c \in Conns :
       handle[c] \in DOMAIN boxes => boxes[handle[c]].owner = UserOf[c]
  /\ \A p \in Procs : AtHome(p)

=============================================================================
