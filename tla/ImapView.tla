------------------------------ MODULE ImapView ------------------------------
(***************************************************************************)
(* What IMAP clients of picomailgo believe about one mailbox and what is   *)
(* there: the read-only half of the IMAP backend (GetMailbox, Status,      *)
(* ListMessages, SearchMessages, fetchMessages), with STORE and EXPUNGE    *)
(* where they act on what a client believes.                               *)
(*                                                                         *)
(* The mailbox is one name of one account; deleted and created anew it is  *)
(* another row of mailboxes, with the uid_validity 1 that every row has.   *)
(* Clients number messages by the rows they fetched, keep what they have   *)
(* downloaded by uid, and look for new mail from the UIDNEXT they were     *)
(* told: go-imap never tells them of arrivals or of others' expunges,      *)
(* because the backend sends no updates.                                   *)
(***************************************************************************)
EXTENDS Integers, FiniteSets

CONSTANTS
  Clients,      \* IMAP clients that use the mailbox
  MaxBox,       \* bound: mailbox rows of this name ever created
  MaxMsg,       \* bound: messages that ever come into the mailbox
  MaxUid        \* bound: uids handed out in a mailbox

ASSUME ViewAssumption == MaxBox \in Nat \ {0} /\ MaxMsg \in Nat /\ MaxUid \in Nat

VARIABLES
  box,          \* id of the mailbox row with the name, 0 for none
  nextBox,      \* AUTOINCREMENT of mailboxes
  mail,         \* message -> uid, for the messages of that row
  nextMsg,      \* the next message to come in
  uidNext,      \* uid_next of that row
  deleted,      \* messages flagged \Deleted
  held,         \* the <<mailbox, uid>> a web delete has taken and not used
  session,      \* the server's side of each connection
  view,         \* client: the message it takes each number for
  cache,        \* client: uid -> the mailbox and message it was downloaded from
  synced,       \* client: it looks for new mail from this uid on
  stirred,      \* ghost: clients whose numbers may have slipped
  mistaken,     \* ghost: messages a client has marked and did not mean, though
                \* neither had its numbers slipped nor the mailbox been replaced
  late          \* ghost: how many messages a web delete has moved in

store   == <<box, nextBox, mail, nextMsg, uidNext, deleted, held>>
beliefs == <<view, cache, synced>>
ghosts  == <<stirred, mistaken, late>>
vars    == <<store, session, beliefs, ghosts>>

Nobody == <<0, 0>>

\* A connection: the handle it has open, uid_next as GetMailbox read it, the
\* count of STATUS, the answer of a SEARCH not yet acted on and, ghosts, the
\* messages it stands for and whether the count of the mailbox failed.
Session == [pc : {"out", "opened", "counted", "ready", "expunge", "found"},
            box : 0 .. MaxBox, uidNext : Nat, count : Nat,
            found : SUBSET Nat, meant : SUBSET (1 .. MaxMsg),
            miscounted : BOOLEAN]

Out == [pc |-> "out", box |-> 0, uidNext |-> 0, count |-> 0,
        found |-> {}, meant |-> {}, miscounted |-> FALSE]

\* A client that has opened no mailbox, or not looked into it yet.
NoNumbers == [n \in {} |-> 0]

-----------------------------------------------------------------------------
(* Queries *)

\* WHERE mailbox_id = ?; a row that is gone has no messages.
RowsOf(b) == IF b = box THEN DOMAIN mail ELSE {}

\* Mutant: ORDER BY m.uid DESC.
NewestFirst(m) == Cardinality({n \in DOMAIN mail : mail[n] >= mail[m]})

\* ORDER BY m.uid, and a counter: a message's number is how many rows there are
\* up to its own.
SeqNum(m) == Cardinality({n \in DOMAIN mail : mail[n] <= mail[m]})

\* Mutant: the set is held against the number whatever the command.
NumberMatches(b, uid, set) == {m \in RowsOf(b) : SeqNum(m) \in set}

\* Messages whose uid, or whose number, is in the set.
Matches(b, uid, set) ==
  {m \in RowsOf(b) : (IF uid THEN mail[m] ELSE SeqNum(m)) \in set}

\* SearchMessages: the uids of the messages its flag filter lets through, or
\* as many numbers from 1 on.
SearchMessages(uid, filtered) ==
  IF uid THEN {mail[m] : m \in filtered} ELSE 1 .. Cardinality(filtered)

\* Mutant: SELECT COUNT(*) + 1.
UidByCount == Cardinality(DOMAIN mail) + 1

NewUid == uidNext

Without(ms) == [m \in DOMAIN mail \ ms |-> mail[m]]

\* Mutant: rows deleted without the foreign key.
MarksKept(ms) == deleted

\* Marks go with their messages.
MarksWithout(ms) == deleted \ ms

-----------------------------------------------------------------------------
(* Others: deliveries, other sessions, web deletes, mailbox management *)

ComesIn(uid) ==
  /\ nextMsg <= MaxMsg
  /\ mail' = [m \in DOMAIN mail \cup {nextMsg} |->
                IF m = nextMsg THEN uid ELSE mail[m]]
  /\ nextMsg' = nextMsg + 1

Arrive ==
  /\ box # 0 /\ uidNext <= MaxUid
  /\ ComesIn(NewUid)
  /\ uidNext' = uidNext + 1
  /\ UNCHANGED <<box, nextBox, deleted, held, session, beliefs, ghosts>>

\* The messages that client c has numbers for.
Numbered(c) == {view[c][n] : n \in DOMAIN view[c]}

\* Messages go without a word to the clients in cs.
Vanish(ms, cs) ==
  /\ mail' = Without(ms)
  /\ deleted' = MarksWithout(ms)
  /\ stirred' = stirred \cup {c \in cs : Numbered(c) \cap ms # {}}

\* A purge from the web, or an EXPUNGE of a session not modelled.
Purge(m) ==
  /\ Vanish({m}, Clients)
  /\ UNCHANGED <<box, nextBox, nextMsg, uidNext, held, session, beliefs,
                 mistaken, late>>

\* Another session marks a message.
MarkElsewhere(m) ==
  /\ deleted' = deleted \cup {m}
  /\ UNCHANGED <<box, nextBox, mail, nextMsg, uidNext, held, session, beliefs, ghosts>>

\* A web delete takes a uid of the mailbox ...
TakeUid ==
  /\ held = Nobody /\ box # 0 /\ uidNext <= MaxUid
  /\ held' = <<box, uidNext>>
  /\ uidNext' = uidNext + 1
  /\ UNCHANGED <<box, nextBox, mail, nextMsg, deleted, session, beliefs, ghosts>>

\* ... and moves a message in under it later, if the mailbox is still there.
MoveIn ==
  /\ held # Nobody
  /\ IF held[1] = box
     THEN /\ ComesIn(held[2])
          /\ late' = late + 1
          /\ stirred' = stirred \cup
               {c \in Clients : \E m \in Numbered(c) \cap DOMAIN mail : held[2] < mail[m]}
     ELSE UNCHANGED <<mail, nextMsg, late, stirred>>
  /\ held' = Nobody
  /\ UNCHANGED <<box, nextBox, uidNext, deleted, session, beliefs, mistaken>>

DeleteMailbox ==
  /\ box # 0
  /\ Vanish(DOMAIN mail, Clients)
  /\ box' = 0
  /\ UNCHANGED <<nextBox, nextMsg, uidNext, held, session, beliefs,
                 mistaken, late>>

CreateMailbox ==
  /\ box = 0 /\ nextBox <= MaxBox
  /\ box' = nextBox /\ nextBox' = nextBox + 1
  /\ uidNext' = 1
  /\ UNCHANGED <<mail, nextMsg, deleted, held, session, beliefs, ghosts>>

-----------------------------------------------------------------------------
(* Client c *)

\* The number that n becomes when those in said have been reported gone: its
\* place among the numbers of the view that are left.
NewNumber(v, said, n) == Cardinality({k \in DOMAIN v \ said : k <= n})

\* What the numbers stand for then.
Dropped(v, said) ==
  [i \in {NewNumber(v, said, n) : n \in DOMAIN v \ said} |->
     v[CHOOSE n \in DOMAIN v \ said : NewNumber(v, said, n) = i]]

Ready(c) == session[c].pc = "ready"

Now(c, s) == session' = [session EXCEPT ![c] = s]

\* SELECT: GetMailbox reads id and uid_next ...
Open(c) ==
  /\ session[c].pc \in {"out", "ready"} /\ box # 0
  /\ Now(c, [Out EXCEPT !.pc = "opened", !.box = box, !.uidNext = uidNext])
  /\ view' = [view EXCEPT ![c] = NoNumbers]
  /\ UNCHANGED <<store, cache, synced, ghosts>>

\* Mutant: Status reads uid_next again, after the count.
UidNextNow(s) == IF s.box = box THEN uidNext ELSE s.uidNext

\* UIDNEXT as it is reported: as GetMailbox read it.
UidNextTold(s) == s.uidNext

\* ... and Status counts the messages; the error of the query is dropped, and
\* the count then 0.
Status(c) ==
  /\ session[c].pc = "opened"
  /\ \E failed \in BOOLEAN :
       Now(c, [session[c] EXCEPT
                 !.pc = "counted", !.miscounted = failed,
                 !.count = IF failed THEN 0 ELSE Cardinality(RowsOf(session[c].box))])
  /\ UNCHANGED <<store, beliefs, ghosts>>

\* FETCH 1:count gives uids; only messages of uids not yet in the cache are
\* downloaded, as the uid_validity is always the same.
ListMessages(c) ==
  LET s    == session[c]
      rows == {m \in RowsOf(s.box) : SeqNum(m) <= s.count}
      uids == {mail[m] : m \in rows}
      known == [u \in DOMAIN cache[c] \cup uids |->
                  IF u \in DOMAIN cache[c] THEN cache[c][u]
                  ELSE [box |-> s.box, msg |-> CHOOSE m \in rows : mail[m] = u]]
      row(n) == CHOOSE m \in rows : SeqNum(m) = n
  IN
  /\ s.pc = "counted"
  /\ cache' = [cache EXCEPT ![c] = known]
  /\ view' = [view EXCEPT ![c] =
                [n \in {SeqNum(m) : m \in rows} |-> known[mail[row(n)]].msg]]
  /\ synced' = [synced EXCEPT ![c] = UidNextTold(s)]
  /\ stirred' = IF \A u \in uids : known[u].box = s.box THEN stirred \ {c}
                ELSE stirred \cup {c}
  /\ Now(c, [s EXCEPT !.pc = "ready"])
  /\ UNCHANGED <<store, mistaken, late>>

\* STORE +FLAGS (\Deleted) of what the client takes number n for.
StoreByNumber(c, n) ==
  LET hit == Matches(session[c].box, FALSE, {n}) IN
  /\ Ready(c)
  /\ deleted' = deleted \cup hit
  /\ mistaken' = mistaken \cup (IF c \in stirred THEN {} ELSE hit \ {view[c][n]})
  /\ UNCHANGED <<box, nextBox, mail, nextMsg, uidNext, held, session, beliefs,
                 stirred, late>>

\* UID STORE +FLAGS (\Deleted) of a message in the cache.
StoreByUid(c, u) ==
  LET hit == Matches(session[c].box, TRUE, {u}) IN
  /\ Ready(c)
  /\ deleted' = deleted \cup hit
  /\ mistaken' = mistaken \cup (IF cache[c][u].box # session[c].box THEN {}
                                 ELSE hit \ {cache[c][u].msg})
  /\ UNCHANGED <<box, nextBox, mail, nextMsg, uidNext, held, session, beliefs,
                 stirred, late>>

\* UID SEARCH UNDELETED ...
Search(c) ==
  LET filtered == RowsOf(session[c].box) \ deleted IN
  /\ Ready(c)
  /\ Now(c, [session[c] EXCEPT !.pc = "found",
                               !.found = SearchMessages(TRUE, filtered),
                               !.meant = filtered])
  /\ UNCHANGED <<store, beliefs, ghosts>>

\* ... and UID STORE +FLAGS (\Deleted) of what it found.
StoreFound(c) ==
  LET hit == Matches(session[c].box, TRUE, session[c].found) IN
  /\ session[c].pc = "found"
  /\ deleted' = deleted \cup hit
  /\ mistaken' = mistaken \cup (hit \ session[c].meant)
  /\ Now(c, [session[c] EXCEPT !.pc = "ready", !.found = {}, !.meant = {}])
  /\ UNCHANGED <<box, nextBox, mail, nextMsg, uidNext, held, beliefs, stirred, late>>

\* EXPUNGE: go-imap first asks which numbers are flagged \Deleted ...
ExpungeSearch(c) ==
  LET filtered == RowsOf(session[c].box) \cap deleted IN
  /\ Ready(c)
  /\ Now(c, [session[c] EXCEPT !.pc = "expunge",
                               !.found = SearchMessages(FALSE, filtered)])
  /\ UNCHANGED <<store, beliefs, ghosts>>

\* ... then deletes, and reports those numbers from the last to the first.
\* The client drops them from its view.
Expunge(c) ==
  LET gone == RowsOf(session[c].box) \cap deleted
      said == session[c].found
  IN
  /\ session[c].pc = "expunge"
  /\ mail' = Without(gone)
  /\ deleted' = MarksWithout(gone)
  /\ view' = [view EXCEPT ![c] = Dropped(@, said)]
  /\ stirred' = stirred
       \cup {d \in Clients \ {c} : Numbered(d) \cap gone # {}}
       \cup {d \in {c} : Matches(session[c].box, FALSE, said) # gone}
  /\ Now(c, [session[c] EXCEPT !.pc = "ready", !.found = {}])
  /\ UNCHANGED <<box, nextBox, nextMsg, uidNext, held, cache, synced,
                 mistaken, late>>

-----------------------------------------------------------------------------
\* The server stops: connections and the web delete are gone, the clients keep
\* what they have downloaded.
Crash ==
  /\ session' = [c \in Clients |-> Out]
  /\ view' = [c \in Clients |-> NoNumbers]
  /\ held' = Nobody
  /\ UNCHANGED <<box, nextBox, mail, nextMsg, uidNext, deleted, cache, synced, ghosts>>

Init ==
  /\ box = 1 /\ nextBox = 2
  /\ mail = [m \in {} |-> 0] /\ nextMsg = 1 /\ uidNext = 1
  /\ deleted = {} /\ held = Nobody
  /\ session = [c \in Clients |-> Out]
  /\ view = [c \in Clients |-> NoNumbers]
  /\ cache = [c \in Clients |-> [u \in {} |-> 0]]
  /\ synced = [c \in Clients |-> 1]
  /\ stirred = {} /\ mistaken = {} /\ late = 0

Others ==
  \/ Arrive \/ TakeUid \/ MoveIn \/ DeleteMailbox \/ CreateMailbox
  \/ \E m \in DOMAIN mail : Purge(m) \/ MarkElsewhere(m)

Command(c) ==
  \/ Open(c) \/ Status(c) \/ ListMessages(c)
  \/ \E n \in DOMAIN view[c] : StoreByNumber(c, n)
  \/ \E u \in DOMAIN cache[c] : StoreByUid(c, u)
  \/ Search(c) \/ StoreFound(c)
  \/ ExpungeSearch(c) \/ Expunge(c)

Next == Others \/ (\E c \in Clients : Command(c)) \/ Crash

Spec == Init /\ [][Next]_vars

-----------------------------------------------------------------------------
(* What a client may rely on *)

\* Tables, connections and beliefs hold values of their types, and only
\* messages that are there are marked.
TypeOK ==
  /\ box \in 0 .. MaxBox /\ nextBox \in 1 .. MaxBox + 1
  /\ nextMsg \in 1 .. MaxMsg + 1 /\ uidNext \in Nat \ {0}
  /\ DOMAIN mail \subseteq 1 .. nextMsg - 1
  /\ mail \in [DOMAIN mail -> Nat \ {0}]
  /\ deleted \subseteq DOMAIN mail
  /\ held \in (0 .. MaxBox) \X Nat
  /\ session \in [Clients -> Session]
  /\ DOMAIN view = Clients /\ DOMAIN cache = Clients /\ synced \in [Clients -> Nat]
  /\ \A c \in Clients : /\ DOMAIN view[c] \subseteq Nat /\ IsFiniteSet(DOMAIN view[c])
                        /\ Numbered(c) \subseteq 1 .. nextMsg - 1
  /\ \A c \in Clients : \A u \in DOMAIN cache[c] :
       u \in Nat /\ cache[c][u] \in [box : 1 .. MaxBox, msg : 1 .. nextMsg - 1]
  /\ stirred \subseteq Clients /\ mistaken \subseteq 1 .. MaxMsg /\ late \in Nat

\* fetchMessages numbers the rows anew for each command, and still a client's
\* numbers name what it takes them for, through arrivals, marks and its own
\* EXPUNGEs, until a message it has numbered goes elsewhere, a web delete moves
\* one in below, or an EXPUNGE removes other than the first rows: then SEARCH
\* gives the wrong numbers and go-imap reports them.
ViewHolds ==
  \A c \in Clients \ stirred : \A n \in DOMAIN view[c] :
    view[c][n] \in RowsOf(session[c].box) /\ SeqNum(view[c][n]) = n

\* What a STORE flags \Deleted, and so goes at the next EXPUNGE, is what its
\* client meant, whatever messages arrive, go or change flags between what the
\* client read and the STORE; only slipped numbers, or uids of a mailbox that
\* was created anew, may name another.
OnlyMeantDeleted == mistaken = {}

\* While the mailbox is not deleted and created anew, a uid a client has cached
\* never comes to stand for another message, though uid_validity says nothing.
CacheTrue ==
  \A c \in Clients : \A u \in DOMAIN cache[c], m \in DOMAIN mail :
    (cache[c][u].box = box /\ mail[m] = u) => m = cache[c][u].msg

\* Messages client c takes itself to know, having looked past their uids, and
\* that its cache does not hold.
Missed(c) ==
  {m \in DOMAIN mail :
     /\ mail[m] < synced[c]
     /\ ~(mail[m] \in DOMAIN cache[c] /\ cache[c][mail[m]].msg = m)}

\* Messages whose uid stands for one of a former mailbox in the client's cache.
Masked(c) ==
  {m \in DOMAIN mail :
     mail[m] \in DOMAIN cache[c] /\ cache[c][mail[m]].box # box}

\* A client that looks for new mail from the UIDNEXT it was told misses
\* nothing, although Status reports a uid_next older than its count and mail
\* comes in between, but for three things: a web delete that moves a message in
\* late hides one, that message or one it pushes past the count; a COUNT that
\* fails is reported as 0 and hides all until the mailbox is opened again; and
\* where the mailbox was deleted and created anew the uids still in the cache
\* mask the new messages that have them, uid_validity being 1 for ever.
NewMailFound ==
  \A c \in Clients :
    (Ready(c) /\ session[c].box = box /\ ~session[c].miscounted) =>
      Cardinality(Missed(c) \ Masked(c)) <= late
-----------------------------------------------------------------------------
(* The inductive invariant *)

Pending == held # Nobody /\ held[1] = box

\* No message has the uid now or later.
Spent(u) == u < uidNext /\ (Pending => u # held[2])

\* A uid is given once per row, and a row that is gone has no messages.
UidsDistinct ==
  /\ \A m, n \in DOMAIN mail : mail[m] = mail[n] => m = n
  /\ \A m \in DOMAIN mail : Spent(mail[m])
  /\ Pending => held[2] >= 1 /\ held[2] < uidNext
  /\ box = 0 => DOMAIN mail = {}

\* A row created anew is not the one any client or web delete knows.
RowsAreOld ==
  /\ box < nextBox /\ held[1] < nextBox /\ (held # Nobody => held[1] # 0)
  /\ \A c \in Clients :
       /\ session[c].box < nextBox /\ (session[c].pc # "out" => session[c].box # 0)
       /\ \A u \in DOMAIN cache[c] : cache[c][u].box < nextBox

\* The numbers of a client that is not stirred are right, and there is no
\* message below them that it has no number for.
NumbersRight(c) ==
  \A n \in DOMAIN view[c] :
    /\ view[c][n] \in RowsOf(session[c].box) /\ SeqNum(view[c][n]) = n
    /\ \A m \in DOMAIN mail : mail[m] <= mail[view[c][n]] => m \in Numbered(c)

\* A uid of this row in a cache is its message's, for good.
CacheRight(c) ==
  \A u \in DOMAIN cache[c] :
    cache[c][u].box = box =>
      Spent(u) /\ (\A m \in DOMAIN mail : mail[m] = u => m = cache[c][u].msg)

\* The uids a SEARCH gave stand for the messages it found, for good.
FoundRight(c) ==
  session[c].pc = "found" /\ session[c].box = box =>
    \A u \in session[c].found :
      Spent(u) /\ (\A m \in DOMAIN mail : mail[m] = u => m \in session[c].meant)

\* The messages that were there when GetMailbox read uid_next.
Older(c) == {m \in DOMAIN mail : mail[m] < session[c].uidNext}

\* Messages of uids the client has looked past and has nothing for.
Unseen(c) ==
  {m \in DOMAIN mail : mail[m] < synced[c] /\ mail[m] \notin DOMAIN cache[c]}

\* A mailbox that is looked into, its count not failing, had as many messages
\* counted as are older than the uid_next read, but for those moved in late.
NoneOverlooked(c) ==
  LET s == session[c] IN
  s.box = box =>
    /\ s.pc \in {"opened", "counted"} => s.uidNext <= uidNext
    /\ s.pc = "counted" /\ ~s.miscounted => Cardinality(Older(c)) <= s.count + late
    /\ s.pc \in {"ready", "expunge", "found"} =>
         synced[c] <= uidNext /\ (~s.miscounted => Cardinality(Unseen(c)) <= late)

ClientInv(c) ==
  /\ c \notin stirred => NumbersRight(c)
  /\ CacheRight(c) /\ FoundRight(c) /\ NoneOverlooked(c)

ViewInv ==
  /\ TypeOK /\ UidsDistinct /\ RowsAreOld /\ OnlyMeantDeleted
  /\ \A c \in Clients : ClientInv(c)

=============================================================================
