---------------------------- MODULE SmtpSessions ----------------------------
(***************************************************************************)
(* How mail enters picomailgo: the sessions of the inbound server (port    *)
(* 25) and of the submission server (port 587), and requests to the        *)
(* compose page, with the senders at the other end, who may hang up, miss  *)
(* an answer and try again.                                                *)
(*                                                                         *)
(* Each transaction on the database is one step.  deliverToInbox and       *)
(* SaveToSent are seen here by what they add: a copy of the message.       *)
(* Handing a message for another domain to Relay.Send is one step too; the *)
(* module Relay models what follows.  go-smtp asks for MAIL, RCPT and DATA *)
(* in this order, and calls Reset after DATA.                              *)
(***************************************************************************)
EXTENDS Naturals, Sequences, FiniteSets, Functions

CONSTANTS
  Names,        \* user names of this server; of inbound addresses only the
                \* part before the @ counts
  Registered,   \* users registered before we look
  Remotes,      \* addresses in other domains
  Inbound,      \* connections to the inbound server
  Submission,   \* connections to the submission server
  Requests,     \* requests to the compose page
  Msgs,         \* messages
  Nil,          \* no user, no message
  Author,       \* of each message, the user who sends it, or Nil if it comes
                \* from another server
  Addressees,   \* of each message, the addresses it is meant for
  Mixes,        \* bound: sets of messages under way together
  MaxFaults     \* bound: failed accesses to the database, hang-ups during
                \* DATA and stops of the server, together

Sessions  == Inbound \cup Submission \cup Requests
Addresses == Names \cup Remotes

ASSUME SessionsAssumption ==
  /\ Inbound \cap Submission = {} /\ Inbound \cap Requests = {}
  /\ Submission \cap Requests = {} /\ Names \cap Remotes = {}
  /\ Registered \subseteq Names /\ Nil \notin Names \cup Msgs
  /\ Author \in [Msgs -> Names \cup {Nil}]
  /\ Addressees \in [Msgs -> SUBSET Addresses]
  /\ \A m \in Msgs : Author[m] = Nil => Addressees[m] \subseteq Names
  /\ Mixes \subseteq SUBSET Msgs /\ MaxFaults \in Nat

VARIABLES
  users,        \* registered users
  sess,         \* the session or request of each connection
  faults,       \* faults so far
  awaited,      \* sender: addresses of a message it has no final answer for
  told,         \* sender: addresses it was told have the message
  copies,       \* ghost: copies put into an INBOX or handed to the relay
  sent,         \* ghost: copies saved in the author's Sent
  dropped,      \* ghost: <<message, address>> whose Send returned an error
  again         \* ghost: DATAs of a message that the sender heard no 250 to

ledger == <<awaited, told>>
ghosts == <<copies, sent, dropped, again>>
vars == <<users, sess, faults, ledger, ghosts>>

\* to is the session's recipients, left those the loop of Data has before it,
\* asked the recipients the sender believes it has named, and live tells
\* whether the sender is still there.
Session ==
  [pc : {"idle", "open", "data", "250", "451"}, user : Names \cup {Nil},
   msg : Msgs \cup {Nil}, to : Seq(Addresses), left : Seq(Addresses),
   asked : SUBSET Addresses, live : BOOLEAN]

NewSession ==
  [pc |-> "idle", user |-> Nil, msg |-> Nil, to |-> << >>, left |-> << >>,
   asked |-> {}, live |-> TRUE]

\* Mutant: Reset forgets the sender only.
Kept(r) == [r EXCEPT !.pc = "idle", !.msg = Nil, !.asked = {}]

\* Reset: the envelope goes, the user stays.
Cleared(r) == [r EXCEPT !.pc = "idle", !.msg = Nil, !.asked = {}, !.to = << >>]

Fault == faults < MaxFaults /\ faults' = faults + 1

\* A sender works on a message in one session at a time.
Unattended(m) == \A s \in Sessions : sess[s].live => sess[s].msg # m

OneMore(m, a) == [copies EXCEPT ![m][a] = @ + 1]

-----------------------------------------------------------------------------
(* Before DATA *)

CreateUser(u) ==
  /\ u \notin users
  /\ users' = users \cup {u}
  /\ UNCHANGED <<sess, faults, ledger, ghosts>>

\* AUTH PLAIN with the right password; a failed one changes nothing.
Auth(s, u) ==
  /\ sess[s].pc = "idle" /\ sess[s].user = Nil
  /\ u \in users
  /\ sess' = [sess EXCEPT ![s].user = u]
  /\ UNCHANGED <<users, faults, ledger, ghosts>>

\* The submission server asks for a user (530 otherwise).
Mail(s, m) ==
  /\ sess[s].pc = "idle"
  /\ Unattended(m) /\ awaited[m] # {}
  /\ sess[s].user = Author[m]
  /\ s \in Submission => sess[s].user # Nil
  /\ sess' = [sess EXCEPT ![s].pc = "open", ![s].msg = m]
  /\ UNCHANGED <<users, faults, ledger, ghosts>>

\* 550: the sender gives this address up.
Rejected(m, a) == awaited' = [awaited EXCEPT ![m] = @ \ {a}]

\* The inbound server looks the user up and takes a failed look for a missing
\* user; the submission server takes every address.  MaxRecipients, 50 in one
\* transaction, is more than any message here has.
Rcpt(s, a) ==
  LET m == sess[s].msg IN
  /\ sess[s].pc = "open"
  /\ a \in awaited[m] \ sess[s].asked
  /\ \/ /\ s \in Submission \/ a \in users
        /\ sess' = [sess EXCEPT ![s].to = Append(@, a), ![s].asked = @ \cup {a}]
        /\ UNCHANGED <<faults, awaited>>
     \/ /\ s \in Inbound /\ a \notin users
        /\ Rejected(m, a)
        /\ UNCHANGED <<sess, faults>>
     \/ /\ s \in Inbound /\ Fault
        /\ Rejected(m, a)
        /\ UNCHANGED sess
  /\ UNCHANGED <<users, told, ghosts>>

\* RSET, or what go-smtp makes of a body it cannot read to its end.
Reset(s) ==
  /\ sess[s].pc = "open"
  /\ sess' = [sess EXCEPT ![s] = Cleared(@)]
  /\ UNCHANGED <<users, faults, ledger, ghosts>>

\* The connection ends while no Data is running.
Logout(s) ==
  /\ sess[s].pc \in {"idle", "open"}
  /\ sess' = [sess EXCEPT ![s] = NewSession]
  /\ UNCHANGED <<users, faults, ledger, ghosts>>

-----------------------------------------------------------------------------
(* Data and handleCompose *)

\* The body has arrived: the loop over s.to begins.
Data(s) ==
  /\ sess[s].pc = "open" /\ sess[s].to # << >>
  /\ sess[s].asked = awaited[sess[s].msg]
  /\ sess' = [sess EXCEPT ![s].pc = "data", ![s].left = sess[s].to]
  /\ UNCHANGED <<users, faults, ledger, ghosts>>

\* A browser posts the compose page, to one address.
Compose(r, m) ==
  /\ sess[r].pc = "idle" /\ Unattended(m) /\ Author[m] \in users
  /\ \E a \in awaited[m] :
       /\ awaited[m] = {a}
       /\ sess' = [sess EXCEPT ![r] =
            [NewSession EXCEPT !.pc = "data", !.user = Author[m], !.msg = m,
                               !.to = <<a>>, !.left = <<a>>, !.asked = {a}]]
  /\ UNCHANGED <<users, faults, ledger, ghosts>>

Proceed(s) == sess' = [sess EXCEPT ![s].left = Tail(@)]

\* Mutant: a failed delivery is logged and the loop goes on.
DeliverNextRegardless(s) ==
  /\ sess[s].pc = "data" /\ sess[s].left # << >>
  /\ \/ copies' = OneMore(sess[s].msg, Head(sess[s].left)) /\ UNCHANGED faults
     \/ Fault /\ UNCHANGED copies
  /\ Proceed(s)
  /\ UNCHANGED <<users, ledger, sent, dropped, again>>

\* Inbound: deliverToInbox for the next recipient; an error ends Data with 451.
DeliverNext(s) ==
  /\ sess[s].pc = "data" /\ sess[s].left # << >>
  /\ \/ /\ copies' = OneMore(sess[s].msg, Head(sess[s].left))
        /\ Proceed(s)
        /\ UNCHANGED faults
     \/ /\ Fault
        /\ sess' = [sess EXCEPT ![s].pc = "451"]
        /\ UNCHANGED copies
  /\ UNCHANGED <<users, ledger, sent, dropped, again>>

\* Submission and compose: Send to the next recipient.  An unknown local user,
\* a failed delivery and a failed enqueue are errors, and are only logged.
SendNext(s) ==
  LET m == sess[s].msg
      a == Head(sess[s].left)
  IN
  /\ sess[s].pc = "data" /\ sess[s].left # << >>
  /\ \/ /\ a \in users \cup Remotes
        /\ copies' = OneMore(m, a)
        /\ UNCHANGED <<dropped, faults>>
     \/ /\ a \in Names \ users
        /\ dropped' = dropped \cup {<<m, a>>}
        /\ UNCHANGED <<copies, faults>>
     \/ /\ Fault
        /\ dropped' = dropped \cup {<<m, a>>}
        /\ UNCHANGED copies
  /\ Proceed(s)
  /\ UNCHANGED <<users, ledger, sent, again>>

Delivered(s) ==
  /\ sess[s].pc = "data" /\ sess[s].left = << >>
  /\ sess' = [sess EXCEPT ![s].pc = "250"]
  /\ UNCHANGED <<users, faults, ledger, ghosts>>

\* Mutant: the Sent copy is saved at the first recipient.
SavesAtOnce(s) == sess[s].pc = "data" /\ sess[s].left = sess[s].to

\* The loop is over.
Saves(s) == sess[s].pc = "data" /\ sess[s].left = << >>

\* SaveToSent, once for all recipients; its error is dropped.
SaveToSent(s) ==
  /\ Saves(s)
  /\ \/ sent' = [sent EXCEPT ![sess[s].msg] = @ + 1] /\ UNCHANGED faults
     \/ Fault /\ UNCHANGED sent
  /\ sess' = [sess EXCEPT ![s].pc = "250"]
  /\ UNCHANGED <<users, ledger, copies, dropped, again>>

\* The answer goes out, and go-smtp calls Reset.  A compose request ends.
Reply(s) ==
  LET r == sess[s] IN
  /\ r.pc \in {"250", "451"}
  /\ IF r.live /\ r.pc = "250"
     THEN /\ told' = [told EXCEPT ![r.msg] = @ \cup r.asked]
          /\ awaited' = [awaited EXCEPT ![r.msg] = @ \ r.asked]
          /\ again' = again
     ELSE /\ again' = IF r.live THEN [again EXCEPT ![r.msg] = @ + 1] ELSE again
          /\ UNCHANGED ledger
  /\ sess' = [sess EXCEPT ![s] = IF r.live /\ s \notin Requests
                                 THEN Cleared(r) ELSE NewSession]
  /\ UNCHANGED <<users, faults, copies, sent, dropped>>

-----------------------------------------------------------------------------
(* What can go wrong *)

\* The sender's patience or the connection ends during DATA.  The handler
\* knows nothing of it and goes on, while the sender may try again.
HangUp(s) ==
  /\ sess[s].pc \in {"data", "250", "451"} /\ sess[s].live
  /\ Fault
  /\ sess' = [sess EXCEPT ![s].live = FALSE]
  /\ again' = [again EXCEPT ![sess[s].msg] = @ + 1]
  /\ UNCHANGED <<users, ledger, copies, sent, dropped>>

\* The server stops and starts again: sessions end, the database stays.
Crash ==
  /\ Fault
  /\ again' = [m \in Msgs |->
                 IF \E s \in Sessions : /\ sess[s].msg = m /\ sess[s].live
                                        /\ sess[s].pc \in {"data", "250", "451"}
                 THEN again[m] + 1 ELSE again[m]]
  /\ sess' = [s \in Sessions |-> NewSession]
  /\ UNCHANGED <<users, ledger, copies, sent, dropped>>

Init ==
  /\ users = Registered
  /\ sess = [s \in Sessions |-> NewSession]
  /\ faults = 0
  /\ \E mix \in Mixes :
       awaited = [m \in Msgs |-> IF m \in mix THEN Addressees[m] ELSE {}]
  /\ told = [m \in Msgs |-> {}]
  /\ copies = [m \in Msgs |-> [a \in Addresses |-> 0]]
  /\ sent = [m \in Msgs |-> 0]
  /\ dropped = {}
  /\ again = [m \in Msgs |-> 0]

Next ==
  \/ \E u \in Names : CreateUser(u)
  \/ \E s \in Submission, u \in Names : Auth(s, u)
  \/ \E s \in Inbound \cup Submission :
       \/ \E m \in Msgs : Mail(s, m)
       \/ \E a \in Addresses : Rcpt(s, a)
       \/ Data(s) \/ Reset(s) \/ Logout(s)
  \/ \E r \in Requests, m \in Msgs : Compose(r, m)
  \/ \E s \in Inbound : DeliverNext(s) \/ Delivered(s)
  \/ \E s \in Submission \cup Requests : SendNext(s) \/ SaveToSent(s)
  \/ \E s \in Sessions : Reply(s) \/ HangUp(s)
  \/ Crash

Spec == Init /\ [][Next]_vars

-----------------------------------------------------------------------------
(* What the sessions promise *)

\* Sessions, the senders' ledgers and the ghosts hold values of their types,
\* and a session between two messages has no recipients left from the first.
TypeOK ==
  /\ users \subseteq Names
  /\ sess \in [Sessions -> Session]
  /\ \A s \in Sessions : sess[s].pc = "idle" => sess[s].to = << >>
  /\ faults \in Nat
  /\ awaited \in [Msgs -> SUBSET Addresses] /\ told \in [Msgs -> SUBSET Addresses]
  /\ copies \in [Msgs -> [Addresses -> Nat]] /\ sent \in [Msgs -> Nat]
  /\ dropped \subseteq Msgs \X Addresses
  /\ again \in [Msgs -> Nat]

\* A sender that heard 250 may forget the message: every address it named has
\* a copy.  Only a user's own Send may have failed unmentioned.
AckedDelivered ==
  \A m \in Msgs : \A a \in told[m] :
    copies[m][a] > 0 \/ (Author[m] # Nil /\ <<m, a>> \in dropped)

\* A message reaches nobody it is not meant for, although a session serves
\* one message after another and a recipient list is a field of the session.
NotMisdelivered ==
  \A m \in Msgs, a \in Addresses : copies[m][a] > 0 => a \in Addressees[m]

\* Nobody gets more copies than the sender has reason to have sent: one, and
\* one for each DATA that it heard no 250 to, be it 451, a hang-up or a crash.
CopiesExplained ==
  \A m \in Msgs, a \in Addresses : copies[m][a] <= 1 + again[m]

\* What stands in Sent has been sent: each address has had a Send that
\* succeeded or returned an error.
SentIsSent ==
  \A m \in Msgs : sent[m] > 0 =>
    \A a \in Addressees[m] : copies[m][a] > 0 \/ <<m, a>> \in dropped

-----------------------------------------------------------------------------
(* The inductive invariant *)

\* A DATA or a compose request is at work, or its answer is under way.
Busy(s) == sess[s].pc \in {"data", "250", "451"}

\* An envelope is all of one message, whose author the session's user is.  Only
\* a handler at work may have lost its sender.
OfOneMessage(s) ==
  /\ sess[s].pc = "idle" <=> sess[s].msg = Nil
  /\ ~Busy(s) => sess[s].live
  /\ s \in Inbound => sess[s].user = Nil
  /\ sess[s].msg # Nil =>
       /\ sess[s].user = Author[sess[s].msg]
       /\ s \notin Inbound => sess[s].user # Nil
       /\ sess[s].asked \subseteq Addressees[sess[s].msg]

\* The recipients are those the sender believes it has named, each once, and the
\* loop has some of them before it, each once.
RecipientsOnce(s) ==
  /\ Range(sess[s].to) = sess[s].asked /\ IsInjective(sess[s].to)
  /\ Busy(s) => /\ Range(sess[s].left) \subseteq sess[s].asked
                 /\ IsInjective(sess[s].left)
  /\ sess[s].pc = "250" => sess[s].left = << >>

\* A sender works on a message in one session, and has named there only
\* addresses it has no answer for, at DATA all of them.
OneAttempt(s) ==
  sess[s].live /\ sess[s].msg # Nil =>
    /\ \A t \in Sessions : sess[t].live /\ sess[t].msg = sess[s].msg => t = s
    /\ sess[s].asked \subseteq awaited[sess[s].msg]
    /\ Busy(s) => sess[s].asked = awaited[sess[s].msg]

\* A handler at work on a user's message has all addressees that were not told of.
NoneLeftOut(s) ==
  Busy(s) /\ s \notin Inbound =>
    Addressees[sess[s].msg] \subseteq sess[s].asked \cup told[sess[s].msg]

\* An address has been served: it has a copy, or a user's Send to it failed.
Served(m, a) == copies[m][a] > 0 \/ (Author[m] # Nil /\ <<m, a>> \in dropped)

\* What the loop has behind it is served.
ServedBehind(s) ==
  Busy(s) => \A a \in sess[s].asked \ Range(sess[s].left) : Served(sess[s].msg, a)

Coherent(s) ==
  OfOneMessage(s) /\ RecipientsOnce(s) /\ OneAttempt(s) /\ NoneLeftOut(s) /\ ServedBehind(s)

\* A sender awaits answers for addressees only, and forgets none of the
\* addressees of a user's message: the submission server rejects nobody.
LedgerKept ==
  \A m \in Msgs :
    /\ awaited[m] \subseteq Addressees[m]
    /\ Author[m] # Nil /\ awaited[m] # {} => Addressees[m] \subseteq awaited[m] \cup told[m]

\* Handlers whose sender has gone, and that have the address still before them.
Deserted(m, a) ==
  {s \in Sessions : ~sess[s].live /\ sess[s].msg = m /\ a \in Range(sess[s].left)}

\* One more copy may be made that needs no excuse: the address awaits an answer,
\* and no handler of its sender has served it.
Due(m, a) ==
  /\ a \in awaited[m]
  /\ \A s \in Sessions :
       Busy(s) /\ sess[s].live /\ sess[s].msg = m => a \in Range(sess[s].left)

\* Copies made, copies deserted handlers may make, and the copy that is due.
CopiesBudgeted ==
  /\ IsFiniteSet({s \in Sessions : ~sess[s].live})
  /\ \A m \in Msgs, a \in Addresses :
       copies[m][a] + Cardinality(Deserted(m, a)) + (IF Due(m, a) THEN 1 ELSE 0)
         <= 1 + again[m]

SessionsInv ==
  /\ TypeOK /\ LedgerKept /\ CopiesBudgeted
  /\ \A s \in Sessions : Coherent(s)
  /\ AckedDelivered /\ NotMisdelivered /\ SentIsSent

=============================================================================
