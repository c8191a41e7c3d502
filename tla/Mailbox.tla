------------------------------- MODULE Mailbox -------------------------------
(***************************************************************************)
(* The mail an IMAP client may count on, without accounts, handlers,       *)
(* counters or the several statements of a request: messages stand in      *)
(* mailboxes under uids, carry marks, arrive, move and go.  MailStore      *)
(* implements this specification.                                          *)
(***************************************************************************)
EXTENDS Integers

CONSTANTS
  Ids,          \* message rows
  Boxes,        \* mailbox rows
  Uids,         \* uids, and 0 for a message that got none
  Flags         \* marks a message may carry

VARIABLES
  mail,         \* message -> the mailbox it stands in and its uid there
  marks,        \* <<message, flag>> pairs
  seen          \* every <<mailbox, uid, message>> a client could have seen

vars == <<mail, marks, seen>>

Places(m, b, u) ==
  /\ mail' = [n \in DOMAIN mail \cup {m} |->
                IF n = m THEN [box |-> b, uid |-> u] ELSE mail[n]]
  /\ seen' = seen \cup {<<b, u, m>>}

\* A message never seen before gets a uid above all its mailbox has shown.
Arrive(m) ==
  /\ m \notin DOMAIN mail
  /\ \A h \in seen : h[3] # m
  /\ \E b \in Boxes, u \in Uids :
       /\ \A h \in seen : h[1] = b => h[2] < u
       /\ Places(m, b, u)
  /\ \E fs \in SUBSET Flags : marks' = marks \cup ({m} \X fs)

\* A message comes to stand under a uid its mailbox has never shown, though
\* perhaps below others; uid 0 is the exception.
Move(m) ==
  /\ m \in DOMAIN mail
  /\ \E b \in Boxes, u \in Uids :
       /\ u = 0 \/ \A h \in seen : h[1] = b => h[2] # u
       /\ \A n \in DOMAIN mail \ {m} : mail[n] # [box |-> b, uid |-> u]
       /\ Places(m, b, u)
  /\ marks' = marks

\* Messages go, and their marks with them: one of them, all of a mailbox that
\* are marked \Deleted, or all of mailboxes that are deleted themselves.
Go(ms) ==
  /\ mail' = [m \in DOMAIN mail \ ms |-> mail[m]]
  /\ marks' = {f \in marks : f[1] \notin ms}
  /\ seen' = seen

Standing(bs) == {m \in DOMAIN mail : mail[m].box \in bs}

Remove ==
  \/ \E m \in DOMAIN mail : Go({m})
  \/ \E bs \in SUBSET Boxes : Go(Standing(bs))
  \/ \E b \in Boxes : Go({m \in Standing({b}) : <<m, "Deleted">> \in marks})

\* The marks of one message change.
Mark(m) ==
  /\ m \in DOMAIN mail
  /\ \E fs \in SUBSET Flags :
       marks' = {f \in marks : f[1] # m} \cup ({m} \X fs)
  /\ UNCHANGED <<mail, seen>>

Init == mail = << >> /\ marks = {} /\ seen = {}

Next == (\E m \in Ids : Arrive(m) \/ Move(m) \/ Mark(m)) \/ Remove

Spec == Init /\ [][Next]_vars

==============================================================================
