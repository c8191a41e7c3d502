----------------------------- MODULE RelayProofs -----------------------------
(* Theorems about Relay, for every value of its constants. *)
EXTENDS Relay, TLAPS

\* A row of the queue, whatever the time it carries.
Shaped(r) == r = [attempts |-> r.attempts, wait |-> r.wait] /\ r.attempts \in Nat

Call == [pc : {"idle", "deliver", "ok", "err", "hung"}, tried : Nat]

\* TypeOK without the times and the count of hosts, which play no part in the
\* safety properties.
Shape ==
  /\ status \in [Msgs -> Statuses]
  /\ DOMAIN queue \subseteq Msgs
  /\ \A m \in DOMAIN queue : Shaped(queue[m])
  /\ \A i \in batch : i.msg \in Msgs /\ i.attempts \in Nat
  /\ item = NoItem <=> work[Processor] = Resting
  /\ item # NoItem => item.msg \in Msgs /\ item.attempts \in Nat
  /\ work \in [Workers -> Call]
  /\ accepted \in [Msgs -> Nat] /\ doubtful \in [Msgs -> Nat]
  /\ tries \in [Msgs -> 0 .. MaxAttempts]

\* What an answer, or its absence, does to the call of worker w.
Outcome(w) ==
  /\ work[w].pc = "deliver"
  /\ \E x \in Call :
       /\ x.pc # "idle"
       /\ work' = [work EXCEPT ![w] = x]
       /\ \/ x.pc # "ok" /\ UNCHANGED <<accepted, doubtful>>
          \/ /\ x.pc = "ok"
             /\ accepted' = [accepted EXCEPT ![Carries(w)] = @ + 1]
             /\ doubtful' = doubtful
          \/ /\ x.pc # "ok"
             /\ accepted' = [accepted EXCEPT ![Carries(w)] = @ + 1]
             /\ doubtful' = [doubtful EXCEPT ![Carries(w)] = @ + 1]
  /\ UNCHANGED <<status, queue, batch, item, tries, unqueued>>

-----------------------------------------------------------------------------
(* Lemmas about single steps *)

LEMMA NextHostOutcome ==
  ASSUME Shape, NEW w \in Workers, work[w].pc = "deliver", NextHost(w)
  PROVE  \E x \in Call : /\ x.pc \in {"deliver", "err"}
                         /\ work' = [work EXCEPT ![w] = x]
<1>1. work[w] \in Call /\ NumMX \in Nat \ {0}
  BY RelayAssumption DEF Shape
<1> DEFINE n == work[w].tried + 1
           x == [pc |-> IF n = NumMX THEN "err" ELSE "deliver", tried |-> n]
<1>2. x \in Call /\ x.pc \in {"deliver", "err"}
  BY <1>1 DEF Call
<1> QED
  BY <1>2 DEF NextHost

LEMMA ReturnsOutcome ==
  ASSUME Shape, NEW w \in Workers, NEW pc \in {"ok", "err", "hung"}, Returns(w, pc)
  PROVE  \E x \in Call : x.pc = pc /\ work' = [work EXCEPT ![w] = x]
<1> DEFINE x == [work[w] EXCEPT !.pc = pc]
<1>1. x \in Call /\ x.pc = pc
  BY DEF Shape, Call
<1>2. work' = [work EXCEPT ![w] = x]
  BY DEF Returns
<1> QED
  BY <1>1, <1>2

LEMMA AnswerOutcome ==
  ASSUME Shape, NEW w \in Workers, Answer(w) \/ Hangs(w)
  PROVE  Outcome(w)
<1>1. CASE LookupFails(w)
  <2>1. Returns(w, "err") /\ work[w].pc = "deliver"
    BY <1>1 DEF LookupFails, Calling
  <2> QED
    BY <1>1, <2>1, ReturnsOutcome DEF LookupFails, Outcome, ghosts
<1>2. CASE Refused(w)
  BY <1>2, NextHostOutcome DEF Refused, Outcome, ghosts
<1>3. CASE Taken(w)
  BY <1>3, ReturnsOutcome DEF Taken, Outcome
<1>4. CASE TakenUnheard(w)
  BY <1>4, NextHostOutcome DEF TakenUnheard, Outcome
<1>5. CASE Hangs(w)
  BY <1>5, ReturnsOutcome DEF Hangs, Outcome
<1> QED
  BY <1>1, <1>2, <1>3, <1>4, <1>5 DEF Answer

\* The message a delivering worker carries is a message.
LEMMA CarriesMsg ==
  ASSUME Shape, NEW w \in Workers, work[w].pc # "idle"
  PROVE  /\ Carries(w) \in Msgs
         /\ w = Processor => item # NoItem
BY DEF Shape, Carries, Workers, Resting

LEMMA DueShape ==
  ASSUME Shape, NEW i \in Due
  PROVE  /\ i.msg \in DOMAIN queue
         /\ i.attempts = queue[i.msg].attempts
         /\ i.attempts \in Nat
         /\ \A j \in Due : i.msg = j.msg => i = j
BY DEF Due, Shape, Shaped

LEMMA PollTakes ==
  ASSUME Poll
  PROVE  /\ batch' \subseteq Due
         /\ item' = item /\ work' = work
         /\ work[Processor] = Resting
         /\ UNCHANGED <<status, queue, accepted, doubtful, tries, unqueued>>
BY DEF Poll, FirstOf, ProcessorFree, ghosts

-----------------------------------------------------------------------------
(* Shapes *)

LEMMA InitShape == Init => Shape
<1> SUFFICES ASSUME Init PROVE Shape
  OBVIOUS
<1>1. Resting \in Call
  BY DEF Resting, Call
<1>2. MaxAttempts \in Nat /\ Processor \in Workers
  BY RelayAssumption DEF Workers
<1> QED
  BY <1>1, <1>2 DEF Init, Shape, Statuses

LEMMA ShapeStep == Shape /\ [Next]_vars => Shape'
<1> SUFFICES ASSUME Shape, [Next]_vars PROVE Shape'
  OBVIOUS
<1>0. /\ Resting \in Call /\ Calling \in Call /\ Resting # Calling
      /\ Processor \in Workers /\ Processor \notin Msgs
      /\ Msgs \subseteq Workers
      /\ MaxAttempts \in Nat \ {0}
  BY RelayAssumption DEF Resting, Calling, Call, Workers
<1>1. ASSUME NEW m \in Msgs, Submit(m) PROVE Shape'
  <2>1. status' \in [Msgs -> Statuses]
    BY <1>1 DEF Submit, Shape, Statuses
  <2>2. work' \in [Workers -> Call] /\ work'[Processor] = work[Processor]
    BY <1>0, <1>1 DEF Submit, Shape
  <2> QED
    BY <1>1, <2>1, <2>2 DEF Submit, Shape, ghosts
<1>2. ASSUME NEW m \in Msgs, Enqueue(m) PROVE Shape'
  <2>1. work' \in [Workers -> Call] /\ work'[Processor] = work[Processor]
    <3>1. PICK x \in Call : work' = [work EXCEPT ![m] = x]
      BY <1>0, <1>2, ReturnsOutcome DEF Enqueue
    <3> QED
      BY <1>0, <3>1 DEF Shape
  <2>2. DOMAIN queue' \subseteq Msgs /\ \A n \in DOMAIN queue' : Shaped(queue'[n])
    <3>1. Shaped(FirstRetry)
      BY DEF Shaped, FirstRetry
    <3>2. CASE queue' = Put(queue, m, FirstRetry)
      BY <3>1, <3>2 DEF Put, Shape
    <3>3. CASE queue' = queue
      BY <3>3 DEF Shape
    <3> QED
      BY <1>2, <3>2, <3>3 DEF Enqueue, WriteFails
  <2> QED
    BY <1>2, <2>1, <2>2 DEF Enqueue, Shape, ghosts
<1>3. ASSUME NEW m \in Msgs, Ack(m) PROVE Shape'
  <2>1. status' \in [Msgs -> Statuses]
    BY <1>3 DEF Ack, Shape, Statuses
  <2>2. work' \in [Workers -> Call] /\ work'[Processor] = work[Processor]
    BY <1>0, <1>3 DEF Ack, Shape
  <2> QED
    BY <1>3, <2>1, <2>2 DEF Ack, Shape, ghosts
<1>4. ASSUME NEW w \in Workers, Answer(w) \/ Hangs(w) PROVE Shape'
  <2>1. Outcome(w)
    BY <1>4, AnswerOutcome
  <2>2. Carries(w) \in Msgs /\ (w = Processor => item # NoItem)
    BY <2>1, CarriesMsg DEF Outcome
  <2>3. accepted' \in [Msgs -> Nat] /\ doubtful' \in [Msgs -> Nat]
    BY <2>1, <2>2 DEF Outcome, Shape
  <2>4. PICK x \in Call : x.pc # "idle" /\ work' = [work EXCEPT ![w] = x]
    BY <2>1 DEF Outcome
  <2>5. work' \in [Workers -> Call] /\ (work'[Processor] = Resting <=> work[Processor] = Resting)
    BY <2>1, <2>2, <2>4, <1>0 DEF Shape, Resting, Outcome
  <2> QED
    BY <2>1, <2>3, <2>5 DEF Outcome, Shape
<1>5. ASSUME Poll PROVE Shape'
  <2>1. \A i \in batch' : i.msg \in Msgs /\ i.attempts \in Nat
    BY <1>5, PollTakes, DueShape DEF Shape
  <2> QED
    BY <1>5, <2>1, PollTakes DEF Shape
<1>6. ASSUME BeginItem PROVE Shape'
  <2>1. item' \in batch /\ batch' \subseteq batch
    BY <1>6 DEF BeginItem
  <2>2. item'.msg \in Msgs /\ item'.attempts \in Nat /\ item' # NoItem
    BY <1>0, <2>1 DEF Shape, NoItem
  <2>3. work' \in [Workers -> Call] /\ work'[Processor] # Resting
    BY <1>0, <1>6 DEF BeginItem, Shape
  <2> QED
    BY <1>6, <2>1, <2>2, <2>3 DEF BeginItem, Shape, ghosts
<1>7. ASSUME ItemDone PROVE /\ work' \in [Workers -> Call]
                            /\ item' = NoItem /\ work'[Processor] = Resting
  BY <1>0, <1>7 DEF ItemDone, Shape
<1>8. ASSUME DeleteDelivered PROVE Shape'
  <2>1. ItemDone /\ item.msg \in Msgs
    BY <1>8 DEF DeleteDelivered, Shape, Resting
  <2>2. DOMAIN queue' \subseteq Msgs /\ \A n \in DOMAIN queue' : Shaped(queue'[n])
    BY <1>8 DEF DeleteDelivered, WriteFails, Drop, Shape
  <2>3. doubtful' \in [Msgs -> Nat]
    BY <1>8, <2>1 DEF DeleteDelivered, WriteFails, Shape
  <2> QED
    BY <1>7, <1>8, <2>1, <2>2, <2>3 DEF DeleteDelivered, Shape
<1>9. ASSUME RetryOrGiveUp PROVE Shape'
  <2>1. ItemDone /\ item.msg \in Msgs /\ item.attempts \in Nat
    BY <1>9 DEF RetryOrGiveUp, Shape, Resting
  <2>2. DOMAIN queue' \subseteq Msgs /\ \A n \in DOMAIN queue' : Shaped(queue'[n])
    <3> DEFINE n == item.attempts + 1
    <3>1. CASE queue' = Drop(queue, item.msg)
      BY <3>1 DEF Drop, Shape
    <3>2. CASE queue' = [m \in DOMAIN queue |->
                           IF m = item.msg THEN [attempts |-> n, wait |-> Backoff(n)]
                           ELSE queue[m]]
      <4>1. Shaped([attempts |-> n, wait |-> Backoff(n)])
        BY <2>1 DEF Shaped
      <4> QED
        BY <3>2, <4>1 DEF Shape
    <3>3. CASE queue' = queue
      BY <3>3 DEF Shape
    <3> QED
      BY <1>9, <3>1, <3>2, <3>3 DEF RetryOrGiveUp, WriteFails
  <2>3. tries' \in [Msgs -> 0 .. MaxAttempts]
    BY <1>0, <1>9, <2>1 DEF RetryOrGiveUp, Shape
  <2> QED
    BY <1>7, <1>9, <2>1, <2>2, <2>3 DEF RetryOrGiveUp, Shape
<1>10. ASSUME Tick PROVE Shape'
  <2>1. DOMAIN queue' \subseteq Msgs /\ \A n \in DOMAIN queue' : Shaped(queue'[n])
    BY <1>10 DEF Tick, Shape, Shaped
  <2> QED
    BY <1>10, <2>1 DEF Tick, Shape, ghosts
<1>11. ASSUME Crash PROVE Shape'
  <2>1. status' \in [Msgs -> Statuses]
    BY <1>11 DEF Crash, Shape, Statuses
  <2>2. work' \in [Workers -> Call] /\ work'[Processor] = Resting
    BY <1>0, <1>11 DEF Crash
  <2>3. doubtful' \in [Msgs -> Nat]
    BY <1>11 DEF Crash, Shape
  <2> QED
    BY <1>11, <2>1, <2>2, <2>3 DEF Crash, Shape
<1>12. CASE UNCHANGED vars
  BY <1>12 DEF vars, ghosts, Shape
<1> QED
  BY <1>1, <1>2, <1>3, <1>4, <1>5, <1>6, <1>8, <1>9, <1>10, <1>11, <1>12
     DEF Next, SendStep, ProcessorStep

\* Rows, snapshots and calls keep their shapes.
LEMMA ShapeAlways == Spec => []Shape
<1>1. Init => Shape
  BY InitShape
<1>2. Shape /\ [Next]_vars => Shape'
  BY ShapeStep
<1> QED
  BY <1>1, <1>2, PTL DEF Spec

-----------------------------------------------------------------------------
(* Types *)

\* The rest of TypeOK: times, hosts tried, the bounds' counters.
Sized ==
  /\ queue \in [DOMAIN queue -> QueueRow]
  /\ batch \subseteq Item /\ item \in Item \cup {NoItem}
  /\ work \in [Workers -> Work] /\ HostsLeft
  /\ crashes \in Nat /\ failures \in Nat /\ unqueued \subseteq Msgs

LEMMA CallSized ==
  ASSUME Sized, NEW w \in Workers, NEW x \in Work, x.pc = "deliver" => x.tried < NumMX,
         work' = [work EXCEPT ![w] = x]
  PROVE  work' \in [Workers -> Work] /\ HostsLeft'
BY DEF Sized, HostsLeft

LEMMA NextHostSized ==
  ASSUME Sized, NEW w \in Workers, work[w].pc = "deliver", NextHost(w)
  PROVE  work' \in [Workers -> Work] /\ HostsLeft'
<1> DEFINE n == work[w].tried + 1
           x == [pc |-> IF n = NumMX THEN "err" ELSE "deliver", tried |-> n]
<1>1. work[w] \in Work /\ work[w].tried < NumMX /\ NumMX \in Nat
  BY RelayAssumption DEF Sized, HostsLeft
<1>2. n \in 0 .. NumMX /\ (n # NumMX => n < NumMX)
  BY <1>1 DEF Work
<1>3. x \in Work /\ (x.pc = "deliver" => x.tried < NumMX) /\ work' = [work EXCEPT ![w] = x]
  BY <1>2 DEF Work, NextHost
<1> HIDE DEF x
<1> QED
  BY <1>3, CallSized

LEMMA ReturnsSized ==
  ASSUME Sized, NEW w \in Workers, NEW pc \in {"ok", "err", "hung"}, Returns(w, pc)
  PROVE  work' \in [Workers -> Work] /\ HostsLeft'
<1> DEFINE x == [work[w] EXCEPT !.pc = pc]
<1>1. x \in Work /\ x.pc # "deliver" /\ work' = [work EXCEPT ![w] = x]
  BY DEF Sized, Work, Returns
<1> HIDE DEF x
<1> QED
  BY <1>1, CallSized

LEMMA SizedStep == Shape /\ Sized /\ [Next]_vars => Sized'
<1> SUFFICES ASSUME Shape, Sized, [Next]_vars PROVE Sized'
  OBVIOUS
<1>0. /\ Resting \in Work /\ Calling \in Work /\ Resting.pc = "idle"
      /\ Calling.tried < NumMX /\ Processor \in Workers /\ Msgs \subseteq Workers
      /\ FirstRetry \in QueueRow /\ NoItem \in Item \cup {NoItem}
      /\ MaxLate \in Nat
  BY RelayAssumption DEF Resting, Calling, Work, Workers, FirstRetry, QueueRow
<1>1. ASSUME NEW m \in Msgs, Submit(m) PROVE Sized'
  <2>1. work' \in [Workers -> Work] /\ HostsLeft'
    BY <1>0, <1>1, CallSized DEF Submit
  <2> QED
    BY <1>1, <2>1 DEF Submit, Sized, ghosts
<1>2. ASSUME NEW m \in Msgs, Enqueue(m) PROVE Sized'
  <2>1. work' \in [Workers -> Work] /\ HostsLeft'
    BY <1>0, <1>2, ReturnsSized DEF Enqueue
  <2>2. queue' \in [DOMAIN queue' -> QueueRow] /\ failures' \in Nat /\ unqueued' \subseteq Msgs
    BY <1>0, <1>2 DEF Enqueue, Put, WriteFails, Sized
  <2> QED
    BY <1>2, <2>1, <2>2 DEF Enqueue, Sized
<1>3. ASSUME NEW m \in Msgs, Ack(m) PROVE Sized'
  <2>1. work' \in [Workers -> Work] /\ HostsLeft'
    BY <1>0, <1>3, CallSized DEF Ack
  <2> QED
    BY <1>3, <2>1 DEF Ack, Sized, ghosts
<1>4. ASSUME NEW w \in Workers, Answer(w) \/ Hangs(w) PROVE Sized'
  <2>1. CASE LookupFails(w)
    BY <2>1, ReturnsSized DEF LookupFails, Sized, ghosts
  <2>2. CASE Refused(w)
    BY <2>2, NextHostSized DEF Refused, Sized, ghosts
  <2>3. CASE Taken(w)
    BY <2>3, ReturnsSized DEF Taken, Sized
  <2>4. CASE TakenUnheard(w)
    BY <2>4, NextHostSized DEF TakenUnheard, Sized
  <2>5. CASE Hangs(w)
    BY <2>5, ReturnsSized DEF Hangs, Sized
  <2> QED
    BY <1>4, <2>1, <2>2, <2>3, <2>4, <2>5 DEF Answer
<1>5. ASSUME Poll PROVE Sized'
  <2>1. Due \subseteq Item
    BY DEF Due, Sized, Shape, Item, QueueRow
  <2>2. /\ batch' \subseteq Due /\ failures' \in Nat
        /\ UNCHANGED <<queue, item, work, crashes, unqueued>>
    BY <1>5 DEF Poll, FirstOf, Sized, ghosts
  <2> QED
    BY <2>1, <2>2 DEF Sized, HostsLeft
<1>6. ASSUME BeginItem PROVE Sized'
  <2>1. work' \in [Workers -> Work] /\ HostsLeft'
    BY <1>0, <1>6, CallSized DEF BeginItem
  <2>2. item' \in Item /\ batch' \subseteq Item
    BY <1>6 DEF BeginItem, Sized
  <2> QED
    BY <1>6, <2>1, <2>2 DEF BeginItem, Sized, ghosts
<1>7. ASSUME ItemDone PROVE /\ work' \in [Workers -> Work] /\ HostsLeft'
                            /\ item' \in Item \cup {NoItem}
  BY <1>0, <1>7, CallSized DEF ItemDone
<1>8. ASSUME DeleteDelivered PROVE Sized'
  <2>1. queue' \in [DOMAIN queue' -> QueueRow] /\ failures' \in Nat
    BY <1>8 DEF DeleteDelivered, Drop, WriteFails, Sized
  <2> QED
    BY <1>7, <1>8, <2>1 DEF DeleteDelivered, Sized
<1>9. ASSUME RetryOrGiveUp PROVE Sized'
  <2> DEFINE n == item.attempts + 1
             row == [attempts |-> n, wait |-> Backoff(n)]
  <2>1. row \in QueueRow
    <3>1. item.attempts \in Nat
      BY <1>9 DEF RetryOrGiveUp, Shape, Resting
    <3>2. n \in Nat /\ n - 1 \in Nat
      BY <3>1
    <3> HIDE DEF n
    <3>3. 3 ^ (n - 1) \in Int
      BY <3>2
    <3> QED
      BY <3>2, <3>3 DEF Backoff, QueueRow
  <2>2. \/ queue' = Drop(queue, item.msg)
        \/ queue' = [m \in DOMAIN queue |-> IF m = item.msg THEN row ELSE queue[m]]
        \/ queue' = queue
    BY <1>9 DEF RetryOrGiveUp, WriteFails
  <2> HIDE DEF row
  <2>3. queue' \in [DOMAIN queue' -> QueueRow]
    BY <2>1, <2>2 DEF Drop, Sized
  <2>4. failures' \in Nat /\ ItemDone /\ UNCHANGED <<batch, crashes, unqueued>>
    BY <1>9 DEF RetryOrGiveUp, WriteFails, Sized
  <2> QED
    BY <1>7, <2>3, <2>4 DEF Sized
<1>10. ASSUME Tick PROVE Sized'
  <2>1. queue' = [m \in DOMAIN queue |->
                    [queue[m] EXCEPT !.wait = IF @ > -MaxLate THEN @ - 1 ELSE @]]
    BY <1>10 DEF Tick
  <2>2. \A m \in DOMAIN queue : queue[m] \in QueueRow
    BY DEF Sized
  <2>3. queue' \in [DOMAIN queue' -> QueueRow]
    BY <2>1, <2>2 DEF QueueRow
  <2> QED
    BY <1>10, <2>3 DEF Tick, Sized, HostsLeft, ghosts
<1>11. ASSUME Crash PROVE Sized'
  <2>1. work' \in [Workers -> Work] /\ HostsLeft'
    BY <1>0, <1>11 DEF Crash, HostsLeft
  <2> QED
    BY <1>0, <1>11, <2>1 DEF Crash, Sized
<1>12. CASE UNCHANGED vars
  BY <1>12 DEF vars, ghosts, Sized, HostsLeft
<1> QED
  BY <1>1, <1>2, <1>3, <1>4, <1>5, <1>6, <1>8, <1>9, <1>10, <1>11, <1>12
     DEF Next, SendStep, ProcessorStep

\* Rows, snapshots and calls keep their types, deliver never counts past the
\* last host, and an item is in work exactly while the processor is busy.
THEOREM RelayTyped == Spec => []TypeOK
<1>1. Init => Sized
  <2> SUFFICES ASSUME Init PROVE Sized
    OBVIOUS
  <2>1. queue = << >> /\ DOMAIN queue = {} /\ Resting \in Work /\ Resting.pc = "idle"
    BY RelayAssumption DEF Init, Resting, Work
  <2>2. queue \in [DOMAIN queue -> QueueRow]
    BY <2>1
  <2> QED
    BY <2>1, <2>2 DEF Init, Sized, HostsLeft
<1>2. Shape /\ Sized /\ [Next]_vars => Sized'
  BY SizedStep
<1>3. Shape /\ Sized => TypeOK
  BY DEF Shape, Sized, TypeOK
<1> QED
  BY <1>1, <1>2, <1>3, ShapeAlways, PTL DEF Spec

-----------------------------------------------------------------------------
(* The inductive invariant *)

LEMMA InitInv == Init => RelayInv
<1> SUFFICES ASSUME Init PROVE RelayInv
  OBVIOUS
<1>1. DOMAIN queue = {} /\ InHand = {}
  BY DEF Init, InHand
<1>2. \A w \in Workers : work[w].pc = "idle"
  BY DEF Init, Resting
<1>3. Msgs \subseteq Workers /\ Processor \in Workers
  BY DEF Workers
<1>4. SnapshotFresh /\ OneSnapshotEach /\ NoRowStranded /\ AttemptsMade
  BY <1>1 DEF Init, SnapshotFresh, OneSnapshotEach, NoRowStranded, AttemptsMade
<1>5. SendersServed /\ DoneIsSafe /\ NothingLost
  BY <1>1, <1>2, <1>3 DEF Init, SendersServed, DoneIsSafe, NothingLost
<1>6. OpenUnheard /\ DuplicatesExplained
  BY DEF Init, OpenUnheard, DuplicatesExplained
<1> QED
  BY <1>4, <1>5, <1>6 DEF RelayInv

\* The row in work is in the table as it was read.
LEMMA ItemFresh ==
  ASSUME Shape, SnapshotFresh, item # NoItem
  PROVE  /\ item.msg \in DOMAIN queue /\ item.msg \in Msgs
         /\ queue[item.msg].attempts = item.attempts
         /\ item.attempts \in Nat
BY DEF Shape, SnapshotFresh, Fresh, InHand

\* A snapshot in the batch is in the table as it was read.
LEMMA BatchFresh ==
  ASSUME SnapshotFresh, NEW i \in batch
  PROVE  i.msg \in DOMAIN queue /\ queue[i.msg].attempts = i.attempts
BY DEF SnapshotFresh, Fresh, InHand

\* SnapshotFresh by its parts, for the state after a step.
LEMMA FreshAfter ==
  ASSUME \A i \in batch' : i.msg \in DOMAIN queue' /\ queue'[i.msg].attempts = i.attempts,
         item' # NoItem => /\ item'.msg \in DOMAIN queue'
                           /\ queue'[item'.msg].attempts = item'.attempts
  PROVE  SnapshotFresh'
BY DEF SnapshotFresh, Fresh, InHand

LEMMA SubmitInv ==
  ASSUME Shape, RelayInv, NEW m \in Msgs, Submit(m)
  PROVE  RelayInv'
<1>1. /\ UNCHANGED <<queue, batch, item, accepted, doubtful, tries, unqueued>>
      /\ status[m] = "new"
      /\ status' = [status EXCEPT ![m] = "sending"]
      /\ work' = [work EXCEPT ![m] = Calling]
  BY DEF Submit, ghosts
<1>2. Msgs \subseteq Workers /\ Processor \in Workers /\ m # Processor
  BY RelayAssumption DEF Workers
<1>3. /\ work'[Processor] = work[Processor]
      /\ work'[m].pc = "deliver" /\ status'[m] = "sending"
      /\ \A n \in Msgs \ {m} : work'[n] = work[n] /\ status'[n] = status[n]
  BY <1>1, <1>2 DEF Shape, Calling
<1>4. (SnapshotFresh /\ OneSnapshotEach /\ NoRowStranded /\ AttemptsMade)'
  BY <1>1 DEF RelayInv, SnapshotFresh, Fresh, InHand, OneSnapshotEach,
              NoRowStranded, AttemptsMade
<1>5. SendersServed'
  BY <1>1, <1>3 DEF RelayInv, SendersServed
<1>6. OpenUnheard' /\ DuplicatesExplained'
  <2>1. Open(m)
    BY <1>1 DEF Open
  <2>2. \A n \in Msgs : Open(n)' => Open(n)
    BY <1>1, <1>3, <2>1 DEF Open, Delivered
  <2> QED
    BY <1>1, <2>2 DEF RelayInv, OpenUnheard, DuplicatesExplained
<1>7. DoneIsSafe' /\ NothingLost'
  BY <1>1, <1>3 DEF RelayInv, DoneIsSafe, NothingLost, Safe
<1> QED
  BY <1>4, <1>5, <1>6, <1>7 DEF RelayInv

LEMMA EnqueueInv ==
  ASSUME Shape, Shape', RelayInv, NEW m \in Msgs, Enqueue(m)
  PROVE  RelayInv'
<1>1. /\ UNCHANGED <<status, batch, item, accepted, doubtful, tries>>
      /\ work[m].pc = "err"
  BY DEF Enqueue, ghosts
<1>2. Msgs \subseteq Workers /\ Processor \in Workers /\ m # Processor
  BY RelayAssumption DEF Workers
<1>3. /\ work'[Processor] = work[Processor]
      /\ work'[m].pc = "ok"
      /\ \A n \in Msgs \ {m} : work'[n] = work[n]
  BY <1>2, ReturnsOutcome DEF Enqueue, Shape
<1>4. m \notin DOMAIN queue /\ status[m] = "sending"
  BY <1>1 DEF RelayInv, SendersServed
<1>5. \/ /\ DOMAIN queue' = DOMAIN queue \cup {m}
         /\ queue'[m].attempts = 0
         /\ unqueued' = unqueued
      \/ queue' = queue /\ unqueued' = unqueued \cup {m}
  <2>1. CASE queue' = Put(queue, m, FirstRetry) /\ unqueued' = unqueued
    BY <2>1 DEF Put, FirstRetry
  <2>2. CASE WriteFails /\ unqueued' = unqueued \cup {m}
    BY <2>2 DEF WriteFails
  <2> QED
    BY <2>1, <2>2 DEF Enqueue
<1>6. \A n \in DOMAIN queue : n # m /\ n \in DOMAIN queue' /\ queue'[n] = queue[n]
  BY <1>4 DEF Enqueue, WriteFails, Put
<1>7. SnapshotFresh'
  BY <1>1, <1>6, BatchFresh, ItemFresh, FreshAfter DEF RelayInv
<1>8. OneSnapshotEach' /\ NoRowStranded' /\ AttemptsMade'
  <2>1. MaxAttempts > 0 /\ tries[m] >= 0
    BY RelayAssumption DEF Shape
  <2> QED
    BY <1>1, <1>5, <1>6, <2>1
       DEF RelayInv, OneSnapshotEach, NoRowStranded, AttemptsMade
<1>9. SendersServed'
  BY <1>1, <1>3, <1>4, <1>5 DEF RelayInv, SendersServed
<1>10. OpenUnheard' /\ DuplicatesExplained'
  <2>1. Open(m)
    BY <1>1 DEF Open
  <2>2. \A n \in Msgs : Open(n)' => Open(n)
    BY <1>1, <1>3, <1>5, <2>1 DEF Open, Delivered
  <2> QED
    BY <1>1, <2>2 DEF RelayInv, OpenUnheard, DuplicatesExplained
<1>11. \A n \in Msgs : Safe(n) => Safe(n)'
  BY <1>1, <1>6 DEF Safe
<1>12. DoneIsSafe' /\ NothingLost'
  <2>1. unqueued \subseteq unqueued' /\ (m \notin unqueued' => Safe(m)')
    BY <1>5 DEF Safe
  <2> QED
    BY <1>1, <1>3, <1>11, <2>1 DEF RelayInv, DoneIsSafe, NothingLost
<1> QED
  BY <1>7, <1>8, <1>9, <1>10, <1>12 DEF RelayInv

LEMMA AckInv ==
  ASSUME Shape, RelayInv, NEW m \in Msgs, Ack(m)
  PROVE  RelayInv'
<1>1. /\ UNCHANGED <<queue, batch, item, accepted, doubtful, tries, unqueued>>
      /\ work[m].pc = "ok"
      /\ status' = [status EXCEPT ![m] = "acked"]
      /\ work' = [work EXCEPT ![m] = Resting]
  BY DEF Ack, ghosts
<1>2. Msgs \subseteq Workers /\ Processor \in Workers /\ m # Processor
  BY RelayAssumption DEF Workers
<1>3. /\ work'[Processor] = work[Processor]
      /\ work'[m].pc = "idle" /\ status'[m] = "acked"
      /\ \A n \in Msgs \ {m} : work'[n] = work[n] /\ status'[n] = status[n]
  BY <1>1, <1>2 DEF Shape, Resting
<1>4. (SnapshotFresh /\ OneSnapshotEach /\ NoRowStranded /\ AttemptsMade)'
  BY <1>1 DEF RelayInv, SnapshotFresh, Fresh, InHand, OneSnapshotEach,
              NoRowStranded, AttemptsMade
<1>5. SendersServed'
  BY <1>1, <1>3 DEF RelayInv, SendersServed
<1>6. OpenUnheard' /\ DuplicatesExplained'
  <2>1. \A n \in Msgs : Open(n)' => Open(n)
    BY <1>1, <1>3 DEF Open, Delivered
  <2> QED
    BY <1>1, <2>1 DEF RelayInv, OpenUnheard, DuplicatesExplained
<1>7. \A n \in Msgs : Safe(n) => Safe(n)'
  BY <1>1 DEF Safe
<1>8. DoneIsSafe' /\ NothingLost'
  BY <1>1, <1>3, <1>7 DEF RelayInv, DoneIsSafe, NothingLost
<1> QED
  BY <1>4, <1>5, <1>6, <1>8 DEF RelayInv

LEMMA OutcomeInv ==
  ASSUME Shape, RelayInv, NEW w \in Workers, Outcome(w)
  PROVE  RelayInv'
<1> DEFINE c == Carries(w)
<1>1. /\ UNCHANGED <<status, queue, batch, item, tries, unqueued>>
      /\ work[w].pc = "deliver"
  BY DEF Outcome
<1>2. c \in Msgs /\ (w = Processor => item # NoItem)
  BY <1>1, CarriesMsg
<1>3. Msgs \subseteq Workers /\ Processor \in Workers /\ Processor \notin Msgs
  BY RelayAssumption DEF Workers
<1>4. PICK x \in Call :
        /\ x.pc # "idle"
        /\ work' = [work EXCEPT ![w] = x]
        /\ \/ x.pc # "ok" /\ UNCHANGED <<accepted, doubtful>>
           \/ /\ x.pc = "ok"
              /\ accepted' = [accepted EXCEPT ![c] = @ + 1]
              /\ doubtful' = doubtful
           \/ /\ x.pc # "ok"
              /\ accepted' = [accepted EXCEPT ![c] = @ + 1]
              /\ doubtful' = [doubtful EXCEPT ![c] = @ + 1]
  BY DEF Outcome
<1>5. work'[w] = x /\ \A v \in Workers \ {w} : work'[v] = work[v]
  BY <1>4 DEF Shape
<1>6. \/ UNCHANGED <<accepted, doubtful>> /\ x.pc # "ok"
      \/ /\ accepted'[c] = accepted[c] + 1
         /\ doubtful'[c] = IF x.pc = "ok" THEN doubtful[c] ELSE doubtful[c] + 1
         /\ \A n \in Msgs \ {c} : accepted'[n] = accepted[n] /\ doubtful'[n] = doubtful[n]
  BY <1>2, <1>4 DEF Shape
<1>7. x.pc \in {"deliver", "ok", "err", "hung"}
  BY <1>4 DEF Call
<1>8. (SnapshotFresh /\ OneSnapshotEach /\ NoRowStranded /\ AttemptsMade)'
  BY <1>1 DEF RelayInv, SnapshotFresh, Fresh, InHand, OneSnapshotEach,
              NoRowStranded, AttemptsMade
<1>9. w # Processor => w \in Msgs /\ c = w /\ w \notin DOMAIN queue /\ status[w] = "sending"
  BY <1>1 DEF RelayInv, SendersServed, Workers, Carries
<1>10. w = Processor => /\ c = item.msg /\ c \in DOMAIN queue
                        /\ status[c] # "new"
                        /\ work[c].pc \notin {"deliver", "err", "hung"}
  BY <1>2, ItemFresh DEF RelayInv, SendersServed, Carries
<1>11. SendersServed'
  BY <1>1, <1>3, <1>5, <1>9 DEF RelayInv, SendersServed
<1>12. Open(c)
  BY <1>1, <1>9, <1>10 DEF Open, Delivered
<1>13. \A n \in Msgs : Open(n)' => Open(n) /\ (n = c => x.pc # "ok")
  <2>1. CASE w = Processor
    <3>1. \A n \in Msgs : work'[n] = work[n]
      BY <1>3, <1>5, <2>1
    <3>2. work'[Processor] = x
      BY <1>5, <2>1
    <3> QED
      BY <1>1, <1>10, <2>1, <3>1, <3>2 DEF Open, Delivered
  <2>2. CASE w # Processor
    <3>1. work'[Processor] = work[Processor] /\ work'[c] = x
      BY <1>3, <1>5, <1>9, <2>2
    <3>2. \A n \in Msgs \ {c} : work'[n] = work[n]
      BY <1>3, <1>5, <1>9, <2>2
    <3> QED
      BY <1>1, <1>9, <1>12, <2>2, <3>1, <3>2 DEF Open, Delivered
  <2> QED
    BY <2>1, <2>2
<1>14. \A n \in Msgs : /\ accepted[n] \in Nat /\ doubtful[n] \in Nat
                       /\ accepted'[n] \in Nat
                       /\ accepted'[n] >= accepted[n]
  BY <1>2, <1>6 DEF Shape
<1>15. OpenUnheard'
  BY <1>6, <1>12, <1>13, <1>14 DEF RelayInv, OpenUnheard
<1>16. DuplicatesExplained'
  BY <1>2, <1>6, <1>12, <1>14 DEF RelayInv, OpenUnheard, DuplicatesExplained
<1>17. \A n \in Msgs : Safe(n) => Safe(n)'
  BY <1>1, <1>14 DEF Safe
<1>18. x.pc = "ok" => accepted'[c] > 0 /\ \A n \in Msgs : n = c => Safe(n)'
  BY <1>2, <1>6, <1>14 DEF Safe
<1>19. DoneIsSafe'
  <2>1. \A n \in Msgs \ unqueued' : work'[n].pc = "ok" => Safe(n)'
    BY <1>1, <1>3, <1>5, <1>9, <1>17, <1>18 DEF RelayInv, DoneIsSafe
  <2>2. work'[Processor].pc = "ok" => accepted'[item'.msg] > 0
    <3>1. CASE w = Processor
      BY <1>1, <1>5, <1>10, <1>18, <3>1
    <3>2. CASE w # Processor /\ work'[Processor].pc = "ok"
      <4>1. work[Processor].pc = "ok" /\ accepted[item.msg] > 0
        BY <1>3, <1>5, <3>2 DEF RelayInv, DoneIsSafe
      <4>2. item.msg \in Msgs
        BY <4>1 DEF Shape, Resting
      <4> QED
        BY <1>1, <1>14, <4>1, <4>2
    <3> QED
      BY <3>1, <3>2
  <2> QED
    BY <2>1, <2>2 DEF DoneIsSafe
<1>20. NothingLost'
  BY <1>1, <1>17 DEF RelayInv, NothingLost
<1> QED
  BY <1>8, <1>11, <1>15, <1>16, <1>19, <1>20 DEF RelayInv

LEMMA PollInv ==
  ASSUME Shape, RelayInv, Poll
  PROVE  RelayInv'
<1>1. /\ UNCHANGED <<status, queue, item, work, accepted, doubtful, tries, unqueued>>
      /\ batch' \subseteq Due
      /\ item = NoItem
  BY PollTakes DEF Shape
<1>2. SnapshotFresh'
  BY <1>1, DueShape, FreshAfter
<1>3. OneSnapshotEach'
  <2>1. \A i \in batch' : i.msg # item'.msg
    BY <1>1, DueShape, RelayAssumption DEF NoItem, Shape
  <2> QED
    BY <1>1, <2>1, DueShape DEF OneSnapshotEach
<1> QED
  BY <1>1, <1>2, <1>3
     DEF RelayInv, NoRowStranded, SendersServed, OpenUnheard, Open, Delivered,
         DuplicatesExplained, AttemptsMade, DoneIsSafe, NothingLost, Safe

LEMMA BeginItemInv ==
  ASSUME Shape, RelayInv, BeginItem
  PROVE  RelayInv'
<1>1. /\ UNCHANGED <<status, queue, accepted, doubtful, tries, unqueued>>
      /\ item' \in batch /\ batch' = batch \ {item'}
      /\ work' = [work EXCEPT ![Processor] = Calling]
      /\ item = NoItem
  BY DEF BeginItem, ghosts, Shape
<1>2. Msgs \subseteq Workers /\ Processor \in Workers /\ Processor \notin Msgs
  BY RelayAssumption DEF Workers
<1>3. work'[Processor].pc = "deliver" /\ \A n \in Msgs : work'[n] = work[n]
  BY <1>1, <1>2 DEF Shape, Calling
<1>4. SnapshotFresh'
  BY <1>1, BatchFresh, FreshAfter DEF RelayInv
<1>5. OneSnapshotEach'
  BY <1>1 DEF RelayInv, OneSnapshotEach
<1>6. \A n \in Msgs : Open(n)' => Open(n)
  BY <1>1, <1>2, <1>3 DEF Open, Delivered, NoItem
<1>7. SendersServed' /\ OpenUnheard'
  BY <1>1, <1>3, <1>6 DEF RelayInv, SendersServed, OpenUnheard
<1> QED
  BY <1>1, <1>3, <1>4, <1>5, <1>7
     DEF RelayInv, NoRowStranded, DuplicatesExplained, AttemptsMade, DoneIsSafe,
         NothingLost, Safe

\* What the processor does at the end of an item, be it delivered or not.
LEMMA ItemDoneKeeps ==
  ASSUME Shape, RelayInv, work[Processor].pc # "idle", ItemDone
  PROVE  /\ item # NoItem /\ item.msg \in Msgs /\ item.msg \in DOMAIN queue
         /\ queue[item.msg].attempts = item.attempts
         /\ item.attempts \in Nat
         /\ status[item.msg] # "new"
         /\ work[item.msg].pc \notin {"deliver", "err", "hung"}
         /\ item' = NoItem
         /\ work'[Processor].pc = "idle"
         /\ \A m \in Msgs : work'[m] = work[m]
         /\ \A m \in Msgs : ~Delivered(m)'
<1>1. item # NoItem /\ Processor \in Workers /\ Processor \notin Msgs /\ Msgs \subseteq Workers
  BY RelayAssumption DEF Shape, Resting, Workers
<1>2. /\ item' = NoItem
      /\ work'[Processor].pc = "idle"
      /\ \A m \in Msgs : work'[m] = work[m]
  BY <1>1 DEF ItemDone, Shape, Resting
<1>3. /\ status[item.msg] # "new"
      /\ work[item.msg].pc \notin {"deliver", "err", "hung"}
  BY <1>1, ItemFresh DEF RelayInv, SendersServed
<1> QED
  BY <1>1, <1>2, <1>3, ItemFresh DEF RelayInv, Delivered

LEMMA DeleteDeliveredInv ==
  ASSUME Shape, Shape', RelayInv, DeleteDelivered
  PROVE  RelayInv'
<1> DEFINE c == item.msg
<1>1. /\ UNCHANGED <<status, batch, accepted, tries, unqueued>>
      /\ work[Processor].pc = "ok"
      /\ ItemDone
  BY DEF DeleteDelivered
<1>2. /\ c \in Msgs /\ c \in DOMAIN queue /\ status[c] # "new"
      /\ work[c].pc \notin {"deliver", "err", "hung"}
      /\ item' = NoItem /\ work'[Processor].pc = "idle"
      /\ \A m \in Msgs : work'[m] = work[m] /\ ~Delivered(m)'
  BY <1>1, ItemDoneKeeps
<1>3. \/ queue' = Drop(queue, c) /\ UNCHANGED doubtful
      \/ /\ queue' = queue
         /\ doubtful'[c] = doubtful[c] + 1
         /\ \A m \in Msgs \ {c} : doubtful'[m] = doubtful[m]
  BY <1>2 DEF DeleteDelivered, WriteFails, Shape
<1>4. \A m \in Msgs : m # c => /\ m \in DOMAIN queue' <=> m \in DOMAIN queue
                               /\ queue'[m] = queue[m] \/ m \notin DOMAIN queue
  BY <1>3 DEF Drop
<1>5. \A m \in DOMAIN queue' : m \in DOMAIN queue /\ queue'[m] = queue[m]
  BY <1>3 DEF Drop
<1>6. SnapshotFresh'
  <2>1. \A i \in batch : i.msg \in Msgs /\ i.msg # c
    BY DEF Shape, RelayInv, OneSnapshotEach
  <2> QED
    BY <1>1, <1>2, <1>4, <2>1, BatchFresh, FreshAfter DEF RelayInv
<1>7. OneSnapshotEach'
  <2>1. \A i \in batch : i.msg # NoItem.msg
    BY RelayAssumption DEF Shape, NoItem
  <2> QED
    BY <1>1, <1>2, <2>1 DEF RelayInv, OneSnapshotEach
<1>8. NoRowStranded' /\ AttemptsMade'
  BY <1>1, <1>5 DEF RelayInv, NoRowStranded, AttemptsMade
<1>9. SendersServed'
  BY <1>1, <1>2, <1>5 DEF RelayInv, SendersServed
<1>10. \A m \in Msgs : accepted[m] \in Nat /\ doubtful[m] \in Nat
  BY DEF Shape
<1>11. DuplicatesExplained'
  <2>1. \A m \in Msgs : doubtful'[m] >= doubtful[m] /\ doubtful'[m] \in Nat
    BY <1>3, <1>10
  <2> QED
    BY <1>1, <1>10, <2>1 DEF RelayInv, DuplicatesExplained
<1>12. OpenUnheard'
  <2>1. \A m \in Msgs \ {c} : Open(m)' => Open(m) /\ doubtful'[m] = doubtful[m]
    BY <1>1, <1>2, <1>3, <1>4 DEF Open, Delivered
  <2>2. \A m \in Msgs : m = c /\ Open(m)' => accepted'[m] <= doubtful'[m]
    <3>1. \A m \in Msgs : m = c /\ Open(m)' => m \in DOMAIN queue'
      BY <1>1, <1>2 DEF Open
    <3>2. c \in DOMAIN queue' => doubtful'[c] = doubtful[c] + 1
      BY <1>3 DEF Drop
    <3> QED
      BY <1>1, <1>2, <1>10, <3>1, <3>2 DEF RelayInv, DuplicatesExplained
  <2> QED
    BY <1>1, <2>1, <2>2 DEF RelayInv, OpenUnheard
<1>13. accepted[c] > 0
  BY <1>1 DEF RelayInv, DoneIsSafe
<1>14. \A m \in Msgs : Safe(m) => Safe(m)'
  BY <1>1, <1>4, <1>13 DEF Safe
<1>15. DoneIsSafe' /\ NothingLost'
  BY <1>1, <1>2, <1>14 DEF RelayInv, DoneIsSafe, NothingLost
<1> QED
  BY <1>6, <1>7, <1>8, <1>9, <1>11, <1>12, <1>15 DEF RelayInv

LEMMA RetryInv ==
  ASSUME Shape, Shape', RelayInv, RetryOrGiveUp
  PROVE  /\ RelayInv'
         /\ \A m \in DOMAIN queue :
              m \notin DOMAIN queue' => accepted[m] > 0 \/ tries'[m] = MaxAttempts
<1> DEFINE c == item.msg
           n == item.attempts + 1
<1>1. /\ UNCHANGED <<status, batch, accepted, doubtful, unqueued>>
      /\ work[Processor].pc = "err"
      /\ ItemDone
  BY DEF RetryOrGiveUp
<1>2. /\ c \in Msgs /\ c \in DOMAIN queue /\ status[c] # "new"
      /\ queue[c].attempts = item.attempts /\ item.attempts \in Nat
      /\ work[c].pc \notin {"deliver", "err", "hung"}
      /\ item' = NoItem /\ work'[Processor].pc = "idle"
      /\ \A m \in Msgs : work'[m] = work[m] /\ ~Delivered(m)'
  BY <1>1, ItemDoneKeeps
<1>3. /\ \A m \in Msgs : m # c => tries'[m] = tries[m]
      /\ tries'[c] = IF tries[c] < MaxAttempts THEN tries[c] + 1 ELSE tries[c]
      /\ \A m \in Msgs : tries[m] \in 0 .. MaxAttempts
      /\ MaxAttempts \in Nat \ {0}
  BY <1>2, RelayAssumption DEF RetryOrGiveUp, Shape
<1>4. n <= MaxAttempts /\ n <= tries'[c]
  BY <1>2, <1>3 DEF RelayInv, NoRowStranded, AttemptsMade
<1>5. \/ /\ DOMAIN queue' = DOMAIN queue \ {c} /\ n >= MaxAttempts
         /\ \A m \in DOMAIN queue \ {c} : queue'[m] = queue[m]
      \/ /\ DOMAIN queue' = DOMAIN queue
         /\ n < MaxAttempts /\ queue'[c].attempts = n
         /\ \A m \in DOMAIN queue \ {c} : queue'[m] = queue[m]
      \/ queue' = queue
  <2>1. CASE GivesUp(n) /\ queue' = Drop(queue, c)
    BY <2>1 DEF GivesUp, Drop
  <2>2. CASE /\ ~GivesUp(n)
             /\ queue' = [m \in DOMAIN queue |->
                            IF m = c THEN [attempts |-> n, wait |-> Backoff(n)]
                            ELSE queue[m]]
    BY <1>2, <1>3, <2>2 DEF GivesUp
  <2>3. CASE WriteFails
    BY <2>3 DEF WriteFails
  <2> QED
    BY <2>1, <2>2, <2>3 DEF RetryOrGiveUp
<1>6. \A m \in Msgs : m # c => /\ m \in DOMAIN queue' <=> m \in DOMAIN queue
                               /\ m \in DOMAIN queue => queue'[m] = queue[m]
  BY <1>5
<1>7. c \in DOMAIN queue' => queue'[c].attempts \in {n, item.attempts} /\
                             queue'[c].attempts < MaxAttempts
  BY <1>2, <1>5 DEF RelayInv, NoRowStranded
<1>8. DOMAIN queue \subseteq Msgs /\ DOMAIN queue' \subseteq Msgs
  BY DEF Shape
<1>9. SnapshotFresh'
  <2>1. \A i \in batch : i.msg \in Msgs /\ i.msg # c
    BY DEF Shape, RelayInv, OneSnapshotEach
  <2> QED
    BY <1>1, <1>2, <1>6, <2>1, BatchFresh, FreshAfter DEF RelayInv
<1>10. OneSnapshotEach'
  <2>1. \A i \in batch : i.msg # NoItem.msg
    BY RelayAssumption DEF Shape, NoItem
  <2> QED
    BY <1>1, <1>2, <2>1 DEF RelayInv, OneSnapshotEach
<1>11. NoRowStranded'
  BY <1>6, <1>7, <1>8 DEF RelayInv, NoRowStranded
<1>12. AttemptsMade'
  <2>1. c \in DOMAIN queue' => queue'[c].attempts <= tries'[c]
    BY <1>2, <1>3, <1>4, <1>7
  <2> QED
    BY <1>3, <1>6, <1>8, <2>1 DEF RelayInv, AttemptsMade
<1>13. SendersServed'
  BY <1>1, <1>2, <1>5 DEF RelayInv, SendersServed
<1>14. OpenUnheard' /\ DuplicatesExplained'
  <2>1. \A m \in Msgs : Open(m)' => Open(m)
    BY <1>1, <1>2, <1>5, <1>6 DEF Open, Delivered
  <2> QED
    BY <1>1, <2>1 DEF RelayInv, OpenUnheard, DuplicatesExplained
<1>15. c \notin DOMAIN queue' => tries'[c] = MaxAttempts
  BY <1>2, <1>3, <1>4, <1>5
<1>16. \A m \in Msgs : Safe(m) => Safe(m)'
  BY <1>1, <1>2, <1>3, <1>6, <1>15 DEF Safe
<1>17. DoneIsSafe' /\ NothingLost'
  BY <1>1, <1>2, <1>16 DEF RelayInv, DoneIsSafe, NothingLost
<1> QED
  BY <1>6, <1>8, <1>9, <1>10, <1>11, <1>12, <1>13, <1>14, <1>15, <1>17 DEF RelayInv

LEMMA TickInv ==
  ASSUME Shape, RelayInv, Tick
  PROVE  RelayInv'
<1>1. /\ UNCHANGED <<status, batch, item, work, accepted, doubtful, tries, unqueued>>
      /\ DOMAIN queue' = DOMAIN queue
      /\ \A m \in DOMAIN queue : queue'[m].attempts = queue[m].attempts
  BY DEF Tick, ghosts, Shape, Shaped
<1>2. SnapshotFresh'
  BY <1>1, BatchFresh, ItemFresh, FreshAfter DEF RelayInv
<1> QED
  BY <1>1, <1>2
     DEF RelayInv, OneSnapshotEach, NoRowStranded, SendersServed, OpenUnheard,
         Open, Delivered, DuplicatesExplained, AttemptsMade, DoneIsSafe,
         NothingLost, Safe

LEMMA CrashInv ==
  ASSUME Shape, Shape', RelayInv, Crash
  PROVE  RelayInv'
<1>1. /\ UNCHANGED <<queue, accepted, tries, unqueued>>
      /\ batch' = {} /\ item' = NoItem
      /\ \A w \in Workers : work'[w].pc = "idle"
      /\ \A m \in Msgs : status'[m] = IF status[m] = "sending" THEN "cut" ELSE status[m]
      /\ \A m \in Msgs : doubtful'[m] = IF Delivered(m) THEN doubtful[m] + 1
                                        ELSE doubtful[m]
  BY DEF Crash, Resting, Delivered
<1>2. Msgs \subseteq Workers /\ Processor \in Workers
  BY DEF Workers
<1>3. SnapshotFresh' /\ OneSnapshotEach' /\ NoRowStranded' /\ AttemptsMade'
  BY <1>1 DEF RelayInv, SnapshotFresh, InHand, OneSnapshotEach, NoRowStranded,
              AttemptsMade
<1>4. SendersServed' /\ DoneIsSafe'
  BY <1>1, <1>2 DEF RelayInv, SendersServed, DoneIsSafe
<1>5. \A m \in Msgs : accepted[m] \in Nat /\ doubtful[m] \in Nat
  BY DEF Shape
<1>6. OpenUnheard' /\ DuplicatesExplained'
  <2>1. \A m \in Msgs : Open(m)' => Open(m) \/ Delivered(m)
    BY <1>1, <1>2 DEF Open
  <2> QED
    BY <1>1, <1>5, <2>1 DEF RelayInv, OpenUnheard, DuplicatesExplained
<1>7. NothingLost'
  BY <1>1 DEF RelayInv, NothingLost, Safe
<1> QED
  BY <1>3, <1>4, <1>6, <1>7 DEF RelayInv

LEMMA InvStep == Shape /\ Shape' /\ RelayInv /\ [Next]_vars => RelayInv'
<1> SUFFICES ASSUME Shape, Shape', RelayInv, [Next]_vars PROVE RelayInv'
  OBVIOUS
<1>1. ASSUME NEW m \in Msgs, Submit(m) PROVE RelayInv'
  BY <1>1, SubmitInv
<1>2. ASSUME NEW m \in Msgs, Enqueue(m) PROVE RelayInv'
  BY <1>2, EnqueueInv
<1>3. ASSUME NEW m \in Msgs, Ack(m) PROVE RelayInv'
  BY <1>3, AckInv
<1>4. ASSUME NEW w \in Workers, Answer(w) \/ Hangs(w) PROVE RelayInv'
  BY <1>4, AnswerOutcome, OutcomeInv
<1>5. CASE UNCHANGED vars
  BY <1>5 DEF vars, ghosts, RelayInv, SnapshotFresh, Fresh, InHand,
              OneSnapshotEach, NoRowStranded, SendersServed, OpenUnheard, Open,
              Delivered, DuplicatesExplained, AttemptsMade, DoneIsSafe,
              NothingLost, Safe
<1> QED
  BY <1>1, <1>2, <1>3, <1>4, <1>5, PollInv, BeginItemInv, DeleteDeliveredInv,
     RetryInv, TickInv, CrashInv
     DEF Next, SendStep, ProcessorStep

LEMMA InvAlways == Spec => []RelayInv
<1>1. Init => RelayInv
  BY InitInv
<1>2. Shape /\ Shape' /\ RelayInv /\ [Next]_vars => RelayInv'
  BY InvStep
<1> QED
  BY <1>1, <1>2, ShapeAlways, PTL DEF Spec

-----------------------------------------------------------------------------
(* The theorems *)

\* What ProcessQueue has read of a row is still so when it writes attempts
\* back, however many messages are submitted meanwhile.
THEOREM SnapshotsStayFresh == Spec => []SnapshotFresh
<1>1. RelayInv => SnapshotFresh
  BY DEF RelayInv
<1> QED
  BY <1>1, InvAlways, PTL

\* No row's attempts are used up while it is in the table, where the poll
\* would pass it over for ever.
THEOREM NoRowIsStranded == Spec => []NoRowStranded
<1>1. RelayInv => NoRowStranded
  BY DEF RelayInv
<1> QED
  BY <1>1, InvAlways, PTL

\* A host is handed a message again only after a delivery that the server
\* could not know of or could not record.
THEOREM DuplicatesAreExplained == Spec => []DuplicatesExplained
<1>1. RelayInv => DuplicatesExplained
  BY DEF RelayInv
<1> QED
  BY <1>1, InvAlways, PTL

\* Unless its own INSERT into the queue failed, what a client was told is sent
\* has been taken by a host, is queued, or was tried max_attempts times.
THEOREM NothingIsLost == Spec => []NothingLost
<1>1. RelayInv => NothingLost
  BY DEF RelayInv
<1> QED
  BY <1>1, InvAlways, PTL

\* A row is deleted from outbound_queue only when a host has taken its message
\* or all its attempts have been made.
THEOREM RowsLeaveOnlyResolved == Spec => RowsLeaveResolved
<1> DEFINE Resolved == \A m \in DOMAIN queue :
             m \notin DOMAIN queue' => accepted[m] > 0 \/ tries'[m] = MaxAttempts
<1>1. Shape /\ RelayInv /\ Shape' /\ [Next]_vars => [Resolved]_vars
  <2> SUFFICES ASSUME Shape, RelayInv, Shape', Next PROVE Resolved
    BY DEF vars, ghosts
  <2>1. ASSUME DOMAIN queue \subseteq DOMAIN queue' PROVE Resolved
    BY <2>1
  <2>2. ASSUME NEW m \in Msgs, Submit(m) \/ SendStep(m) PROVE Resolved
    BY <2>1, <2>2 DEF Submit, SendStep, Enqueue, WriteFails, Put, Ack
  <2>3. ASSUME NEW w \in Workers, Answer(w) \/ Hangs(w) PROVE Resolved
    BY <2>1, <2>3, AnswerOutcome DEF Outcome
  <2>4. ASSUME Poll \/ BeginItem \/ Tick \/ Crash PROVE Resolved
    BY <2>1, <2>4 DEF Poll, BeginItem, Tick, Crash
  <2>5. ASSUME DeleteDelivered PROVE Resolved
    <3>1. accepted[item.msg] > 0
      BY <2>5 DEF DeleteDelivered, RelayInv, DoneIsSafe
    <3> QED
      BY <2>5, <3>1 DEF DeleteDelivered, WriteFails, Drop
  <2>6. ASSUME RetryOrGiveUp PROVE Resolved
    BY <2>6, RetryInv
  <2> QED
    BY <2>2, <2>3, <2>4, <2>5, <2>6 DEF Next, ProcessorStep
<1>2. Spec => [][Resolved]_vars
  BY <1>1, ShapeAlways, InvAlways, PTL DEF Spec
<1> QED
  BY <1>2 DEF RowsLeaveResolved

-----------------------------------------------------------------------------
(* Relay implements OutboundQueue *)

\* A message still with its sender has no attempt from the queue behind it.
Unspent ==
  \A m \in Msgs :
    status[m] = "new" \/ work[m].pc \in {"deliver", "err", "hung"}
      => tries[m] = 0 /\ m \notin unqueued

LEMMA UnspentStep ==
  Shape /\ RelayInv /\ Unspent /\ [Next]_vars => Unspent'
<1> SUFFICES ASSUME Shape, RelayInv, Unspent, [Next]_vars PROVE Unspent'
  OBVIOUS
<1>0. /\ Msgs \subseteq Workers /\ Processor \in Workers /\ Processor \notin Msgs
  BY RelayAssumption DEF Workers
<1>1. ASSUME NEW m \in Msgs, Submit(m) PROVE Unspent'
  <2>1. \A n \in Msgs \ {m} : work'[n] = work[n] /\ status'[n] = status[n]
    BY <1>0, <1>1 DEF Submit, Shape
  <2> QED
    BY <1>1, <2>1 DEF Submit, Unspent, ghosts
<1>2. ASSUME NEW m \in Msgs, Enqueue(m) PROVE Unspent'
  <2>1. work'[m].pc = "ok" /\ \A n \in Msgs \ {m} : work'[n] = work[n]
    BY <1>0, <1>2, ReturnsOutcome DEF Enqueue, Shape
  <2>2. status[m] = "sending"
    BY <1>2 DEF Enqueue, RelayInv, SendersServed
  <2> QED
    BY <1>2, <2>1, <2>2 DEF Enqueue, WriteFails, Unspent
<1>3. ASSUME NEW m \in Msgs, Ack(m) PROVE Unspent'
  <2>1. /\ work'[m].pc = "idle" /\ status'[m] = "acked"
        /\ \A n \in Msgs \ {m} : work'[n] = work[n] /\ status'[n] = status[n]
    BY <1>0, <1>3 DEF Ack, Shape, Resting
  <2> QED
    BY <1>3, <2>1 DEF Ack, Unspent, ghosts
<1>4. ASSUME NEW w \in Workers, Answer(w) \/ Hangs(w) PROVE Unspent'
  <2>1. Outcome(w)
    BY <1>4, AnswerOutcome
  <2>2. \A n \in Msgs : n # w => work'[n] = work[n]
    BY <1>0, <2>1 DEF Outcome, Shape
  <2> QED
    BY <2>1, <2>2 DEF Outcome, Unspent
<1>5. ASSUME Poll \/ Tick PROVE Unspent'
  BY <1>5 DEF Poll, Tick, Unspent, ghosts
<1>6. ASSUME BeginItem PROVE Unspent'
  <2>1. \A n \in Msgs : work'[n] = work[n]
    BY <1>0, <1>6 DEF BeginItem, Shape
  <2> QED
    BY <1>6, <2>1 DEF BeginItem, Unspent, ghosts
<1>7. ASSUME DeleteDelivered PROVE Unspent'
  <2>1. \A n \in Msgs : work'[n] = work[n]
    BY <1>7, ItemDoneKeeps DEF DeleteDelivered
  <2> QED
    BY <1>7, <2>1 DEF DeleteDelivered, Unspent
<1>8. ASSUME RetryOrGiveUp PROVE Unspent'
  <2>1. /\ \A n \in Msgs : work'[n] = work[n]
        /\ status[item.msg] # "new"
        /\ work[item.msg].pc \notin {"deliver", "err", "hung"}
    BY <1>8, ItemDoneKeeps DEF RetryOrGiveUp
  <2>2. \A n \in Msgs : n # item.msg => tries'[n] = tries[n]
    BY <1>8 DEF RetryOrGiveUp, Shape
  <2> QED
    BY <1>8, <2>1, <2>2 DEF RetryOrGiveUp, Unspent
<1>9. ASSUME Crash PROVE Unspent'
  BY <1>0, <1>9 DEF Crash, Unspent, Resting
<1>10. CASE UNCHANGED vars
  BY <1>10 DEF vars, ghosts, Unspent
<1> QED
  BY <1>1, <1>2, <1>3, <1>4, <1>5, <1>6, <1>7, <1>8, <1>9, <1>10
     DEF Next, SendStep, ProcessorStep

LEMMA UnspentAlways == Spec => []Unspent
<1>1. Init => Unspent
  BY DEF Init, Unspent
<1>2. Shape /\ RelayInv /\ Unspent /\ [Next]_vars => Unspent'
  BY UnspentStep
<1> QED
  BY <1>1, <1>2, ShapeAlways, InvAlways, PTL DEF Spec

\* Steps of the abstract queue are told by the fates they change.
LEMMA OneBecomes ==
  ASSUME NEW m \in Msgs, NEW f, Fate(m)' = f,
         \A n \in Msgs : n # m => Fate(n)' = Fate(n)
  PROVE  Promised!Becomes(m, f)
BY DEF Promised!Becomes

LEMMA AllStay ==
  ASSUME status' = status, \A n \in Msgs : Fate(n)' = Fate(n)
  PROVE  UNCHANGED Promised!vars
BY DEF Promised!vars

LEMMA QueueStep ==
  Shape /\ Shape' /\ RelayInv /\ Unspent /\ [Next]_vars
    => [Promised!Next]_Promised!vars
<1> SUFFICES ASSUME Shape, Shape', RelayInv, Unspent, [Next]_vars
             PROVE  Promised!Next \/ UNCHANGED Promised!vars
  OBVIOUS
<1> DEFINE told == {m \in Msgs : status[m] = "acked"}
<1>0. /\ MaxAttempts \in Nat \ {0}
      /\ \A m \in Msgs : accepted[m] \in Nat /\ status[m] \in Statuses
      /\ DOMAIN queue \subseteq Msgs
  BY RelayAssumption DEF Shape
<1>1. ASSUME NEW m \in Msgs, Submit(m) PROVE Promised!Next \/ UNCHANGED Promised!vars
  <2>1. /\ UNCHANGED <<queue, accepted, tries, unqueued>>
        /\ status[m] = "new" /\ status'[m] = "sending"
        /\ \A n \in Msgs : n # m => status'[n] = status[n]
    BY <1>1 DEF Submit, Shape, ghosts
  <2>2. told' = told
    BY <2>1
  <2>3. \A n \in Msgs : n # m => Fate(n)' = Fate(n)
    BY <2>1 DEF Fate
  <2>4. CASE Fate(m) = "unsent"
    <3>1. Fate(m)' = "trying"
      BY <2>1, <2>4 DEF Fate
    <3>2. Promised!Submit(m)
      BY <2>2, <2>3, <2>4, <3>1, OneBecomes DEF Promised!Submit
    <3> QED
      BY <3>2 DEF Promised!Next
  <2>5. CASE Fate(m) # "unsent"
    <3>1. Fate(m)' = Fate(m)
      BY <2>1, <2>5 DEF Fate
    <3> QED
      BY <2>2, <2>3, <3>1 DEF Promised!vars
  <2> QED
    BY <2>4, <2>5
<1>2. ASSUME NEW m \in Msgs, Enqueue(m) PROVE Promised!Next \/ UNCHANGED Promised!vars
  <2>1. /\ UNCHANGED <<status, accepted, tries>>
        /\ m \notin DOMAIN queue /\ status[m] = "sending"
        /\ tries[m] = 0 /\ m \notin unqueued
    BY <1>2 DEF Enqueue, RelayInv, SendersServed, Unspent
  <2>2. \/ DOMAIN queue' = DOMAIN queue \cup {m} /\ unqueued' = unqueued
        \/ queue' = queue /\ unqueued' = unqueued \cup {m}
    BY <1>2 DEF Enqueue, WriteFails, Put
  <2>3. \A n \in Msgs : n # m => Fate(n)' = Fate(n)
    BY <2>1, <2>2 DEF Fate
  <2>4. CASE accepted[m] > 0
    <3>1. Fate(m)' = Fate(m)
      BY <2>1, <2>4 DEF Fate
    <3> QED
      BY <2>1, <2>3, <3>1, AllStay
  <2>5. CASE ~(accepted[m] > 0)
    <3>1. Fate(m) = "trying"
      BY <1>0, <2>1, <2>5 DEF Fate
    <3>2. Fate(m)' \in {"queued", "unqueued"}
      BY <1>0, <2>1, <2>2, <2>5 DEF Fate
    <3>3. Promised!Queue(m) \/ Promised!Fail(m)
      BY <2>1, <2>3, <3>1, <3>2, OneBecomes DEF Promised!Queue, Promised!Fail
    <3> QED
      BY <3>3 DEF Promised!Next
  <2> QED
    BY <2>4, <2>5
<1>3. ASSUME NEW m \in Msgs, Ack(m) PROVE Promised!Next \/ UNCHANGED Promised!vars
  <2>1. /\ UNCHANGED <<queue, accepted, tries, unqueued>>
        /\ work[m].pc = "ok" /\ status'[m] = "acked"
        /\ \A n \in Msgs : n # m => status'[n] = status[n]
    BY <1>3 DEF Ack, Shape, ghosts
  <2>2. Safe(m) \/ m \in unqueued
    BY <2>1 DEF RelayInv, DoneIsSafe
  <2>3. Fate(m) \in {"taken", "exhausted", "unqueued", "queued"} /\ Fate(m)' = Fate(m)
    BY <2>1, <2>2 DEF Safe, Fate
  <2>4. \A n \in Msgs : Fate(n)' = Fate(n)
    BY <2>1, <2>3 DEF Fate
  <2>5. told' = told \cup {m}
    BY <2>1
  <2>6. Promised!Tell(m)
    BY <2>3, <2>4, <2>5 DEF Promised!Tell
  <2> QED
    BY <2>6 DEF Promised!Next
<1>4. ASSUME NEW w \in Workers, Answer(w) \/ Hangs(w)
      PROVE  Promised!Next \/ UNCHANGED Promised!vars
  <2>1. Outcome(w)
    BY <1>4, AnswerOutcome
  <2>c. PICK c \in Msgs : c = Carries(w)
    BY <2>1, CarriesMsg DEF Outcome
  <2>2. /\ UNCHANGED <<status, queue, tries, unqueued>>
        /\ accepted' = accepted \/ accepted' = [accepted EXCEPT ![c] = @ + 1]
    BY <2>1, <2>c DEF Outcome
  <2>3. \A n \in Msgs : n # c => Fate(n)' = Fate(n)
    BY <2>2 DEF Fate, Shape
  <2>4. CASE accepted' = accepted \/ accepted[c] > 0
    <3>1. Fate(c)' = Fate(c)
      BY <1>0, <2>2, <2>4 DEF Fate, Shape
    <3> QED
      BY <2>2, <2>3, <3>1, AllStay
  <2>5. CASE accepted' = [accepted EXCEPT ![c] = @ + 1] /\ ~(accepted[c] > 0)
    <3>1. Fate(c)' = "taken"
      BY <1>0, <2>2, <2>5 DEF Fate, Shape
    <3>2. Fate(c) \in {"trying", "queued"}
      <4>1. CASE w = Processor
        <5>1. item # NoItem
          BY <2>1, <4>1, CarriesMsg DEF Outcome
        <5>2. c \in DOMAIN queue
          BY <2>c, <4>1, <5>1, ItemFresh DEF RelayInv, Carries
        <5> QED
          BY <2>5, <5>2 DEF Fate
      <4>2. CASE w # Processor
        <5>1. c = w /\ work[c].pc = "deliver"
          BY <2>1, <2>c, <4>2 DEF Carries, Outcome
        <5>2. /\ c \notin DOMAIN queue /\ status[c] = "sending"
              /\ tries[c] = 0 /\ c \notin unqueued
          BY <2>2, <5>1 DEF RelayInv, SendersServed, Unspent
        <5> QED
          BY <1>0, <2>5, <5>2 DEF Fate
      <4> QED
        BY <4>1, <4>2
    <3>3. Promised!Take(c)
      BY <2>2, <2>3, <3>1, <3>2, OneBecomes DEF Promised!Take
    <3> QED
      BY <2>2, <3>3 DEF Promised!Next
  <2> QED
    BY <2>2, <2>4, <2>5
<1>5. ASSUME Poll \/ BeginItem \/ Tick PROVE UNCHANGED Promised!vars
  <2>1. /\ UNCHANGED <<status, accepted, tries, unqueued>>
        /\ DOMAIN queue' = DOMAIN queue
    BY <1>5 DEF Poll, BeginItem, Tick, ghosts
  <2>2. \A n \in Msgs : Fate(n)' = Fate(n)
    BY <2>1 DEF Fate
  <2> QED
    BY <2>1, <2>2, AllStay
<1>6. ASSUME DeleteDelivered PROVE UNCHANGED Promised!vars
  <2>1. /\ UNCHANGED <<status, accepted, tries, unqueued>>
        /\ accepted[item.msg] > 0
        /\ \A n \in Msgs : n # item.msg => (n \in DOMAIN queue' <=> n \in DOMAIN queue)
    BY <1>6 DEF DeleteDelivered, WriteFails, Drop, RelayInv, DoneIsSafe
  <2>2. \A n \in Msgs : Fate(n)' = Fate(n)
    BY <2>1 DEF Fate
  <2> QED
    BY <2>1, <2>2, AllStay
<1>7. ASSUME RetryOrGiveUp PROVE Promised!Next \/ UNCHANGED Promised!vars
  <2>0. item.msg \in Msgs
    BY <1>7, ItemDoneKeeps DEF RetryOrGiveUp
  <2>c. PICK c \in Msgs : c = item.msg
    BY <2>0
  <2>1. /\ UNCHANGED <<status, accepted, unqueued>>
        /\ c \in DOMAIN queue
        /\ \A n \in Msgs : n # c => tries'[n] = tries[n]
    BY <1>7, <2>c, ItemDoneKeeps DEF RetryOrGiveUp, Shape
  <2>2. \A n \in Msgs : n # c => (n \in DOMAIN queue' <=> n \in DOMAIN queue)
    BY <1>7, <2>c DEF RetryOrGiveUp, WriteFails, Drop
  <2>3. c \notin DOMAIN queue' => accepted[c] > 0 \/ tries'[c] = MaxAttempts
    BY <1>7, <2>1, <2>c, RetryInv
  <2>4. \A n \in Msgs : n # c => Fate(n)' = Fate(n)
    BY <2>1, <2>2 DEF Fate
  <2>5. CASE accepted[c] > 0 \/ c \in DOMAIN queue'
    <3>1. Fate(c)' = Fate(c)
      BY <2>1, <2>5 DEF Fate
    <3> QED
      BY <2>1, <2>4, <3>1, AllStay
  <2>6. CASE ~(accepted[c] > 0) /\ c \notin DOMAIN queue'
    <3>1. Fate(c) = "queued" /\ Fate(c)' = "exhausted"
      BY <2>1, <2>3, <2>6 DEF Fate
    <3>2. Promised!GiveUp(c)
      BY <2>1, <2>4, <3>1, OneBecomes DEF Promised!GiveUp
    <3> QED
      BY <2>1, <3>2 DEF Promised!Next
  <2> QED
    BY <2>5, <2>6
<1>8. ASSUME Crash PROVE Promised!Next
  <2>1. /\ UNCHANGED <<queue, accepted, tries, unqueued>>
        /\ \A m \in Msgs : status'[m] = IF status[m] = "sending" THEN "cut" ELSE status[m]
    BY <1>8 DEF Crash
  <2>2. \A m \in Msgs : Fate(m)' = IF Fate(m) = "trying" THEN "cut" ELSE Fate(m)
    BY <2>1 DEF Fate
  <2>3. told' = told
    BY <2>1
  <2>4. Promised!Restart
    BY <2>2, <2>3 DEF Promised!Restart
  <2> QED
    BY <2>4 DEF Promised!Next
<1>9. CASE UNCHANGED vars
  BY <1>9 DEF vars, ghosts, Promised!vars, Fate
<1> QED
  BY <1>1, <1>2, <1>3, <1>4, <1>5, <1>6, <1>7, <1>8, <1>9
     DEF Next, SendStep, ProcessorStep

\* Every step of Send, of the queue processor, of a host and of a crash is a
\* step of the abstract queue: a message goes from tried to queued to taken or
\* exhausted and never back, and success is reported from queued on.
THEOREM RelayImplementsQueue == Spec => ImplementsQueue
<1>1. Init => Promised!Init
  <2> SUFFICES ASSUME Init PROVE Promised!Init
    OBVIOUS
  <2>1. \A m \in Msgs : Fate(m) = "unsent"
    BY RelayAssumption DEF Init, Fate
  <2>2. {m \in Msgs : status[m] = "acked"} = {}
    BY DEF Init
  <2> QED
    BY <2>1, <2>2 DEF Promised!Init
<1>2. Shape /\ Shape' /\ RelayInv /\ Unspent /\ [Next]_vars
        => [Promised!Next]_Promised!vars
  BY QueueStep
<1>3. Spec => Promised!Safety
  BY <1>1, <1>2, ShapeAlways, InvAlways, UnspentAlways, PTL DEF Spec, Promised!Safety
<1> QED
  BY <1>3 DEF ImplementsQueue

=============================================================================
