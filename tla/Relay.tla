-------------------------------- MODULE Relay --------------------------------
(***************************************************************************)
(* Outbound relay of picomailgo: Relay.Send as called by a submission or   *)
(* compose handler for one remote recipient, the outbound_queue table, and *)
(* the queue processor, one goroutine that polls the table every 30 s.     *)
(*                                                                         *)
(* Both kinds of worker run deliver, which tries the MX hosts of the       *)
(* domain in turn; a host's answer is one step.  A message stands for      *)
(* one (from, to, raw) handed to Send.  Time is counted in units of five   *)
(* minutes, the first delay of a queued row.                               *)
(***************************************************************************)
EXTENDS Integers, FiniteSets

CONSTANTS
  Msgs,         \* messages for remote recipients, each submitted once
  Processor,    \* the goroutine of StartQueueProcessor
  NumMX,        \* MX hosts of a recipient's domain
  MaxAttempts,  \* max_attempts of a row (10 by default)
  BatchLimit,   \* LIMIT of the poll (50 in the code)
  Silent,       \* messages whose host may accept a connection and never speak
  MaxCrashes,   \* bound: times the server may stop
  MaxFailures,  \* bound: writes to the queue, and scans of it, that fail
  MaxLate       \* bound: units for which rows past their retry time are told apart

Workers == Msgs \cup {Processor}

ASSUME RelayAssumption ==
  /\ Processor \notin Msgs
  /\ NumMX \in Nat \ {0} /\ MaxAttempts \in Nat \ {0} /\ BatchLimit \in Nat \ {0}
  /\ Silent \subseteq Msgs
  /\ MaxCrashes \in Nat /\ MaxFailures \in Nat /\ MaxLate \in Nat

VARIABLES
  status,       \* how far the client of a message has come
  queue,        \* rows of outbound_queue, by message: attempts and wait,
                \* the time left until next_retry
  batch,        \* rows the processor has read and not yet begun
  item,         \* the row it is working on
  work,         \* the deliver call in each worker
  crashes,      \* how often the server has stopped
  failures,     \* how many writes to the queue and scans of it have failed
  accepted,     \* ghost: how often a host has taken the message
  doubtful,     \* ghost: how often it did and the server could not know or record it
  tries,        \* ghost: failed deliveries from the queue, up to MaxAttempts
  unqueued      \* ghost: messages whose INSERT into the queue failed

ghosts == <<accepted, doubtful, tries, unqueued>>
vars == <<status, queue, batch, item, work, crashes, failures, ghosts>>

Statuses == {"new", "sending", "acked", "cut"}
QueueRow == [attempts : Nat, wait : Int]
Item     == [msg : Msgs, attempts : Nat, wait : Int]
NoItem   == [msg |-> Processor, attempts |-> 0, wait |-> 0]
Work     == [pc : {"idle", "deliver", "ok", "err", "hung"}, tried : 0 .. NumMX]

Resting == [pc |-> "idle", tried |-> 0]
Calling == [pc |-> "deliver", tried |-> 0]

Put(table, id, row) ==
  [i \in DOMAIN table \cup {id} |-> IF i = id THEN row ELSE table[i]]

Drop(table, id) == [i \in DOMAIN table \ {id} |-> table[i]]

\* A write to the queue fails and changes nothing; callers only log it.
WriteFails ==
  /\ failures < MaxFailures
  /\ failures' = failures + 1
  /\ queue' = queue

-----------------------------------------------------------------------------
(* deliver *)

\* The message worker w is delivering.
Carries(w) == IF w = Processor THEN item.msg ELSE w

Returns(w, pc) == work' = [work EXCEPT ![w].pc = pc]

\* Mutant: the loop runs past the last host.
NextHostAlways(w) == work' = [work EXCEPT ![w].tried = @ + 1]

\* A host has failed: on to the next one, or back with an error.
NextHost(w) ==
  LET n == work[w].tried + 1 IN
  work' = [work EXCEPT ![w] = [pc |-> IF n = NumMX THEN "err" ELSE "deliver",
                               tried |-> n]]

LookupFails(w) ==
  /\ work[w] = Calling
  /\ Returns(w, "err")
  /\ UNCHANGED <<status, queue, batch, item, crashes, failures, ghosts>>

\* An error before the end of DATA: the host has not taken the message.
Refused(w) ==
  /\ work[w].pc = "deliver"
  /\ NextHost(w)
  /\ UNCHANGED <<status, queue, batch, item, crashes, failures, ghosts>>

\* Mutant: the loop over the hosts without its "return nil".
TakenAndOn(w) ==
  /\ work[w].pc = "deliver"
  /\ NextHost(w)
  /\ accepted' = [accepted EXCEPT ![Carries(w)] = @ + 1]
  /\ UNCHANGED <<status, queue, batch, item, crashes, failures, doubtful, tries, unqueued>>

Taken(w) ==
  /\ work[w].pc = "deliver"
  /\ Returns(w, "ok")
  /\ accepted' = [accepted EXCEPT ![Carries(w)] = @ + 1]
  /\ UNCHANGED <<status, queue, batch, item, crashes, failures, doubtful, tries, unqueued>>

\* The host takes the message, but its reply to DATA or QUIT is lost, which
\* deliverToHost reports as a failure.
TakenUnheard(w) ==
  /\ work[w].pc = "deliver"
  /\ NextHost(w)
  /\ accepted' = [accepted EXCEPT ![Carries(w)] = @ + 1]
  /\ doubtful' = [doubtful EXCEPT ![Carries(w)] = @ + 1]
  /\ UNCHANGED <<status, queue, batch, item, crashes, failures, tries, unqueued>>

\* smtp.Dial and the commands after it have no deadline: the host falls silent,
\* before it has taken the message or after.
Hangs(w) ==
  /\ work[w].pc = "deliver" /\ Carries(w) \in Silent
  /\ Returns(w, "hung")
  /\ \/ UNCHANGED <<accepted, doubtful>>
     \/ /\ accepted' = [accepted EXCEPT ![Carries(w)] = @ + 1]
        /\ doubtful' = [doubtful EXCEPT ![Carries(w)] = @ + 1]
  /\ UNCHANGED <<status, queue, batch, item, crashes, failures, tries, unqueued>>

Answer(w) == LookupFails(w) \/ Refused(w) \/ Taken(w) \/ TakenUnheard(w)

-----------------------------------------------------------------------------
(* Send and its caller *)

Submit(m) ==
  /\ status[m] = "new"
  /\ status' = [status EXCEPT ![m] = "sending"]
  /\ work' = [work EXCEPT ![m] = Calling]
  /\ UNCHANGED <<queue, batch, item, crashes, failures, ghosts>>

\* The immediate delivery failed: enqueue, to be retried in five minutes.
FirstRetry == [attempts |-> 0, wait |-> 1]

Enqueue(m) ==
  /\ work[m].pc = "err"
  /\ \/ queue' = Put(queue, m, FirstRetry) /\ UNCHANGED <<failures, unqueued>>
     \/ WriteFails /\ unqueued' = unqueued \cup {m}
  /\ Returns(m, "ok")
  /\ UNCHANGED <<status, batch, item, crashes, accepted, doubtful, tries>>

\* Data and handleCompose report success whatever Send has returned.
Ack(m) ==
  /\ work[m].pc = "ok"
  /\ status' = [status EXCEPT ![m] = "acked"]
  /\ work' = [work EXCEPT ![m] = Resting]
  /\ UNCHANGED <<queue, batch, item, crashes, failures, ghosts>>

-----------------------------------------------------------------------------
(* ProcessQueue *)

\* Rows the poll may return: due, and with attempts left.
Due == {[msg |-> m, attempts |-> queue[m].attempts, wait |-> queue[m].wait] :
          m \in {n \in DOMAIN queue : /\ queue[n].wait <= 0
                                      /\ queue[n].attempts < MaxAttempts}}

\* ORDER BY next_retry LIMIT ?: the rows waiting longest, as many as fit.
FirstOf(rows, n) ==
  {s \in SUBSET rows :
     /\ Cardinality(s) = IF Cardinality(rows) < n THEN Cardinality(rows) ELSE n
     /\ \A a \in s, b \in rows \ s : a.wait <= b.wait}

\* Mutant: "go r.ProcessQueue()" on every tick.
AlwaysFree == TRUE

\* ProcessQueue runs in the ticker's own goroutine, so the next poll waits
\* until the last batch is done.
ProcessorFree == batch = {} /\ work[Processor] = Resting

Poll ==
  /\ ProcessorFree
  /\ Due # {}
  /\ \E s \in FirstOf(Due, BatchLimit) :
       \/ batch' = s /\ UNCHANGED failures
       \/ \* rows that cannot be scanned are left out
          /\ failures < MaxFailures /\ failures' = failures + 1
          /\ batch' \in SUBSET s
  /\ UNCHANGED <<status, queue, item, work, crashes, ghosts>>

BeginItem ==
  /\ work[Processor] = Resting
  /\ \E i \in batch :
       /\ \A j \in batch : i.wait <= j.wait
       /\ item' = i
       /\ batch' = batch \ {i}
  /\ work' = [work EXCEPT ![Processor] = Calling]
  /\ UNCHANGED <<status, queue, crashes, failures, ghosts>>

ItemDone ==
  /\ item' = NoItem
  /\ work' = [work EXCEPT ![Processor] = Resting]

\* Delivered: the row goes, in a statement after the delivery.
DeleteDelivered ==
  /\ work[Processor].pc = "ok"
  /\ \/ queue' = Drop(queue, item.msg) /\ UNCHANGED <<failures, doubtful>>
     \/ /\ WriteFails
        /\ doubtful' = [doubtful EXCEPT ![item.msg] = @ + 1]
  /\ ItemDone
  /\ UNCHANGED <<status, batch, crashes, accepted, tries, unqueued>>

\* 5 * 3^(n-1) minutes after the n-th failure, in units of five minutes.
Backoff(n) == 3 ^ (n - 1)

\* Mutants: giving up one attempt early, and one late.
GivesUpEarly(n) == n >= MaxAttempts - 1
GivesUpLate(n)  == n > MaxAttempts

\* The row gives up after this many failures.
GivesUp(n) == n >= MaxAttempts

\* Failed: back off, or drop the row when the attempts are used up.
RetryOrGiveUp ==
  LET n == item.attempts + 1 IN
  /\ work[Processor].pc = "err"
  /\ \/ GivesUp(n) /\ queue' = Drop(queue, item.msg) /\ UNCHANGED failures
     \/ /\ ~GivesUp(n)
        /\ queue' = [m \in DOMAIN queue |->
                       IF m = item.msg THEN [attempts |-> n, wait |-> Backoff(n)]
                       ELSE queue[m]]
        /\ UNCHANGED failures
     \/ WriteFails
  /\ tries' = [tries EXCEPT ![item.msg] = IF @ < MaxAttempts THEN @ + 1 ELSE @]
  /\ ItemDone
  /\ UNCHANGED <<status, batch, crashes, accepted, doubtful, unqueued>>

-----------------------------------------------------------------------------
\* Five minutes pass.
Tick ==
  /\ \E m \in DOMAIN queue : queue[m].wait > -MaxLate
  /\ queue' = [m \in DOMAIN queue |->
                 [queue[m] EXCEPT !.wait = IF @ > -MaxLate THEN @ - 1 ELSE @]]
  /\ UNCHANGED <<status, batch, item, work, crashes, failures, ghosts>>

\* The server stops and is started again.  Shutdown does not wait for the
\* processor, so it is no different.  Clients not answered yet are cut off.
Crash ==
  /\ crashes < MaxCrashes
  /\ crashes' = crashes + 1
  /\ status' = [m \in Msgs |-> IF status[m] = "sending" THEN "cut" ELSE status[m]]
  /\ batch' = {} /\ item' = NoItem
  /\ work' = [w \in Workers |-> Resting]
  /\ doubtful' = [m \in Msgs |-> IF work[Processor].pc = "ok" /\ item.msg = m
                                 THEN doubtful[m] + 1 ELSE doubtful[m]]
  /\ UNCHANGED <<queue, failures, accepted, tries, unqueued>>

Init ==
  /\ status = [m \in Msgs |-> "new"]
  /\ queue = << >>
  /\ batch = {} /\ item = NoItem
  /\ work = [w \in Workers |-> Resting]
  /\ crashes = 0 /\ failures = 0
  /\ accepted = [m \in Msgs |-> 0]
  /\ doubtful = [m \in Msgs |-> 0]
  /\ tries = [m \in Msgs |-> 0]
  /\ unqueued = {}

SendStep(m)   == Enqueue(m) \/ Ack(m)
ProcessorStep == Poll \/ BeginItem \/ DeleteDelivered \/ RetryOrGiveUp

Next ==
  \/ \E m \in Msgs : Submit(m) \/ SendStep(m)
  \/ \E w \in Workers : Answer(w) \/ Hangs(w)
  \/ ProcessorStep
  \/ Tick
  \/ Crash

\* Goroutines run on, time passes, and a host that is not silent answers.
Fairness ==
  /\ \A m \in Msgs : WF_vars(SendStep(m))
  /\ \A w \in Workers : WF_vars(Answer(w))
  /\ WF_vars(ProcessorStep)
  /\ WF_vars(Tick)

Spec == Init /\ [][Next]_vars /\ Fairness

-----------------------------------------------------------------------------
(* What the relay promises *)

\* Rows, snapshots and calls hold values of their types, and an item is in
\* work exactly while the processor is busy.
TypeOK ==
  /\ status \in [Msgs -> Statuses]
  /\ DOMAIN queue \subseteq Msgs
  /\ queue \in [DOMAIN queue -> QueueRow]
  /\ batch \subseteq Item
  /\ item \in Item \cup {NoItem}
  /\ item = NoItem <=> work[Processor] = Resting
  /\ work \in [Workers -> Work]
  /\ crashes \in Nat /\ failures \in Nat
  /\ accepted \in [Msgs -> Nat] /\ doubtful \in [Msgs -> Nat]
  /\ tries \in [Msgs -> 0 .. MaxAttempts]
  /\ unqueued \subseteq Msgs

\* m has been taken by a host, is queued, or has been tried as often as the
\* queue promises.
Safe(m) ==
  accepted[m] > 0 \/ m \in DOMAIN queue \/ tries[m] = MaxAttempts

\* A message a client was told is sent is not lost, through crashes, retries
\* and failing updates of the queue, unless its own INSERT failed: then the
\* client is told the same and the message is nowhere.
NothingLost ==
  \A m \in Msgs \ unqueued : status[m] = "acked" => Safe(m)

\* A row leaves the queue only when a host has taken the message or all its
\* attempts have really been made, crashes and stale snapshots included.
RowsLeaveResolved ==
  [][\A m \in DOMAIN queue :
       m \notin DOMAIN queue' => accepted[m] > 0 \/ tries'[m] = MaxAttempts]_vars

\* Hosts are handed a message twice only when the server could not know, or
\* could not record, that it had been taken.
DuplicatesExplained ==
  \A m \in Msgs : accepted[m] <= 1 + doubtful[m]

\* What the processor has read is still what the table says when it writes
\* attempts back; this rests on there being one processor at a time.
InHand == batch \cup (IF item = NoItem THEN {} ELSE {item})

Fresh(i) == i.msg \in DOMAIN queue /\ queue[i.msg].attempts = i.attempts

SnapshotFresh == \A i \in InHand : Fresh(i)

\* No row sits in the table with its attempts used up, where the poll's
\* "attempts < max_attempts" would never see it again.
NoRowStranded ==
  \A m \in DOMAIN queue : queue[m].attempts < MaxAttempts

\* Every queued message whose hosts answer leaves the queue.
QueueDrains ==
  \A m \in Msgs \ Silent : m \in DOMAIN queue ~> m \notin DOMAIN queue

-----------------------------------------------------------------------------
(* Relay implements OutboundQueue *)

\* What has become of m, in the terms of the abstract specification.
Fate(m) ==
  IF accepted[m] > 0 THEN "taken"
  ELSE IF m \in DOMAIN queue THEN "queued"
  ELSE IF tries[m] = MaxAttempts THEN "exhausted"
  ELSE IF m \in unqueued THEN "unqueued"
  ELSE IF status[m] = "new" THEN "unsent"
  ELSE IF status[m] = "sending" THEN "trying"
  ELSE "cut"

Promised == INSTANCE OutboundQueue WITH
  fate <- [m \in Msgs |-> Fate(m)],
  told <- {m \in Msgs : status[m] = "acked"}

\* Through snapshots, retries, lost replies, failing writes and crashes every
\* step of the relay is a step of the abstract queue or changes nothing there:
\* a message moves only forward, from tried to queued to taken or exhausted,
\* and its client hears of success only from queued on.
ImplementsQueue == Promised!Safety

\* With hosts that answer the abstract queue also empties.
ImplementsLiveQueue == Promised!Spec

-----------------------------------------------------------------------------
(* The inductive invariant behind the safety properties *)

\* A call that has an answer to come has a host left to ask.
HostsLeft == \A w \in Workers : work[w].pc = "deliver" => work[w].tried < NumMX

\* The processor never has two snapshots of one row in hand.
OneSnapshotEach ==
  /\ \A i, j \in batch : i.msg = j.msg => i = j
  /\ \A i \in batch : i.msg # item.msg

\* Only a client being served has a Send in progress, and its message is not
\* queued until enqueue returns.
SendersServed ==
  \A m \in Msgs :
    /\ work[m].pc # "idle" => status[m] = "sending"
    /\ work[m].pc \in {"deliver", "err", "hung"} => m \notin DOMAIN queue
    /\ status[m] = "new" => m \notin DOMAIN queue

\* m has been delivered from the queue and its row is still there.
Delivered(m) == item.msg = m /\ work[Processor].pc = "ok"

\* m may still be handed to a host.
Open(m) ==
  \/ status[m] = "new"
  \/ work[m].pc \in {"deliver", "err", "hung"}
  \/ m \in DOMAIN queue /\ ~Delivered(m)

\* While m may still be handed over, every earlier acceptance is a doubtful one.
OpenUnheard == \A m \in Msgs : Open(m) => accepted[m] <= doubtful[m]

\* Attempts written to the table have been made.
AttemptsMade == \A m \in DOMAIN queue : queue[m].attempts <= tries[m]

\* What is about to be reported or deleted as delivered is safe.
DoneIsSafe ==
  /\ \A m \in Msgs \ unqueued : work[m].pc = "ok" => Safe(m)
  /\ work[Processor].pc = "ok" => accepted[item.msg] > 0

RelayInv ==
  /\ SnapshotFresh
  /\ OneSnapshotEach
  /\ NoRowStranded
  /\ SendersServed
  /\ OpenUnheard
  /\ DuplicatesExplained
  /\ AttemptsMade
  /\ DoneIsSafe
  /\ NothingLost

=============================================================================
