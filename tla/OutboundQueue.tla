---------------------------- MODULE OutboundQueue ----------------------------
(***************************************************************************)
(* What the outbound relay owes its clients, without workers, attempts,    *)
(* retries or crashes: a message that was handed over comes to an end the  *)
(* server can answer for, and only then, or once it is queued, is the      *)
(* client told that it was sent.  Relay implements this specification.     *)
(***************************************************************************)
CONSTANT Msgs   \* messages for remote recipients

VARIABLES
  fate,         \* what has become of each message
  told          \* messages whose client has been told that they were sent

vars == <<fate, told>>

\* "taken" by a host; "exhausted": tried as often as the queue promises;
\* "unqueued": the server could not even write it down; "cut": the client
\* was cut off while the server was still at it.
Ends  == {"taken", "exhausted", "unqueued", "cut"}
Fates == Ends \cup {"unsent", "trying", "queued"}

Becomes(m, f) == fate' = [fate EXCEPT ![m] = f]

Submit(m) == fate[m] = "unsent" /\ Becomes(m, "trying") /\ told' = told

\* A host takes a message while it is tried or while it is queued.
Take(m) == fate[m] \in {"trying", "queued"} /\ Becomes(m, "taken") /\ told' = told

Queue(m) == fate[m] = "trying" /\ Becomes(m, "queued") /\ told' = told

GiveUp(m) == fate[m] = "queued" /\ Becomes(m, "exhausted") /\ told' = told

Fail(m) == fate[m] = "trying" /\ Becomes(m, "unqueued") /\ told' = told

\* Everything that is neither queued nor ended is cut off at once.
Restart ==
  /\ fate' = [m \in Msgs |-> IF fate[m] = "trying" THEN "cut" ELSE fate[m]]
  /\ told' = told

\* A client is told that its message was sent once it is queued or has come to
\* an end, never while it is still being tried.
Tell(m) ==
  /\ fate[m] \in {"taken", "exhausted", "unqueued", "queued"}
  /\ told' = told \cup {m}
  /\ fate' = fate

Init == fate = [m \in Msgs |-> "unsent"] /\ told = {}

Next ==
  \/ \E m \in Msgs : \/ Submit(m) \/ Take(m) \/ Queue(m) \/ GiveUp(m)
                     \/ Fail(m) \/ Tell(m)
  \/ Restart

\* The safety of the promise, and the promise that the queue empties.
Safety == Init /\ [][Next]_vars
Spec   == Safety /\ \A m \in Msgs : WF_vars(Take(m) \/ GiveUp(m))

==============================================================================
