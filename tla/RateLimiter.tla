----------------------------- MODULE RateLimiter -----------------------------
(***************************************************************************)
(* The webmail's rate limiter: a map from IP addresses to request counts,  *)
(* guarded by one mutex, and the goroutine that cleans it up.  Each        *)
(* critical section is one action.  Times are kept as time left, in units  *)
(* of which Window make one window.                                        *)
(*                                                                         *)
(* What the limiter promises is about any stretch of time as long as a     *)
(* window.  An observer that begins to count at any moment, and counts for *)
(* at most a window's length, stands for all of them.                      *)
(***************************************************************************)
EXTENDS Integers

CONSTANTS
  Ips,          \* clients
  Rate,         \* requests a client may make per window (120 in the code)
  Window,       \* length of the window (one minute in the code)
  MaxBurst      \* bound: requests of one client in one unit of time

ASSUME LimiterAssumption ==
  /\ Rate \in Nat \ {0} /\ Window \in Nat \ {0} /\ MaxBurst \in Nat \ {0}
  /\ "none" \notin Ips

VARIABLES
  visitors,     \* ip -> requests counted and time to resetAt
  sleep,        \* time left of cleanup's Sleep
  since,        \* observer: units of time since it began to count
  passed,       \* observer: requests of each ip let through since then
  asked,        \* ghost: requests of each ip in this unit of time
  refused       \* ghost: the ip that has just been refused, or "none"

vars == <<visitors, sleep, since, passed, asked, refused>>

Visitor == [count : Nat \ {0}, resetIn : -1 .. Window]

\* One more request of ip is let through now.
Granted(ip) == [passed EXCEPT ![ip] = @ + 1]

\* now.After(v.resetAt)
Expired(v) == v.resetIn < 0

Known(ip) == ip \in DOMAIN visitors

\* Mutant: every request puts the reset off.
CountedAndKept(v) == [count |-> v.count + 1, resetIn |-> Window]

\* Refused requests count, too; only the end of the window stops the count.
Counted(v) == [v EXCEPT !.count = @ + 1]

\* Mutant: the request that makes an entry is not counted.
Uncounted == [count |-> 0, resetIn |-> Window]

NewVisitor == [count |-> 1, resetIn |-> Window]

Allow(ip) ==
  /\ asked[ip] < MaxBurst
  /\ asked' = [asked EXCEPT ![ip] = @ + 1]
  /\ IF ~Known(ip) \/ Expired(visitors[ip])
     THEN /\ visitors' = [i \in DOMAIN visitors \cup {ip} |->
                            IF i = ip THEN NewVisitor ELSE visitors[i]]
          /\ passed' = Granted(ip) /\ refused' = "none"
     ELSE /\ visitors' = [visitors EXCEPT ![ip] = Counted(@)]
          /\ IF visitors'[ip].count <= Rate
             THEN passed' = Granted(ip) /\ refused' = "none"
             ELSE passed' = passed /\ refused' = ip
  /\ UNCHANGED <<sleep, since>>

\* Mutants: a cleanup that empties the map, and one that spares quiet clients.
ForgottenAll == DOMAIN visitors
ForgottenBusy == {i \in DOMAIN visitors :
                    Expired(visitors[i]) /\ visitors[i].count > 1}

\* The visitors a cleanup deletes.
Forgotten == {ip \in DOMAIN visitors : Expired(visitors[ip])}

Cleanup ==
  /\ sleep = 0
  /\ visitors' = [ip \in DOMAIN visitors \ Forgotten |-> visitors[ip]]
  /\ sleep' = Window
  /\ refused' = "none"
  /\ UNCHANGED <<since, passed, asked>>

\* The observer goes on counting, for a window at most, or begins anew.
GoOn == since < Window /\ since' = since + 1 /\ UNCHANGED passed

BeginAnew == since' = 0 /\ passed' = [ip \in Ips |-> 0]

\* One unit of time passes; cleanup may be late.
Tick ==
  /\ visitors' = [ip \in DOMAIN visitors |->
                    [visitors[ip] EXCEPT !.resetIn = IF @ < 0 THEN @ ELSE @ - 1]]
  /\ sleep' = IF sleep = 0 THEN 0 ELSE sleep - 1
  /\ GoOn \/ BeginAnew
  /\ asked' = [ip \in Ips |-> 0]
  /\ refused' = "none"

Init ==
  /\ visitors = [ip \in {} |-> NewVisitor]
  /\ sleep = Window
  /\ since \in 0 .. Window
  /\ passed = [ip \in Ips |-> 0]
  /\ asked = [ip \in Ips |-> 0]
  /\ refused = "none"

Next == (\E ip \in Ips : Allow(ip)) \/ Cleanup \/ Tick

\* Time passes and the cleaning goroutine runs; clients owe us nothing.
Spec == Init /\ [][Next]_vars /\ WF_vars(Cleanup) /\ WF_vars(Tick)

-----------------------------------------------------------------------------
(* What the limiter promises *)

\* Entries, ghosts and the sleep hold values of their types.
TypeOK ==
  /\ DOMAIN visitors \subseteq Ips
  /\ visitors \in [DOMAIN visitors -> Visitor]
  /\ sleep \in 0 .. Window
  /\ since \in 0 .. Window /\ passed \in [Ips -> Nat]
  /\ asked \in [Ips -> 0 .. MaxBurst]
  /\ refused \in Ips \cup {"none"}

\* In any stretch of time as long as a window a client gets at most two
\* windows' worth of requests through, also when cleanup deletes its entry
\* and it starts a new one.
AtMostTwice == \A ip \in Ips : passed[ip] <= 2 * Rate

\* A client is refused only after Rate requests of its own in the window's
\* length before: refused requests do not put the reset off.
RefusalsEarned == refused # "none" /\ since = Window => passed[refused] >= Rate

\* An entry is dropped or starts afresh in the end, so the map does not keep
\* every client that was ever seen.
EntriesExpire ==
  \A ip \in Ips :
    Known(ip) ~> (Known(ip) => visitors[ip] = NewVisitor)
-----------------------------------------------------------------------------
(* The inductive invariant *)

\* Requests of ip that its entry let through.
Let(ip) == IF visitors[ip].count > Rate THEN Rate ELSE visitors[ip].count

\* The observer began no later than the entry of ip.
SeenWhole(ip) == Window - visitors[ip].resetIn <= since

\* While an entry is good the observer has seen what it let through, or, of an
\* entry older than itself, no more than that, and at most a window's worth
\* of requests from before.
Accounted(ip) ==
  IF Known(ip) /\ ~Expired(visitors[ip])
  THEN IF SeenWhole(ip)
       THEN Let(ip) <= passed[ip] /\ passed[ip] <= Rate + Let(ip)
       ELSE passed[ip] <= Let(ip)
  ELSE passed[ip] <= Rate

\* The entry of a client just refused is good and full.
RefusedFull ==
  refused # "none" =>
    /\ Known(refused) /\ ~Expired(visitors[refused])
    /\ visitors[refused].count > Rate

LimiterInv == TypeOK /\ (\A ip \in Ips : Accounted(ip)) /\ RefusedFull

=============================================================================
