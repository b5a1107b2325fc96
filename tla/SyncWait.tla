------------------------------ MODULE SyncWait ------------------------------
(***************************************************************************)
(* The wait of a sync publish against the clock: PublishService._wait and  *)
(* WeKnoraClient.wait_knowledge.  Publish.tla leaves the deadline to       *)
(* chance; here it is a time, counted in units as small as the configured  *)
(* intervals ask for: a second is Second of them.  The steps of the        *)
(* coroutine take no time, a poll takes up to UpTimeout, and a sleep ends  *)
(* when it is due.                                                         *)
(***************************************************************************)
EXTENDS Integers

CONSTANTS
  Second,         \* units of time in a second
  Timeout,        \* publish.timeout_seconds, in units
  PollIntervals,  \* values of publish.poll_interval_seconds, in units: a float
                  \* there, so less than a Second, and 0 or less, too
  UpTimeout       \* the longest a GET takes: what the bounds httpx puts on
                  \* each phase of a request and on each read add up to

ASSUME SyncWaitAssumption ==
  /\ Second \in Nat \ {0}
  /\ Timeout \in Nat /\ PollIntervals \subseteq Int /\ UpTimeout \in Nat

VARIABLES
  poll_interval,   \* as it is configured
  now,        \* units of time since the wait began
  pc,         \* "get": a poll is out; "sleep"; "done"
  issued,     \* when the current or last poll was sent
  seen,       \* what WeKnora put in its answer: not yet, not reached, reached
  wake,       \* when the sleep is due
  attempts,   \* polls answered
  reached,    \* WeKnora: when the target state was reached, or Never
  result      \* the summary: none, done, timedOut, failed

vars == <<poll_interval, now, pc, issued, seen, wake, attempts, reached, result>>

Never == -1
\* Mutated Interval: taken from the configuration as it is.
IntervalAsIs == poll_interval

\* A poll interval of 0 or less would spin: one second instead.  Any other is
\* taken as it is.
Interval == IF poll_interval > 0 THEN poll_interval ELSE Second
deadline == Timeout

TypeOK ==
  /\ poll_interval \in PollIntervals
  /\ now \in 0 .. Timeout + UpTimeout
  /\ pc \in {"get", "sleep", "done"}
  /\ issued \in 0 .. now
  /\ seen \in {"unserved", "no", "yes"}
  /\ wake \in 0 .. Timeout
  /\ attempts \in Nat
  /\ reached \in {Never} \cup 0 .. now
  /\ result \in {"none", "done", "timedOut", "failed"}

Init ==
  /\ poll_interval \in PollIntervals
  /\ now = 0 /\ pc = "get" /\ issued = 0 /\ seen = "unserved" /\ wake = 0
  /\ attempts = 0 /\ reached \in {Never, 0} /\ result = "none"

\* WeKnora reads the article for the poll that is out.
Serve ==
  /\ pc = "get" /\ seen = "unserved"
  /\ seen' = IF reached = Never THEN "no" ELSE "yes"
  /\ UNCHANGED <<poll_interval, now, pc, issued, wake, attempts, reached, result>>

Finish(res) == pc' = "done" /\ result' = res /\ UNCHANGED wake

\* Mutated NotDone: it sleeps past the deadline; or gives up before it.
NotDoneOversleeps(remaining) ==
  IF remaining <= 0 THEN Finish("timedOut")
  ELSE pc' = "sleep" /\ UNCHANGED result /\ wake' = now + Interval
NotDoneEarly(remaining) ==
  IF remaining <= Interval THEN Finish("timedOut")
  ELSE pc' = "sleep" /\ UNCHANGED result /\ wake' = now + Interval

\* Not there yet: stop at the deadline, else sleep, never past it.
NotDone(remaining) ==
  IF remaining <= 0 THEN Finish("timedOut")
  ELSE /\ pc' = "sleep" /\ UNCHANGED result
       /\ wake' = now + (IF Interval < remaining THEN Interval ELSE remaining)

\* A poll is answered.
Polled ==
  /\ pc = "get" /\ seen # "unserved"
  /\ attempts' = attempts + 1
  /\ IF seen = "yes" THEN Finish("done") ELSE NotDone(deadline - now)
  /\ UNCHANGED <<poll_interval, now, issued, seen, reached>>

\* Mutated PollFailed: a failed poll is sent again at once.
PollFailedRetries ==
  /\ pc = "get" /\ seen' = "unserved"
  /\ UNCHANGED <<poll_interval, now, pc, issued, wake, attempts, reached, result>>

\* A poll fails, is refused or times out: the wait is over, as "failed".
PollFailed ==
  /\ pc = "get"
  /\ Finish("failed")
  /\ UNCHANGED <<poll_interval, now, issued, seen, attempts, reached>>

Wake ==
  /\ pc = "sleep" /\ now = wake
  /\ pc' = "get" /\ issued' = now /\ seen' = "unserved"
  /\ UNCHANGED <<poll_interval, now, wake, attempts, reached, result>>

\* Post-processing reaches the target, and stays there.
Reach ==
  /\ reached = Never /\ reached' = now
  /\ UNCHANGED <<poll_interval, now, pc, issued, seen, wake, attempts, result>>

\* Time passes, but not beyond a due sleep or the end of a poll.
Tick ==
  /\ \/ pc = "sleep" /\ now < wake
     \/ pc = "get" /\ now < issued + UpTimeout
  /\ now' = now + 1
  /\ UNCHANGED <<poll_interval, pc, issued, seen, wake, attempts, reached, result>>

Next == Serve \/ Polled \/ PollFailed \/ Wake \/ Reach \/ Tick

\* Sleeps end, and httpx ends every poll, one way or the other.
Fairness == WF_vars(Tick) /\ WF_vars(Wake) /\ WF_vars(Polled \/ PollFailed)
Spec == Init /\ [][Next]_vars /\ Fairness

-----------------------------------------------------------------------------
\* The wait never outlasts its deadline by more than one poll.
WaitBounded == now <= deadline + UpTimeout /\ (pc = "sleep" => wake <= deadline)

\* "Wake up in time for one final check": an article that was ready by the
\* deadline is reported as timed out only where it became ready after the last
\* poll was sent, and that poll was not over before the deadline.
NoMissedFinish ==
  result = "timedOut" /\ reached # Never /\ reached <= deadline =>
    reached >= issued /\ now >= deadline

\* The polls are never more than the configured interval has room for before
\* the deadline, the first and the one at the deadline not counted; and where
\* that interval is 0 or less, than whole seconds have room for: it does not
\* make the wait spin.
AttemptsBounded ==
  /\ poll_interval > 0 => (attempts - 2) * poll_interval < Timeout
  /\ poll_interval <= 0 => (attempts - 2) * Second < Timeout

\* The wait ends.
WaitEnds == <>(pc = "done")
=============================================================================
