--------------------------- MODULE SyncWait_proofs ---------------------------
(***************************************************************************)
(* Proofs of the safety properties of SyncWait, for every timeout, every   *)
(* set of poll intervals and every upstream timeout.                       *)
(***************************************************************************)
EXTENDS SyncWait, TLAPS

\* Where the clock, the poll that is out and the sleep stand to each other.
Timing ==
  /\ issued <= Timeout
  /\ pc = "get" => now <= issued + UpTimeout
  /\ pc = "sleep" => now <= wake

\* A poll answered "not yet" was served before the target was reached, so the
\* target was not reached before the poll was sent; only such a poll times out,
\* and only at the deadline.
Straddled ==
  /\ seen = "no" /\ reached # Never => issued <= reached
  /\ result = "timedOut" => seen = "no" /\ pc = "done" /\ now >= deadline

\* Room for the polls answered so far: one interval for each lies before the
\* time t of the next one; or that is sent at the deadline, after a sleep that
\* was cut, and the one before it was answered before the deadline.
Room(t) ==
  \/ attempts * Interval <= t
  \/ t = Timeout /\ attempts * Interval - Interval < Timeout

\* Each poll but the first and the last is sent an interval or more after the
\* one before.
Paced ==
  /\ pc = "get" => Room(issued)
  /\ pc = "sleep" => Room(wake)
  /\ pc = "done" => attempts * Interval - 2 * Interval < Timeout

IInv == TypeOK /\ Timing /\ Straddled /\ Paced

\* The sleep after an unfinished poll takes time.
LEMMA IntervalPositive ==
  ASSUME TypeOK PROVE Interval \in Int /\ Interval > 0
  BY SyncWaitAssumption DEF TypeOK, Interval

\* What the products of Paced become when one more poll has been answered.
LEMMA OneMore ==
  ASSUME NEW n \in Nat, NEW i \in Int
  PROVE  /\ n * i \in Int
         /\ (n + 1) * i = n * i + i
         /\ (n - 2) * i = n * i - 2 * i
  BY SMT

LEMMA InitIInv == Init => IInv
<1> SUFFICES ASSUME Init PROVE IInv
  OBVIOUS
<1>1. TypeOK /\ Timing /\ Straddled
  BY SyncWaitAssumption DEF deadline, Init, TypeOK, Timing, Straddled, Never
<1>2. 0 * Interval = 0
  BY <1>1, IntervalPositive
<1> QED BY <1>1, <1>2 DEF IInv, Init, Paced, Room

LEMMA NextTimed == IInv /\ [Next]_vars => TypeOK' /\ Timing' /\ Straddled'
<1> SUFFICES ASSUME IInv, [Next]_vars PROVE TypeOK' /\ Timing' /\ Straddled'
  OBVIOUS
<1> USE SyncWaitAssumption DEF IInv, TypeOK, Timing, Straddled, Never, deadline
<1>1. CASE Serve
  BY <1>1 DEF Serve
<1>2. CASE Polled
  <2>1. CASE seen = "yes"
    BY <1>2, <2>1 DEF Polled, Finish
  <2>2. CASE seen # "yes" /\ deadline - now <= 0
    BY <1>2, <2>2 DEF Polled, NotDone, Finish, deadline
  <2>3. CASE seen # "yes" /\ ~(deadline - now <= 0)
    <3>1. Interval \in Int /\ Interval > 0
      BY IntervalPositive
    <3>2. pc' = "sleep" /\ wake' \in now + 1 .. Timeout
      BY <1>2, <2>3, <3>1 DEF Polled, NotDone, deadline
    <3> QED BY <1>2, <2>3, <3>2 DEF Polled, NotDone, deadline
  <2> QED BY <2>1, <2>2, <2>3
<1>3. CASE PollFailed
  BY <1>3 DEF PollFailed, Finish
<1>4. CASE Wake
  BY <1>4 DEF Wake
<1>5. CASE Reach
  BY <1>5 DEF Reach
<1>6. CASE Tick
  BY <1>6 DEF Tick
<1>7. CASE UNCHANGED vars
  BY <1>7 DEF vars
<1> QED BY <1>1, <1>2, <1>3, <1>4, <1>5, <1>6, <1>7 DEF Next

\* The interval never changes, and only an answered poll counts.
LEMMA NextPaced == IInv /\ [Next]_vars => Paced'
<1> SUFFICES ASSUME IInv, [Next]_vars PROVE Paced'
  OBVIOUS
<1>1. /\ attempts \in Nat /\ issued \in Int /\ wake \in Int /\ now \in Int
      /\ Timeout \in Int /\ issued <= now /\ issued <= Timeout
  BY SyncWaitAssumption DEF IInv, TypeOK, Timing
<1>2. Interval' = Interval
  BY DEF Interval, Next, vars, Serve, Polled, PollFailed, Wake, Reach, Tick
<1> DEFINE i == Interval
           a == attempts * i
<1>3. i \in Int /\ i > 0 /\ a \in Int
  BY <1>1, IntervalPositive, OneMore DEF IInv
<1>4. CASE Polled
  <2>1. pc = "get" /\ Room(issued) /\ (attempts * Interval)' = a + i
    BY <1>1, <1>2, <1>3, <1>4, OneMore DEF Polled, IInv, Paced
  <2>2. CASE pc' = "done"
    BY <1>1, <1>2, <1>3, <2>1, <2>2 DEF Paced, Room
  <2>3. CASE pc' # "done"
    <3>1. /\ pc' = "sleep" /\ now < Timeout
          /\ wake' = now + (IF i < Timeout - now THEN i ELSE Timeout - now)
      BY <1>1, <1>4, <2>3 DEF Polled, NotDone, Finish, deadline
    <3>2. a <= now
      BY <1>1, <1>3, <2>1, <3>1 DEF Room
    <3>3. wake' = now + i \/ wake' = Timeout
      BY <1>1, <1>3, <3>1
    <3> HIDE DEF a, i
    <3>4. a + i <= wake' \/ (wake' = Timeout /\ a + i - i < Timeout)
      BY <1>1, <1>3, <3>1, <3>2, <3>3
    <3>5. (attempts * Interval)' = a + i /\ Interval' = i
      BY <1>2, <2>1 DEF a, i
    <3>6. Room(wake)'
      BY <1>1, <1>3, <3>4, <3>5 DEF Room
    <3> QED BY <3>1, <3>6 DEF Paced
  <2> QED BY <2>2, <2>3
<1>5. CASE PollFailed
  <2>1. pc' = "done" /\ Room(issued) /\ (attempts * Interval)' = a
    BY <1>2, <1>5 DEF PollFailed, Finish, IInv, Paced
  <2> QED BY <1>1, <1>2, <1>3, <2>1 DEF Paced, Room
<1>6. CASE Wake
  <2>1. /\ pc' = "get" /\ issued' = wake /\ Room(wake)
        /\ (attempts * Interval)' = a
    BY <1>2, <1>6 DEF Wake, IInv, Paced
  <2> QED BY <1>2, <2>1 DEF Paced, Room
<1>7. CASE Serve \/ Reach \/ Tick \/ UNCHANGED vars
  <2>1. pc' = pc /\ issued' = issued /\ wake' = wake /\ attempts' = attempts
    BY <1>7 DEF Serve, Reach, Tick, vars
  <2> QED BY <1>2, <2>1 DEF IInv, Paced, Room
<1> QED BY <1>4, <1>5, <1>6, <1>7 DEF Next

LEMMA NextIInv == IInv /\ [Next]_vars => IInv'
  BY NextTimed, NextPaced DEF IInv

LEMMA AlwaysIInv == Spec => []IInv
  BY InitIInv, NextIInv, PTL DEF Spec

\* The variables keep their types: in particular the clock never passes the
\* timeout by more than one upstream timeout.
THEOREM TypeCorrect == Spec => []TypeOK
<1>1. IInv => TypeOK
  BY DEF IInv
<1> QED BY <1>1, AlwaysIInv, PTL

\* wait_knowledge never outlasts its deadline by more than one poll, and never
\* sleeps past it.
THEOREM WaitIsBounded == Spec => []WaitBounded
<1>1. IInv => WaitBounded
  BY SyncWaitAssumption DEF IInv, TypeOK, WaitBounded, deadline
<1> QED BY <1>1, AlwaysIInv, PTL

\* The last poll is not over before the deadline, and misses no article that was
\* ready when it was sent.
THEOREM NoFinishMissed == Spec => []NoMissedFinish
<1>1. IInv => NoMissedFinish
  BY SyncWaitAssumption
     DEF IInv, TypeOK, Timing, Straddled, NoMissedFinish, deadline, Never
<1> QED BY <1>1, AlwaysIInv, PTL

\* Whatever interval is configured, of less than a second too, the polls are no
\* more than it has room for; and one of 0 or less counts as a second.
THEOREM PollsAreBounded == Spec => []AttemptsBounded
<1>1. ASSUME IInv PROVE (attempts - 2) * Interval < Timeout
  <2>1. /\ attempts \in Nat /\ issued \in Int /\ wake \in Int /\ Timeout \in Int
        /\ issued <= Timeout /\ wake <= Timeout /\ pc \in {"get", "sleep", "done"}
    BY <1>1, SyncWaitAssumption DEF IInv, TypeOK, Timing
  <2>2. Interval \in Int /\ Interval > 0
    BY <1>1, IntervalPositive DEF IInv
  <2> DEFINE a == attempts * Interval
  <2>3. a \in Int /\ (attempts - 2) * Interval = a - 2 * Interval
    BY <2>1, <2>2, OneMore
  <2>4. a <= Timeout \/ a - Interval < Timeout \/ a - 2 * Interval < Timeout
    BY <1>1, <2>1, <2>2, <2>3 DEF IInv, Paced, Room
  <2> HIDE DEF a
  <2> QED BY <2>1, <2>2, <2>3, <2>4
<1>2. IInv => AttemptsBounded
  <2> SUFFICES ASSUME IInv PROVE AttemptsBounded
    OBVIOUS
  <2>1. poll_interval \in Int
    BY SyncWaitAssumption DEF IInv, TypeOK
  <2>2. CASE poll_interval > 0
    BY <1>1, <2>1, <2>2 DEF AttemptsBounded, Interval
  <2>3. CASE ~(poll_interval > 0)
    BY <1>1, <2>1, <2>3 DEF AttemptsBounded, Interval
  <2> QED BY <2>2, <2>3
<1> QED BY <1>2, AlwaysIInv, PTL
=============================================================================
