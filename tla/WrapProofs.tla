------------------------------ MODULE WrapProofs ------------------------------
(***************************************************************************)
(* Theorems about what wraps: the clock under the watchdog's and the LED's *)
(* deadlines, for every length of the intervals, of the pulse and of an    *)
(* iteration of the main loop, and every clock that wraps later than that; *)
(* and the indexes of the receive ring, for every capacity.                *)
(***************************************************************************)
EXTENDS WatchdogScheduler, LedScheduler, RxRing, SequenceTheorems, TLAPS


-----------------------------------------------------------------------------
(* Arithmetic of a clock that wraps.                                       *)

\* Division with remainder.
LEMMA DivMod ==
    ASSUME NEW a \in Int, NEW b \in Nat, b > 0
    PROVE  a = (a \div b) * b + (a % b) /\ a % b \in 0 .. b - 1 /\ a \div b \in Int
BY SMTT(20)

LEMMA SmallMultiple ==
    ASSUME NEW d \in Int, NEW S \in Nat, S > 0, d * S > -S, d * S < S
    PROVE  d = 0
BY SMTT(20)

\* Quotient and remainder are the only ones.
LEMMA DivUnique ==
    ASSUME NEW b \in Nat, b > 0, NEW q \in Int, NEW r \in 0 .. b - 1
    PROVE  (q * b + r) % b = r /\ (q * b + r) \div b = q
<1> DEFINE a == q * b + r
           p == a \div b
           s == a % b
<1>1. a \in Int /\ q * b \in Int
  BY SMTT(20)
<1>2. a = p * b + s /\ s \in 0 .. b - 1 /\ p \in Int
  BY <1>1, DivMod
<1>3. a = q * b + r
  OBVIOUS
<1> HIDE DEF a, p, s
<1>4. (p - q) * b = r - s
  BY <1>1, <1>2, <1>3, SMTT(20)
<1>5. p - q = 0
  BY <1>2, <1>4, SmallMultiple
<1>6. r = s /\ p = q
  BY <1>2, <1>4, <1>5
<1> QED
  BY <1>6 DEF a, p, s

\* Multiples of the modulus do not count.
LEMMA SameRemainder ==
    ASSUME NEW b \in Nat, b > 0, NEW x \in Int, NEW y \in Int, NEW k \in Int, x = y + k * b
    PROVE  x % b = y % b
<1> DEFINE q == y \div b
           r == y % b
           p == q + k
<1>1. y = q * b + r /\ r \in 0 .. b - 1 /\ q \in Int /\ p \in Int
  BY DivMod
<1> HIDE DEF q, r
<1>2. x = p * b + r
  BY <1>1, SMTT(20)
<1> HIDE DEF p
<1>3. x % b = r
  BY <1>1, <1>2, DivUnique
<1> QED
  BY <1>3 DEF r

\* A remainder below the modulus is the number itself.
LEMMA SmallRemainder ==
    ASSUME NEW b \in Nat, NEW x \in 0 .. b - 1
    PROVE  x % b = x
<1>1. x = 0 * b + x /\ b > 0 /\ x \in Int
  OBVIOUS
<1> QED
  BY <1>1, DivUnique

\* What lies between two time stamps, and a time stamp that lies ahead.
LEMMA ElapsedFacts ==
    ASSUME NEW from \in Times, NEW to \in Times
    PROVE  /\ Elapsed(from, to) = IF from <= to THEN to - from ELSE to - from + TIME_MOD
           /\ Elapsed(from, to) \in Times
<1>1. TIME_MOD \in Nat /\ TIME_MOD > 0 /\ from \in Int /\ to \in Int
  BY TimebaseAssumption DEF Times
<1>2. CASE from <= to
  <2>1. to - from \in 0 .. TIME_MOD - 1
    BY <1>1, <1>2 DEF Times
  <2> QED
    BY <1>1, <1>2, <2>1, SmallRemainder DEF Elapsed, Times
<1>3. CASE from > to
  <2>1. to - from + TIME_MOD \in 0 .. TIME_MOD - 1
    BY <1>1, <1>3 DEF Times
  <2>2. (to - from) % TIME_MOD = (to - from + TIME_MOD) % TIME_MOD
    <3>1. to - from = (to - from + TIME_MOD) + (-1) * TIME_MOD
      BY <1>1
    <3>2. to - from \in Int /\ to - from + TIME_MOD \in Int /\ -1 \in Int
      BY <1>1
    <3> QED
      BY <1>1, <3>1, <3>2, SameRemainder, Zenon
  <2> QED
    BY <1>1, <1>3, <2>1, <2>2, SmallRemainder DEF Elapsed, Times
<1> QED
  BY <1>1, <1>2, <1>3

LEMMA LaterFacts ==
    ASSUME NEW time \in Times, NEW ms \in Times
    PROVE  /\ Later(time, ms) = IF time + ms < TIME_MOD THEN time + ms ELSE time + ms - TIME_MOD
           /\ Later(time, ms) \in Times
<1>1. TIME_MOD \in Nat /\ TIME_MOD > 0 /\ time \in Int /\ ms \in Int
  BY TimebaseAssumption DEF Times
<1>2. CASE time + ms < TIME_MOD
  <2>1. time + ms \in 0 .. TIME_MOD - 1
    BY <1>1, <1>2 DEF Times
  <2> QED
    BY <1>1, <1>2, <2>1, SmallRemainder DEF Later, Times
<1>3. CASE time + ms >= TIME_MOD
  <2>1. time + ms - TIME_MOD \in 0 .. TIME_MOD - 1
    BY <1>1, <1>3 DEF Times
  <2>2. (time + ms) % TIME_MOD = (time + ms - TIME_MOD) % TIME_MOD
    <3>1. time + ms = (time + ms - TIME_MOD) + 1 * TIME_MOD
      BY <1>1
    <3>2. time + ms \in Int /\ time + ms - TIME_MOD \in Int /\ 1 \in Int
      BY <1>1
    <3> QED
      BY <1>1, <3>1, <3>2, SameRemainder, Zenon
  <2> QED
    BY <1>1, <1>3, <2>1, <2>2, SmallRemainder DEF Later, Times
<1> QED
  BY <1>1, <1>2, <1>3

\* A time stamp that moves on: away from one behind it, towards one ahead of
\* it, and past that one.
LEMMA MovesAway ==
    ASSUME NEW from \in Times, NEW to \in Times, NEW ms \in Times,
           Elapsed(from, to) + ms < TIME_MOD
    PROVE  Elapsed(from, Later(to, ms)) = Elapsed(from, to) + ms
<1> DEFINE l == Later(to, ms)
           e == Elapsed(from, to)
<1>1. l = (IF to + ms < TIME_MOD THEN to + ms ELSE to + ms - TIME_MOD) /\ l \in Times
  BY LaterFacts
<1>2. e = IF from <= to THEN to - from ELSE to - from + TIME_MOD
  BY ElapsedFacts
<1> HIDE DEF l, e
<1>3. Elapsed(from, l) = IF from <= l THEN l - from ELSE l - from + TIME_MOD
  BY <1>1, ElapsedFacts
<1>4. e + ms < TIME_MOD
  BY DEF e
<1>5. Elapsed(from, l) = e + ms
  BY <1>1, <1>2, <1>3, <1>4, TimebaseAssumption DEF Times
<1> QED
  BY <1>5 DEF l, e

LEMMA MovesTowards ==
    ASSUME NEW from \in Times, NEW to \in Times, NEW ms \in Times, ms <= Elapsed(from, to)
    PROVE  Elapsed(Later(from, ms), to) = Elapsed(from, to) - ms
<1> DEFINE l == Later(from, ms)
           e == Elapsed(from, to)
<1>1. l = (IF from + ms < TIME_MOD THEN from + ms ELSE from + ms - TIME_MOD) /\ l \in Times
  BY LaterFacts
<1>2. e = IF from <= to THEN to - from ELSE to - from + TIME_MOD
  BY ElapsedFacts
<1> HIDE DEF l, e
<1>3. Elapsed(l, to) = IF l <= to THEN to - l ELSE to - l + TIME_MOD
  BY <1>1, ElapsedFacts
<1>4. ms <= e
  BY DEF e
<1>5. Elapsed(l, to) = e - ms
  BY <1>1, <1>2, <1>3, <1>4, TimebaseAssumption DEF Times
<1> QED
  BY <1>5 DEF l, e

LEMMA MovesPast ==
    ASSUME NEW from \in Times, NEW to \in Times, NEW ms \in Times, Elapsed(from, to) <= ms
    PROVE  Elapsed(to, Later(from, ms)) = ms - Elapsed(from, to)
<1> DEFINE l == Later(from, ms)
           e == Elapsed(from, to)
<1>1. l = (IF from + ms < TIME_MOD THEN from + ms ELSE from + ms - TIME_MOD) /\ l \in Times
  BY LaterFacts
<1>2. e = IF from <= to THEN to - from ELSE to - from + TIME_MOD
  BY ElapsedFacts
<1> HIDE DEF l, e
<1>3. Elapsed(to, l) = IF to <= l THEN l - to ELSE l - to + TIME_MOD
  BY <1>1, ElapsedFacts
<1>4. e <= ms
  BY DEF e
<1>5. Elapsed(to, l) = ms - e
  BY <1>1, <1>2, <1>3, <1>4, TimebaseAssumption DEF Times
<1> QED
  BY <1>5 DEF l, e

LEMMA LaterStill ==
    ASSUME NEW time \in Times, NEW ms \in Nat, ms + 1 \in Times
    PROVE  Later(Later(time, ms), 1) = Later(time, ms + 1)
<1> DEFINE l == Later(time, ms)
<1>1. ms \in Times /\ 1 \in Times
  BY TimebaseAssumption DEF Times
<1>2. l = (IF time + ms < TIME_MOD THEN time + ms ELSE time + ms - TIME_MOD) /\ l \in Times
  BY <1>1, LaterFacts
<1> HIDE DEF l
<1>3. Later(l, 1) = IF l + 1 < TIME_MOD THEN l + 1 ELSE l + 1 - TIME_MOD
  BY <1>1, <1>2, LaterFacts
<1> DEFINE m == ms + 1
<1>4. m \in Times /\ m = ms + 1
  OBVIOUS
<1> HIDE DEF m
<1>5. Later(time, m) = IF time + m < TIME_MOD THEN time + m ELSE time + m - TIME_MOD
  BY <1>4, LaterFacts
<1>6. Later(l, 1) = Later(time, m)
  BY <1>1, <1>2, <1>3, <1>4, <1>5, TimebaseAssumption DEF Times
<1> QED
  BY <1>6 DEF l, m

LEMMA LaterNow ==
    ASSUME NEW time \in Times
    PROVE  Later(time, 0) = time /\ Elapsed(time, time) = 0
<1>1. 0 \in Times
  BY TimebaseAssumption DEF Times
<1>2. Later(time, 0) = IF time + 0 < TIME_MOD THEN time + 0 ELSE time + 0 - TIME_MOD
  BY <1>1, LaterFacts, Zenon
<1> QED
  BY <1>2, ElapsedFacts, TimebaseAssumption DEF Times

\* Two time stamps counted from a third.
LEMMA Between ==
    ASSUME NEW from \in Times, NEW a \in Times, NEW b \in Times,
           Elapsed(from, a) <= Elapsed(from, b)
    PROVE  Elapsed(a, b) = Elapsed(from, b) - Elapsed(from, a)
<1> DEFINE x == Elapsed(from, a)
           y == Elapsed(from, b)
<1>1. x = IF from <= a THEN a - from ELSE a - from + TIME_MOD
  BY ElapsedFacts
<1>2. y = IF from <= b THEN b - from ELSE b - from + TIME_MOD
  BY ElapsedFacts
<1>3. Elapsed(a, b) = IF a <= b THEN b - a ELSE b - a + TIME_MOD
  BY ElapsedFacts
<1>4. x <= y
  OBVIOUS
<1> HIDE DEF x, y
<1>5. Elapsed(a, b) = y - x
  BY <1>1, <1>2, <1>3, <1>4, TimebaseAssumption DEF Times
<1> QED
  BY <1>5 DEF x, y

-----------------------------------------------------------------------------
(* The watchdog.                                                           *)

\* The deadline lies ahead of the sample, or the sample went past it in the
\* iteration it began; and what may still pass until the feed is accounted for.
FeedAhead ==
    /\ Elapsed(now_ms, next_feed_ms) \in 1 .. INTERVAL_MS
    /\ unfed_ms + Elapsed(now_ms, next_feed_ms) < INTERVAL_MS + PULSE_MS + MaxLoop + loop_ms

FeedLate ==
    /\ Elapsed(next_feed_ms, now_ms) < MaxLoop
    /\ unfed_ms < INTERVAL_MS + PULSE_MS + MaxLoop + loop_ms + Elapsed(next_feed_ms, now_ms)

\* In a pulse, the deadline is counted from its start, which is at most an
\* iteration more than PULSE_MS behind.
PulseUnderWay ==
    /\ Elapsed(pulse_start_ms, next_feed_ms) \in 1 .. INTERVAL_MS
    /\ Elapsed(pulse_start_ms, now_ms) < PULSE_MS + (IF mpc = "poll" THEN MaxLoop ELSE 0)
    /\ unfed_ms <= Elapsed(pulse_start_ms, now_ms) + loop_ms

WatchdogInv ==
    /\ {time_ms, now_ms, next_feed_ms, pulse_start_ms} \subseteq Times
    /\ mpc \in {"sample", "poll"} /\ state \in {"IDLE", "PULSE_HIGH"}
    /\ loop_ms \in 0 .. MaxLoop /\ unfed_ms \in Nat
    /\ time_ms = Later(now_ms, loop_ms)
    /\ state = "IDLE" => FeedAhead \/ (mpc = "poll" /\ FeedLate)
    /\ state = "PULSE_HIGH" => PulseUnderWay

LEMMA WatchdogConstants ==
    /\ TIME_MOD \in Nat /\ MaxLoop \in Nat /\ INTERVAL_MS \in Nat /\ PULSE_MS \in Nat
    /\ 0 < PULSE_MS /\ PULSE_MS < INTERVAL_MS
    /\ TIME_MOD \div 2 \in Nat /\ TIME_MOD = 2 * (TIME_MOD \div 2)
    /\ INTERVAL_MS + 2 * MaxLoop < TIME_MOD \div 2
BY TimebaseAssumption, SchedulerAssumption

\* A deadline that passed less than half a counter ago gives way to one that
\* lies ahead, by at most one interval.
LEMMA NextDeadlineAhead ==
    ASSUME now_ms \in Times, next_feed_ms \in Times, Passed(next_feed_ms, now_ms)
    PROVE  NextDeadline \in Times /\ Elapsed(now_ms, NextDeadline) \in 1 .. INTERVAL_MS
<1> DEFINE e == Elapsed(next_feed_ms, now_ms)
           q == e \div INTERVAL_MS
           k == (q + 1) * INTERVAL_MS
<1>1. e \in Times /\ e < TIME_MOD \div 2
  BY ElapsedFacts DEF Passed
<1>2. e = q * INTERVAL_MS + (e % INTERVAL_MS) /\ e % INTERVAL_MS \in 0 .. INTERVAL_MS - 1
      /\ q \in Int
  BY <1>1, WatchdogConstants, DivMod DEF Times
<1>3. k = q * INTERVAL_MS + INTERVAL_MS /\ q * INTERVAL_MS \in Int
  BY <1>2, WatchdogConstants, SMTT(20)
<1>4. NextDeadline = Later(next_feed_ms, k)
  BY DEF NextDeadline
<1> HIDE DEF q, k
<1>5. k \in Times /\ e <= k /\ k - e \in 1 .. INTERVAL_MS
  <2> HIDE DEF e
  <2> QED
    BY <1>1, <1>2, <1>3, WatchdogConstants DEF Times
<1>6. Elapsed(now_ms, NextDeadline) = k - e
  BY <1>4, <1>5, MovesPast
<1> QED
  BY <1>4, <1>5, <1>6, LaterFacts

LEMMA WatchdogInitially == SchedulerInit => WatchdogInv
<1> SUFFICES ASSUME SchedulerInit PROVE WatchdogInv
  OBVIOUS
<1>1. time_ms \in Times /\ INTERVAL_MS \in Times
  BY WatchdogConstants DEF SchedulerInit, Times
<1>2. now_ms = time_ms /\ next_feed_ms = Later(now_ms, INTERVAL_MS) /\ pulse_start_ms = now_ms
  BY DEF SchedulerInit
<1>3. next_feed_ms \in Times /\ Elapsed(now_ms, now_ms) = 0 /\ time_ms = Later(now_ms, 0)
  BY <1>1, <1>2, LaterFacts, LaterNow
<1>4. Elapsed(now_ms, next_feed_ms) = INTERVAL_MS - 0
  BY <1>1, <1>2, <1>3, MovesPast, WatchdogConstants
<1>5. FeedAhead
  BY <1>4, WatchdogConstants DEF FeedAhead, SchedulerInit
<1> QED
  BY <1>1, <1>2, <1>3, <1>5, WatchdogConstants DEF WatchdogInv, SchedulerInit

\* SysTick_Handler moves the clock and everything that is counted from it.
LEMMA WatchdogTick == WatchdogInv /\ Tick => WatchdogInv'
<1> SUFFICES ASSUME WatchdogInv, Tick PROVE WatchdogInv'
  OBVIOUS
<1>1. /\ loop_ms \in Nat /\ loop_ms < MaxLoop /\ loop_ms' = loop_ms + 1
      /\ time_ms' = Later(time_ms, 1)
      /\ UNCHANGED <<now_ms, mpc, state, next_feed_ms, pulse_start_ms>>
  BY WatchdogConstants DEF Tick, WatchdogInv
<1>2. unfed_ms' \in Nat /\ unfed_ms' <= unfed_ms + 1
  BY WatchdogConstants DEF Tick, Capped, WatchdogInv, UnfedLimit
<1>3. loop_ms + 1 \in Times /\ now_ms \in Times /\ time_ms = Later(now_ms, loop_ms)
  BY <1>1, WatchdogConstants DEF WatchdogInv, Times
<1>4. time_ms' = Later(now_ms, loop_ms + 1) /\ time_ms' \in Times
  BY <1>1, <1>3, LaterStill, LaterFacts
<1>5. /\ Elapsed(now_ms, next_feed_ms)' = Elapsed(now_ms, next_feed_ms)
      /\ Elapsed(next_feed_ms, now_ms)' = Elapsed(next_feed_ms, now_ms)
      /\ Elapsed(pulse_start_ms, now_ms)' = Elapsed(pulse_start_ms, now_ms)
      /\ Elapsed(pulse_start_ms, next_feed_ms)' = Elapsed(pulse_start_ms, next_feed_ms)
  BY <1>1 DEF Elapsed
<1>6. /\ Elapsed(now_ms, next_feed_ms) \in Nat /\ Elapsed(next_feed_ms, now_ms) \in Nat
      /\ Elapsed(pulse_start_ms, now_ms) \in Nat /\ unfed_ms \in Nat
  BY ElapsedFacts DEF WatchdogInv, Times
<1>7. FeedAhead => FeedAhead'
  BY <1>1, <1>2, <1>5, <1>6, WatchdogConstants DEF FeedAhead
<1>8. FeedLate => FeedLate'
  BY <1>1, <1>2, <1>5, <1>6, WatchdogConstants DEF FeedLate
<1>9. PulseUnderWay => PulseUnderWay'
  BY <1>1, <1>2, <1>5, <1>6, WatchdogConstants DEF PulseUnderWay
<1>10. loop_ms' \in 0 .. MaxLoop /\ time_ms' = Later(now_ms, loop_ms)'
  BY <1>1, <1>4, WatchdogConstants DEF Later
<1> QED
  BY <1>1, <1>2, <1>4, <1>7, <1>8, <1>9, <1>10 DEF WatchdogInv

\* The sample of an iteration, at most MaxLoop after the one before.
LEMMA WatchdogSample == WatchdogInv /\ Sample => WatchdogInv'
<1> SUFFICES ASSUME WatchdogInv, Sample PROVE WatchdogInv'
  OBVIOUS
<1>1. /\ mpc = "sample" /\ mpc' = "poll" /\ now_ms' = time_ms /\ loop_ms' = 0
      /\ UNCHANGED <<time_ms, state, next_feed_ms, pulse_start_ms, unfed_ms>>
  BY DEF Sample
<1>2. /\ time_ms \in Times /\ now_ms \in Times /\ next_feed_ms \in Times
      /\ pulse_start_ms \in Times
      /\ loop_ms \in 0 .. MaxLoop /\ loop_ms \in Times /\ unfed_ms \in Nat
      /\ time_ms = Later(now_ms, loop_ms)
  BY WatchdogConstants DEF WatchdogInv, Times
<1>3. time_ms = Later(time_ms, 0)
  BY <1>2, LaterNow
<1>4. ASSUME state = "IDLE" PROVE FeedAhead' \/ FeedLate'
  <2> DEFINE d == Elapsed(now_ms, next_feed_ms)
  <2>1. d \in 1 .. INTERVAL_MS /\ unfed_ms + d < INTERVAL_MS + PULSE_MS + MaxLoop + loop_ms
    BY <1>1, <1>4 DEF WatchdogInv, FeedAhead
  <2>2. CASE loop_ms < d
    <3>1. Elapsed(time_ms, next_feed_ms) = d - loop_ms
      BY <1>2, <2>1, <2>2, MovesTowards
    <3>2. Elapsed(now_ms, next_feed_ms)' = d - loop_ms
      BY <1>1, <3>1
    <3> HIDE DEF d
    <3>3. FeedAhead'
      BY <1>1, <1>2, <2>1, <2>2, <3>2, WatchdogConstants DEF FeedAhead
    <3> QED
      BY <3>3
  <2>3. CASE loop_ms >= d
    <3>1. Elapsed(next_feed_ms, time_ms) = loop_ms - d
      BY <1>2, <2>1, <2>3, MovesPast
    <3>2. Elapsed(next_feed_ms, now_ms)' = loop_ms - d
      BY <1>1, <3>1
    <3> HIDE DEF d
    <3>3. FeedLate'
      BY <1>1, <1>2, <2>1, <2>3, <3>2, WatchdogConstants DEF FeedLate
    <3> QED
      BY <3>3
  <2> QED
    BY <1>2, <2>1, <2>2, <2>3, WatchdogConstants
<1>5. ASSUME state = "PULSE_HIGH" PROVE PulseUnderWay'
  <2> DEFINE a == Elapsed(pulse_start_ms, now_ms)
  <2>1. /\ a < PULSE_MS /\ a \in Nat /\ unfed_ms <= a + loop_ms
        /\ Elapsed(pulse_start_ms, next_feed_ms) \in 1 .. INTERVAL_MS
    BY <1>1, <1>2, <1>5, ElapsedFacts, WatchdogConstants DEF WatchdogInv, PulseUnderWay, Times
  <2>2. a + loop_ms < TIME_MOD
    BY <1>2, <2>1, WatchdogConstants
  <2>3. Elapsed(pulse_start_ms, time_ms) = a + loop_ms
    BY <1>2, <2>2, MovesAway
  <2>4. /\ Elapsed(pulse_start_ms, now_ms)' = a + loop_ms
        /\ Elapsed(pulse_start_ms, next_feed_ms)' = Elapsed(pulse_start_ms, next_feed_ms)
    BY <1>1, <2>3
  <2> HIDE DEF a
  <2> QED
    BY <1>1, <1>2, <2>1, <2>4, WatchdogConstants DEF PulseUnderWay
<1> QED
  BY <1>1, <1>2, <1>3, <1>4, <1>5, WatchdogConstants DEF WatchdogInv

\* A poll that does nothing.
LEMMA WatchdogWaits ==
    WatchdogInv /\ (PulseGoesOn \/ FeedNotDue \/ UNCHANGED scheduler_vars) => WatchdogInv'
<1>1. ASSUME WatchdogInv, UNCHANGED scheduler_vars PROVE WatchdogInv'
  BY <1>1 DEF WatchdogInv, scheduler_vars, FeedAhead, FeedLate, PulseUnderWay, Elapsed, Later
<1>2. ASSUME WatchdogInv, PulseGoesOn PROVE WatchdogInv'
  <2>1. /\ mpc = "poll" /\ state = "PULSE_HIGH" /\ mpc' = "sample"
        /\ ~(Elapsed(pulse_start_ms, now_ms) >= PULSE_MS)
        /\ UNCHANGED <<time_ms, now_ms, loop_ms, state, next_feed_ms, pulse_start_ms, unfed_ms>>
    BY <1>2 DEF PulseGoesOn, Poll, PulseOver
  <2>2. Elapsed(pulse_start_ms, now_ms) \in Nat
    BY <1>2, ElapsedFacts DEF WatchdogInv, Times
  <2>3. PulseUnderWay
    BY <1>2, <2>1 DEF WatchdogInv
  <2>4. PulseUnderWay'
    BY <2>1, <2>2, <2>3, WatchdogConstants DEF PulseUnderWay, Elapsed
  <2> QED
    BY <1>2, <2>1, <2>4 DEF WatchdogInv, Later
<1>3. ASSUME WatchdogInv, FeedNotDue PROVE WatchdogInv'
  <2>1. /\ mpc = "poll" /\ state = "IDLE" /\ mpc' = "sample"
        /\ ~(Elapsed(next_feed_ms, now_ms) < TIME_MOD \div 2)
        /\ UNCHANGED <<time_ms, now_ms, loop_ms, state, next_feed_ms, pulse_start_ms, unfed_ms>>
    BY <1>3 DEF FeedNotDue, Poll, Passed
  <2>2. Elapsed(next_feed_ms, now_ms) \in Nat
    BY <1>3, ElapsedFacts DEF WatchdogInv, Times
  <2>3. ~FeedLate
    BY <2>1, <2>2, WatchdogConstants DEF FeedLate
  <2>4. FeedAhead'
    BY <1>3, <2>1, <2>3 DEF WatchdogInv, FeedAhead, Elapsed
  <2> QED
    BY <1>3, <2>1, <2>4 DEF WatchdogInv, Later
<1> QED
  BY <1>1, <1>2, <1>3

LEMMA WatchdogFeed == WatchdogInv /\ Feed => WatchdogInv'
<1> SUFFICES ASSUME WatchdogInv, Feed PROVE WatchdogInv'
  OBVIOUS
<1>1. /\ Passed(next_feed_ms, now_ms) /\ mpc' = "sample" /\ state' = "PULSE_HIGH"
      /\ pulse_start_ms' = now_ms /\ next_feed_ms' = NextDeadline /\ unfed_ms' = 0
      /\ UNCHANGED <<time_ms, now_ms, loop_ms>>
  BY DEF Feed, Poll
<1>2. /\ now_ms \in Times /\ next_feed_ms \in Times
      /\ NextDeadline \in Times /\ Elapsed(now_ms, NextDeadline) \in 1 .. INTERVAL_MS
      /\ Elapsed(now_ms, now_ms) = 0
  BY <1>1, NextDeadlineAhead, LaterNow DEF WatchdogInv
<1>3. /\ Elapsed(pulse_start_ms, next_feed_ms)' = Elapsed(now_ms, NextDeadline)
      /\ Elapsed(pulse_start_ms, now_ms)' = Elapsed(now_ms, now_ms)
  BY <1>1 DEF Elapsed
<1>4. PulseUnderWay'
  BY <1>1, <1>2, <1>3, WatchdogConstants DEF PulseUnderWay, WatchdogInv
<1> QED
  BY <1>1, <1>2, <1>4 DEF WatchdogInv, Later

\* The end of a pulse: the deadline lies ahead, or gives way to one that does.
LEMMA WatchdogPulseEnds == WatchdogInv /\ PulseEnds => WatchdogInv'
<1> SUFFICES ASSUME WatchdogInv, PulseEnds PROVE WatchdogInv'
  OBVIOUS
<1>1. /\ mpc = "poll" /\ state = "PULSE_HIGH" /\ mpc' = "sample" /\ state' = "IDLE"
      /\ next_feed_ms' = IF Passed(next_feed_ms, now_ms) THEN NextDeadline ELSE next_feed_ms
      /\ UNCHANGED <<time_ms, now_ms, loop_ms, pulse_start_ms, unfed_ms>>
  BY DEF PulseEnds, Poll
<1>2. /\ now_ms \in Times /\ next_feed_ms \in Times /\ pulse_start_ms \in Times
      /\ loop_ms \in Nat /\ unfed_ms \in Nat
  BY WatchdogConstants DEF WatchdogInv
<1> DEFINE a == Elapsed(pulse_start_ms, now_ms)
           d == Elapsed(pulse_start_ms, next_feed_ms)
<1>3. /\ a \in Nat /\ a < PULSE_MS + MaxLoop /\ unfed_ms <= a + loop_ms
      /\ d \in 1 .. INTERVAL_MS
  BY <1>1, <1>2, ElapsedFacts DEF WatchdogInv, PulseUnderWay, Times
<1>4. next_feed_ms' \in Times /\ Elapsed(now_ms, next_feed_ms') \in 1 .. INTERVAL_MS
  <2>1. CASE Passed(next_feed_ms, now_ms)
    BY <1>1, <1>2, <2>1, NextDeadlineAhead
  <2>2. CASE ~Passed(next_feed_ms, now_ms)
    <3>1. d > a
      <4> SUFFICES ASSUME d <= a PROVE FALSE
        BY <1>3
      <4>1. Elapsed(next_feed_ms, now_ms) = a - d
        BY <1>2, Between
      <4> HIDE DEF a, d
      <4> QED
        BY <1>3, <2>2, <4>1, WatchdogConstants DEF Passed
    <3>2. Elapsed(now_ms, next_feed_ms) = d - a
      BY <1>2, <1>3, <3>1, Between
    <3>3. next_feed_ms' = next_feed_ms
      BY <1>1, <2>2
    <3> HIDE DEF a, d
    <3> QED
      BY <1>2, <1>3, <3>1, <3>2, <3>3, WatchdogConstants
  <2> QED
    BY <2>1, <2>2
<1>5. Elapsed(now_ms, next_feed_ms)' = Elapsed(now_ms, next_feed_ms')
  BY <1>1
<1>6. FeedAhead'
  <2> HIDE DEF a, d
  <2> QED
    BY <1>1, <1>2, <1>3, <1>4, <1>5, WatchdogConstants DEF FeedAhead
<1> QED
  BY <1>1, <1>4, <1>6 DEF WatchdogInv, Later

LEMMA WatchdogInvariant == SchedulerSpec => []WatchdogInv
<1>1. WatchdogInv /\ [SchedulerNext]_scheduler_vars => WatchdogInv'
  BY WatchdogTick, WatchdogSample, WatchdogWaits, WatchdogFeed, WatchdogPulseEnds
     DEF SchedulerNext, MainStep
<1> QED
  BY <1>1, WatchdogInitially, PTL DEF SchedulerSpec

\* For every interval, pulse and iteration of the main loop and across every
\* wrap of the clock, the deadline that a poll leaves lies ahead, by at most
\* one interval.
THEOREM DeadlinesAreAhead == SchedulerSpec => []DeadlineIsAhead
<1>1. WatchdogInv => DeadlineIsAhead
  BY DEF WatchdogInv, FeedAhead, DeadlineIsAhead
<1> QED
  BY <1>1, WatchdogInvariant, PTL

\* For every interval, pulse and iteration, the watchdog is fed in less than
\* the interval, a pulse and three iterations.
THEOREM AlwaysFedInTime == SchedulerSpec => []FedInTime
<1>1. WatchdogInv => FedInTime
  <2> SUFFICES ASSUME WatchdogInv PROVE unfed_ms <= UnfedLimit
    BY DEF FedInTime
  <2>1. /\ loop_ms \in 0 .. MaxLoop /\ unfed_ms \in Nat
        /\ Elapsed(next_feed_ms, now_ms) \in Nat /\ Elapsed(pulse_start_ms, now_ms) \in Nat
    BY ElapsedFacts DEF WatchdogInv, Times
  <2>2. CASE FeedAhead
    BY <2>1, <2>2, WatchdogConstants DEF FeedAhead, UnfedLimit
  <2>3. CASE FeedLate
    BY <2>1, <2>3, WatchdogConstants DEF FeedLate, UnfedLimit
  <2>4. CASE PulseUnderWay
    BY <2>1, <2>4, WatchdogConstants DEF PulseUnderWay, UnfedLimit
  <2> QED
    BY <2>2, <2>3, <2>4 DEF WatchdogInv
<1> QED
  BY <1>1, WatchdogInvariant, PTL

-----------------------------------------------------------------------------
(* The status LED.                                                         *)

Lit == IF logical_on THEN interval_ms ELSE 0

\* The scheduler is at most an iteration more than a period behind, and what
\* it has not caught up with is what separates the LED from its rhythm.
LedBehind ==
    /\ led_pc = "sample" =>
          /\ Elapsed(previous_ms, led_time) < interval_ms + led_loop
          /\ beat = (Elapsed(previous_ms, led_time) + Lit) % (2 * interval_ms)
          /\ logical_on <=> now_beat >= interval_ms
    /\ led_pc = "poll" =>
          /\ led_time = Later(led_now, led_loop)
          /\ Elapsed(previous_ms, led_now) < interval_ms + MaxLoop
          /\ now_beat = (Elapsed(previous_ms, led_now) + Lit) % (2 * interval_ms)
          /\ beat = (Elapsed(previous_ms, led_now) + Lit + led_loop) % (2 * interval_ms)

LedInv ==
    /\ {led_time, led_now, previous_ms} \subseteq Times
    /\ led_pc \in {"start", "sample", "poll"}
    /\ led_pc = "start" => led_mode = "BOOTING"
    /\ led_mode \in boot_led_mode_t
    /\ logical_on \in BOOLEAN
    /\ led_loop \in 0 .. MaxLoop
    /\ interval_ms # 0 /\ ~framed => LedBehind

LEMMA LedConstants ==
    ASSUME led_mode \in boot_led_mode_t
    PROVE  /\ TIME_MOD \in Nat /\ MaxLoop \in Nat /\ interval_ms \in Nat
           /\ interval_ms # 0 => interval_ms + MaxLoop < TIME_MOD
<1>1. interval_ms \in {UPDATE_MS, RECOVERY_MS, FATAL_MS, 0}
  BY DEF interval_ms, mode_interval, boot_led_mode_t
<1> QED
  BY <1>1, TimebaseAssumption, LedAssumption

\* The remainder of the next number.
LEMMA NextRemainder ==
    ASSUME NEW n \in Nat, n > 0, NEW x \in Nat
    PROVE  ((x % n) + 1) % n = (x + 1) % n
<1> DEFINE q == x \div n
           r == x % n
<1>1. x = q * n + r /\ r \in Int /\ q \in Int
  BY DivMod
<1> HIDE DEF q, r
<1> DEFINE y == x + 1
           s == r + 1
<1>2. y = s + q * n /\ y \in Int /\ s \in Int
  BY <1>1, SMTT(20)
<1> HIDE DEF y, s
<1>3. y % n = s % n
  BY <1>1, <1>2, SameRemainder
<1> QED
  BY <1>3 DEF r, y, s

\* The periods of a poll turn the LED over as often as they take from what has
\* elapsed: together, a multiple of two intervals.
LEMMA TurnsOver ==
    ASSUME NEW i \in Nat, i > 0, NEW e \in Nat, NEW more \in Nat,
           NEW before \in {0, i}, NEW after \in {0, i},
           before = after <=> (e \div i) % 2 # 1
    PROVE  (e + before + more) % (2 * i) = ((e % i) + after + more) % (2 * i)
<1> DEFINE p == e \div i
           r == e % i
           h == p \div 2
           n == 2 * i
<1>1. e = p * i + r /\ r \in 0 .. i - 1 /\ p \in Int
  BY DivMod
<1>2. p = h * 2 + (p % 2) /\ p % 2 \in 0 .. 1 /\ h \in Int
  BY <1>1, DivMod
<1>3. before = after <=> p % 2 # 1
  OBVIOUS
<1>4. n \in Nat /\ n > 0 /\ n = 2 * i
  OBVIOUS
<1> HIDE DEF p, r, h, n
<1>5. PICK k \in Int : e + before + more = (r + after + more) + k * n
  <2>1. h * n \in Int /\ (h + 1) * n = h * n + n
    BY <1>2, <1>4, SMTT(20)
  <2>2. CASE before = after
    <3>1. p = h * 2
      BY <1>2, <1>3, <2>2
    <3>2. p * i = h * n
      BY <1>2, <1>4, <3>1, SMTT(20)
    <3>3. e + before + more = (r + after + more) + h * n
      BY <1>1, <2>1, <2>2, <3>2
    <3> QED
      BY <1>2, <3>3
  <2>3. CASE before # after
    <3>1. p = h * 2 + 1
      BY <1>2, <1>3, <2>3
    <3>2. p * i = h * n + i
      BY <1>2, <1>4, <3>1, SMTT(20)
    <3>3. CASE before = 0 /\ after = i
      <4>1. e + before + more = (r + after + more) + h * n
        BY <1>1, <2>1, <3>2, <3>3
      <4> QED
        BY <1>2, <4>1
    <3>4. CASE before = i /\ after = 0
      <4> DEFINE g == h + 1
      <4>1. g \in Int /\ g * n = h * n + n
        BY <1>2, <2>1
      <4> HIDE DEF g
      <4>2. e + before + more = (r + after + more) + g * n
        BY <1>1, <1>4, <2>1, <3>2, <3>4, <4>1
      <4> QED
        BY <4>1, <4>2
    <3> QED
      BY <2>3, <3>3, <3>4
  <2> QED
    BY <2>2, <2>3
<1> DEFINE x == e + before + more
           y == r + after + more
<1>6. x \in Int /\ y \in Int /\ x = y + k * n
  BY <1>1, <1>5
<1> HIDE DEF x, y
<1>7. x % n = y % n
  BY <1>4, <1>6, SameRemainder
<1> QED
  BY <1>7 DEF r, n, x, y

LEMMA LedInitially == LedInit => LedInv
<1>1. led_mode = "BOOTING" => interval_ms = 0
  BY DEF interval_ms, mode_interval
<1>2. LedInit => logical_on \in BOOLEAN
  BY Zenon DEF LedInit
<1> QED
  BY <1>1, <1>2, TimebaseAssumption DEF LedInit, LedInv, boot_led_mode_t

\* SysTick_Handler moves the clock and the rhythm alike.
LEMMA LedTicks == LedInv /\ LedTick => LedInv'
<1> SUFFICES ASSUME LedInv, LedTick PROVE LedInv'
  OBVIOUS
<1>1. /\ led_loop \in Nat /\ led_loop < MaxLoop /\ led_loop' = led_loop + 1
      /\ led_time' = Later(led_time, 1)
      /\ UNCHANGED <<led_now, led_pc, led_mode, previous_ms, logical_on, now_beat, framed>>
      /\ interval_ms # 0 => beat' = (beat + 1) % (2 * interval_ms)
  BY TimebaseAssumption DEF LedTick, LedInv
<1>2. interval_ms' = interval_ms /\ Lit' = Lit
  BY <1>1 DEF interval_ms, Lit
<1>3. led_time \in Times /\ led_now \in Times /\ previous_ms \in Times
  BY DEF LedInv
<1>4. ASSUME interval_ms # 0, ~framed PROVE LedBehind'
  <2> DEFINE i == interval_ms
             n == 2 * i
  <2>1. /\ i \in Nat /\ i > 0 /\ i + MaxLoop < TIME_MOD /\ MaxLoop \in Nat
        /\ TIME_MOD \in Nat /\ n \in Nat /\ n > 0 /\ 1 \in Times
    BY <1>4, LedConstants DEF LedInv, Times
  <2>2. Lit \in Nat
    BY <2>1 DEF Lit
  <2>3. LedBehind
    BY <1>4 DEF LedInv
  <2>4. beat' = (beat + 1) % n
    BY <1>1, <1>4
  <2>5. CASE led_pc = "sample"
    <3> DEFINE e == Elapsed(previous_ms, led_time)
               x == e + Lit
    <3>1. e \in Nat /\ e < i + led_loop /\ beat = x % n
      BY <1>3, <2>3, <2>5, ElapsedFacts DEF LedBehind, Times
    <3>2. Elapsed(previous_ms, Later(led_time, 1)) = e + 1
      <4>1. e + 1 < TIME_MOD
        BY <1>1, <2>1, <3>1
      <4> QED
        BY <1>3, <2>1, <4>1, MovesAway
    <3>3. Elapsed(previous_ms, led_time)' = e + 1
      BY <1>1, <3>2
    <3>4. x \in Nat
      BY <2>2, <3>1
    <3>5. beat' = (x + 1) % n
      <4> HIDE DEF x, n
      <4> QED
        BY <2>1, <2>4, <3>1, <3>4, NextRemainder
    <3>6. x + 1 = (e + 1) + Lit
      BY <2>2, <3>1
    <3>7. (logical_on <=> now_beat >= interval_ms)'
      BY <1>1, <1>2, <2>3, <2>5 DEF LedBehind
    <3> HIDE DEF e, x, i
    <3>8. beat' = ((e + 1) + Lit) % (2 * interval_ms)
      BY <3>5, <3>6 DEF i
    <3>9. e + 1 < interval_ms + (led_loop + 1)
      BY <1>1, <2>1, <3>1 DEF i
    <3> QED
      BY <1>1, <1>2, <2>5, <3>3, <3>7, <3>8, <3>9 DEF LedBehind
  <2>6. CASE led_pc = "poll"
    <3> DEFINE e == Elapsed(previous_ms, led_now)
               x == e + Lit + led_loop
    <3>1. /\ e \in Nat /\ e < i + MaxLoop /\ beat = x % n
          /\ led_time = Later(led_now, led_loop) /\ now_beat = (e + Lit) % n
      BY <1>3, <2>3, <2>6, ElapsedFacts DEF LedBehind, Times
    <3>2. e' = e
      BY <1>1
    <3>3. x \in Nat
      BY <1>1, <2>2, <3>1
    <3>4. beat' = (x + 1) % n
      <4> HIDE DEF x, n
      <4> QED
        BY <2>1, <2>4, <3>1, <3>3, NextRemainder
    <3>5. x + 1 = e + Lit + (led_loop + 1)
      BY <1>1, <2>2, <3>1
    <3>6. led_loop + 1 \in Times
      BY <1>1, <2>1 DEF Times
    <3>7. led_time' = Later(led_now, led_loop + 1)
      BY <1>1, <1>3, <3>1, <3>6, LaterStill
    <3> HIDE DEF e, x, i
    <3>8. beat' = (e + Lit + (led_loop + 1)) % (2 * interval_ms)
      BY <3>4, <3>5 DEF i
    <3> QED
      BY <1>1, <1>2, <2>6, <3>1, <3>2, <3>7, <3>8 DEF LedBehind, e, i, Later
  <2> QED
    BY <1>1, <2>5, <2>6 DEF LedBehind
<1>5. led_time' \in Times
  <2>1. 1 \in Times
    BY TimebaseAssumption, LedAssumption DEF Times
  <2> QED
    BY <1>1, <1>3, <2>1, LaterFacts
<1> QED
  BY <1>1, <1>2, <1>3, <1>4, <1>5, TimebaseAssumption DEF LedInv

\* main() sets a mode: the rhythm begins.
LEMMA LedModeSet ==
    ASSUME LedInv, NEW m \in {"UPDATE_WINDOW", "RECOVERY", "FATAL"},
           led_scheduler_set_mode(m), led_pc' = "sample"
    PROVE  LedInv'
<1>1. /\ led_mode' = m /\ previous_ms' = led_time /\ logical_on' = FALSE
      /\ beat' = 0 /\ now_beat' = 0
      /\ UNCHANGED <<led_time, led_now, led_loop>>
  BY DEF led_scheduler_set_mode
<1>2. led_mode' \in boot_led_mode_t
  BY <1>1 DEF boot_led_mode_t
<1>3. interval_ms' \in Nat /\ interval_ms' > 0
  BY <1>1, LedAssumption DEF interval_ms, mode_interval
<1>4. led_time \in Times /\ led_loop \in Nat
  BY TimebaseAssumption DEF LedInv
<1>5. Elapsed(previous_ms, led_time)' = 0
  <2>1. Elapsed(led_time, led_time) = 0
    BY <1>4, LaterNow
  <2> QED
    BY <1>1, <2>1
<1>6. Lit' = 0
  BY <1>1 DEF Lit
<1>7. (0 + 0) % (2 * interval_ms') = 0
  <2> DEFINE j == interval_ms'
             n == 2 * j
  <2>1. j \in Nat /\ j > 0
    BY <1>3
  <2> HIDE DEF j
  <2>2. n \in Nat /\ 0 \in 0 .. n - 1 /\ 0 + 0 = 0
    BY <2>1
  <2> HIDE DEF n
  <2>3. 0 % n = 0
    BY <2>2, SmallRemainder
  <2> QED
    BY <2>2, <2>3 DEF n, j
<1>8. LedBehind'
  <2>1. (Elapsed(previous_ms, led_time) < interval_ms + led_loop)'
    <3> DEFINE j == interval_ms'
               e == Elapsed(previous_ms, led_time)'
    <3>1. j \in Nat /\ j > 0 /\ e = 0
      BY <1>3, <1>5
    <3> HIDE DEF j, e
    <3>2. e < j + led_loop'
      BY <1>1, <1>4, <3>1
    <3> QED
      BY <3>2 DEF j, e
  <2>2. (beat = (Elapsed(previous_ms, led_time) + Lit) % (2 * interval_ms))'
    BY <1>1, <1>5, <1>6, <1>7
  <2>3. (logical_on <=> now_beat >= interval_ms)'
    BY <1>1, <1>3
  <2> QED
    BY <2>1, <2>2, <2>3 DEF LedBehind
<1>9. logical_on' \in BOOLEAN
  BY <1>1, Zenon
<1> QED
  BY <1>1, <1>2, <1>4, <1>8, <1>9 DEF LedInv

LEMMA LedSamples == LedInv /\ LedSample => LedInv'
<1> SUFFICES ASSUME LedInv, LedSample PROVE LedInv'
  OBVIOUS
<1>1. /\ led_pc = "sample" /\ led_pc' = "poll"
      /\ led_now' = led_time /\ now_beat' = beat /\ led_loop' = 0
      /\ UNCHANGED <<led_time, led_mode, previous_ms, logical_on, beat, framed>>
  BY DEF LedSample
<1>2. interval_ms' = interval_ms /\ Lit' = Lit
  BY <1>1 DEF interval_ms, Lit
<1>3. /\ led_time \in Times /\ previous_ms \in Times
      /\ led_loop \in 0 .. MaxLoop /\ MaxLoop \in Nat
  BY TimebaseAssumption DEF LedInv
<1>4. ASSUME interval_ms # 0, ~framed PROVE LedBehind'
  <2> DEFINE e == Elapsed(previous_ms, led_time)
  <2>1. e \in Nat /\ e < interval_ms + led_loop /\ beat = (e + Lit) % (2 * interval_ms)
    BY <1>1, <1>3, <1>4, ElapsedFacts DEF LedInv, LedBehind, Times
  <2>2. interval_ms \in Nat /\ Lit \in Nat
    BY <1>3, LedConstants DEF LedInv, Lit
  <2>3. Elapsed(previous_ms, led_now)' = e
    BY <1>1
  <2>4. led_time = Later(led_time, 0)
    BY <1>3, LaterNow
  <2>5. e + Lit + 0 = e + Lit
    BY <2>1, <2>2
  <2>6. e < interval_ms + MaxLoop
    BY <1>3, <2>1, <2>2
  <2> HIDE DEF e
  <2> QED
    BY <1>1, <1>2, <2>1, <2>3, <2>4, <2>5, <2>6 DEF LedBehind
<1> QED
  BY <1>1, <1>2, <1>3, <1>4 DEF LedInv

\* A poll catches up with all whole periods at once.
LEMMA LedPolls == LedInv /\ led_scheduler_poll => LedInv'
<1> SUFFICES ASSUME LedInv, led_scheduler_poll PROVE LedInv'
  OBVIOUS
<1> DEFINE i == interval_ms
           e == Elapsed(previous_ms, led_now)
           p == IF i = 0 THEN 0 ELSE e \div i
<1>1. /\ led_pc = "poll" /\ led_pc' = "sample"
      /\ previous_ms' = Later(previous_ms, p * i)
      /\ UNCHANGED <<led_time, led_now, led_mode, led_loop, beat, now_beat, framed>>
  BY DEF led_scheduler_poll, Advanced
<1>2. logical_on' = (logical_on # (p % 2 = 1))
  BY DEF led_scheduler_poll
<1>3. logical_on \in BOOLEAN
  BY DEF LedInv
<1>4. logical_on' \in BOOLEAN
  BY <1>2, Zenon
<1>5. /\ led_time \in Times /\ led_now \in Times /\ previous_ms \in Times
      /\ led_loop \in 0 .. MaxLoop /\ MaxLoop \in Nat /\ led_mode \in boot_led_mode_t
  BY TimebaseAssumption DEF LedInv
<1>6. i \in Nat /\ e \in Times /\ e \in Nat
  BY <1>5, LedConstants, ElapsedFacts DEF Times
<1>7. interval_ms' = i
  BY <1>1 DEF interval_ms
<1>8. CASE i = 0
  <2>1. p * i = 0
    BY <1>8
  <2>2. previous_ms' = previous_ms
    BY <1>1, <1>5, <2>1, LaterNow
  <2> QED
    BY <1>1, <1>4, <1>5, <1>7, <1>8, <2>2 DEF LedInv
<1>9. CASE i # 0
  <2> DEFINE r == e % i
             n == 2 * i
  <2>1. p = e \div i /\ e = p * i + r /\ r \in 0 .. i - 1 /\ p \in Int
    BY <1>6, <1>9, DivMod
  <2>2. p * i \in Times /\ p * i <= e
    <3>1. p * i \in Int /\ p * i <= e /\ p * i > -i
      BY <1>6, <1>9, <2>1, SMTT(20)
    <3>2. p >= 0
      BY <1>6, <1>9, <2>1, <3>1, SMTT(20)
    <3>3. p * i >= 0
      BY <1>6, <2>1, <3>2, SMTT(20)
    <3> HIDE DEF p, i, e
    <3> QED
      BY <1>6, <3>1, <3>3, TimebaseAssumption DEF Times
  <2>3. previous_ms' \in Times /\ Elapsed(previous_ms', led_now) = r
    <3>1. Elapsed(Later(previous_ms, p * i), led_now) = e - p * i
      BY <1>5, <2>2, MovesTowards
    <3>2. e - p * i = r
      BY <1>6, <2>1, <2>2 DEF Times
    <3> QED
      BY <1>1, <1>5, <2>2, <3>1, <3>2, LaterFacts
  <2>4. ASSUME ~framed PROVE LedBehind'
    <3>1. /\ led_time = Later(led_now, led_loop)
          /\ now_beat = (e + Lit) % n
          /\ beat = (e + Lit + led_loop) % n
          /\ i + MaxLoop < TIME_MOD /\ TIME_MOD \in Nat
      BY <1>1, <1>5, <1>9, <2>4, LedConstants DEF LedInv, LedBehind
    <3>2. /\ Lit \in {0, i} /\ Lit' \in {0, i}
          /\ logical_on' <=> Lit' = i
      BY <1>7, <1>9 DEF Lit
    <3>3. Lit = Lit' <=> (e \div i) % 2 # 1
      <4>1. (logical_on <=> logical_on') <=> p % 2 # 1
        BY <1>2, <1>3, <1>4, Zenon
      <4>2. Lit = Lit' <=> (logical_on <=> logical_on')
        BY <1>7, <1>9 DEF Lit
      <4> QED
        BY <2>1, <4>1, <4>2
    <3> DEFINE after == Lit'
    <3>4. \A more \in Nat : (e + Lit + more) % n = (r + after + more) % n
      <4>1. /\ i \in Nat /\ i > 0 /\ e \in Nat /\ Lit \in {0, i} /\ after \in {0, i}
            /\ Lit = after <=> (e \div i) % 2 # 1
        BY <1>6, <1>9, <3>2, <3>3
      <4> DEFINE before == Lit
      <4> HIDE DEF e, i, after, before
      <4>2. ASSUME NEW more \in Nat
            PROVE  (e + before + more) % (2 * i) = ((e % i) + after + more) % (2 * i)
        BY <4>1, TurnsOver DEF before
      <4> QED
        BY <4>2 DEF before
    <3>5. now_beat = r + Lit'
      <4>1. (e + Lit) % n = (r + after) % n
        <5>1. (e + Lit + 0) % n = (r + after + 0) % n
          BY <3>4
        <5>2. e + Lit + 0 = e + Lit /\ r + after + 0 = r + after
          BY <1>6, <2>1, <3>2
        <5> QED
          BY <5>1, <5>2
      <4>2. n \in Nat /\ r + after \in 0 .. n - 1
        <5>1. r \in 0 .. i - 1 /\ i \in Nat /\ i > 0 /\ after \in {0, i}
          BY <1>6, <1>9, <2>1, <3>2
        <5> HIDE DEF i, r, after
        <5> QED
          BY <5>1
      <4> DEFINE x == r + after
      <4> HIDE DEF n, r, after, x
      <4>3. x % n = x
        BY <4>2, SmallRemainder DEF x
      <4> QED
        BY <3>1, <4>1, <4>3 DEF x, after
    <3>6. beat = (r + Lit' + led_loop) % n
      BY <1>5, <3>1, <3>4
    <3>7. Elapsed(previous_ms', led_time) = r + led_loop
      <4>1. Elapsed(previous_ms', led_now) + led_loop < TIME_MOD
        BY <1>5, <1>6, <2>1, <2>3, <3>1
      <4>2. led_loop \in Times
        BY <1>5, <1>6, <3>1 DEF Times
      <4> QED
        BY <1>5, <2>3, <3>1, <4>1, <4>2, MovesAway
    <3>8. (r + led_loop) + Lit' = r + Lit' + led_loop
      BY <1>5, <1>6, <2>1, <3>2
    <3>9. logical_on' <=> now_beat >= i
      BY <1>6, <1>9, <2>1, <3>2, <3>5
    <3>10. Elapsed(previous_ms, led_time)' = r + led_loop
      BY <1>1, <3>7
    <3>11. r + led_loop < i + led_loop
      BY <1>5, <1>6, <2>1
    <3>12. beat' = ((r + led_loop) + Lit') % (2 * interval_ms')
      BY <1>1, <1>7, <3>6, <3>8
    <3>13. (logical_on <=> now_beat >= interval_ms)'
      BY <1>1, <1>7, <3>9
    <3> HIDE DEF r, i, n, p, e
    <3> QED
      BY <1>1, <1>7, <3>10, <3>11, <3>12, <3>13 DEF LedBehind
  <2> QED
    BY <1>1, <1>4, <1>5, <2>3, <2>4 DEF LedInv
<1> QED
  BY <1>8, <1>9

LEMMA LedInvariant == LedSpec => []LedInv
<1>1. LedInv /\ [LedNext]_led_vars => LedInv'
  <2> SUFFICES ASSUME LedInv, [LedNext]_led_vars PROVE LedInv'
    OBVIOUS
  <2>1. CASE StartLoop
    BY <2>1, LedModeSet DEF StartLoop
  <2>2. CASE EnterFatal
    BY <2>2, LedModeSet DEF EnterFatal
  <2>3. CASE HandleFrame
    <3>1. PICK m \in {"UPDATE_WINDOW", "OFF"} : led_scheduler_set_mode(m)
      BY <2>3 DEF HandleFrame
    <3>2. /\ led_mode' = m /\ previous_ms' = led_time /\ framed' /\ led_pc' = led_pc
          /\ logical_on' = (m = "BOOTING")
          /\ UNCHANGED <<led_time, led_now, led_loop>>
      BY <2>3, <3>1 DEF HandleFrame, led_scheduler_set_mode
    <3>3. logical_on' \in BOOLEAN
      BY <3>2, Zenon
    <3> QED
      BY <2>3, <3>2, <3>3 DEF LedInv, HandleFrame, boot_led_mode_t
  <2>4. CASE UNCHANGED led_vars
    BY <2>4 DEF led_vars, LedInv, LedBehind, Lit, interval_ms, Elapsed, Later
  <2> QED
    BY <2>1, <2>2, <2>3, <2>4, LedTicks, LedSamples, LedPolls DEF LedNext
<1> QED
  BY <1>1, LedInitially, PTL DEF LedSpec

\* For every interval and iteration, in a mode that main() set itself, the LED
\* is where its rhythm is, however late the polls come.
THEOREM AlwaysBlinksInRhythm == LedSpec => []BlinksInRhythm
<1>1. LedInv => BlinksInRhythm
  BY DEF LedInv, LedBehind, BlinksInRhythm
<1> QED
  BY <1>1, LedInvariant, PTL

-----------------------------------------------------------------------------
(* The receive ring is a queue.                                            *)


USE DEF After, HasRoom

CAP == BSP_I2C_RX_CAPACITY

\* The remainder of a number below twice the divisor.
LEMMA Wrap ==
    ASSUME NEW x \in Nat, NEW d \in Nat, d > 0, x < 2 * d
    PROVE  x % d = IF x < d THEN x ELSE x - d
<1>1. x = (x \div d) * d + (x % d) /\ x % d \in 0 .. d - 1 /\ x \div d \in Nat
  BY SMTT(20)
<1> DEFINE q == x \div d
           r == x % d
<1>2. x = q * d + r /\ r \in 0 .. d - 1 /\ q \in Nat
  BY <1>1
<1> HIDE DEF q, r
<1>3. q < 2
  BY <1>2, SMTT(20)
<1>4. CASE q = 0
  BY <1>2, <1>4 DEF r
<1>5. CASE q = 1
  BY <1>2, <1>5 DEF r
<1> QED
  BY <1>2, <1>3, <1>4, <1>5

\* The indexes stay inside the array, whose entries are bytes.
RingInv ==
    /\ data \in [Index -> Bytes]
    /\ _BufferHead \in Index
    /\ _BufferTail \in Index

LEMMA AfterFacts ==
    ASSUME NEW i \in Index
    PROVE  After(i) = (IF i + 1 = CAP THEN 0 ELSE i + 1) /\ After(i) \in Index
<1>1. CAP \in Nat /\ CAP > 0 /\ i \in Nat /\ i < CAP
  BY RingAssumption DEF CAP, Index
<1>2. (i + 1) % CAP = IF i + 1 < CAP THEN i + 1 ELSE i + 1 - CAP
  BY <1>1, Wrap
<1> QED
  BY <1>1, <1>2 DEF CAP, Index

LEMMA RingInvariant == RingSpec => []RingInv
<1>1. RingInit => RingInv
  BY RingAssumption DEF RingInit, RingInv, Index, Zeroed
<1>2. RingInv /\ [RingNext]_ring_vars => RingInv'
  <2> SUFFICES ASSUME RingInv, [RingNext]_ring_vars PROVE RingInv'
    OBVIOUS
  <2>1. ASSUME NEW ch \in Bytes, rxBufferWrite(ch) PROVE RingInv'
    BY <2>1, AfterFacts DEF rxBufferWrite, RingInv
  <2>2. CASE rxBufferRead
    BY <2>2, AfterFacts DEF rxBufferRead, RingInv
  <2>3. CASE Clear
    BY <2>3, RingAssumption DEF Clear, RingInv, Index, Zeroed
  <2>4. CASE UNCHANGED ring_vars
    BY <2>4 DEF ring_vars, RingInv
  <2> QED
    BY <2>1, <2>2, <2>3, <2>4 DEF RingNext
<1> QED
  BY <1>1, <1>2, PTL DEF RingSpec

-----------------------------------------------------------------------------
(* What lies between the indexes.                                          *)

\* The slot of the i-th byte of the ring.
Slot(i) == IF _BufferTail + i - 1 < CAP THEN _BufferTail + i - 1 ELSE _BufferTail + i - 1 - CAP

ContentsLaidOut ==
    /\ rxBufferAvailable = IF _BufferHead < _BufferTail
                           THEN CAP + _BufferHead - _BufferTail
                           ELSE _BufferHead - _BufferTail
    /\ rxBufferAvailable \in 0 .. CAP - 1
    /\ Contents \in Seq(Bytes)
    /\ Len(Contents) = rxBufferAvailable
    /\ \A i \in 1 .. rxBufferAvailable : Contents[i] = data[Slot(i)] /\ Slot(i) \in Index

LEMMA ContentsFacts == RingInv => ContentsLaidOut
<1> SUFFICES ASSUME RingInv PROVE ContentsLaidOut
  OBVIOUS
<1>1. /\ CAP \in Nat /\ CAP > 0
      /\ _BufferHead \in Nat /\ _BufferHead < CAP
      /\ _BufferTail \in Nat /\ _BufferTail < CAP
  BY RingAssumption DEF CAP, Index, RingInv
<1>2. rxBufferAvailable = IF _BufferHead < _BufferTail
                          THEN CAP + _BufferHead - _BufferTail
                          ELSE _BufferHead - _BufferTail
  <2> DEFINE x == CAP + _BufferHead - _BufferTail
  <2>1. x \in Nat /\ x < 2 * CAP
    BY <1>1
  <2> HIDE DEF x
  <2>2. x % CAP = IF x < CAP THEN x ELSE x - CAP
    BY <1>1, <2>1, Wrap
  <2> USE DEF x
  <2> QED
    BY <1>1, <2>2 DEF rxBufferAvailable, CAP
<1>3. rxBufferAvailable \in 0 .. CAP - 1
  BY <1>1, <1>2
<1>4. ASSUME NEW i \in 1 .. rxBufferAvailable
      PROVE  (_BufferTail + i - 1) % CAP = Slot(i) /\ Slot(i) \in Index
  <2>1. _BufferTail + i - 1 \in Nat /\ _BufferTail + i - 1 < 2 * CAP
    BY <1>1, <1>3
  <2>2. (_BufferTail + i - 1) % CAP = Slot(i)
    BY <1>1, <2>1, Wrap DEF Slot
  <2> QED
    BY <1>1, <2>1, <2>2 DEF Slot, Index, CAP
<1>5. \A i \in 1 .. rxBufferAvailable : Contents[i] = data[Slot(i)]
  BY <1>4 DEF Contents, CAP
<1>6. Contents \in Seq(Bytes) /\ Len(Contents) = rxBufferAvailable
  <2>1. Contents \in [1 .. rxBufferAvailable -> Bytes]
    BY <1>4, <1>5 DEF Contents, RingInv
  <2>2. rxBufferAvailable \in Nat
    BY <1>3
  <2> QED
    BY <2>1, <2>2
<1> QED
  BY <1>2, <1>3, <1>4, <1>5, <1>6 DEF ContentsLaidOut

\* The same of the next state.
LEMMA NextContentsFacts == RingInv' => ContentsLaidOut'
BY ContentsFacts, PTL

LEMMA WriteIsPut ==
    ASSUME RingInv, RingInv', NEW ch \in Bytes, rxBufferWrite(ch)
    PROVE  Queue!Put(ch)
<1>1. /\ CAP \in Nat /\ CAP > 0
      /\ _BufferHead \in Nat /\ _BufferHead < CAP
      /\ _BufferTail \in Nat /\ _BufferTail < CAP
  BY RingAssumption DEF CAP, Index, RingInv
<1>2. HasRoom <=> Len(Contents) < CAP - 1
  BY <1>1, ContentsFacts, AfterFacts DEF RingInv, ContentsLaidOut
<1>3. CASE ~HasRoom
  <2>1. Contents' = Contents
    BY <1>3 DEF rxBufferWrite, Contents, rxBufferAvailable
  <2> QED
    BY <1>2, <1>3, <2>1 DEF rxBufferWrite, Queue!Put, CAP
<1>4. CASE HasRoom
  <2> DEFINE n == rxBufferAvailable
  <2>1. /\ n \in Nat /\ n < CAP - 1 /\ Len(Contents) = n
        /\ n = IF _BufferHead < _BufferTail THEN CAP + _BufferHead - _BufferTail
               ELSE _BufferHead - _BufferTail
        /\ Contents \in Seq(Bytes)
        /\ \A i \in 1 .. n : Contents[i] = data[Slot(i)] /\ Slot(i) \in Index
    BY <1>1, <1>2, <1>4, ContentsFacts DEF ContentsLaidOut
  <2>2. /\ _BufferHead' = (IF _BufferHead + 1 = CAP THEN 0 ELSE _BufferHead + 1)
        /\ _BufferTail' = _BufferTail
        /\ data' = [data EXCEPT ![_BufferHead] = ch]
    BY <1>4, AfterFacts DEF rxBufferWrite, RingInv
  <2>3. \A i : Slot(i)' = Slot(i)
    BY <2>2 DEF Slot
  <2>4. /\ n' = IF _BufferHead' < _BufferTail' THEN CAP + _BufferHead' - _BufferTail'
                ELSE _BufferHead' - _BufferTail'
        /\ Contents' \in Seq(Bytes) /\ Len(Contents') = n'
        /\ \A i \in 1 .. n' : Contents'[i] = data'[Slot(i)']
    BY NextContentsFacts DEF ContentsLaidOut
  <2> HIDE DEF n
  <2>5. n' = n + 1
    <3>1. CASE _BufferHead + 1 = CAP
      BY <1>1, <2>1, <2>2, <2>4, <3>1
    <3>2. CASE _BufferHead + 1 # CAP
      <4>1. _BufferHead + 1 # _BufferTail
        BY <1>1, <2>1, <3>2
      <4>2. _BufferHead' = _BufferHead + 1 /\ _BufferTail' = _BufferTail
        BY <2>2, <3>2
      <4> QED
        BY <1>1, <2>1, <2>4, <4>1, <4>2
    <3> QED
      BY <3>1, <3>2
  <2>6. Slot(n + 1) = _BufferHead
    BY <1>1, <2>1 DEF Slot
  <2>7. \A i \in 1 .. n : Slot(i) # _BufferHead
    BY <1>1, <2>1 DEF Slot
  <2>8. \A i \in 1 .. n : Contents'[i] = Contents[i]
    BY <2>1, <2>2, <2>3, <2>4, <2>5, <2>7 DEF RingInv
  <2>9. Contents'[n + 1] = ch
    BY <1>1, <2>1, <2>2, <2>3, <2>4, <2>5, <2>6 DEF RingInv
  <2>10. Contents' = Append(Contents, ch)
    <3>1. /\ Append(Contents, ch) \in Seq(Bytes) /\ Len(Append(Contents, ch)) = n + 1
          /\ \A i \in 1 .. n : Append(Contents, ch)[i] = Contents[i]
          /\ Append(Contents, ch)[n + 1] = ch
      BY <2>1, AppendProperties
    <3>2. \A i \in 1 .. n + 1 : Contents'[i] = Append(Contents, ch)[i]
      BY <2>1, <2>8, <2>9, <3>1
    <3> QED
      BY <2>4, <2>5, <3>1, <3>2, SeqEqual
  <2> QED
    BY <1>2, <1>4, <2>10 DEF rxBufferWrite, Queue!Put, CAP
<1> QED
  BY <1>3, <1>4

LEMMA ReadIsTake ==
    ASSUME RingInv, RingInv', rxBufferRead
    PROVE  Queue!Take
<1>1. /\ CAP \in Nat /\ CAP > 0
      /\ _BufferHead \in Nat /\ _BufferHead < CAP
      /\ _BufferTail \in Nat /\ _BufferTail < CAP
  BY RingAssumption DEF CAP, Index, RingInv
<1> DEFINE n == rxBufferAvailable
<1>2. /\ n \in Nat /\ Len(Contents) = n
      /\ n = IF _BufferHead < _BufferTail THEN CAP + _BufferHead - _BufferTail
             ELSE _BufferHead - _BufferTail
      /\ Contents \in Seq(Bytes)
      /\ \A i \in 1 .. n : Contents[i] = data[Slot(i)] /\ Slot(i) \in Index
  BY <1>1, ContentsFacts DEF ContentsLaidOut
<1>3. _BufferHead = _BufferTail <=> Contents = <<>>
  BY <1>1, <1>2, EmptySeq
<1>4. CASE _BufferHead = _BufferTail
  <2>1. Contents' = Contents /\ c' = 0
    BY <1>4 DEF rxBufferRead, Contents, rxBufferAvailable
  <2> QED
    BY <1>3, <1>4, <2>1 DEF Queue!Take
<1>5. CASE _BufferHead # _BufferTail
  <2>1. /\ _BufferTail' = (IF _BufferTail + 1 = CAP THEN 0 ELSE _BufferTail + 1)
        /\ _BufferHead' = _BufferHead /\ data' = data /\ c' = data[_BufferTail]
    BY <1>5, AfterFacts DEF rxBufferRead, RingInv
  <2>2. /\ n' = IF _BufferHead' < _BufferTail' THEN CAP + _BufferHead' - _BufferTail'
                ELSE _BufferHead' - _BufferTail'
        /\ Contents' \in Seq(Bytes) /\ Len(Contents') = n'
        /\ \A i \in 1 .. n' : Contents'[i] = data'[Slot(i)']
    BY NextContentsFacts DEF ContentsLaidOut
  <2> HIDE DEF n
  <2>3. n' = n - 1 /\ n >= 1
    BY <1>1, <1>2, <1>5, <2>1, <2>2
  <2>4. \A i \in 1 .. n - 1 : Slot(i)' = Slot(i + 1)
    BY <1>1, <1>2, <2>1 DEF Slot, CAP
  <2>5. Slot(1) = _BufferTail
    BY <1>1 DEF Slot
  <2>6. c' = Head(Contents)
    <3>1. Contents[1] = data[_BufferTail]
      BY <1>2, <2>3, <2>5
    <3> QED
      BY <2>1, <3>1
  <2>7. ASSUME NEW i \in 1 .. n - 1 PROVE Contents'[i] = Contents[i + 1]
    <3>1. i \in 1 .. n' /\ i + 1 \in 1 .. n
      BY <1>2, <2>3
    <3>2. Contents'[i] = data'[Slot(i)']
      BY <2>2, <3>1
    <3>3. Contents[i + 1] = data[Slot(i + 1)]
      BY <1>2, <3>1
    <3> QED
      BY <2>1, <2>4, <3>2, <3>3
  <2>8. Contents' = Tail(Contents)
    <3>1. /\ Tail(Contents) \in Seq(Bytes) /\ Len(Tail(Contents)) = n - 1
          /\ \A i \in 1 .. n - 1 : Tail(Contents)[i] = Contents[i + 1]
      BY <1>2, <1>3, <1>5, HeadTailProperties
    <3>2. \A i \in 1 .. n - 1 : Contents'[i] = Tail(Contents)[i]
      BY <2>7, <3>1
    <3> QED
      BY <2>2, <2>3, <3>1, <3>2, SeqEqual
  <2> QED
    BY <1>3, <1>5, <2>6, <2>8 DEF Queue!Take
<1> QED
  BY <1>4, <1>5

LEMMA EmptyRing == RingInv /\ _BufferHead = 0 /\ _BufferTail = 0 => Contents = <<>>
<1> SUFFICES ASSUME RingInv, _BufferHead = 0, _BufferTail = 0 PROVE Contents = <<>>
  OBVIOUS
<1>1. Contents \in Seq(Bytes) /\ Len(Contents) = 0
  BY ContentsFacts DEF ContentsLaidOut
<1> QED
  BY <1>1, EmptySeq

LEMMA NextEmptyRing == RingInv' /\ _BufferHead' = 0 /\ _BufferTail' = 0 => Contents' = <<>>
<1> SUFFICES ASSUME RingInv', _BufferHead' = 0, _BufferTail' = 0 PROVE Contents' = <<>>
  OBVIOUS
<1>1. Contents' \in Seq(Bytes) /\ Len(Contents') = 0
  BY NextContentsFacts DEF ContentsLaidOut
<1> QED
  BY <1>1, EmptySeq

\* For every capacity, the ring does what a queue of capacity - 1 bytes does.
THEOREM RingImplementsQueue == RingSpec => RingIsAQueue
<1>1. RingInit /\ RingInv => Queue!Init
  BY EmptyRing DEF RingInit, Queue!Init
<1>2. ASSUME RingInv, RingInv'
      PROVE  /\ \A ch \in Bytes : rxBufferWrite(ch) => Queue!Put(ch)
             /\ rxBufferRead => Queue!Take
             /\ Clear => Queue!Clear
  <2>2. Clear => Queue!Clear
    BY <1>2, NextEmptyRing DEF Clear, Queue!Clear
  <2> QED
    BY <1>2, <2>2, WriteIsPut, ReadIsTake
<1> QED
  BY <1>1, <1>2, RingInvariant, PTL DEF RingSpec, RingIsAQueue
=============================================================================
