------------------------------- MODULE Clock -------------------------------
(***************************************************************************)
(* Telling the time with clock.c: the interrupt counts clicks and seconds  *)
(* in two variables, clock_read loads one after the other, clock_diff      *)
(* subtracts with a borrow, clock_wait sleeps until enough has passed.     *)
(*                                                                         *)
(* One process sleeps again and again; how the scheduler gets it the       *)
(* processor is Kernel's business, here it may be late by MaxDelay clicks. *)
(* Arithmetic is that of uint32_t, modulo Word.                            *)
(***************************************************************************)
EXTENDS Integers

CONSTANTS CLICKS_PER_SECOND,
          Millis,     \* thousandths: 1000 in a second, fewer in an instance
          Word,       \* 2^32, less in an instance
          MaxMillis,  \* bound: the longest sleep asked for
          MaxDelay,   \* bound: clicks between a wake-up and the end of clock_read
          Torn        \* may a click fall between the two loads of clock_read?

ASSUME ClockAssumption ==
    /\ CLICKS_PER_SECOND \in Nat \ {0}
    /\ Millis \in Nat \ {0}
    /\ Millis % CLICKS_PER_SECOND = 0
    /\ Word \in Nat \ {0}
    /\ MaxMillis \in Nat
    /\ MaxDelay \in Nat
    /\ Torn \in BOOLEAN

VARIABLES clicks, seconds,  \* clock.c's counters
          sleeper,          \* where the process is in clock_wait
          millis,           \* its argument
          start,            \* clock_read() at the call
          loaded,           \* result.seconds of the clock_read in progress
          passed,           \* clicks since the call, as they really were
          late,             \* clicks since the wake-up
          begun, ended      \* the time since the last click, at the call and at the end

real == <<begun, ended>>
clockVars == <<clicks, seconds, sleeper, millis, start, loaded, passed, late, real>>

ClickMillis == Millis \div CLICKS_PER_SECOND

Minus(x, y) == (x + Word - y) % Word

\* clock_t values and the arithmetic on them.
MillisOf(c) == (Millis * c) \div CLICKS_PER_SECOND

Time(s, c) == [seconds |-> s, millis |-> MillisOf(c)]

\* Mutant: the millis borrow a second, the seconds do not lend it.
DiffUnlent(from, to) ==
    [seconds |-> Minus(to.seconds, from.seconds),
     millis  |-> IF to.millis < from.millis
                 THEN to.millis + Millis - from.millis
                 ELSE to.millis - from.millis]

ClockDiff(from, to) ==
    IF to.millis < from.millis
    THEN [seconds |-> Minus(Minus(to.seconds, 1), from.seconds),
          millis  |-> to.millis + Millis - from.millis]
    ELSE [seconds |-> Minus(to.seconds, from.seconds),
          millis  |-> to.millis - from.millis]

TotalMillis(t) == (t.millis + t.seconds * Millis) % Word

MustWaitMore(elapsed, asked) == TotalMillis(elapsed) < asked

\* passed stops counting here, past everything the properties tell apart.
PassedBound == MaxMillis + MaxDelay + 3

ClockInit ==
    /\ clicks = 0
    /\ seconds \in 0 .. Word - 1
    /\ sleeper = "idle"
    /\ millis = 0
    /\ start = Time(0, 0)
    /\ loaded = 0
    /\ passed = 0
    /\ late = 0
    /\ begun = 0
    /\ ended = 0
-----------------------------------------------------------------------------
\* A moment between two clicks.
Within == 0 .. ClickMillis - 1

\* sys_sleep, at any moment: interrupts are disabled from the call to the end of
\* the first process_wait, so the first clock_read is not torn.
SysSleep(m) ==
    /\ sleeper = "idle"
    /\ millis' = m
    /\ start' = Time(seconds, clicks)
    /\ passed' = 0
    /\ late' = 0
    /\ begun' \in Within
    /\ sleeper' = "waiting"
    /\ UNCHANGED <<clicks, seconds, loaded, ended>>

\* The first load of clock_read: result.seconds.
LoadSeconds ==
    /\ sleeper = "woken"
    /\ loaded' = seconds
    /\ sleeper' = "loaded"
    /\ UNCHANGED <<clicks, seconds, millis, start, passed, late, real>>

\* The second, result.millis, and the test of clock_wait's loop; its local
\* variables are gone when it returns.
LoadClicks ==
    /\ sleeper = "loaded"
    /\ LET elapsed == ClockDiff(start, Time(loaded, clicks)) IN
         IF MustWaitMore(elapsed, millis)
         THEN sleeper' = "waiting" /\ UNCHANGED <<start, ended>>
         ELSE sleeper' = "returned" /\ start' = Time(0, 0) /\ ended' \in Within
    /\ loaded' = 0
    /\ late' = 0
    /\ UNCHANGED <<clicks, seconds, millis, passed, begun>>

\* sys_sleep returns to the program.
Return ==
    /\ sleeper = "returned"
    /\ sleeper' = "idle"
    /\ millis' = 0
    /\ passed' = 0
    /\ begun' = 0
    /\ ended' = 0
    /\ UNCHANGED <<clicks, seconds, start, loaded, late>>

\* Mutant: the second is not counted when the clicks begin again.
CountClicks == clicks' = (clicks + 1) % CLICKS_PER_SECOND /\ UNCHANGED seconds

Count ==
    IF clicks + 1 >= CLICKS_PER_SECOND
    THEN clicks' = 0 /\ seconds' = (seconds + 1) % Word
    ELSE clicks' = clicks + 1 /\ UNCHANGED seconds

\* clock_interrupt: count, and wake the process if it waits.
ClockInterrupt ==
    /\ Torn \/ sleeper # "loaded"
    /\ late < MaxDelay \/ sleeper \in {"idle", "waiting"}
    /\ Count
    /\ sleeper' = IF sleeper = "waiting" THEN "woken" ELSE sleeper
    /\ passed' = IF sleeper \in {"idle", "returned"} \/ passed = PassedBound
                  THEN passed ELSE passed + 1
    /\ late' = IF sleeper \in {"woken", "loaded"} THEN late + 1 ELSE 0
    /\ UNCHANGED <<millis, start, loaded, real>>

ClockNext ==
    \/ \E m \in 0 .. MaxMillis : SysSleep(m)
    \/ LoadSeconds \/ LoadClicks \/ Return \/ ClockInterrupt

ClockSpec == ClockInit /\ [][ClockNext]_clockVars

\* The clock ticks, and the process uses the processor when it has it.
ClockFairSpec == ClockSpec /\ WF_clockVars(ClockInterrupt)
                 /\ WF_clockVars(LoadSeconds \/ LoadClicks \/ Return)
-----------------------------------------------------------------------------
\* The types of the variables.
ClockTypeOK ==
    /\ clicks \in 0 .. CLICKS_PER_SECOND - 1
    /\ seconds \in 0 .. Word - 1
    /\ sleeper \in {"idle", "waiting", "woken", "loaded", "returned"}
    /\ millis \in 0 .. MaxMillis
    /\ start \in [seconds : 0 .. Word - 1, millis : 0 .. Millis - 1]
    /\ loaded \in 0 .. Word - 1
    /\ passed \in 0 .. PassedBound
    /\ late \in 0 .. MaxDelay
    /\ begun \in Within
    /\ ended \in Within

\* How long the process has really slept.
Slept == passed * ClickMillis + ended - begun

\* sys_clock.h, sleep: "Sleeps for the number of half milliseconds specified in
\* half_millis".  Not in this code: clock_wait counts the edges of the clicks and
\* may have begun anywhere between two of them.
SleepsLongEnough == sleeper = "returned" => Slept >= millis

\* What it does keep: a sleep is short by less than a click, whether or not a
\* second or the 32-bit counter turned over meanwhile, and ends at the first click
\* that could be enough (it waits for one at least) plus the process's delay.
SleepsNearlyAsAsked ==
    sleeper = "returned" =>
        /\ Slept + ClickMillis > millis
        /\ Slept < millis + (2 + MaxDelay) * ClickMillis

\* A sleep ends: the test of clock_wait's loop succeeds in the end, also when the
\* seconds' counter wraps under it.
SleepEnds == sleeper = "waiting" ~> sleeper = "returned"
=============================================================================
