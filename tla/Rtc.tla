-------------------------------- MODULE Rtc ---------------------------------
(***************************************************************************)
(* The real-time clock (rtc.c) and the program that shows it               *)
(* (bin/test_clock.c).  The hardware goes on while rtc_fetch_time reads    *)
(* its registers one after another, so the loop reads them again until the *)
(* seconds are what they were.  System calls and the handler run with      *)
(* interrupts disabled: only the hardware moves between their steps.       *)
(*                                                                         *)
(* Registers hold decimal digits in nibbles and the clock is in 24-hour    *)
(* mode; the fields above the hour are left out, they turn like it.        *)
(***************************************************************************)
EXTENDS Naturals

CONSTANTS Base,      \* 10, less in an instance
          Seconds, Minutes, Hours  \* 60, 60 and 24, fewer in an instance

ASSUME RtcAssumption ==
    /\ Base \in 2 .. 16
    /\ {Seconds, Minutes, Hours} \subseteq 1 .. Base * Base
    /\ Seconds > 2

VARIABLES now,      \* the hardware's time, in seconds
          pending,  \* is the update interrupt pending?
          reading,  \* who fetches, and the register it reads next
          t,        \* the registers read so far
          since,    \* what the hardware showed since the fetch began
          moved,    \* has it moved on during the fetch?
          cached,   \* cached_time
          out,      \* the time the program got, NoTime before
          shown     \* the digits on the screen

rtcVars == <<now, pending, reading, t, since, moved, cached, out, shown>>

Day == Seconds * Minutes * Hours
Field == {"second", "minute", "hour"}
Caller == {"init", "program", "handler"}
NoTime == [f \in Field |-> 0]

Bcd(n) == 16 * (n \div Base) + (n % Base)
TimeAt(s) == [second |-> s % Seconds,
              minute |-> (s \div Seconds) % Minutes,
              hour   |-> s \div (Seconds * Minutes)]
PortOf(f) == Bcd(TimeAt(now)[f])

\* rtc_bcd_to_binary.
RtcBcdToBinary(bcd) == (bcd % 16) + (bcd \div 16) * Base

\* draw_char: the two digits of a field.
Digits(n) == IF n > Base - 1 THEN <<n \div Base, n % Base>> ELSE <<0, n % Base>>

RtcFrom(place) ==
    /\ pending = FALSE
    /\ reading = place
    /\ t = NoTime
    /\ since = {now}
    /\ moved = FALSE
    /\ cached = NoTime
    /\ out = NoTime
    /\ shown = [f \in Field |-> <<0, 0>>]

RtcInit == now \in 0 .. Day - 1 /\ RtcFrom(<<"init", "second">>)
-----------------------------------------------------------------------------
\* The hardware turns over once a second: the passes of one fetch take less.
Update ==
    /\ ~moved
    /\ now' = (now + 1) % Day
    /\ since' = IF reading[1] \in Caller THEN since \cup {now'} ELSE since
    /\ moved' = (reading[1] \in Caller)
    /\ pending' = TRUE
    /\ UNCHANGED <<reading, t, cached, out, shown>>

Following == [second |-> "minute", minute |-> "hour", hour |-> "check"]

\* rtc_read_port of one register in the do loop.
ReadPort ==
    /\ reading[2] \in Field
    /\ t' = [t EXCEPT ![reading[2]] = PortOf(reading[2])]
    /\ reading' = <<reading[1], Following[reading[2]]>>
    /\ UNCHANGED <<now, pending, since, moved, cached, out, shown>>

\* Mutant: the loop is left whatever the seconds are.
AnySecond == TRUE

\* The while condition, and what follows the loop when it is left.
SameSecond == t.second = PortOf("second")

ReadAgain ==
    /\ reading[2] = "check"
    /\ ~SameSecond
    /\ reading' = <<reading[1], "second">>
    /\ UNCHANGED <<now, pending, t, since, moved, cached, out, shown>>

\* The caller's part: init and the handler leave the time in cached_time, rtc_read
\* copies it to the program, which clears its window and draws it.
Fetched ==
    /\ reading[2] = "check"
    /\ SameSecond
    /\ cached' = [f \in Field |-> RtcBcdToBinary(t[f])]
    /\ IF reading[1] = "program"
       THEN out' = cached' /\ reading' = <<"draw", "">>
       ELSE UNCHANGED out /\ reading' = <<IF reading[1] = "handler" THEN "read C" ELSE "idle", "">>
    /\ t' = NoTime
    /\ moved' = FALSE
    /\ since' = IF reading[1] = "program" THEN since ELSE {}
    /\ UNCHANGED <<now, pending, shown>>

\* The handler reads register C, which acknowledges whatever is pending.
ReadRegisterC ==
    /\ reading[1] = "read C"
    /\ pending' = FALSE
    /\ reading' = <<"idle", "">>
    /\ UNCHANGED <<now, t, since, moved, cached, out, shown>>

Draw ==
    /\ reading[1] = "draw"
    /\ shown' = [f \in Field |-> Digits(out[f])]
    /\ reading' = <<"shown", "">>
    /\ UNCHANGED <<now, pending, t, since, moved, cached, out>>

\* sleep(1000) lies between two rounds of the program; it starts its next one at
\* any time.
Shown ==
    /\ reading[1] = "shown"
    /\ reading' = <<"idle", "">>
    /\ since' = {}
    /\ moved' = FALSE
    /\ out' = NoTime
    /\ shown' = [f \in Field |-> <<0, 0>>]
    /\ UNCHANGED <<now, pending, t, cached>>

Begin(caller) ==
    /\ reading[1] = "idle"
    /\ reading' = <<caller, "second">>
    /\ since' = {now}
    /\ UNCHANGED <<now, pending, t, moved, cached, out, shown>>

\* sys_rtc_read, and rtc_interrupt_handler once rtc_init has enabled the interrupt.
RtcRead == Begin("program")
RtcInterrupt == pending /\ Begin("handler")

RtcStep == ReadPort \/ ReadAgain \/ Fetched \/ ReadRegisterC \/ Draw \/ Shown

RtcNext == Update \/ RtcStep \/ RtcRead \/ RtcInterrupt

RtcSpec == RtcInit /\ [][RtcNext]_rtcVars /\ WF_rtcVars(RtcStep)
-----------------------------------------------------------------------------
\* The types of the variables.
RtcTypeOK ==
    /\ now \in 0 .. Day - 1
    /\ {pending, moved} \subseteq BOOLEAN
    /\ reading \in (Caller \X (Field \cup {"check"})) \cup ({"idle", "read C", "draw", "shown"} \X {""})
    /\ t \in [Field -> 0 .. 16 * Base]
    /\ {out, cached} \subseteq [Field -> 0 .. Base * Base - 1]
    /\ since \subseteq 0 .. Day - 1
    /\ shown \in [Field -> (0 .. Base - 1) \X (0 .. Base - 1)]

\* sys_rtc.h, read_rtc: the program is given a time that the clock showed during
\* the call, never one put together from before and after a carry, and the digits
\* drawn are those of a time the clock showed.
TimeWas ==
    /\ reading[1] \in {"draw", "shown"} => \E s \in since : out = TimeAt(s)
    /\ reading[1] = "shown" =>
         \E s \in since : \A f \in Field :
             shown[f][1] * Base + shown[f][2] = TimeAt(s)[f]
=============================================================================
