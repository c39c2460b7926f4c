------------------------------ MODULE ShiftLog ------------------------------
(***************************************************************************)
(* The shift log (shift_log.cpp) under the state machine that drives it:   *)
(* module Gearbox names, in gb.calls, the shifts it starts and the gears   *)
(* it is told; the log times one shift and writes one line for it, good or *)
(* failed.  Sums, the recent records and the engine speed are left out.    *)
(***************************************************************************)
EXTENDS Gearbox, FiniteSets

CONSTANTS
  LogTimeout,     \* SHIFT_LOG_TIMEOUT_MS
  Heard,          \* bound: the gears the rear node reports
  Answers         \* bound: what the clutch's predicates answer

VARIABLES
  log,            \* _active and _cur, and the lines the last step wrote
  unrecorded,     \* history: shifts started less lines written
  prompt          \* whether the loop passes in every unit of time

\* The limit is "the longest the state machine itself will wait" (shift_log.h:17-18).
ASSUME LimitAssumption == LogTimeout \in Nat /\ LogTimeout >= ServoTimeout + ShiftTimeout

logVars == <<vars, log, unrecorded, prompt>>

LogInit ==
  /\ Init
  /\ log = [active |-> FALSE, from |-> 0, to |-> 0, age |-> 0, lines |-> << >>]
  /\ unrecorded = 0
  /\ prompt \in BOOLEAN

----------------------------------------------------------------------------
(* The log's functions, from log to log.                                   *)

Line(l, ok, time) == [from |-> l.from, to |-> l.to, ok |-> ok, time |-> time]

Finish(l, ok, time) ==
  [l EXCEPT !.active = FALSE, !.lines = Append(@, Line(l, ok, time))]

\* Mutant: a shift still being timed is forgotten by the next.
StartOver(l, from, to) == [l EXCEPT !.active = TRUE, !.from = from, !.to = to, !.age = 0]

ShiftLogStart(l, from, to) ==
  [(IF l.active THEN Finish(l, FALSE, l.age) ELSE l)
     EXCEPT !.active = TRUE, !.from = from, !.to = to, !.age = 0]

\* Mutant: any report ends the shift being timed.
GearChangedAny(l, old, new) == IF l.active THEN Finish(l, TRUE, l.age) ELSE l

ShiftLogGearChanged(l, old, new) ==
  IF l.active /\ old = l.from /\ new = l.to THEN Finish(l, TRUE, l.age) ELSE l

\* Mutant: the limit is the length of the wait for the clutch.
TickEarly(l) ==
  IF l.active /\ l.age >= ServoTimeout THEN Finish(l, FALSE, LogTimeout) ELSE l

\* Mutant: the shift's start is stamped anew in every pass.
TickRestarting(l) ==
  IF l.active /\ l.age >= LogTimeout THEN Finish(l, FALSE, LogTimeout)
                                     ELSE [l EXCEPT !.age = 0]

ShiftLogTick(l) ==
  IF l.active /\ l.age >= LogTimeout THEN Finish(l, FALSE, LogTimeout) ELSE l

----------------------------------------------------------------------------
(* The calls of a step, in the order the machine made them.                *)

LogTold(l, call) ==
  CASE call.fn = "shift_log_start"        -> ShiftLogStart(l, call.from, call.gear)
    [] call.fn = "shift_log_gear_changed" -> ShiftLogGearChanged(l, call.from, call.gear)
    [] OTHER                              -> l

AfterCalls(l, calls) ==
  LET after[n \in 0 .. Len(calls)] ==
        IF n = 0 THEN l ELSE LogTold(after[n - 1], calls[n])
  IN after[Len(calls)]

Unwritten == [log EXCEPT !.lines = << >>]

StartsIn(calls) == { i \in DOMAIN calls : calls[i].fn = "shift_log_start" }

Counted == unrecorded' = unrecorded + Cardinality(StartsIn(gb'.calls)) - Len(log'.lines)

Press ==
  /\ Rider
  /\ log' = AfterCalls(Unwritten, gb'.calls)
  /\ Counted /\ UNCHANGED prompt

\* gearbox_tick, then shift_log_tick.
Loop ==
  /\ Tick
  /\ log' = ShiftLogTick(AfterCalls(Unwritten, gb'.calls))
  /\ Counted /\ UNCHANGED prompt

Hear ==
  /\ \/ canGear' \in Heard /\ GearReported
     \/ clutchIs' \in Answers /\ ClutchMoved
  /\ log' = Unwritten
  /\ UNCHANGED <<unrecorded, prompt>>

Clock ==
  /\ prompt => ticked
  /\ Time
  /\ log' = [Unwritten EXCEPT !.age = IF log.active /\ @ <= LogTimeout THEN @ + 1 ELSE @]
  /\ UNCHANGED <<unrecorded, prompt>>

LogNext == Press \/ Loop \/ Hear \/ Clock

LogSafety == LogInit /\ [][LogNext]_logVars
LogSpec   == LogSafety /\ Fairness

----------------------------------------------------------------------------
(* Properties.                                                             *)

\* Every shift that starts is written down once: at any time the shifts started and
\* not yet written are the one being timed, if one is, across early confirmations,
\* stacked downshifts, aborts and mode switches.
RecordedOnce == unrecorded = (IF log.active THEN 1 ELSE 0)

Shifting == PulseStates \cup {GB_DOWNSHIFT_CLUTCH_ENGAGING}

\* With a loop that keeps up, the shift that is running is the one being timed, and
\* the limit never cuts it off (shift_log.h:14-18).
TimedWhileShifting ==
  (prompt /\ ~manualMode /\ ~gb.wasManual /\ gb.state \in Shifting) =>
    /\ log.active
    /\ log.from = gb.gear /\ log.to = Byte(gb.expected)

\* A shift is written down as good only in the step in which the rear node's report
\* takes the confirmed gear from where it began to where it aimed, and at most once
\* for a report; with a loop that keeps up, within the limit.
GoodWasReported ==
  [][ \A i \in DOMAIN log'.lines :
        LET line == log'.lines[i]
        IN line.ok =>
             /\ line.from = gb.gear /\ line.to = gb'.gear /\ gb.gear # gb'.gear
             /\ canGear = gb'.gear
             /\ prompt => line.time <= LogTimeout
             /\ \A j \in DOMAIN log'.lines : log'.lines[j].ok => i = j ]_logVars

\* A shift being timed is written down, whatever becomes of it.
EveryShiftIsRecorded == log.active ~> log.lines # << >>
=============================================================================
