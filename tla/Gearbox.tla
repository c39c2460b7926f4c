------------------------------- MODULE Gearbox -------------------------------
(***************************************************************************)
(* The gearbox state machine of the main node (gearbox.cpp).  The machine  *)
(* is one record, gb, and each C function is an operator from machine to   *)
(* machine, because the code nests them: one call of gearbox_tick may      *)
(* change the state four times.  gb.calls lists, in order, what the last   *)
(* step asked of the clutch, the CAN bus and the shift log; modules that   *)
(* compose the gearbox with those components read it.                      *)
(***************************************************************************)
EXTENDS Integers, Sequences

CONSTANTS
  MaxGear,                \* top gear, 6 on the car
  ShiftTimeout,           \* GEARBOX_SHIFT_TIMEOUT_MS
  ClutchWaitTimeout,      \* CLUTCH_WAIT_TIMEOUT_MS
  ServoTimeout,           \* DOWNSHIFT_SERVO_TIMEOUT_MS
  StackBiteTimeout,       \* STACK_BITE_TIMEOUT_MS
  ManualDuration,         \* MANUAL_SHIFT_DURATION_MS
  PulseMs,                \* the shift timings of the calibration blob
  AgeCap                  \* bound: elapsed times saturate here

UpPulses   == {"shiftUp", "neutralUp"}
DownPulses == {"shiftDown", "neutralDown"}
Pulses     == UpPulses \cup DownPulses
Gears      == 0 .. MaxGear

ASSUME GearsAssumption == MaxGear \in Nat /\ MaxGear >= 3 /\ MaxGear < 254

ASSUME TimingAssumption ==
  /\ {ShiftTimeout, ClutchWaitTimeout, ServoTimeout, StackBiteTimeout,
        ManualDuration} \subseteq 1 .. AgeCap
  /\ AgeCap \in Nat
  /\ PulseMs \in [Pulses -> 1 .. (ShiftTimeout - 1)]

GEAR_BETWEEN == 254
GEAR_UNKNOWN == 255
Reports == Gears \cup {GEAR_BETWEEN, GEAR_UNKNOWN}

----------------------------------------------------------------------------
(* The states, numbered as the enumeration is: state n in Gears is the     *)
(* idle state of gear n.                                                   *)

GB_IDLE_NEUTRAL                  == 0
GB_NEUTRAL_DOWN_SHIFTING         == MaxGear + 1
GB_NEUTRAL_UP_SHIFTING           == MaxGear + 2
GB_UPSHIFTING                    == MaxGear + 3
GB_DOWNSHIFT_CLUTCH_ENGAGING     == MaxGear + 4
GB_DOWNSHIFT_SHIFTING            == MaxGear + 5
GB_DOWNSHIFT_TO_BITE_POINT       == MaxGear + 6
GB_WAITING_FOR_CLUTCH_SHIFT_DOWN == MaxGear + 7
GB_WAITING_FOR_CLUTCH_SHIFT_UP   == MaxGear + 8
GB_ERROR_SHIFT_TIMEOUT           == MaxGear + 9

States == 0 .. GB_ERROR_SHIFT_TIMEOUT

IsIdle(s)     == s \in Gears
IsShifting(s) == s \in GB_NEUTRAL_DOWN_SHIFTING .. GB_DOWNSHIFT_TO_BITE_POINT
IsWaiting(s)  == s \in {GB_WAITING_FOR_CLUTCH_SHIFT_DOWN,
                        GB_WAITING_FOR_CLUTCH_SHIFT_UP}
IdleFor(gear) == IF gear \in Gears THEN gear ELSE GB_IDLE_NEUTRAL

\* The states in which the rear node has been sent a pulse and it is running.
PulseStates == {GB_NEUTRAL_DOWN_SHIFTING, GB_NEUTRAL_UP_SHIFTING,
                GB_UPSHIFTING, GB_DOWNSHIFT_SHIFTING}

Row(from, event, to) == [from |-> from, event |-> event, to |-> to]

Table ==
  { Row(0, "EV_SHIFT_DOWN_PRESSED", GB_WAITING_FOR_CLUTCH_SHIFT_DOWN),
    Row(0, "EV_SHIFT_UP_PRESSED", GB_WAITING_FOR_CLUTCH_SHIFT_UP),
    Row(1, "EV_NEUTRAL_UP_PRESSED", GB_NEUTRAL_UP_SHIFTING),
    Row(2, "EV_NEUTRAL_DOWN_PRESSED", GB_NEUTRAL_DOWN_SHIFTING),
    Row(GB_WAITING_FOR_CLUTCH_SHIFT_DOWN, "EV_CLUTCH_PULLED", GB_NEUTRAL_DOWN_SHIFTING),
    Row(GB_WAITING_FOR_CLUTCH_SHIFT_DOWN, "EV_TIMEOUT", GB_IDLE_NEUTRAL),
    Row(GB_WAITING_FOR_CLUTCH_SHIFT_UP, "EV_CLUTCH_PULLED", GB_NEUTRAL_UP_SHIFTING),
    Row(GB_WAITING_FOR_CLUTCH_SHIFT_UP, "EV_TIMEOUT", GB_IDLE_NEUTRAL),
    Row(GB_DOWNSHIFT_CLUTCH_ENGAGING, "EV_CLUTCH_PULLED", GB_DOWNSHIFT_SHIFTING) }
  \cup { Row(n, "EV_SHIFT_UP_PRESSED", GB_UPSHIFTING) : n \in 1 .. (MaxGear - 1) }
  \cup { Row(n, "EV_SHIFT_DOWN_PRESSED", GB_DOWNSHIFT_CLUTCH_ENGAGING) : n \in 2 .. MaxGear }

RowsFor(s, event) == { row \in Table : row.from = s /\ row.event = event }

----------------------------------------------------------------------------
(* Calls to other components.  Gears travel on the wire as uint8_t.        *)

Byte(n) == n % 256
Call(fn, pulse, ignition, from, gear) ==
  [fn |-> fn, pulse |-> pulse, ignition |-> ignition, from |-> from, gear |-> gear]
Plain(fn, from, gear) == Call(fn, "none", "on", from, gear)
ClutchCall(fn)        == Plain(fn, 0, 0)
StackCall(target)     == Plain("can_send_shift_stack", 0, target)
LogStart(from, to)    == Plain("shift_log_start", Byte(from), Byte(to))
LogChanged(old, now)  == Plain("shift_log_gear_changed", old, now)

ShiftCall(pulse, ignition, gear) ==
  Call(IF pulse \in UpPulses THEN "can_send_shift_up" ELSE "can_send_shift_down",
       pulse, ignition, 0, Byte(gear))
ManualCall(up) ==
  Call(IF up THEN "can_send_shift_up" ELSE "can_send_shift_down",
       "manual", IF up THEN "cut" ELSE "on", 0, GEAR_UNKNOWN)

ClutchFns == {"clutch_release", "clutch_command_pull", "clutch_command_bite"}
ShiftFns  == {"can_send_shift_up", "can_send_shift_down"}
CallTypes ==
  [fn    : ClutchFns \cup ShiftFns \cup
           {"can_send_shift_stack", "shift_log_start", "shift_log_gear_changed"},
   pulse : Pulses \cup {"none", "manual"},
   ignition : {"on", "cut"},
   from  : 0 .. 255,
   gear  : 0 .. 255]

Say(g, call) == [g EXCEPT !.calls = Append(@, call)]
Silent(g)    == [g EXCEPT !.calls = << >>]

----------------------------------------------------------------------------
(* Helpers and state entry.  A pulse that is over keeps no start time, and *)
(* the state's own age is read in no idle state.                           *)

\* Mutant: the display is not told that the stack is gone.
ClearStackUntold(g) == [g EXCEPT !.target = 0]

ClearStack(g) ==
  IF g.target > 0 THEN Say([g EXCEPT !.target = 0], StackCall(0)) ELSE g

EndPulse(g) == [g EXCEPT !.pulse = "none", !.shiftAge = 0]

ActivateShift(g, pulse, ignition) ==
  Say([g EXCEPT !.pulse = pulse, !.shiftAge = 0], ShiftCall(pulse, ignition, g.expected))

\* Mutant: the pulse is left running in the idle state.
EnterIdleStillPulsing(g) == Say(g, ClutchCall("clutch_release"))

EnterIdle(g) == EndPulse(Say(g, ClutchCall("clutch_release")))

ExpectedFrom(s, from) ==
  CASE s = GB_NEUTRAL_DOWN_SHIFTING -> IF from = 2 THEN 0 ELSE 1
    [] s = GB_NEUTRAL_UP_SHIFTING   -> IF from = 1 THEN 0 ELSE 2
    [] s = GB_UPSHIFTING            -> from + 1
    [] OTHER                        -> from - 1

EnterShifting(g) ==
  LET aimed  == [g EXCEPT !.expected = ExpectedFrom(g.state, g.gear)]
      logged == Say(aimed, LogStart(g.gear, aimed.expected))
  IN CASE g.state = GB_NEUTRAL_DOWN_SHIFTING ->
            ActivateShift(logged, IF g.gear = 0 THEN "shiftDown" ELSE "neutralDown", "on")
       [] g.state = GB_NEUTRAL_UP_SHIFTING ->
            ActivateShift(logged, IF g.gear = 0 THEN "shiftUp" ELSE "neutralUp", "on")
       [] g.state = GB_UPSHIFTING -> ActivateShift(logged, "shiftUp", "cut")
       [] g.state = GB_DOWNSHIFT_CLUTCH_ENGAGING ->
            Say(logged, ClutchCall("clutch_command_pull"))
       [] OTHER -> ActivateShift(aimed, "shiftDown", "on")

EnterBitePoint(g) == Say(g, ClutchCall("clutch_command_bite"))

EnterError(g) == ClearStack(Say(EndPulse(g), ClutchCall("clutch_release")))

TransitionTo(g, next) ==
  LET entered == [g EXCEPT !.state = next, !.age = 0]
      entry ==
        CASE IsIdle(next)                      -> EnterIdle(entered)
          [] next = GB_DOWNSHIFT_TO_BITE_POINT -> EnterBitePoint(entered)
          [] IsShifting(next) /\ next # GB_DOWNSHIFT_TO_BITE_POINT
                                               -> EnterShifting(entered)
          [] next = GB_ERROR_SHIFT_TIMEOUT     -> EnterError(entered)
          [] IsWaiting(next)                   -> entered
  IN IF next = g.state THEN g ELSE entry

----------------------------------------------------------------------------
(* Events.                                                                 *)

AtLeastOne(n) == IF n < 1 THEN 1 ELSE n

\* Mutant: no floor under the target.
PushStackUnclamped(g) ==
  LET target == (IF g.target = 0 THEN g.expected ELSE g.target) - 1
  IN Say([g EXCEPT !.target = target], StackCall(target))

PushStack(g) ==
  LET target == AtLeastOne((IF g.target = 0 THEN g.expected ELSE g.target) - 1)
  IN Say([g EXCEPT !.target = target], StackCall(target))

Follow(g, event) ==
  IF RowsFor(g.state, event) = {} THEN g
  ELSE TransitionTo(g, (CHOOSE row \in RowsFor(g.state, event) : TRUE).to)

ProcessEvent(g, event) ==
  CASE event = "EV_SHIFT_DOWN_PRESSED" -> IF IsIdle(g.state) THEN Follow(g, event)
                                                             ELSE PushStack(g)
    [] event = "EV_SHIFT_UP_PRESSED"   -> Follow(ClearStack(g), event)
    [] event = "EV_GEAR_CHANGED"       -> TransitionTo(g, IdleFor(g.gear))
    [] OTHER                           -> Follow(g, event)

\* The stack after CAN has confirmed a gear: fire the next downshift or clear.
NextStacked(g) ==
  IF g.target = 0 THEN g
  ELSE IF g.gear > g.target /\ g.state = GB_DOWNSHIFT_TO_BITE_POINT
    THEN TransitionTo(g, GB_DOWNSHIFT_CLUTCH_ENGAGING)
  ELSE IF g.gear > g.target /\ IsIdle(g.state)
    THEN ProcessEvent(g, "EV_SHIFT_DOWN_PRESSED")
  ELSE ClearStack(g)

\* Mutant: a report of the gear already known is processed again.
SetGearAlways(g, gear) ==
  IF gear \notin Gears THEN g
  ELSE NextStacked(Say(ProcessEvent([g EXCEPT !.gear = gear], "EV_GEAR_CHANGED"),
                       LogChanged(g.gear, gear)))

\* Mutant: a machine that is idle is not moved to the reported gear.
SetGearIfShifting(g, gear) ==
  IF gear \notin Gears \/ gear = g.gear THEN g
  ELSE IF IsIdle(g.state) THEN [g EXCEPT !.gear = gear]
  ELSE NextStacked(Say(ProcessEvent([g EXCEPT !.gear = gear], "EV_GEAR_CHANGED"),
                       LogChanged(g.gear, gear)))

SetGear(g, gear) ==
  IF gear \notin Gears \/ gear = g.gear THEN g
  ELSE NextStacked(Say(ProcessEvent([g EXCEPT !.gear = gear], "EV_GEAR_CHANGED"),
                       LogChanged(g.gear, gear)))

----------------------------------------------------------------------------
(* The parts of gearbox_tick.  held is the set of clutch predicates that   *)
(* answer true; stale feedback makes it empty.                             *)

\* Mutant: the shift is sent when the servo's time is up.
UpdateDownshiftClutchWaitSending(g, held) ==
  IF "clutch_disengaged" \in held \/ g.age >= ServoTimeout
    THEN ProcessEvent(g, "EV_CLUTCH_PULLED") ELSE g

UpdateDownshiftClutchWait(g, held) ==
  IF "clutch_disengaged" \in held THEN ProcessEvent(g, "EV_CLUTCH_PULLED")
  ELSE IF g.age >= ServoTimeout THEN TransitionTo(g, GB_ERROR_SHIFT_TIMEOUT)
  ELSE g

\* Mutant: at the bite point the next downshift goes out unconfirmed.
UpdateToBitePointFiring(g, held) ==
  IF "clutch_at_bite" \in held /\ g.target > 0
    THEN TransitionTo(g, GB_DOWNSHIFT_CLUTCH_ENGAGING)
  ELSE IF g.age >= StackBiteTimeout THEN TransitionTo(g, IdleFor(g.expected))
  ELSE g

UpdateToBitePoint(g, held) ==
  IF "clutch_at_bite" \notin held /\ g.age >= StackBiteTimeout
    THEN TransitionTo(g, IdleFor(g.expected)) ELSE g

\* Mutant: the wait for the rider's clutch has no end.
UpdateWaitingForever(g, held) ==
  IF "clutch_disengaged" \in held THEN ProcessEvent(g, "EV_CLUTCH_PULLED") ELSE g

UpdateWaiting(g, held) ==
  IF "clutch_disengaged" \in held THEN ProcessEvent(g, "EV_CLUTCH_PULLED")
  ELSE IF g.age >= ClutchWaitTimeout THEN ProcessEvent(ClearStack(g), "EV_TIMEOUT")
  ELSE g

PulseOver(g) == g.pulse # "none" /\ g.shiftAge >= PulseMs[g.pulse]

\* With a stacked downshift still pending the clutch is held at the bite point.
HoldAtBite(g) == g.pulse \in DownPulses /\ g.target > 0 /\ g.expected > g.target

UpdateShiftTiming(g) ==
  IF ~PulseOver(g) THEN g
  ELSE TransitionTo(EndPulse(g), IF HoldAtBite(g) THEN GB_DOWNSHIFT_TO_BITE_POINT
                                                  ELSE IdleFor(g.expected))

CheckTimeouts(g) ==
  IF /\ IsShifting(g.state)
     /\ g.state \notin {GB_DOWNSHIFT_CLUTCH_ENGAGING, GB_DOWNSHIFT_TO_BITE_POINT}
     /\ g.age >= ShiftTimeout
  THEN TransitionTo([g EXCEPT !.timedOut = TRUE], GB_ERROR_SHIFT_TIMEOUT)
  ELSE g

UpdateState(g, held) ==
  CASE g.state = GB_DOWNSHIFT_CLUTCH_ENGAGING -> UpdateDownshiftClutchWait(g, held)
    [] g.state = GB_DOWNSHIFT_TO_BITE_POINT   -> UpdateToBitePoint(g, held)
    [] IsWaiting(g.state)                     -> UpdateWaiting(g, held)
    [] g.state = GB_ERROR_SHIFT_TIMEOUT       -> TransitionTo(g, IdleFor(g.gear))
    [] OTHER                                  -> g

SyncGear(g, report) == IF report = GEAR_UNKNOWN THEN g ELSE SetGear(g, report)

TickManual(g) ==
  LET over == g.manualActive /\ g.manualAge >= ManualDuration
  IN [g EXCEPT !.wasManual = TRUE,
               !.manualActive = @ /\ ~over,
               !.manualAge = IF over THEN 0 ELSE @]

\* Mutant: the stack survives the way back from manual mode.
LeaveManualStacked(g) ==
  IF g.wasManual
    THEN TransitionTo(EndPulse([g EXCEPT !.wasManual = FALSE]), IdleFor(g.gear))
    ELSE g

LeaveManual(g) ==
  IF g.wasManual
    THEN TransitionTo(ClearStack(EndPulse([g EXCEPT !.wasManual = FALSE])),
                      IdleFor(g.gear))
    ELSE g

\* Mutant: the timeout is looked at before the end of the pulse.
TickAutoTimeoutFirst(g, held) ==
  UpdateState(UpdateShiftTiming(CheckTimeouts(LeaveManual(g))), held)

TickAuto(g, held) ==
  UpdateState(CheckTimeouts(UpdateShiftTiming(LeaveManual(g))), held)

----------------------------------------------------------------------------
(* The node.  canGear is what can_gear() answers, GEAR_UNKNOWN standing    *)
(* for can_gear_valid() being false; clutchIs is what the clutch's         *)
(* predicates answer; manualMode is the switch, as main.cpp last heard it; *)
(* ticked says the loop has passed since the clock last moved.             *)

VARIABLES gb, canGear, clutchIs, manualMode, ticked

vars == <<gb, canGear, clutchIs, manualMode, ticked>>

ClutchPredicates == {"clutch_disengaged", "clutch_at_bite"}

Init ==
  /\ gb = [state |-> GB_IDLE_NEUTRAL, age |-> 0, gear |-> 0, expected |-> 0,
           target |-> 0, pulse |-> "none", shiftAge |-> 0, wasManual |-> FALSE,
           manualActive |-> FALSE, manualAge |-> 0, timedOut |-> FALSE,
           calls |-> << >>]
  /\ canGear = GEAR_UNKNOWN
  /\ clutchIs = {}
  /\ manualMode \in BOOLEAN
  /\ ticked = FALSE

UpPressed ==
  /\ ~manualMode
  /\ UNCHANGED <<canGear, clutchIs, manualMode, ticked>>
  /\ gb' = ProcessEvent(Silent(gb), "EV_SHIFT_UP_PRESSED")

DownPressed ==
  /\ ~manualMode
  /\ UNCHANGED <<canGear, clutchIs, manualMode, ticked>>
  /\ gb' = ProcessEvent(Silent(gb), "EV_SHIFT_DOWN_PRESSED")

NeutralPressed ==
  /\ ~manualMode
  /\ UNCHANGED <<canGear, clutchIs, manualMode, ticked>>
  /\ gb' = CASE gb.gear = 1 -> ProcessEvent(Silent(gb), "EV_NEUTRAL_UP_PRESSED")
             [] gb.gear = 2 -> ProcessEvent(Silent(gb), "EV_NEUTRAL_DOWN_PRESSED")
             [] OTHER       -> Silent(gb)

ManualShift(up) ==
  /\ manualMode
  /\ UNCHANGED <<canGear, clutchIs, manualMode, ticked>>
  /\ gb' = IF gb.manualActive THEN Silent(gb)
           ELSE Say([Silent(gb) EXCEPT !.manualActive = TRUE, !.manualAge = 0],
                    ManualCall(up))

SwitchManual ==
  /\ manualMode' = ~manualMode
  /\ gb' = Silent(gb)
  /\ UNCHANGED <<canGear, clutchIs, ticked>>

Tick ==
  /\ ticked' = TRUE
  /\ UNCHANGED <<canGear, clutchIs, manualMode>>
  /\ gb' = LET synced == SyncGear(Silent(gb), canGear)
           IN IF manualMode THEN TickManual(synced) ELSE TickAuto(synced, clutchIs)

\* can_poll and servo_can_poll: the rear node's report and the clutch's feedback
\* change, or go stale, in any order.
GearReported ==
  /\ UNCHANGED <<clutchIs, manualMode, ticked>>
  /\ canGear' \in Reports \ {canGear}
  /\ gb' = Silent(gb)

ClutchMoved ==
  /\ UNCHANGED <<canGear, manualMode, ticked>>
  /\ clutchIs' \in SUBSET ClutchPredicates
  /\ gb' = Silent(gb)

Older(age) == IF age < AgeCap THEN age + 1 ELSE age

\* A manual shift's age is read against its duration only, and the age of an idle or an
\* error state nowhere.
Aging(s) == ~IsIdle(s) /\ s # GB_ERROR_SHIFT_TIMEOUT

Time ==
  /\ ticked' = FALSE
  /\ UNCHANGED <<canGear, clutchIs, manualMode>>
  /\ gb' = [Silent(gb) EXCEPT
              !.age       = IF Aging(gb.state) THEN Older(@) ELSE @,
              !.shiftAge  = IF gb.pulse = "none" THEN @ ELSE Older(@),
              !.manualAge = IF gb.manualActive /\ @ < ManualDuration THEN @ + 1 ELSE @]

Rider == UpPressed \/ DownPressed \/ NeutralPressed \/ SwitchManual
           \/ \E up \in BOOLEAN : ManualShift(up)
Buses == ClutchMoved \/ GearReported
Next  == Buses \/ Time \/ Rider \/ Tick

\* The loop passes for ever and the clock runs; nothing is promised of the
\* rider, the rear node or the servo.
\* (Only Tick sets ticked and only Time clears it.)
Fairness == WF_ticked(ticked' = TRUE) /\ WF_ticked(ticked' = FALSE)

Safety == Init /\ [][Next]_vars
Spec   == Safety /\ Fairness

----------------------------------------------------------------------------
(* Invariants.                                                             *)

Machines ==
  [state : States, age : 0 .. AgeCap, gear : Gears, expected : -1 .. MaxGear + 1,
   target : Gears, pulse : Pulses \cup {"none"}, shiftAge : 0 .. AgeCap,
   wasManual : BOOLEAN, manualActive : BOOLEAN, manualAge : 0 .. AgeCap,
   timedOut : BOOLEAN, calls : Seq(CallTypes)]

\* The values the machine's variables range over.  A press that follows a stale
\* gear may expect gear -1 or MaxGear + 1; the stack's target stays a gear.
TypeOK ==
  /\ gb \in Machines
  /\ canGear \in Reports
  /\ clutchIs \subseteq ClutchPredicates
  /\ manualMode \in BOOLEAN
  /\ ticked \in BOOLEAN

Tracks(g) ==
  /\ g.pulse # "none" <=> g.state \in PulseStates
  /\ g.pulse # "none" => g.shiftAge = g.age

\* A pulse is timed in exactly the states entered by sending one, and it is as
\* old as its state: no early confirmation, abort, mode switch or stacked press
\* leaves a pulse running in another state or a state waiting for no pulse.
PulseTracksState == Tracks(gb)

\* The generic shift timeout never fires: a pulse is shorter than the timeout and
\* its end is looked at first, however late the loop comes round, so
\* gearbox_timeout_count() stays 0 and only an unconfirmed clutch aborts a shift.
NeverTimesOut == ~gb.timedOut

Against(call, held) ==
  /\ call.pulse \in {"shiftUp", "shiftDown"} /\ call.ignition = "on"
  /\ "clutch_disengaged" \notin held

Interlocked(g, held) == \A i \in DOMAIN g.calls : ~Against(g.calls[i], held)

\* The interlock: a full shift is sent with an ignition cut, or in a call that sees
\* the clutch disengaged on fresh feedback - never against drive on a timeout, from
\* a stack, from a stale gear or on the way back from manual mode.
NeverAgainstDrive == Interlocked(gb, clutchIs)

\* The idle state a machine is in, or returns to when the clutch is not pulled.
Home(g) == IF IsWaiting(g.state) THEN GB_IDLE_NEUTRAL ELSE g.state

Explained(g) == IsIdle(Home(g)) => Home(g) \in {IdleFor(g.gear), IdleFor(g.expected)}

\* An idle state is the confirmed gear's or the one the last shift aimed at; no
\* abort, timeout, early report or mode change parks the machine in a third gear.
IdleIsExplained ==
  IsIdle(gb.state) => gb.state \in {IdleFor(gb.gear), IdleFor(gb.expected)}

\* The inductive invariant behind the four: waiting for the clutch has to remember
\* that neutral was explained when the wait began.
MachineInv(g, held) == Tracks(g) /\ ~g.timedOut /\ Explained(g) /\ Interlocked(g, held)
GearboxInv == TypeOK /\ MachineInv(gb, clutchIs)

----------------------------------------------------------------------------
(* Action properties.                                                      *)

ShiftCalls == { i \in DOMAIN gb.calls : gb.calls[i].fn \in ShiftFns }
Asked(fn)  == \E i \in DOMAIN gb.calls : gb.calls[i].fn = fn

\* At most one shift frame leaves in a step, and none while a pulse is running
\* unless the rear node has just confirmed a new gear (_activateShift).
PulsesDoNotOverlap ==
  [][ /\ \A i, j \in ShiftCalls' : i = j
      /\ (ShiftCalls' # {} /\ ~manualMode) =>
           (gb.pulse = "none" \/ gb.gear # gb'.gear) ]_vars

\* The clutch is pulled for a downshift only at a press in an idle state or when
\* the rear node has just confirmed a gear still above the stack's target: no
\* timeout and no repeated report fires a stacked downshift (_setGear).
StackFiresOnConfirmation ==
  [][ Asked("clutch_command_pull")' =>
        \/ IsIdle(gb.state) /\ gb.gear = gb'.gear /\ DownPressed
        \/ /\ gb.target > 0 /\ canGear = gb'.gear
           /\ gb'.gear # gb.gear /\ gb'.gear > gb.target ]_vars

StackCalls(g) == { i \in DOMAIN g.calls : g.calls[i].fn = "can_send_shift_stack" }

Told(g, shown) ==
  \/ StackCalls(g) = {} /\ g.target = shown
  \/ \E i \in StackCalls(g) : /\ g.calls[i].gear = g.target
                              /\ \A j \in StackCalls(g) : j <= i

\* The display is told of every change of the stack: whatever fires, clears or pushes
\* it within one step, the last stack frame of the step carries the target the machine
\* is left with, and a step that sends none leaves the target alone (_clearStack).
StackIsTold == [][Told(gb', gb.target)]_vars

\* The first tick back from manual mode leaves no shift, stack or pulse of the
\* time before, whatever the rear node reports in it (gearbox_tick).
ManualLeavesNothing ==
  [][ Tick /\ ~manualMode /\ gb.wasManual =>
        /\ gb'.state = IdleFor(gb'.gear)
        /\ gb'.target = 0 /\ gb'.pulse = "none" ]_vars

----------------------------------------------------------------------------
(* Liveness.                                                               *)

Unfinished == ~IsIdle(gb.state) /\ gb.state # GB_DOWNSHIFT_TO_BITE_POINT

\* Once the rear node's report has settled, every shift, wait and abort comes to
\* an end - an idle state or the hold at the bite point - unless the rider leaves
\* auto mode, however the clutch moves and however many presses keep arriving.
ShiftsFinish ==
  \A report \in Reports :
    <>[](canGear = report) => []<>(~Unfinished \/ manualMode)

----------------------------------------------------------------------------
(* What a comment of gearbox.cpp says and the code does not do; refuted by a *)
(* run.                                                                    *)

\* gearbox.cpp:22-24: the cap on the return to the bite point "also bounds the
\* wait if CAN never confirms".
BiteWaitBounded ==
  [][ (Tick /\ ~manualMode /\ gb.state = GB_DOWNSHIFT_TO_BITE_POINT
         /\ gb.age >= StackBiteTimeout)
        => gb'.state # GB_DOWNSHIFT_TO_BITE_POINT ]_vars
=============================================================================
