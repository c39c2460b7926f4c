---------------------------- MODULE GearboxProofs ----------------------------
(***************************************************************************)
(* Theorems about the gearbox for every number of gears and every setting  *)
(* of the timeouts and shift timings that the assumptions allow.  The      *)
(* lemmas follow the functions of gearbox.cpp from the inside out.         *)
(***************************************************************************)
EXTENDS Gearbox, TLAPS

\* The timings are numbers, and every pulse is shorter than the shift timeout.
LEMMA Timing ==
  /\ AgeCap \in Nat
  /\ ShiftTimeout \in Nat
  /\ \A pulse \in Pulses : PulseMs[pulse] \in Nat /\ PulseMs[pulse] < ShiftTimeout
BY TimingAssumption

\* Every state is of one of the kinds that _transitionTo tells apart.
LEMMA StateKinds ==
  \A s \in States :
    \/ IsIdle(s) \/ s = GB_DOWNSHIFT_TO_BITE_POINT
    \/ IsShifting(s) /\ s # GB_DOWNSHIFT_TO_BITE_POINT
    \/ s = GB_ERROR_SHIFT_TIMEOUT \/ IsWaiting(s)
BY GearsAssumption DEF States, IsIdle, IsShifting, IsWaiting, Gears,
   GB_NEUTRAL_DOWN_SHIFTING, GB_DOWNSHIFT_TO_BITE_POINT, GB_ERROR_SHIFT_TIMEOUT,
   GB_WAITING_FOR_CLUTCH_SHIFT_DOWN, GB_WAITING_FOR_CLUTCH_SHIFT_UP

\* The machine's gears are integers, and an aimed gear is off by at most one.
LEMMA NumbersTyped ==
  /\ 0 \in Gears /\ 0 \in 0 .. AgeCap
  /\ \A g \in Machines : /\ g.gear \in Int /\ g.expected \in Int
                         /\ \A s \in States : ExpectedFrom(s, g.gear) \in -1 .. MaxGear + 1
<1>1. \A gear \in Gears, s \in States : ExpectedFrom(s, gear) \in -1 .. MaxGear + 1
  BY GearsAssumption DEF ExpectedFrom, Gears
<1>2. \A g \in Machines : g.gear \in Gears /\ g.expected \in -1 .. MaxGear + 1
  BY DEF Machines
<1>3. 0 \in Gears /\ 0 \in 0 .. AgeCap /\ Gears \subseteq Int
  BY GearsAssumption, Timing DEF Gears
<1>4. (-1 .. MaxGear + 1) \subseteq Int
  BY GearsAssumption
<1> QED
  BY <1>1, <1>2, <1>3, <1>4

----------------------------------------------------------------------------
(* Types.                                                                  *)

\* Recording a call keeps the machine's type.
LEMMA SayType ==
  ASSUME NEW g \in Machines, NEW call \in CallTypes
  PROVE  Say(g, call) \in Machines
<1>1. g.calls \in Seq(CallTypes)
  BY DEF Machines
<1>2. Append(g.calls, call) \in Seq(CallTypes)
  BY <1>1
<1> QED
  BY <1>2 DEF Machines, Say

\* Every call the gearbox makes is one of CallTypes.
LEMMA CallsTyped ==
  /\ \A fn \in ClutchFns : ClutchCall(fn) \in CallTypes
  /\ \A target \in Gears : StackCall(target) \in CallTypes
  /\ \A from, to \in Int : LogStart(from, to) \in CallTypes
  /\ \A old, now \in Gears : LogChanged(old, now) \in CallTypes
  /\ \A pulse \in Pulses, ignition \in {"on", "cut"}, gear \in Int :
       ShiftCall(pulse, ignition, gear) \in CallTypes
  /\ \A up \in BOOLEAN : ManualCall(up) \in CallTypes
<1>1. \A n \in Int : Byte(n) \in 0 .. 255
  BY DEF Byte
<1>2. Gears \subseteq 0 .. 255 /\ 0 \in 0 .. 255
  BY GearsAssumption DEF Gears
<1> QED
  BY <1>1, <1>2 DEF CallTypes, Call, Plain, ClutchCall, StackCall, LogStart, LogChanged,
     ShiftCall, ManualCall, ClutchFns, ShiftFns, UpPulses, DownPulses, Pulses,
     GEAR_UNKNOWN

\* _clearStack keeps the machine's type.
LEMMA ClearStackType ==
  ASSUME NEW g \in Machines
  PROVE  ClearStack(g) \in Machines
<1>1. [g EXCEPT !.target = 0] \in Machines
  BY NumbersTyped DEF Machines
<1> QED
  BY <1>1, SayType, CallsTyped, NumbersTyped DEF ClearStack

\* The end of a pulse keeps the machine's type.
LEMMA EndPulseType ==
  ASSUME NEW g \in Machines
  PROVE  EndPulse(g) \in Machines
BY NumbersTyped DEF Machines, EndPulse

\* _activateShift keeps the machine's type.
LEMMA ActivateShiftType ==
  ASSUME NEW g \in Machines, NEW pulse \in Pulses, NEW ignition \in {"on", "cut"}
  PROVE  ActivateShift(g, pulse, ignition) \in Machines
<1>1. [g EXCEPT !.pulse = pulse, !.shiftAge = 0] \in Machines
  BY NumbersTyped DEF Machines
<1>2. g.expected \in Int
  BY NumbersTyped
<1> QED
  BY <1>1, <1>2, SayType, CallsTyped DEF ActivateShift

\* _enterIdle keeps the machine's type.
LEMMA EnterIdleType ==
  ASSUME NEW g \in Machines
  PROVE  EnterIdle(g) \in Machines
BY SayType, EndPulseType, CallsTyped DEF EnterIdle, ClutchFns

\* _enterBitePoint keeps the machine's type.
LEMMA EnterBitePointType ==
  ASSUME NEW g \in Machines
  PROVE  EnterBitePoint(g) \in Machines
BY SayType, CallsTyped DEF EnterBitePoint, ClutchFns

\* _enterError keeps the machine's type.
LEMMA EnterErrorType ==
  ASSUME NEW g \in Machines
  PROVE  EnterError(g) \in Machines
BY SayType, EndPulseType, ClearStackType, CallsTyped DEF EnterError, ClutchFns

\* _enterShifting keeps the machine's type from every gear.
LEMMA EnterShiftingType ==
  ASSUME NEW g \in Machines
  PROVE  EnterShifting(g) \in Machines
<1> DEFINE aimed  == [g EXCEPT !.expected = ExpectedFrom(g.state, g.gear)]
           logged == Say(aimed, LogStart(g.gear, aimed.expected))
<1>1. aimed \in Machines /\ g.gear \in Int /\ aimed.expected \in Int
  BY NumbersTyped DEF Machines
<1>2. logged \in Machines
  BY <1>1, SayType, CallsTyped
<1>3. \A pulse \in Pulses, ignition \in {"on", "cut"} :
        /\ ActivateShift(logged, pulse, ignition) \in Machines
        /\ ActivateShift(aimed, pulse, ignition) \in Machines
  BY <1>1, <1>2, ActivateShiftType
<1>4. Say(logged, ClutchCall("clutch_command_pull")) \in Machines
  BY <1>2, SayType, CallsTyped DEF ClutchFns
<1> HIDE DEF aimed, logged
<1> QED
  BY <1>3, <1>4 DEF EnterShifting, aimed, logged, Pulses, UpPulses, DownPulses

\* _transitionTo keeps the machine's type, whatever the state entered.
LEMMA TransitionToType ==
  ASSUME NEW g \in Machines, NEW next \in States
  PROVE  TransitionTo(g, next) \in Machines
<1> DEFINE entered == [g EXCEPT !.state = next, !.age = 0]
<1>1. entered \in Machines
  BY NumbersTyped DEF Machines
<1>2. /\ EnterIdle(entered) \in Machines
      /\ EnterBitePoint(entered) \in Machines
      /\ EnterShifting(entered) \in Machines
      /\ EnterError(entered) \in Machines
  BY <1>1, EnterIdleType, EnterBitePointType, EnterShiftingType, EnterErrorType
<1>3. \/ IsIdle(next) \/ next = GB_DOWNSHIFT_TO_BITE_POINT
      \/ IsShifting(next) /\ next # GB_DOWNSHIFT_TO_BITE_POINT
      \/ next = GB_ERROR_SHIFT_TIMEOUT \/ IsWaiting(next)
  BY StateKinds
<1> QED
  BY <1>1, <1>2, <1>3 DEF TransitionTo

\* Both ends of every row of the table are states.
LEMMA TableTyped ==
  \A row \in Table : row.from \in States /\ row.to \in States
<1>1. \A n \in Gears : n \in States
  BY GearsAssumption DEF Gears, States, GB_ERROR_SHIFT_TIMEOUT
<1> QED
  BY <1>1, GearsAssumption DEF Table, Row, Gears, States, GB_IDLE_NEUTRAL,
     GB_NEUTRAL_DOWN_SHIFTING, GB_NEUTRAL_UP_SHIFTING, GB_UPSHIFTING,
     GB_DOWNSHIFT_CLUTCH_ENGAGING, GB_DOWNSHIFT_SHIFTING,
     GB_WAITING_FOR_CLUTCH_SHIFT_DOWN, GB_WAITING_FOR_CLUTCH_SHIFT_UP,
     GB_ERROR_SHIFT_TIMEOUT

\* The states the code names outside the table are states.
LEMMA StatesTyped ==
  /\ \A gear \in Int : IdleFor(gear) \in Gears /\ IdleFor(gear) \in States
  /\ {GB_DOWNSHIFT_TO_BITE_POINT, GB_DOWNSHIFT_CLUTCH_ENGAGING,
      GB_ERROR_SHIFT_TIMEOUT} \subseteq States
BY GearsAssumption DEF IdleFor, Gears, States, GB_IDLE_NEUTRAL,
   GB_DOWNSHIFT_TO_BITE_POINT, GB_DOWNSHIFT_CLUTCH_ENGAGING, GB_ERROR_SHIFT_TIMEOUT

\* What Follow does: nothing, or the transition of one row of the table.
LEMMA FollowsARow ==
  ASSUME NEW g, NEW event
  PROVE  \/ Follow(g, event) = g
         \/ \E row \in Table : /\ row.from = g.state /\ row.event = event
                               /\ Follow(g, event) = TransitionTo(g, row.to)
<1>1. CASE RowsFor(g.state, event) = {}
  BY <1>1 DEF Follow
<1>2. CASE RowsFor(g.state, event) # {}
  <2> DEFINE row == CHOOSE r \in RowsFor(g.state, event) : TRUE
  <2>1. row \in RowsFor(g.state, event)
    BY <1>2
  <2>2. row \in Table /\ row.from = g.state /\ row.event = event
    BY <2>1 DEF RowsFor
  <2>3. Follow(g, event) = TransitionTo(g, row.to)
    BY <1>2 DEF Follow
  <2> QED
    BY <2>2, <2>3
<1> QED
  BY <1>1, <1>2

\* _processEvent keeps the machine's type for every event.
LEMMA ProcessEventType ==
  ASSUME NEW g \in Machines, NEW event
  PROVE  ProcessEvent(g, event) \in Machines
<1>1. \A h \in Machines : Follow(h, event) \in Machines
  BY FollowsARow, TableTyped, TransitionToType
<1>2. PushStack(g) \in Machines
  <2> DEFINE target == AtLeastOne((IF g.target = 0 THEN g.expected ELSE g.target) - 1)
  <2>1. g.target \in Gears /\ g.expected \in -1 .. MaxGear + 1
    BY DEF Machines
  <2>2. target \in Gears
    BY <2>1, GearsAssumption DEF AtLeastOne, Gears
  <2>3. [g EXCEPT !.target = target] \in Machines
    BY <2>2 DEF Machines
  <2> HIDE DEF target
  <2>4. Say([g EXCEPT !.target = target], StackCall(target)) \in Machines
    BY <2>2, <2>3, SayType, CallsTyped
  <2> QED
    BY <2>4 DEF PushStack, target
<1>3. TransitionTo(g, IdleFor(g.gear)) \in Machines
  BY NumbersTyped, StatesTyped, TransitionToType
<1> QED
  BY <1>1, <1>2, <1>3, ClearStackType DEF ProcessEvent

\* _setGear keeps the machine's type for every report.
LEMMA SetGearType ==
  ASSUME NEW g \in Machines, NEW gear
  PROVE  SetGear(g, gear) \in Machines
<1>1. \A h \in Machines : NextStacked(h) \in Machines
  BY StatesTyped, TransitionToType, ProcessEventType, ClearStackType DEF NextStacked
<1>2. CASE gear \in Gears
  <2>1. [g EXCEPT !.gear = gear] \in Machines /\ g.gear \in Gears
    BY <1>2 DEF Machines
  <2>2. Say(ProcessEvent([g EXCEPT !.gear = gear], "EV_GEAR_CHANGED"),
            LogChanged(g.gear, gear)) \in Machines
    BY <1>2, <2>1, ProcessEventType, SayType, CallsTyped
  <2> QED
    BY <1>1, <2>2 DEF SetGear
<1>3. CASE gear \notin Gears
  BY <1>3 DEF SetGear
<1> QED
  BY <1>2, <1>3

\* The manual half of gearbox_tick keeps the machine's type.
LEMMA TickManualType ==
  ASSUME NEW g \in Machines
  PROVE  TickManual(g) \in Machines
BY NumbersTyped DEF Machines, TickManual

\* The way back from manual mode keeps the machine's type.
LEMMA LeaveManualType ==
  ASSUME NEW g \in Machines
  PROVE  LeaveManual(g) \in Machines
<1>1. [g EXCEPT !.wasManual = FALSE] \in Machines
  BY DEF Machines
<1>2. IdleFor(g.gear) \in States
  BY NumbersTyped, StatesTyped
<1> QED
  BY <1>1, <1>2, EndPulseType, ClearStackType, TransitionToType DEF LeaveManual

\* _updateShiftTiming keeps the machine's type.
LEMMA UpdateShiftTimingType ==
  ASSUME NEW g \in Machines
  PROVE  UpdateShiftTiming(g) \in Machines
<1>1. IdleFor(g.expected) \in States
  BY NumbersTyped, StatesTyped
<1> QED
  BY <1>1, StatesTyped, EndPulseType, TransitionToType DEF UpdateShiftTiming

\* _checkTimeouts keeps the machine's type.
LEMMA CheckTimeoutsType ==
  ASSUME NEW g \in Machines
  PROVE  CheckTimeouts(g) \in Machines
<1>1. [g EXCEPT !.timedOut = TRUE] \in Machines
  BY DEF Machines
<1> QED
  BY <1>1, StatesTyped, TransitionToType DEF CheckTimeouts

\* _updateState keeps the machine's type.
LEMMA UpdateStateType ==
  ASSUME NEW g \in Machines, NEW held
  PROVE  UpdateState(g, held) \in Machines
<1>1. IdleFor(g.gear) \in States /\ IdleFor(g.expected) \in States
  BY NumbersTyped, StatesTyped
<1> QED
  BY <1>1, StatesTyped, TransitionToType, ProcessEventType, ClearStackType
     DEF UpdateState, UpdateDownshiftClutchWait, UpdateToBitePoint, UpdateWaiting

\* Forgetting the calls of the step before keeps the machine's type.
LEMMA SilentType ==
  ASSUME NEW g \in Machines
  PROVE  Silent(g) \in Machines
<1>1. << >> \in Seq(CallTypes)
  OBVIOUS
<1> QED
  BY <1>1 DEF Machines, Silent

\* The values of the variables: every handler keeps them.
THEOREM TypeCorrect == Safety => []TypeOK
<1>1. Init => TypeOK
  <2> SUFFICES ASSUME Init PROVE TypeOK
    OBVIOUS
  <2>1. /\ 0 \in States /\ 0 \in Gears /\ 0 \in 0 .. AgeCap /\ 0 \in -1 .. MaxGear + 1
        /\ << >> \in Seq(CallTypes)
    BY NumbersTyped, GearsAssumption DEF States, GB_ERROR_SHIFT_TIMEOUT
  <2>2. gb \in Machines
    BY <2>1 DEF Init, Machines, GB_IDLE_NEUTRAL
  <2> QED
    BY <2>2 DEF Init, TypeOK, Reports, GEAR_UNKNOWN
<1>2. TypeOK /\ [Next]_vars => TypeOK'
  <2> SUFFICES ASSUME TypeOK, [Next]_vars PROVE TypeOK'
    OBVIOUS
  <2>0. gb \in Machines /\ Silent(gb) \in Machines
    BY SilentType DEF TypeOK
  <2>1. CASE UpPressed
    BY <2>0, <2>1, ProcessEventType DEF UpPressed, TypeOK
  <2>2. CASE DownPressed
    BY <2>0, <2>2, ProcessEventType DEF DownPressed, TypeOK
  <2>3. CASE NeutralPressed
    BY <2>0, <2>3, ProcessEventType DEF NeutralPressed, TypeOK
  <2>4. ASSUME NEW up \in BOOLEAN, ManualShift(up) PROVE TypeOK'
    <3>1. [Silent(gb) EXCEPT !.manualActive = TRUE, !.manualAge = 0] \in Machines
      BY <2>0, NumbersTyped DEF Machines
    <3>2. gb' \in Machines
      BY <2>0, <2>4, <3>1, SayType, CallsTyped DEF ManualShift
    <3> QED
      BY <2>4, <3>2 DEF ManualShift, TypeOK
  <2>5. CASE SwitchManual
    BY <2>0, <2>5 DEF SwitchManual, TypeOK
  <2>6. CASE GearReported
    BY <2>0, <2>6 DEF GearReported, TypeOK
  <2>7. CASE ClutchMoved
    BY <2>0, <2>7 DEF ClutchMoved, TypeOK
  <2>8. CASE Tick
    <3> DEFINE synced == SyncGear(Silent(gb), canGear)
    <3>1. synced \in Machines
      BY <2>0, SetGearType DEF SyncGear
    <3>2. TickManual(synced) \in Machines
      BY <3>1, TickManualType
    <3>3. TickAuto(synced, clutchIs) \in Machines
      BY <3>1, LeaveManualType, UpdateShiftTimingType, CheckTimeoutsType,
         UpdateStateType DEF TickAuto
    <3> QED
      BY <2>8, <3>2, <3>3 DEF Tick, TypeOK
  <2>9. CASE Time
    <3>1. \A age \in 0 .. AgeCap : /\ Older(age) \in 0 .. AgeCap
                                   /\ age < ManualDuration => age + 1 \in 0 .. AgeCap
      BY Timing, TimingAssumption DEF Older
    <3>2. /\ gb.age \in 0 .. AgeCap /\ gb.shiftAge \in 0 .. AgeCap
          /\ gb.manualAge \in 0 .. AgeCap
          /\ Silent(gb).age = gb.age /\ Silent(gb).shiftAge = gb.shiftAge
          /\ Silent(gb).manualAge = gb.manualAge
      BY <2>0 DEF Machines, Silent
    <3>3. gb' \in Machines
      BY <2>0, <2>9, <3>1, <3>2 DEF Time, Machines
    <3> QED
      BY <2>9, <3>3 DEF Time, TypeOK
  <2>10. CASE UNCHANGED vars
    BY <2>10 DEF vars, TypeOK
  <2> QED
    BY <2>1, <2>2, <2>3, <2>4, <2>5, <2>6, <2>7, <2>8, <2>9, <2>10
       DEF Next, Rider, Buses
<1> QED
  BY <1>1, <1>2, PTL DEF Safety

----------------------------------------------------------------------------
(* What each function leaves alone, and what it makes true.                *)

\* The kinds of state exclude one another.
LEMMA KindsDisjoint ==
  ASSUME NEW s \in States
  PROVE  /\ s \in PulseStates =>
              /\ IsShifting(s) /\ ~IsIdle(s) /\ ~IsWaiting(s)
              /\ s \notin {GB_DOWNSHIFT_TO_BITE_POINT, GB_DOWNSHIFT_CLUTCH_ENGAGING,
                           GB_ERROR_SHIFT_TIMEOUT}
         /\ IsIdle(s) => /\ ~IsShifting(s) /\ ~IsWaiting(s)
                         /\ s # GB_ERROR_SHIFT_TIMEOUT
         /\ IsWaiting(s) => ~IsShifting(s) /\ s # GB_ERROR_SHIFT_TIMEOUT
         /\ s = GB_ERROR_SHIFT_TIMEOUT => ~IsShifting(s)
         /\ s = GB_DOWNSHIFT_CLUTCH_ENGAGING =>
              IsShifting(s) /\ s # GB_DOWNSHIFT_TO_BITE_POINT
         /\ s = GB_DOWNSHIFT_TO_BITE_POINT => IsShifting(s)
         /\ IsShifting(s) => \/ s \in PulseStates
                             \/ s \in {GB_DOWNSHIFT_TO_BITE_POINT,
                                       GB_DOWNSHIFT_CLUTCH_ENGAGING}
BY GearsAssumption DEF States, IsIdle, IsShifting, IsWaiting, Gears, PulseStates,
   GB_NEUTRAL_DOWN_SHIFTING, GB_NEUTRAL_UP_SHIFTING, GB_UPSHIFTING,
   GB_DOWNSHIFT_CLUTCH_ENGAGING, GB_DOWNSHIFT_SHIFTING, GB_DOWNSHIFT_TO_BITE_POINT,
   GB_ERROR_SHIFT_TIMEOUT, GB_WAITING_FOR_CLUTCH_SHIFT_DOWN,
   GB_WAITING_FOR_CLUTCH_SHIFT_UP

\* Recording a call changes nothing but the calls.
LEMMA SayKeeps ==
  ASSUME NEW g \in Machines, NEW call
  PROVE  LET h == Say(g, call)
         IN /\ h.state = g.state /\ h.age = g.age /\ h.gear = g.gear
            /\ h.expected = g.expected /\ h.target = g.target /\ h.pulse = g.pulse
            /\ h.shiftAge = g.shiftAge /\ h.timedOut = g.timedOut
            /\ h.wasManual = g.wasManual
BY DEF Machines, Say

\* A call that is not against drive keeps the calls interlocked.
LEMMA SayInterlocked ==
  ASSUME NEW g \in Machines, NEW call \in CallTypes, NEW held,
         Interlocked(g, held), ~Against(call, held)
  PROVE  Interlocked(Say(g, call), held)
<1>1. g.calls \in Seq(CallTypes) /\ Say(g, call).calls = Append(g.calls, call)
  BY DEF Machines, Say
<1>2. \A i \in DOMAIN Append(g.calls, call) :
        \/ i \in DOMAIN g.calls /\ Append(g.calls, call)[i] = g.calls[i]
        \/ Append(g.calls, call)[i] = call
  BY <1>1
<1> QED
  BY <1>1, <1>2 DEF Interlocked

\* Calls of the clutch, the stack and the log are never against drive.
LEMMA QuietCalls ==
  /\ \A fn, held : ~Against(ClutchCall(fn), held)
  /\ \A target, held : ~Against(StackCall(target), held)
  /\ \A from, to, held : ~Against(LogStart(from, to), held)
  /\ \A old, now, held : ~Against(LogChanged(old, now), held)
  /\ \A pulse, ignition, gear, held :
       \/ ignition = "cut" \/ pulse \in {"neutralUp", "neutralDown"}
       \/ "clutch_disengaged" \in held
       => ~Against(ShiftCall(pulse, ignition, gear), held)
  /\ \A up, held : ~Against(ManualCall(up), held)
BY DEF Against, ClutchCall, StackCall, LogStart, LogChanged, ShiftCall, ManualCall,
   Plain, Call

\* _clearStack touches the stack and the calls alone.
LEMMA ClearStackKeeps ==
  ASSUME NEW g \in Machines
  PROVE  LET h == ClearStack(g)
         IN /\ h.state = g.state /\ h.age = g.age /\ h.gear = g.gear
            /\ h.expected = g.expected /\ h.target = 0 /\ h.pulse = g.pulse
            /\ h.shiftAge = g.shiftAge /\ h.timedOut = g.timedOut
            /\ h.wasManual = g.wasManual
            /\ \A held : Interlocked(g, held) => Interlocked(h, held)
<1> DEFINE k == [g EXCEPT !.target = 0]
<1>1. /\ k \in Machines /\ g.target \in Gears /\ k.calls = g.calls
      /\ k.state = g.state /\ k.age = g.age /\ k.gear = g.gear
      /\ k.expected = g.expected /\ k.target = 0 /\ k.pulse = g.pulse
      /\ k.shiftAge = g.shiftAge /\ k.timedOut = g.timedOut
      /\ k.wasManual = g.wasManual
  BY NumbersTyped DEF Machines
<1>2. \A held : Interlocked(g, held) => Interlocked(k, held)
  BY <1>1 DEF Interlocked
<1> HIDE DEF k
<1>3. CASE g.target > 0
  <2>1. ClearStack(g) = Say(k, StackCall(0))
    BY <1>3 DEF ClearStack, k
  <2>2. StackCall(0) \in CallTypes
    BY CallsTyped, NumbersTyped
  <2> QED
    BY <1>1, <1>2, <2>1, <2>2, SayKeeps, SayInterlocked, QuietCalls
<1>4. CASE ~(g.target > 0)
  <2>1. ClearStack(g) = g /\ g.target = 0
    BY <1>1, <1>4, GearsAssumption DEF ClearStack, Gears
  <2> QED
    BY <2>1
<1> QED
  BY <1>3, <1>4

\* The end of a pulse touches the pulse alone.
LEMMA EndPulseKeeps ==
  ASSUME NEW g \in Machines
  PROVE  LET h == EndPulse(g)
         IN /\ h.state = g.state /\ h.age = g.age /\ h.gear = g.gear
            /\ h.expected = g.expected /\ h.target = g.target /\ h.pulse = "none"
            /\ h.timedOut = g.timedOut /\ h.wasManual = g.wasManual
            /\ \A held : Interlocked(g, held) => Interlocked(h, held)
BY DEF Machines, EndPulse, Interlocked

\* _activateShift starts a pulse, and sends one that is not against drive.
LEMMA ActivateShiftKeeps ==
  ASSUME NEW g \in Machines, NEW pulse \in Pulses, NEW ignition \in {"on", "cut"}
  PROVE  LET h == ActivateShift(g, pulse, ignition)
         IN /\ h.state = g.state /\ h.age = g.age /\ h.gear = g.gear
            /\ h.expected = g.expected /\ h.target = g.target /\ h.pulse = pulse
            /\ h.shiftAge = 0 /\ h.timedOut = g.timedOut
            /\ \A held : /\ Interlocked(g, held)
                         /\ \/ ignition = "cut"
                            \/ pulse \in {"neutralUp", "neutralDown"}
                            \/ "clutch_disengaged" \in held
                         => Interlocked(h, held)
<1> DEFINE k == [g EXCEPT !.pulse = pulse, !.shiftAge = 0]
           call == ShiftCall(pulse, ignition, g.expected)
<1>1. /\ k \in Machines /\ k.calls = g.calls
      /\ k.state = g.state /\ k.age = g.age /\ k.gear = g.gear
      /\ k.expected = g.expected /\ k.target = g.target /\ k.pulse = pulse
      /\ k.shiftAge = 0 /\ k.timedOut = g.timedOut
  BY NumbersTyped DEF Machines
<1>2. call \in CallTypes
  BY NumbersTyped, CallsTyped
<1>3. \A held : Interlocked(g, held) => Interlocked(k, held)
  BY <1>1 DEF Interlocked
<1>4. \A held : /\ \/ ignition = "cut"
                   \/ pulse \in {"neutralUp", "neutralDown"}
                   \/ "clutch_disengaged" \in held
                => ~Against(call, held)
  BY QuietCalls
<1>5. ActivateShift(g, pulse, ignition) = Say(k, call)
  BY DEF ActivateShift
<1> HIDE DEF k, call
<1> QED
  BY <1>1, <1>2, <1>3, <1>4, <1>5, SayKeeps, SayInterlocked

\* What a transition to another state does.
LEMMA TransitionToEffect ==
  ASSUME NEW g \in Machines, NEW next \in States, next # g.state
  PROVE  LET h == TransitionTo(g, next)
         IN /\ h.state = next /\ h.age = 0 /\ h.gear = g.gear
            /\ h.timedOut = g.timedOut
            /\ IsIdle(next) \/ IsWaiting(next) => h.expected = g.expected
            /\ IsIdle(next) \/ next = GB_ERROR_SHIFT_TIMEOUT => h.pulse = "none"
            /\ next \in PulseStates => h.pulse # "none" /\ h.shiftAge = 0
            /\ \/ IsWaiting(next)
               \/ next \in {GB_DOWNSHIFT_TO_BITE_POINT, GB_DOWNSHIFT_CLUTCH_ENGAGING}
               => h.pulse = g.pulse
            /\ \A held :
                 /\ Interlocked(g, held)
                 /\ next = GB_DOWNSHIFT_SHIFTING => "clutch_disengaged" \in held
                 /\ next \in {GB_NEUTRAL_DOWN_SHIFTING, GB_NEUTRAL_UP_SHIFTING} =>
                      "clutch_disengaged" \in held \/ g.gear # 0
                 => Interlocked(h, held)
<1> DEFINE k == [g EXCEPT !.state = next, !.age = 0]
           h == TransitionTo(g, next)
<1>1. /\ k \in Machines /\ k.calls = g.calls /\ k.state = next /\ k.age = 0
      /\ k.gear = g.gear /\ k.timedOut = g.timedOut /\ k.expected = g.expected
      /\ k.pulse = g.pulse
  BY NumbersTyped DEF Machines
<1>2. \A held : Interlocked(g, held) => Interlocked(k, held)
  BY <1>1 DEF Interlocked
<1>3. \A fn \in ClutchFns : ClutchCall(fn) \in CallTypes
  BY CallsTyped
<1>4. h = IF IsIdle(next) THEN EnterIdle(k)
          ELSE IF next = GB_DOWNSHIFT_TO_BITE_POINT THEN EnterBitePoint(k)
          ELSE IF IsShifting(next) THEN EnterShifting(k)
          ELSE IF next = GB_ERROR_SHIFT_TIMEOUT THEN EnterError(k)
          ELSE k
  BY StateKinds, KindsDisjoint DEF TransitionTo
<1> HIDE DEF k, h
<1>5. CASE IsIdle(next)
  <2> DEFINE said == Say(k, ClutchCall("clutch_release"))
  <2>1. /\ said \in Machines /\ h = EndPulse(said)
        /\ \A held : Interlocked(k, held) => Interlocked(said, held)
    BY <1>1, <1>3, <1>4, <1>5, SayType, SayInterlocked, QuietCalls
       DEF EnterIdle, ClutchFns
  <2>2. /\ said.state = next /\ said.age = 0 /\ said.gear = g.gear
        /\ said.timedOut = g.timedOut /\ said.expected = g.expected
    BY <1>1, SayKeeps
  <2> HIDE DEF said
  <2> QED
    BY <1>2, <1>5, <2>1, <2>2, EndPulseKeeps, KindsDisjoint DEF h
<1>6. CASE next = GB_DOWNSHIFT_TO_BITE_POINT
  <2>1. h = Say(k, ClutchCall("clutch_command_bite"))
    BY <1>4, <1>6, KindsDisjoint DEF EnterBitePoint
  <2>2. \A held : Interlocked(k, held) => Interlocked(h, held)
    BY <1>1, <1>3, <2>1, SayInterlocked, QuietCalls DEF ClutchFns
  <2> QED
    BY <1>1, <1>2, <1>6, <2>1, <2>2, SayKeeps, KindsDisjoint DEF h
<1>7. CASE next = GB_ERROR_SHIFT_TIMEOUT
  <2> DEFINE ended == EndPulse(k)
             said  == Say(ended, ClutchCall("clutch_release"))
  <2>1. ended \in Machines /\ said \in Machines
    BY <1>1, <1>3, EndPulseType, SayType DEF ClutchFns
  <2>2. \A held : Interlocked(k, held) => Interlocked(said, held)
    BY <1>1, <1>3, <2>1, EndPulseKeeps, SayInterlocked, QuietCalls DEF ClutchFns
  <2>3. /\ said.state = next /\ said.age = 0 /\ said.gear = g.gear
        /\ said.timedOut = g.timedOut /\ said.pulse = "none"
    BY <1>1, <2>1, EndPulseKeeps, SayKeeps
  <2>4. h = ClearStack(said)
    BY <1>4, <1>7, KindsDisjoint DEF EnterError
  <2> HIDE DEF said, ended
  <2> QED
    BY <1>2, <1>7, <2>1, <2>2, <2>3, <2>4, ClearStackKeeps, KindsDisjoint DEF h
<1>8. CASE IsWaiting(next)
  <2>1. h = k
    BY <1>4, <1>8, KindsDisjoint
  <2> QED
    BY <1>1, <1>2, <1>8, <2>1, KindsDisjoint DEF h
<1>9. CASE IsShifting(next) /\ next # GB_DOWNSHIFT_TO_BITE_POINT
  <2> DEFINE aimed  == [k EXCEPT !.expected = ExpectedFrom(k.state, k.gear)]
             logged == Say(aimed, LogStart(k.gear, aimed.expected))
  <2>1. /\ aimed \in Machines /\ aimed.calls = k.calls /\ aimed.expected \in Int
        /\ aimed.state = next /\ aimed.age = 0 /\ aimed.gear = g.gear
        /\ aimed.timedOut = g.timedOut /\ aimed.pulse = g.pulse
    BY <1>1, NumbersTyped DEF Machines
  <2>2. LogStart(k.gear, aimed.expected) \in CallTypes
    BY <1>1, <2>1, NumbersTyped, CallsTyped
  <2>3. /\ logged \in Machines
        /\ logged.state = next /\ logged.age = 0 /\ logged.gear = g.gear
        /\ logged.timedOut = g.timedOut /\ logged.pulse = g.pulse
    BY <2>1, <2>2, SayType, SayKeeps
  <2>4. \A held : Interlocked(g, held) =>
                    Interlocked(aimed, held) /\ Interlocked(logged, held)
    <3>1. \A held : Interlocked(g, held) => Interlocked(aimed, held)
      BY <1>2, <2>1 DEF Interlocked
    <3> QED
      BY <2>1, <2>2, <3>1, SayInterlocked, QuietCalls
  <2>5. h = EnterShifting(k)
    BY <1>4, <1>9, KindsDisjoint
  <2> HIDE DEF aimed, logged
  <2>6. \/ /\ next = GB_DOWNSHIFT_CLUTCH_ENGAGING
           /\ h = Say(logged, ClutchCall("clutch_command_pull"))
        \/ /\ next = GB_UPSHIFTING
           /\ h = ActivateShift(logged, "shiftUp", "cut")
        \/ /\ next = GB_NEUTRAL_DOWN_SHIFTING
           /\ h = ActivateShift(logged, IF g.gear = 0 THEN "shiftDown"
                                                      ELSE "neutralDown", "on")
        \/ /\ next = GB_NEUTRAL_UP_SHIFTING
           /\ h = ActivateShift(logged, IF g.gear = 0 THEN "shiftUp"
                                                      ELSE "neutralUp", "on")
        \/ /\ next = GB_DOWNSHIFT_SHIFTING
           /\ h = ActivateShift(aimed, "shiftDown", "on")
    <3>1. h = CASE next = GB_NEUTRAL_DOWN_SHIFTING ->
                     ActivateShift(logged, IF g.gear = 0 THEN "shiftDown"
                                                         ELSE "neutralDown", "on")
                [] next = GB_NEUTRAL_UP_SHIFTING ->
                     ActivateShift(logged, IF g.gear = 0 THEN "shiftUp"
                                                         ELSE "neutralUp", "on")
                [] next = GB_UPSHIFTING -> ActivateShift(logged, "shiftUp", "cut")
                [] next = GB_DOWNSHIFT_CLUTCH_ENGAGING ->
                     Say(logged, ClutchCall("clutch_command_pull"))
                [] OTHER -> ActivateShift(aimed, "shiftDown", "on")
      BY <1>1, <2>5 DEF EnterShifting, aimed, logged
    <3>2. \/ next \in PulseStates \/ next = GB_DOWNSHIFT_CLUTCH_ENGAGING
      BY <1>9, KindsDisjoint
    <3> QED
      BY <3>1, <3>2, GearsAssumption DEF PulseStates, GB_NEUTRAL_DOWN_SHIFTING,
         GB_NEUTRAL_UP_SHIFTING, GB_UPSHIFTING, GB_DOWNSHIFT_CLUTCH_ENGAGING,
         GB_DOWNSHIFT_SHIFTING
  <2>7. CASE next = GB_DOWNSHIFT_CLUTCH_ENGAGING
    <3>1. h = Say(logged, ClutchCall("clutch_command_pull"))
      BY <2>6, <2>7, KindsDisjoint DEF PulseStates
    <3>2. \A held : Interlocked(logged, held) => Interlocked(h, held)
      BY <1>3, <2>3, <3>1, SayInterlocked, QuietCalls DEF ClutchFns
    <3> QED
      BY <2>3, <2>4, <2>7, <3>1, <3>2, SayKeeps, KindsDisjoint DEF h
  <2>8. CASE next # GB_DOWNSHIFT_CLUTCH_ENGAGING
    <3>1. PICK m \in Machines, pulse \in Pulses, ignition \in {"on", "cut"} :
            /\ m \in {aimed, logged} /\ h = ActivateShift(m, pulse, ignition)
            /\ next \in PulseStates
            /\ \/ ignition = "cut" \/ pulse \in {"neutralUp", "neutralDown"}
               \/ next = GB_DOWNSHIFT_SHIFTING
               \/ /\ next \in {GB_NEUTRAL_DOWN_SHIFTING, GB_NEUTRAL_UP_SHIFTING}
                  /\ g.gear = 0
      BY <2>1, <2>3, <2>6, <2>8 DEF PulseStates, Pulses, UpPulses, DownPulses
    <3>2. /\ h.state = next /\ h.age = 0 /\ h.gear = g.gear
          /\ h.timedOut = g.timedOut /\ h.pulse = pulse /\ h.shiftAge = 0
      BY <2>1, <2>3, <3>1, ActivateShiftKeeps
    <3>3. pulse # "none"
      BY DEF Pulses, UpPulses, DownPulses
    <3>4. \A held :
            /\ Interlocked(g, held)
            /\ next = GB_DOWNSHIFT_SHIFTING => "clutch_disengaged" \in held
            /\ next \in {GB_NEUTRAL_DOWN_SHIFTING, GB_NEUTRAL_UP_SHIFTING} =>
                 "clutch_disengaged" \in held \/ g.gear # 0
            => Interlocked(h, held)
      BY <2>4, <3>1, ActivateShiftKeeps
    <3> QED
      BY <3>1, <3>2, <3>3, <3>4, KindsDisjoint DEF h
  <2> QED
    BY <2>7, <2>8
<1> QED
  BY <1>5, <1>6, <1>7, <1>8, <1>9, StateKinds

----------------------------------------------------------------------------
(* The invariant.                                                          *)

\* In an idle state the machine is at home.
LEMMA HomeIsIdle ==
  \A gear \in Int : IdleFor(gear) \in States /\ IsIdle(IdleFor(gear))
BY StatesTyped DEF IsIdle

\* A transition establishes the invariant if it goes to a state that may be
\* entered: a waiting or holding state without a pulse, an idle state explained.
LEMMA TransitionToInv ==
  ASSUME NEW g \in Machines, NEW next \in States, NEW held,
         next # g.state, ~g.timedOut, Interlocked(g, held),
         \/ IsIdle(next) \/ next \in PulseStates \/ next = GB_ERROR_SHIFT_TIMEOUT
         \/ g.pulse = "none",
         IsIdle(next) => next \in {IdleFor(g.gear), IdleFor(g.expected)},
         IsWaiting(next) => GB_IDLE_NEUTRAL \in {IdleFor(g.gear), IdleFor(g.expected)},
         next = GB_DOWNSHIFT_SHIFTING => "clutch_disengaged" \in held,
         next \in {GB_NEUTRAL_DOWN_SHIFTING, GB_NEUTRAL_UP_SHIFTING} =>
           "clutch_disengaged" \in held \/ g.gear # 0
  PROVE  MachineInv(TransitionTo(g, next), held)
<1> DEFINE h == TransitionTo(g, next)
<1>1. /\ h.state = next /\ h.age = 0 /\ h.gear = g.gear /\ h.timedOut = g.timedOut
      /\ IsIdle(next) \/ IsWaiting(next) => h.expected = g.expected
      /\ IsIdle(next) \/ next = GB_ERROR_SHIFT_TIMEOUT => h.pulse = "none"
      /\ next \in PulseStates => h.pulse # "none" /\ h.shiftAge = 0
      /\ \/ IsWaiting(next)
         \/ next \in {GB_DOWNSHIFT_TO_BITE_POINT, GB_DOWNSHIFT_CLUTCH_ENGAGING}
         => h.pulse = g.pulse
      /\ Interlocked(h, held)
  BY TransitionToEffect
<1> HIDE DEF h
<1>2. Tracks(h)
  BY <1>1, StateKinds, KindsDisjoint DEF Tracks
<1>3. Explained(h)
  BY <1>1, KindsDisjoint DEF Explained, Home
<1> QED
  BY <1>1, <1>2, <1>3 DEF MachineInv, h

\* Going home: to the idle state of the confirmed or of the expected gear.
LEMMA GoHomeInv ==
  ASSUME NEW g \in Machines, NEW held,
         NEW next \in {IdleFor(g.gear), IdleFor(g.expected)},
         next = g.state => Tracks(g), ~g.timedOut, Interlocked(g, held)
  PROVE  MachineInv(TransitionTo(g, next), held)
<1>1. next \in States /\ IsIdle(next)
  BY NumbersTyped, HomeIsIdle
<1>2. CASE next = g.state
  <2>1. TransitionTo(g, next) = g
    BY <1>2 DEF TransitionTo
  <2>2. Explained(g)
    BY <1>1, <1>2, KindsDisjoint DEF Explained, Home
  <2> QED
    BY <1>2, <2>1, <2>2 DEF MachineInv
<1>3. CASE next # g.state
  <2>1. ~IsWaiting(next) /\ next \notin PulseStates
    BY <1>1, KindsDisjoint
  <2>2. /\ next # GB_DOWNSHIFT_SHIFTING
        /\ next \notin {GB_NEUTRAL_DOWN_SHIFTING, GB_NEUTRAL_UP_SHIFTING}
    BY <2>1 DEF PulseStates
  <2> QED
    BY <1>1, <1>3, <2>1, <2>2, TransitionToInv
<1> QED
  BY <1>2, <1>3

\* The shape of the table that the invariant rests on.
LEMMA TableShape ==
  ASSUME NEW row \in Table
  PROVE  /\ row.from \notin PulseStates
         /\ row.to \notin {GB_DOWNSHIFT_TO_BITE_POINT, GB_ERROR_SHIFT_TIMEOUT}
         /\ IsIdle(row.to) => IsWaiting(row.from) /\ row.to = GB_IDLE_NEUTRAL
         /\ IsWaiting(row.to) => row.from = GB_IDLE_NEUTRAL
         /\ row.to = GB_DOWNSHIFT_SHIFTING => row.event = "EV_CLUTCH_PULLED"
         /\ row.to \in {GB_NEUTRAL_DOWN_SHIFTING, GB_NEUTRAL_UP_SHIFTING} =>
              row.event \in {"EV_CLUTCH_PULLED", "EV_NEUTRAL_UP_PRESSED",
                             "EV_NEUTRAL_DOWN_PRESSED"}
BY GearsAssumption DEF Table, Row, Gears, PulseStates, IsIdle, IsWaiting,
   GB_IDLE_NEUTRAL, GB_NEUTRAL_DOWN_SHIFTING, GB_NEUTRAL_UP_SHIFTING, GB_UPSHIFTING,
   GB_DOWNSHIFT_CLUTCH_ENGAGING, GB_DOWNSHIFT_SHIFTING, GB_DOWNSHIFT_TO_BITE_POINT,
   GB_WAITING_FOR_CLUTCH_SHIFT_DOWN, GB_WAITING_FOR_CLUTCH_SHIFT_UP,
   GB_ERROR_SHIFT_TIMEOUT

\* A row of the table keeps the invariant; only neutral may begin to wait.
LEMMA FollowInv ==
  ASSUME NEW g \in Machines, NEW event, NEW held, MachineInv(g, held),
         event = "EV_CLUTCH_PULLED" => "clutch_disengaged" \in held,
         event \in {"EV_NEUTRAL_UP_PRESSED", "EV_NEUTRAL_DOWN_PRESSED"} => g.gear # 0
  PROVE  MachineInv(Follow(g, event), held)
<1>1. CASE Follow(g, event) = g
  BY <1>1
<1>2. ASSUME NEW row \in Table, row.from = g.state, row.event = event,
             Follow(g, event) = TransitionTo(g, row.to)
      PROVE  MachineInv(Follow(g, event), held)
  <2>1. row.to \in States /\ g.pulse = "none" /\ ~g.timedOut /\ Interlocked(g, held)
    BY <1>2, TableTyped, TableShape DEF MachineInv, Tracks
  <2>2. CASE row.to = g.state
    BY <1>2, <2>2 DEF TransitionTo
  <2>3. CASE row.to # g.state
    <3>1. IsIdle(row.to) => row.to \in {IdleFor(g.gear), IdleFor(g.expected)}
      BY <1>2, TableShape DEF MachineInv, Explained, Home, IsIdle
    <3>2. IsWaiting(row.to) =>
            GB_IDLE_NEUTRAL \in {IdleFor(g.gear), IdleFor(g.expected)}
      <4>1. IsIdle(GB_IDLE_NEUTRAL) /\ ~IsWaiting(GB_IDLE_NEUTRAL)
        BY NumbersTyped, GearsAssumption DEF IsIdle, IsWaiting, GB_IDLE_NEUTRAL,
           GB_WAITING_FOR_CLUTCH_SHIFT_DOWN, GB_WAITING_FOR_CLUTCH_SHIFT_UP
      <4> QED
        BY <1>2, <4>1, TableShape DEF MachineInv, Explained, Home
    <3>3. row.to = GB_DOWNSHIFT_SHIFTING => "clutch_disengaged" \in held
      BY <1>2, TableShape
    <3>4. row.to \in {GB_NEUTRAL_DOWN_SHIFTING, GB_NEUTRAL_UP_SHIFTING} =>
            "clutch_disengaged" \in held \/ g.gear # 0
      BY <1>2, TableShape
    <3> QED
      BY <1>2, <2>1, <2>3, <3>1, <3>2, <3>3, <3>4, TransitionToInv
  <2> QED
    BY <2>2, <2>3
<1> QED
  BY <1>1, <1>2, FollowsARow

\* A call that is no shift, a cleared stack and a pushed stack keep the invariant.
LEMMA SayInv ==
  ASSUME NEW g \in Machines, NEW call \in CallTypes, NEW held,
         MachineInv(g, held), ~Against(call, held)
  PROVE  MachineInv(Say(g, call), held)
BY SayKeeps, SayInterlocked DEF MachineInv, Tracks, Explained, Home

\* _clearStack keeps the invariant.
LEMMA ClearStackInv ==
  ASSUME NEW g \in Machines, NEW held, MachineInv(g, held)
  PROVE  MachineInv(ClearStack(g), held)
BY ClearStackKeeps DEF MachineInv, Tracks, Explained, Home

\* A stacked press keeps the invariant.
LEMMA PushStackInv ==
  ASSUME NEW g \in Machines, NEW held, MachineInv(g, held)
  PROVE  MachineInv(PushStack(g), held)
<1> DEFINE target == AtLeastOne((IF g.target = 0 THEN g.expected ELSE g.target) - 1)
           k == [g EXCEPT !.target = target]
<1>1. g.target \in Gears /\ g.expected \in -1 .. MaxGear + 1
  BY DEF Machines
<1>2. target \in Gears
  BY <1>1, GearsAssumption DEF AtLeastOne, Gears
<1> HIDE DEF target
<1>3. k \in Machines /\ MachineInv(k, held)
  BY <1>2 DEF Machines, MachineInv, Tracks, Explained, Home, Interlocked
<1>4. PushStack(g) = Say(k, StackCall(target))
  BY DEF PushStack, target
<1> HIDE DEF k
<1> QED
  BY <1>2, <1>3, <1>4, CallsTyped, QuietCalls, SayInv

\* A press, and the clutch found pulled, keep the invariant.
LEMMA ProcessEventInv ==
  ASSUME NEW g \in Machines, NEW event, NEW held, MachineInv(g, held),
         event = "EV_CLUTCH_PULLED" => "clutch_disengaged" \in held,
         event \in {"EV_NEUTRAL_UP_PRESSED", "EV_NEUTRAL_DOWN_PRESSED"} => g.gear # 0
  PROVE  MachineInv(ProcessEvent(g, event), held)
<1>1. CASE event = "EV_SHIFT_DOWN_PRESSED"
  BY <1>1, FollowInv, PushStackInv DEF ProcessEvent
<1>2. CASE event = "EV_SHIFT_UP_PRESSED"
  <2>1. ClearStack(g) \in Machines /\ MachineInv(ClearStack(g), held)
    BY ClearStackType, ClearStackInv
  <2> QED
    BY <1>2, <2>1, FollowInv DEF ProcessEvent
<1>3. CASE event = "EV_GEAR_CHANGED"
  BY <1>3, GoHomeInv DEF ProcessEvent, MachineInv
<1>4. CASE event \notin {"EV_SHIFT_DOWN_PRESSED", "EV_SHIFT_UP_PRESSED",
                         "EV_GEAR_CHANGED"}
  BY <1>4, FollowInv DEF ProcessEvent
<1> QED
  BY <1>1, <1>2, <1>3, <1>4

\* A report keeps the invariant, through the event and the stack it fires.
LEMMA SetGearInv ==
  ASSUME NEW g \in Machines, NEW gear, NEW held, MachineInv(g, held)
  PROVE  MachineInv(SetGear(g, gear), held)
<1>1. ASSUME NEW h \in Machines, MachineInv(h, held)
      PROVE  MachineInv(NextStacked(h), held)
  <2>1. CASE NextStacked(h) = TransitionTo(h, GB_DOWNSHIFT_CLUTCH_ENGAGING)
             /\ h.state = GB_DOWNSHIFT_TO_BITE_POINT
    <3> DEFINE next == GB_DOWNSHIFT_CLUTCH_ENGAGING
    <3>1. next \in States /\ h.state \in States
      BY StatesTyped DEF Machines
    <3>2. h.pulse = "none" /\ ~h.timedOut /\ Interlocked(h, held)
      BY <1>1, <2>1, <3>1, KindsDisjoint DEF MachineInv, Tracks
    <3>3. /\ ~IsIdle(next) /\ ~IsWaiting(next) /\ next # GB_DOWNSHIFT_SHIFTING
          /\ next \notin {GB_NEUTRAL_DOWN_SHIFTING, GB_NEUTRAL_UP_SHIFTING}
          /\ next # h.state
      BY <2>1, <3>1, KindsDisjoint DEF PulseStates
    <3> HIDE DEF next
    <3>4. MachineInv(TransitionTo(h, next), held)
      BY <3>1, <3>2, <3>3, TransitionToInv
    <3> QED
      BY <2>1, <3>4 DEF next
  <2>2. MachineInv(ProcessEvent(h, "EV_SHIFT_DOWN_PRESSED"), held)
    BY <1>1, ProcessEventInv
  <2> QED
    BY <1>1, <2>1, <2>2, ClearStackInv DEF NextStacked
<1>2. CASE gear \in Gears /\ gear # g.gear
  <2> DEFINE k == [g EXCEPT !.gear = gear]
             home == TransitionTo(k, IdleFor(gear))
             said == Say(home, LogChanged(g.gear, gear))
  <2>1. k \in Machines /\ k.gear = gear /\ g.gear \in Gears
    BY <1>2 DEF Machines
  <2>2. Tracks(k) /\ ~k.timedOut /\ Interlocked(k, held)
    BY DEF Machines, MachineInv, Tracks, Interlocked
  <2>3. home = ProcessEvent(k, "EV_GEAR_CHANGED")
    BY <2>1 DEF ProcessEvent
  <2> HIDE DEF k
  <2>4. home \in Machines /\ MachineInv(home, held)
    BY <2>1, <2>2, <2>3, GoHomeInv, ProcessEventType
  <2>5. LogChanged(g.gear, gear) \in CallTypes
    BY <1>2, <2>1, CallsTyped
  <2> HIDE DEF home
  <2>6. said \in Machines /\ MachineInv(said, held)
    BY <2>4, <2>5, SayType, SayInv, QuietCalls
  <2>7. SetGear(g, gear) = NextStacked(said)
    BY <1>2, <2>3 DEF SetGear, k
  <2> QED
    BY <1>1, <2>6, <2>7
<1>3. CASE ~(gear \in Gears /\ gear # g.gear)
  BY <1>3 DEF SetGear
<1> QED
  BY <1>2, <1>3

\* The manual half of gearbox_tick keeps the invariant.
LEMMA TickManualInv ==
  ASSUME NEW g \in Machines, NEW held, MachineInv(g, held)
  PROVE  MachineInv(TickManual(g), held)
BY DEF Machines, TickManual, MachineInv, Tracks, Explained, Home, Interlocked

\* The way back from manual mode keeps the invariant.
LEMMA LeaveManualInv ==
  ASSUME NEW g \in Machines, NEW held, MachineInv(g, held)
  PROVE  MachineInv(LeaveManual(g), held)
<1> DEFINE back  == [g EXCEPT !.wasManual = FALSE]
           ended == EndPulse(back)
           clear == ClearStack(ended)
<1>1. back \in Machines /\ back.state = g.state /\ back.gear = g.gear
      /\ ~back.timedOut /\ Interlocked(back, held)
  BY DEF Machines, MachineInv, Interlocked
<1>2. ended \in Machines /\ clear \in Machines
  BY <1>1, EndPulseType, ClearStackType
<1>3. /\ clear.state = g.state /\ clear.gear = g.gear /\ clear.pulse = "none"
      /\ ~clear.timedOut /\ Interlocked(clear, held)
  <2>1. /\ ended.state = g.state /\ ended.gear = g.gear /\ ended.pulse = "none"
        /\ ~ended.timedOut /\ Interlocked(ended, held)
    BY <1>1, EndPulseKeeps
  <2> HIDE DEF ended
  <2> QED
    BY <1>2, <2>1, ClearStackKeeps
<1>4. IdleFor(g.gear) = clear.state => Tracks(clear)
  <2>1. IdleFor(g.gear) \in States /\ IsIdle(IdleFor(g.gear))
    BY NumbersTyped, HomeIsIdle
  <2> QED
    BY <1>3, <2>1, KindsDisjoint DEF Tracks
<1>5. LeaveManual(g) = IF g.wasManual THEN TransitionTo(clear, IdleFor(g.gear)) ELSE g
  BY DEF LeaveManual
<1> HIDE DEF clear
<1> QED
  BY <1>2, <1>3, <1>4, <1>5, GoHomeInv

\* The end of a pulse: what is left is no pulse, or one that has time to run.
LEMMA UpdateShiftTimingInv ==
  ASSUME NEW g \in Machines, NEW held, MachineInv(g, held)
  PROVE  LET h == UpdateShiftTiming(g)
         IN MachineInv(h, held) /\ ~PulseOver(h)
<1>1. CASE ~PulseOver(g)
  BY <1>1 DEF UpdateShiftTiming
<1>2. CASE PulseOver(g)
  <2> DEFINE ended == EndPulse(g)
             next  == IF HoldAtBite(g) THEN GB_DOWNSHIFT_TO_BITE_POINT
                                       ELSE IdleFor(g.expected)
             h     == TransitionTo(ended, next)
  <2>1. /\ ended \in Machines /\ ended.state = g.state /\ ended.gear = g.gear
        /\ ended.expected = g.expected /\ ended.pulse = "none" /\ ~ended.timedOut
        /\ Interlocked(ended, held)
    BY EndPulseType, EndPulseKeeps DEF MachineInv
  <2>2. h = UpdateShiftTiming(g)
    BY <1>2 DEF UpdateShiftTiming
  <2>3. g.state \in PulseStates /\ g.state \in States
    BY <1>2 DEF PulseOver, MachineInv, Tracks, Machines
  <2>4. /\ next \in States /\ next # g.state
        /\ IsIdle(next) => next = IdleFor(g.expected)
        /\ ~IsWaiting(next) /\ next \notin PulseStates
        /\ IsIdle(next) \/ next = GB_DOWNSHIFT_TO_BITE_POINT
    <3>1. IdleFor(g.expected) \in States /\ IsIdle(IdleFor(g.expected))
      BY NumbersTyped, HomeIsIdle
    <3>2. /\ GB_DOWNSHIFT_TO_BITE_POINT \in States
          /\ ~IsIdle(GB_DOWNSHIFT_TO_BITE_POINT)
          /\ ~IsWaiting(GB_DOWNSHIFT_TO_BITE_POINT)
          /\ GB_DOWNSHIFT_TO_BITE_POINT \notin PulseStates
      BY StatesTyped, KindsDisjoint
    <3>3. ~IsWaiting(IdleFor(g.expected)) /\ IdleFor(g.expected) \notin PulseStates
      BY <3>1, KindsDisjoint
    <3> QED
      BY <2>3, <3>1, <3>2, <3>3
  <2>5. /\ next # GB_DOWNSHIFT_SHIFTING
        /\ next \notin {GB_NEUTRAL_DOWN_SHIFTING, GB_NEUTRAL_UP_SHIFTING}
    BY <2>4 DEF PulseStates
  <2> HIDE DEF ended, next
  <2>6. MachineInv(h, held) /\ h.pulse = "none"
    <3>1. MachineInv(h, held)
      BY <2>1, <2>4, <2>5, TransitionToInv
    <3>2. h.state = next
      BY <2>1, <2>4, TransitionToEffect
    <3> HIDE DEF h
    <3> QED
      BY <2>4, <3>1, <3>2 DEF MachineInv, Tracks
  <2> HIDE DEF h
  <2> QED
    BY <2>2, <2>6 DEF PulseOver
<1> QED
  BY <1>1, <1>2

\* Such a pulse is younger than the shift timeout.
LEMMA NoTimeout ==
  ASSUME NEW g \in Machines, NEW held, MachineInv(g, held), ~PulseOver(g)
  PROVE  CheckTimeouts(g) = g
<1> SUFFICES ASSUME IsShifting(g.state),
                    g.state \notin {GB_DOWNSHIFT_CLUTCH_ENGAGING,
                                    GB_DOWNSHIFT_TO_BITE_POINT}
             PROVE  ~(g.age >= ShiftTimeout)
  BY DEF CheckTimeouts
<1>1. g.state \in PulseStates
  BY KindsDisjoint DEF Machines
<1>2. g.pulse # "none" /\ g.shiftAge = g.age
  BY <1>1 DEF MachineInv, Tracks
<1>3. g.pulse \in Pulses /\ g.age \in Nat
  BY <1>2, Timing DEF Machines
<1> QED
  BY <1>2, <1>3, Timing DEF PulseOver

\* _updateState keeps the invariant in every state.
LEMMA UpdateStateInv ==
  ASSUME NEW g \in Machines, NEW held, MachineInv(g, held)
  PROVE  MachineInv(UpdateState(g, held), held)
<1>0. ~g.timedOut /\ Interlocked(g, held) /\ Tracks(g) /\ g.state \in States
  BY DEF MachineInv, Machines
<1>1. "clutch_disengaged" \in held => MachineInv(ProcessEvent(g, "EV_CLUTCH_PULLED"), held)
  BY ProcessEventInv
<1>2. g.state # GB_ERROR_SHIFT_TIMEOUT =>
        MachineInv(TransitionTo(g, GB_ERROR_SHIFT_TIMEOUT), held)
  <2>1. /\ GB_ERROR_SHIFT_TIMEOUT \in States /\ ~IsIdle(GB_ERROR_SHIFT_TIMEOUT)
        /\ ~IsWaiting(GB_ERROR_SHIFT_TIMEOUT)
        /\ GB_ERROR_SHIFT_TIMEOUT \notin PulseStates
    BY StatesTyped, KindsDisjoint
  <2>2. /\ GB_ERROR_SHIFT_TIMEOUT # GB_DOWNSHIFT_SHIFTING
        /\ GB_ERROR_SHIFT_TIMEOUT \notin {GB_NEUTRAL_DOWN_SHIFTING,
                                          GB_NEUTRAL_UP_SHIFTING}
    BY <2>1 DEF PulseStates
  <2> QED
    BY <1>0, <2>1, <2>2, TransitionToInv
<1>3. /\ MachineInv(TransitionTo(g, IdleFor(g.gear)), held)
      /\ MachineInv(TransitionTo(g, IdleFor(g.expected)), held)
  BY <1>0, GoHomeInv
<1>4. MachineInv(ProcessEvent(ClearStack(g), "EV_TIMEOUT"), held)
  BY ClearStackType, ClearStackInv, ProcessEventInv
<1>5. GB_DOWNSHIFT_CLUTCH_ENGAGING # GB_ERROR_SHIFT_TIMEOUT
  BY GearsAssumption DEF GB_DOWNSHIFT_CLUTCH_ENGAGING, GB_ERROR_SHIFT_TIMEOUT
<1>6. g.state = GB_DOWNSHIFT_CLUTCH_ENGAGING =>
        MachineInv(UpdateDownshiftClutchWait(g, held), held)
  BY <1>1, <1>2, <1>5 DEF UpdateDownshiftClutchWait
<1>7. MachineInv(UpdateToBitePoint(g, held), held)
  BY <1>3 DEF UpdateToBitePoint
<1>8. MachineInv(UpdateWaiting(g, held), held)
  BY <1>1, <1>4 DEF UpdateWaiting
<1> QED
  BY <1>3, <1>6, <1>7, <1>8 DEF UpdateState

\* The automatic half of gearbox_tick keeps the invariant.
LEMMA TickAutoInv ==
  ASSUME NEW g \in Machines, NEW held, MachineInv(g, held)
  PROVE  MachineInv(TickAuto(g, held), held)
<1> DEFINE back  == LeaveManual(g)
           timed == UpdateShiftTiming(back)
<1>1. back \in Machines /\ MachineInv(back, held)
  BY LeaveManualType, LeaveManualInv
<1> HIDE DEF back
<1>2. timed \in Machines /\ MachineInv(timed, held) /\ ~PulseOver(timed)
  BY <1>1, UpdateShiftTimingType, UpdateShiftTimingInv
<1> HIDE DEF timed
<1>3. CheckTimeouts(timed) = timed
  BY <1>2, NoTimeout
<1>4. TickAuto(g, held) = UpdateState(timed, held)
  BY <1>3 DEF TickAuto, timed, back
<1> QED
  BY <1>2, <1>4, UpdateStateInv

\* Forgetting the calls keeps the invariant, whatever the clutch now answers.
LEMMA SilentInv ==
  ASSUME NEW g \in Machines, NEW held, NEW other, MachineInv(g, held)
  PROVE  MachineInv(Silent(g), other)
BY DEF Machines, Silent, MachineInv, Tracks, Explained, Home, Interlocked

\* The node starts in the invariant.
LEMMA InitInv == Init => MachineInv(gb, clutchIs)
<1> SUFFICES ASSUME Init PROVE MachineInv(gb, clutchIs)
  OBVIOUS
<1>1. /\ gb.state = 0 /\ gb.pulse = "none" /\ gb.gear = 0 /\ ~gb.timedOut
      /\ gb.calls = << >>
  BY DEF Init, GB_IDLE_NEUTRAL
<1>2. 0 \notin PulseStates /\ IdleFor(0) = 0 /\ ~IsWaiting(0)
  BY NumbersTyped, GearsAssumption DEF PulseStates, IdleFor, IsWaiting,
     GB_NEUTRAL_DOWN_SHIFTING, GB_NEUTRAL_UP_SHIFTING, GB_UPSHIFTING,
     GB_DOWNSHIFT_SHIFTING, GB_WAITING_FOR_CLUTCH_SHIFT_DOWN,
     GB_WAITING_FOR_CLUTCH_SHIFT_UP
<1> QED
  BY <1>1, <1>2 DEF MachineInv, Tracks, Explained, Home, Interlocked

\* Every step of the node keeps the invariant.
LEMMA StepInv ==
  ASSUME TypeOK, MachineInv(gb, clutchIs), [Next]_vars
  PROVE  MachineInv(gb, clutchIs)'
<1> DEFINE quiet == Silent(gb)
<1>1. gb \in Machines /\ quiet \in Machines
  BY SilentType DEF TypeOK
<1>2. /\ MachineInv(quiet, clutchIs) /\ MachineInv(quiet, clutchIs')
      /\ quiet.gear = gb.gear
  <2>1. quiet.gear = gb.gear
    BY <1>1 DEF Silent, Machines
  <2> QED
    BY <1>1, <2>1, SilentInv
<1>3. CASE UpPressed
  BY <1>1, <1>2, <1>3, ProcessEventInv DEF UpPressed
<1>4. CASE DownPressed
  BY <1>1, <1>2, <1>4, ProcessEventInv DEF DownPressed
<1>5. CASE NeutralPressed
  <2>1. gb.gear # 0 =>
          /\ MachineInv(ProcessEvent(quiet, "EV_NEUTRAL_UP_PRESSED"), clutchIs)
          /\ MachineInv(ProcessEvent(quiet, "EV_NEUTRAL_DOWN_PRESSED"), clutchIs)
    BY <1>1, <1>2, ProcessEventInv
  <2> QED
    BY <1>2, <1>5, <2>1 DEF NeutralPressed
<1>6. ASSUME NEW up \in BOOLEAN, ManualShift(up)
      PROVE  MachineInv(gb, clutchIs)'
  <2> DEFINE busy == [quiet EXCEPT !.manualActive = TRUE, !.manualAge = 0]
  <2>1. busy \in Machines /\ MachineInv(busy, clutchIs)
    BY <1>1, <1>2, NumbersTyped
       DEF Machines, MachineInv, Tracks, Explained, Home, Interlocked
  <2>2. MachineInv(Say(busy, ManualCall(up)), clutchIs)
    BY <2>1, SayInv, CallsTyped, QuietCalls
  <2> QED
    BY <1>2, <1>6, <2>2 DEF ManualShift
<1>7. CASE SwitchManual
  BY <1>2, <1>7 DEF SwitchManual
<1>8. CASE GearReported
  BY <1>2, <1>8 DEF GearReported
<1>9. CASE ClutchMoved
  BY <1>2, <1>9 DEF ClutchMoved
<1>10. CASE Tick
  <2> DEFINE synced == SyncGear(quiet, canGear)
  <2>1. synced \in Machines /\ MachineInv(synced, clutchIs)
    BY <1>1, <1>2, SetGearType, SetGearInv DEF SyncGear
  <2> HIDE DEF synced
  <2>2. /\ MachineInv(TickManual(synced), clutchIs)
        /\ MachineInv(TickAuto(synced, clutchIs), clutchIs)
    BY <2>1, TickManualInv, TickAutoInv
  <2> QED
    BY <1>10, <2>2 DEF Tick, synced
<1>11. CASE Time
  <2>1. /\ gb'.state = quiet.state /\ gb'.pulse = quiet.pulse
        /\ gb'.gear = quiet.gear /\ gb'.expected = quiet.expected
        /\ gb'.timedOut = quiet.timedOut /\ gb'.calls = quiet.calls
        /\ gb.state = quiet.state /\ gb.pulse = quiet.pulse
        /\ gb'.age = IF Aging(gb.state) THEN Older(quiet.age) ELSE quiet.age
        /\ gb'.shiftAge = IF gb.pulse = "none" THEN quiet.shiftAge
                                               ELSE Older(quiet.shiftAge)
    BY <1>1, <1>11 DEF Time, Silent, Machines
  <2>2. gb.pulse # "none" => Aging(gb.state)
    BY <1>1, KindsDisjoint DEF MachineInv, Tracks, Machines, Aging
  <2> HIDE DEF quiet
  <2> QED
    BY <1>2, <1>11, <2>1, <2>2
       DEF Time, MachineInv, Tracks, Explained, Home, Interlocked
<1>12. CASE UNCHANGED vars
  BY <1>12 DEF vars
<1> QED
  BY <1>3, <1>4, <1>5, <1>6, <1>7, <1>8, <1>9, <1>10, <1>11, <1>12
     DEF Next, Rider, Buses

\* The inductive invariant holds throughout.
THEOREM InvariantHolds == Safety => []GearboxInv
<1>1. Init => MachineInv(gb, clutchIs)
  BY InitInv
<1>2. TypeOK /\ MachineInv(gb, clutchIs) /\ [Next]_vars => MachineInv(gb, clutchIs)'
  BY StepInv
<1>3. GearboxInv <=> TypeOK /\ MachineInv(gb, clutchIs)
  BY DEF GearboxInv
<1> QED
  BY <1>1, <1>2, <1>3, TypeCorrect, PTL DEF Safety

\* No full shift against drive: without an ignition cut, gearbox.cpp sends one only
\* when clutch_disengaged() has just answered true.
THEOREM InterlockHolds == Safety => []NeverAgainstDrive
<1>1. GearboxInv => NeverAgainstDrive
  BY DEF GearboxInv, MachineInv, NeverAgainstDrive
<1> QED
  BY <1>1, InvariantHolds, PTL

\* Pulses and states stay together through every path of gearbox.cpp.
THEOREM PulsesTrackStates == Safety => []PulseTracksState
<1>1. GearboxInv => PulseTracksState
  BY DEF GearboxInv, MachineInv, PulseTracksState
<1> QED
  BY <1>1, InvariantHolds, PTL

\* The branch of _checkTimeouts that counts a timeout is never taken, for any
\* shift timings the calibration accepts.
THEOREM TimeoutNeverFires == Safety => []NeverTimesOut
<1>1. GearboxInv => NeverTimesOut
  BY DEF GearboxInv, MachineInv, NeverTimesOut
<1> QED
  BY <1>1, InvariantHolds, PTL

\* Every idle state is the confirmed or the expected gear's.
THEOREM IdleStatesExplained == Safety => []IdleIsExplained
<1>1. GearboxInv => IdleIsExplained
  BY KindsDisjoint DEF GearboxInv, TypeOK, Machines, MachineInv, Explained, Home,
     IdleIsExplained
<1> QED
  BY <1>1, InvariantHolds, PTL

----------------------------------------------------------------------------
(* The display is told of the stack.                                       *)

\* A machine that differs in neither stack nor calls has told as much.
LEMMA SameTold ==
  ASSUME NEW g, NEW h, NEW shown,
         h.calls = g.calls, h.target = g.target, Told(g, shown)
  PROVE  Told(h, shown)
BY DEF Told, StackCalls

\* A call that is no stack frame leaves the last one the last.
LEMMA SayTold ==
  ASSUME NEW g \in Machines, NEW call \in CallTypes, NEW shown,
         call.fn # "can_send_shift_stack", Told(g, shown)
  PROVE  Told(Say(g, call), shown)
<1> DEFINE h == Say(g, call)
<1>1. /\ g.calls \in Seq(CallTypes) /\ h.calls = Append(g.calls, call)
      /\ h.target = g.target
  BY DEF Machines, Say
<1>2. /\ DOMAIN g.calls = 1 .. Len(g.calls) /\ Len(g.calls) \in Nat
      /\ DOMAIN h.calls = 1 .. Len(g.calls) + 1
      /\ \A i \in DOMAIN g.calls : h.calls[i] = g.calls[i]
      /\ h.calls[Len(g.calls) + 1] = call
  BY <1>1
<1> HIDE DEF h
<1>3. StackCalls(h) = StackCalls(g)
  BY <1>2 DEF StackCalls
<1>4. \A i \in StackCalls(g) : h.calls[i] = g.calls[i]
  BY <1>2 DEF StackCalls
<1> QED
  BY <1>1, <1>3, <1>4 DEF Told, h

\* A stack frame with the machine's own target tells all there is to tell.
LEMMA SayStackTold ==
  ASSUME NEW g \in Machines, NEW shown
  PROVE  Told(Say(g, StackCall(g.target)), shown)
<1> DEFINE call == StackCall(g.target)
           h    == Say(g, call)
<1>1. /\ g.calls \in Seq(CallTypes) /\ g.target \in Gears
      /\ h.calls = Append(g.calls, call) /\ h.target = g.target
  BY DEF Machines, Say
<1>2. call \in CallTypes /\ call.fn = "can_send_shift_stack" /\ call.gear = g.target
  BY <1>1, CallsTyped DEF StackCall, Plain, Call
<1> HIDE DEF call
<1>3. /\ Len(g.calls) \in Nat /\ DOMAIN h.calls = 1 .. Len(g.calls) + 1
      /\ h.calls[Len(g.calls) + 1] = call
  BY <1>1, <1>2
<1> HIDE DEF h
<1>4. /\ Len(g.calls) + 1 \in StackCalls(h)
      /\ \A j \in StackCalls(h) : j <= Len(g.calls) + 1
  BY <1>2, <1>3 DEF StackCalls
<1> QED
  BY <1>1, <1>2, <1>3, <1>4 DEF Told, h, call

\* Calls of the clutch, the log and the shifts are no stack frames.
LEMMA OtherCalls ==
  /\ \A fn \in ClutchFns : ClutchCall(fn).fn # "can_send_shift_stack"
  /\ \A from, to : LogStart(from, to).fn # "can_send_shift_stack"
  /\ \A old, now : LogChanged(old, now).fn # "can_send_shift_stack"
  /\ \A pulse, ignition, gear :
       ShiftCall(pulse, ignition, gear).fn # "can_send_shift_stack"
  /\ \A up : ManualCall(up).fn # "can_send_shift_stack"
BY DEF ClutchFns, ClutchCall, LogStart, LogChanged, ShiftCall, ManualCall, Plain, Call

\* _clearStack and the stacked press tell what they do.
LEMMA StackTold ==
  ASSUME NEW g \in Machines, NEW shown, Told(g, shown)
  PROVE  Told(ClearStack(g), shown) /\ Told(PushStack(g), shown)
<1>1. \A target \in Gears :
        Told(Say([g EXCEPT !.target = target], StackCall(target)), shown)
  <2> TAKE target \in Gears
  <2> DEFINE k == [g EXCEPT !.target = target]
  <2>1. k \in Machines /\ k.target = target
    BY DEF Machines
  <2> HIDE DEF k
  <2>2. Told(Say(k, StackCall(target)), shown)
    BY <2>1, SayStackTold
  <2> QED
    BY <2>2 DEF k
<1>2. AtLeastOne((IF g.target = 0 THEN g.expected ELSE g.target) - 1) \in Gears
  <2>1. g.target \in Gears /\ g.expected \in -1 .. MaxGear + 1
    BY DEF Machines
  <2> QED
    BY <2>1, GearsAssumption DEF AtLeastOne, Gears
<1>3. Told(PushStack(g), shown)
  BY <1>1, <1>2 DEF PushStack
<1> QED
  BY <1>1, <1>3, NumbersTyped DEF ClearStack

\* The end of a pulse and the start of one tell the display nothing, and owe nothing.
LEMMA PulseTold ==
  ASSUME NEW g \in Machines, NEW shown, Told(g, shown)
  PROVE  /\ Told(EndPulse(g), shown)
         /\ \A pulse \in Pulses, ignition \in {"on", "cut"} :
              Told(ActivateShift(g, pulse, ignition), shown)
<1>1. Told(EndPulse(g), shown)
  <2>1. EndPulse(g).calls = g.calls /\ EndPulse(g).target = g.target
    BY DEF Machines, EndPulse
  <2> QED
    BY <2>1, SameTold
<1>2. ASSUME NEW pulse \in Pulses, NEW ignition \in {"on", "cut"}
      PROVE  Told(ActivateShift(g, pulse, ignition), shown)
  <2> DEFINE k    == [g EXCEPT !.pulse = pulse, !.shiftAge = 0]
             call == ShiftCall(pulse, ignition, g.expected)
  <2>1. k \in Machines /\ k.calls = g.calls /\ k.target = g.target
    BY NumbersTyped DEF Machines
  <2>2. call \in CallTypes /\ call.fn # "can_send_shift_stack"
    BY NumbersTyped, CallsTyped, OtherCalls
  <2>3. ActivateShift(g, pulse, ignition) = Say(k, call)
    BY DEF ActivateShift
  <2> HIDE DEF k, call
  <2>4. Told(k, shown)
    BY <2>1, SameTold
  <2> QED
    BY <2>1, <2>2, <2>3, <2>4, SayTold
<1> QED
  BY <1>1, <1>2

\* Saying something to the clutch owes the display nothing.
LEMMA ClutchTold ==
  ASSUME NEW g \in Machines, NEW shown, Told(g, shown), NEW fn \in ClutchFns
  PROVE  Say(g, ClutchCall(fn)) \in Machines /\ Told(Say(g, ClutchCall(fn)), shown)
BY SayTold, SayType, CallsTyped, OtherCalls

\* _transitionTo: of the states entered only the error state touches the stack, and
\* it says so.
LEMMA TransitionToTold ==
  ASSUME NEW g \in Machines, NEW next \in States, NEW shown, Told(g, shown)
  PROVE  Told(TransitionTo(g, next), shown)
<1> DEFINE k == [g EXCEPT !.state = next, !.age = 0]
<1>1. k \in Machines /\ k.calls = g.calls /\ k.target = g.target
  BY NumbersTyped DEF Machines
<1>2. Told(k, shown)
  BY <1>1, SameTold
<1>3. TransitionTo(g, next) \in {g, k, EnterIdle(k), EnterBitePoint(k),
                                EnterShifting(k), EnterError(k)}
  BY StateKinds DEF TransitionTo
<1> HIDE DEF k
<1>4. {"clutch_release", "clutch_command_pull", "clutch_command_bite"} \subseteq ClutchFns
  BY DEF ClutchFns
<1>5. Told(EnterIdle(k), shown)
  BY <1>1, <1>2, <1>4, ClutchTold, PulseTold DEF EnterIdle
<1>6. Told(EnterBitePoint(k), shown)
  BY <1>1, <1>2, <1>4, ClutchTold DEF EnterBitePoint
<1>7. Told(EnterError(k), shown)
  <2>1. EndPulse(k) \in Machines /\ Told(EndPulse(k), shown)
    BY <1>1, <1>2, EndPulseType, PulseTold
  <2> QED
    BY <1>4, <2>1, ClutchTold, StackTold DEF EnterError
<1>8. Told(EnterShifting(k), shown)
  <2> DEFINE aimed  == [k EXCEPT !.expected = ExpectedFrom(k.state, k.gear)]
             logged == Say(aimed, LogStart(k.gear, aimed.expected))
  <2>1. /\ aimed \in Machines /\ aimed.calls = k.calls /\ aimed.target = k.target
        /\ k.gear \in Int /\ aimed.expected \in Int
    BY <1>1, NumbersTyped DEF Machines
  <2>2. Told(aimed, shown)
    BY <1>2, <2>1, SameTold
  <2> HIDE DEF aimed
  <2>3. logged \in Machines /\ Told(logged, shown)
    BY <2>1, <2>2, SayType, SayTold, CallsTyped, OtherCalls
  <2> HIDE DEF logged
  <2>4. \A pulse \in Pulses, ignition \in {"on", "cut"} :
          /\ Told(ActivateShift(logged, pulse, ignition), shown)
          /\ Told(ActivateShift(aimed, pulse, ignition), shown)
    BY <2>1, <2>2, <2>3, PulseTold
  <2>5. Told(Say(logged, ClutchCall("clutch_command_pull")), shown)
    BY <1>4, <2>3, ClutchTold
  <2> QED
    BY <2>4, <2>5 DEF EnterShifting, aimed, logged, Pulses, UpPulses, DownPulses
<1> QED
  BY <1>2, <1>3, <1>5, <1>6, <1>7, <1>8

\* _processEvent: every event.
LEMMA ProcessEventTold ==
  ASSUME NEW g \in Machines, NEW event, NEW shown, Told(g, shown)
  PROVE  Told(ProcessEvent(g, event), shown)
<1>1. \A h \in Machines : Told(h, shown) => Told(Follow(h, event), shown)
  BY FollowsARow, TableTyped, TransitionToTold
<1>2. Told(TransitionTo(g, IdleFor(g.gear)), shown)
  BY NumbersTyped, StatesTyped, TransitionToTold
<1>3. ClearStack(g) \in Machines
  BY ClearStackType
<1> QED
  BY <1>1, <1>2, <1>3, StackTold DEF ProcessEvent

\* _setGear: every report, with the stacked downshift it fires.
LEMMA SetGearTold ==
  ASSUME NEW g \in Machines, NEW gear, NEW shown, Told(g, shown)
  PROVE  Told(SetGear(g, gear), shown)
<1>1. \A h \in Machines : Told(h, shown) => Told(NextStacked(h), shown)
  BY StatesTyped, TransitionToTold, ProcessEventTold, StackTold DEF NextStacked
<1>2. CASE gear \in Gears
  <2> DEFINE k    == [g EXCEPT !.gear = gear]
             home == ProcessEvent(k, "EV_GEAR_CHANGED")
  <2>1. k \in Machines /\ k.calls = g.calls /\ k.target = g.target /\ g.gear \in Gears
    BY <1>2 DEF Machines
  <2>2. Told(k, shown)
    BY <2>1, SameTold
  <2> HIDE DEF k
  <2>3. home \in Machines /\ Told(home, shown)
    BY <2>1, <2>2, ProcessEventType, ProcessEventTold
  <2> HIDE DEF home
  <2>4. /\ Say(home, LogChanged(g.gear, gear)) \in Machines
        /\ Told(Say(home, LogChanged(g.gear, gear)), shown)
    BY <1>2, <2>1, <2>3, SayType, SayTold, CallsTyped, OtherCalls
  <2> QED
    BY <1>1, <2>4 DEF SetGear, home, k
<1>3. CASE gear \notin Gears
  BY <1>3 DEF SetGear
<1> QED
  BY <1>2, <1>3

\* gearbox_tick, in both modes.
LEMMA TickTold ==
  ASSUME NEW g \in Machines, NEW held, NEW shown, Told(g, shown)
  PROVE  Told(TickManual(g), shown) /\ Told(TickAuto(g, held), shown)
<1>1. Told(TickManual(g), shown)
  <2>1. TickManual(g).calls = g.calls /\ TickManual(g).target = g.target
    BY DEF Machines, TickManual
  <2> QED
    BY <2>1, SameTold
<1>2. LeaveManual(g) \in Machines /\ Told(LeaveManual(g), shown)
  <2> DEFINE back == [g EXCEPT !.wasManual = FALSE]
  <2>1. back \in Machines /\ back.calls = g.calls /\ back.target = g.target
    BY DEF Machines
  <2>2. Told(back, shown)
    BY <2>1, SameTold
  <2> HIDE DEF back
  <2>3. EndPulse(back) \in Machines /\ Told(EndPulse(back), shown)
    BY <2>1, <2>2, EndPulseType, PulseTold
  <2>4. ClearStack(EndPulse(back)) \in Machines /\ Told(ClearStack(EndPulse(back)), shown)
    BY <2>3, ClearStackType, StackTold
  <2>5. Told(TransitionTo(ClearStack(EndPulse(back)), IdleFor(g.gear)), shown)
    BY <2>4, NumbersTyped, StatesTyped, TransitionToTold
  <2> QED
    BY <2>5, LeaveManualType DEF LeaveManual, back
<1>3. ASSUME NEW h \in Machines, Told(h, shown)
      PROVE  /\ Told(UpdateShiftTiming(h), shown) /\ Told(CheckTimeouts(h), shown)
             /\ Told(UpdateState(h, held), shown)
  <2>1. IdleFor(h.gear) \in States /\ IdleFor(h.expected) \in States
    BY NumbersTyped, StatesTyped
  <2>2. Told(UpdateShiftTiming(h), shown)
    BY <1>3, <2>1, StatesTyped, EndPulseType, PulseTold, TransitionToTold
       DEF UpdateShiftTiming
  <2>3. Told(CheckTimeouts(h), shown)
    <3> DEFINE k == [h EXCEPT !.timedOut = TRUE]
    <3>1. k \in Machines /\ k.calls = h.calls /\ k.target = h.target
      BY DEF Machines
    <3>2. Told(k, shown)
      BY <1>3, <3>1, SameTold
    <3> HIDE DEF k
    <3>3. Told(TransitionTo(k, GB_ERROR_SHIFT_TIMEOUT), shown)
      BY <3>1, <3>2, StatesTyped, TransitionToTold
    <3> QED
      BY <1>3, <3>3 DEF CheckTimeouts, k
  <2>4. Told(UpdateState(h, held), shown)
    BY <1>3, <2>1, StatesTyped, TransitionToTold, ProcessEventTold, ClearStackType,
       StackTold
       DEF UpdateState, UpdateDownshiftClutchWait, UpdateToBitePoint, UpdateWaiting
  <2> QED
    BY <2>2, <2>3, <2>4
<1>4. Told(TickAuto(g, held), shown)
  BY <1>2, <1>3, UpdateShiftTimingType, CheckTimeoutsType DEF TickAuto
<1> QED
  BY <1>1, <1>4

\* Every step of the node tells the display what it does to the stack.
LEMMA StepTold ==
  ASSUME TypeOK, Next
  PROVE  Told(gb', gb.target)
<1> DEFINE quiet == Silent(gb)
<1>1. quiet \in Machines /\ quiet.target = gb.target /\ Told(quiet, gb.target)
  <2>1. gb \in Machines /\ quiet \in Machines
    BY SilentType DEF TypeOK
  <2>2. quiet.target = gb.target /\ quiet.calls = << >>
    BY <2>1 DEF Machines, Silent
  <2> QED
    BY <2>1, <2>2 DEF Told, StackCalls
<1> HIDE DEF quiet
<1>2. CASE UpPressed \/ DownPressed \/ NeutralPressed
  BY <1>1, <1>2, ProcessEventTold DEF UpPressed, DownPressed, NeutralPressed, quiet
<1>3. ASSUME NEW up \in BOOLEAN, ManualShift(up) PROVE Told(gb', gb.target)
  <2> DEFINE busy == [quiet EXCEPT !.manualActive = TRUE, !.manualAge = 0]
  <2>1. busy \in Machines /\ busy.calls = quiet.calls /\ busy.target = quiet.target
    BY <1>1, NumbersTyped DEF Machines
  <2>2. Told(busy, gb.target)
    BY <1>1, <2>1, SameTold
  <2> HIDE DEF busy
  <2>3. Told(Say(busy, ManualCall(up)), gb.target)
    BY <2>1, <2>2, SayTold, CallsTyped, OtherCalls
  <2> QED
    BY <1>1, <1>3, <2>3 DEF ManualShift, busy, quiet
<1>4. CASE SwitchManual \/ GearReported \/ ClutchMoved
  BY <1>1, <1>4 DEF SwitchManual, GearReported, ClutchMoved, quiet
<1>5. CASE Tick
  <2> DEFINE synced == SyncGear(quiet, canGear)
  <2>1. synced \in Machines /\ Told(synced, gb.target)
    BY <1>1, SetGearType, SetGearTold DEF SyncGear
  <2> HIDE DEF synced
  <2> QED
    BY <1>5, <2>1, TickTold DEF Tick, synced, quiet
<1>6. CASE Time
  <2>1. gb'.calls = quiet.calls /\ gb'.target = quiet.target
    BY <1>1, <1>6 DEF Time, Machines, quiet
  <2> QED
    BY <1>1, <2>1, SameTold
<1> QED
  BY <1>2, <1>3, <1>4, <1>5, <1>6 DEF Next, Rider, Buses

\* The display always knows the machine's stack, as far as frames arrive.
THEOREM DisplayIsTold == Safety => StackIsTold
<1>1. TypeOK /\ [Next]_vars => [Told(gb', gb.target)]_vars
  BY StepTold
<1> QED
  BY <1>1, TypeCorrect, PTL DEF Safety, StackIsTold

----------------------------------------------------------------------------
(* What a step may never do: send two shifts, or one over a running pulse; *)
(* pull the clutch for a stacked downshift that no report confirmed; come  *)
(* back from manual mode with anything left of the time before.  The       *)
(* lemmas follow the calls a step makes.                                   *)

\* The calls of fns that the step has made so far, and that they are at most one.
Said(g, fns) == { i \in DOMAIN g.calls : g.calls[i].fn \in fns }
Once(g, fns) == \A i, j \in Said(g, fns) : i = j

PullFns == {"clutch_command_pull"}

\* What most functions leave alone.
Keeps(g, h) == h.state = g.state /\ h.gear = g.gear /\ h.wasManual = g.wasManual

\* A call is one of the named ones or not, and it is one call.
LEMMA SaySaid ==
  ASSUME NEW g \in Machines, NEW call \in CallTypes, NEW fns, Said(g, fns) = {}
  PROVE  /\ call.fn \notin fns => Said(Say(g, call), fns) = {}
         /\ Once(Say(g, call), fns)
<1> DEFINE h == Say(g, call)
<1>1. g.calls \in Seq(CallTypes) /\ h.calls = Append(g.calls, call)
  BY DEF Machines, Say
<1>2. /\ DOMAIN g.calls = 1 .. Len(g.calls) /\ Len(g.calls) \in Nat
      /\ DOMAIN h.calls = 1 .. Len(g.calls) + 1
      /\ \A i \in DOMAIN g.calls : h.calls[i] = g.calls[i]
      /\ h.calls[Len(g.calls) + 1] = call
  BY <1>1
<1> HIDE DEF h
<1>3. \A i \in Said(h, fns) : i = Len(g.calls) + 1
  BY <1>2 DEF Said
<1> QED
  BY <1>2, <1>3 DEF Said, Once, h

\* What the calls are called.
LEMMA Names ==
  /\ \A fn : ClutchCall(fn).fn = fn
  /\ \A target : StackCall(target).fn = "can_send_shift_stack"
  /\ \A from, to : LogStart(from, to).fn = "shift_log_start"
  /\ \A old, now : LogChanged(old, now).fn = "shift_log_gear_changed"
  /\ \A pulse, ignition, gear : ShiftCall(pulse, ignition, gear).fn \in ShiftFns
  /\ \A up : ManualCall(up).fn \in ShiftFns
  /\ "clutch_command_pull" \notin ShiftFns
  /\ {"can_send_shift_stack", "shift_log_start", "shift_log_gear_changed",
      "clutch_release", "clutch_command_bite"} \cap (ShiftFns \cup PullFns) = {}
  /\ ShiftFns \cap PullFns = {}
BY DEF ClutchCall, StackCall, LogStart, LogChanged, ShiftCall, ManualCall, Plain, Call,
   ShiftFns, PullFns

\* A machine with the same calls has said the same.
LEMMA SameSaid ==
  ASSUME NEW g, NEW h, h.calls = g.calls
  PROVE  \A fns : Said(h, fns) = Said(g, fns)
BY DEF Said

\* _clearStack: the stack is gone, and only the display is told.
LEMMA ClearStackSays ==
  ASSUME NEW g \in Machines, NEW fns \in {ShiftFns, PullFns}
  PROVE  LET h == ClearStack(g)
         IN /\ Keeps(g, h) /\ h.target = 0 /\ h.pulse = g.pulse
            /\ Said(g, fns) = {} => Said(h, fns) = {}
<1> DEFINE k == [g EXCEPT !.target = 0]
<1>1. /\ k \in Machines /\ Keeps(g, k) /\ k.target = 0 /\ k.pulse = g.pulse
      /\ k.calls = g.calls
  BY NumbersTyped DEF Machines, Keeps
<1>2. g.target \in Nat
  BY GearsAssumption DEF Machines, Gears
<1>3. StackCall(0) \in CallTypes /\ StackCall(0).fn \notin fns
  BY CallsTyped, NumbersTyped, Names
<1>4. Said(k, fns) = Said(g, fns)
  BY <1>1, SameSaid
<1>5. ClearStack(g) = IF g.target > 0 THEN Say(k, StackCall(0)) ELSE g
  BY DEF ClearStack
<1> HIDE DEF k
<1>6. Said(g, fns) = {} => Said(Say(k, StackCall(0)), fns) = {}
  BY <1>1, <1>3, <1>4, SaySaid
<1>7. LET h == Say(k, StackCall(0))
      IN Keeps(k, h) /\ h.target = k.target /\ h.pulse = k.pulse
  BY <1>1, SayKeeps DEF Keeps
<1> QED
  BY <1>1, <1>2, <1>5, <1>6, <1>7 DEF Keeps

\* Telling the clutch, and the end of a pulse.
LEMMA ClutchSays ==
  ASSUME NEW g \in Machines, NEW fn \in ClutchFns
  PROVE  LET h == Say(g, ClutchCall(fn))
         IN /\ h \in Machines /\ Keeps(g, h) /\ h.target = g.target /\ h.pulse = g.pulse
            /\ \A fns : fn \notin fns /\ Said(g, fns) = {} => Said(h, fns) = {}
<1>1. ClutchCall(fn) \in CallTypes /\ ClutchCall(fn).fn = fn
  BY CallsTyped, Names
<1> QED
  BY <1>1, SayType, SayKeeps, SaySaid DEF Keeps

LEMMA EndPulseSays ==
  ASSUME NEW g \in Machines
  PROVE  LET h == EndPulse(g)
         IN /\ h \in Machines /\ Keeps(g, h) /\ h.target = g.target /\ h.pulse = "none"
            /\ h.calls = g.calls /\ h.expected = g.expected
BY EndPulseType DEF EndPulse, Machines, Keeps

\* _enterShifting: the states with a pulse say one shift, the pull of the clutch none.
LEMMA EnterShiftingSays ==
  ASSUME NEW g \in Machines, g.state \in PulseStates \cup {GB_DOWNSHIFT_CLUTCH_ENGAGING}
  PROVE  LET h == EnterShifting(g)
         IN /\ Keeps(g, h)
            /\ g.state # GB_DOWNSHIFT_CLUTCH_ENGAGING /\ Said(g, PullFns) = {} =>
                 Said(h, PullFns) = {}
            /\ g.state \notin PulseStates /\ Said(g, ShiftFns) = {} =>
                 Said(h, ShiftFns) = {}
            /\ Said(g, ShiftFns) = {} => Once(h, ShiftFns)
<1> DEFINE aimed  == [g EXCEPT !.expected = ExpectedFrom(g.state, g.gear)]
           logged == Say(aimed, LogStart(g.gear, aimed.expected))
<1>1. /\ aimed \in Machines /\ Keeps(g, aimed) /\ aimed.calls = g.calls
      /\ g.gear \in Int /\ aimed.expected \in Int
  BY NumbersTyped DEF Machines, Keeps
<1> HIDE DEF aimed
<1>2. /\ logged \in Machines /\ Keeps(g, logged)
      /\ \A fns \in {ShiftFns, PullFns} : Said(g, fns) = {} => Said(logged, fns) = {}
  <2>1. /\ LogStart(g.gear, aimed.expected) \in CallTypes
        /\ \A fns \in {ShiftFns, PullFns} :
             LogStart(g.gear, aimed.expected).fn \notin fns
    BY <1>1, CallsTyped, Names
  <2>2. \A fns : Said(aimed, fns) = Said(g, fns)
    BY <1>1, SameSaid
  <2> QED
    BY <1>1, <2>1, <2>2, SayType, SayKeeps, SaySaid DEF Keeps
<1> HIDE DEF logged
<1>3. ASSUME NEW k \in {aimed, logged}, NEW pulse \in Pulses, NEW ignition \in {"on", "cut"}
      PROVE  LET h == ActivateShift(k, pulse, ignition)
             IN /\ Keeps(g, h)
                /\ Said(g, PullFns) = {} => Said(h, PullFns) = {}
                /\ Said(g, ShiftFns) = {} => Once(h, ShiftFns)
  <2> DEFINE started == [k EXCEPT !.pulse = pulse, !.shiftAge = 0]
             call    == ShiftCall(pulse, ignition, k.expected)
  <2>1. k \in Machines /\ Keeps(g, k)
        /\ \A fns \in {ShiftFns, PullFns} : Said(g, fns) = {} => Said(k, fns) = {}
    BY <1>1, <1>2, SameSaid
  <2>2. started \in Machines /\ Keeps(g, started) /\ started.calls = k.calls
    BY <2>1, NumbersTyped DEF Machines, Keeps
  <2>3. call \in CallTypes /\ call.fn \in ShiftFns /\ call.fn \notin PullFns
    BY <2>1, NumbersTyped, CallsTyped, Names
  <2>4. \A fns : Said(started, fns) = Said(k, fns)
    BY <2>2, SameSaid
  <2>5. ActivateShift(k, pulse, ignition) = Say(started, call)
    BY DEF ActivateShift
  <2> HIDE DEF started, call
  <2> QED
    BY <2>1, <2>2, <2>3, <2>4, <2>5, SayKeeps, SaySaid DEF Keeps
<1>4. CASE g.state = GB_DOWNSHIFT_CLUTCH_ENGAGING
  <2>1. EnterShifting(g) = Say(logged, ClutchCall("clutch_command_pull"))
    BY <1>4, GearsAssumption DEF EnterShifting, logged, aimed,
       GB_NEUTRAL_DOWN_SHIFTING, GB_NEUTRAL_UP_SHIFTING, GB_UPSHIFTING,
       GB_DOWNSHIFT_CLUTCH_ENGAGING
  <2>2. "clutch_command_pull" \in ClutchFns /\ "clutch_command_pull" \notin ShiftFns
    BY DEF ClutchFns, ShiftFns
  <2>3. Said(EnterShifting(g), ShiftFns) = {} => Once(EnterShifting(g), ShiftFns)
    BY DEF Once
  <2> QED
    BY <1>2, <1>4, <2>1, <2>2, <2>3, ClutchSays DEF Keeps
<1>5. CASE g.state # GB_DOWNSHIFT_CLUTCH_ENGAGING
  <2>1. g.state \in PulseStates
    BY <1>5
  <2>2. \E k \in {aimed, logged}, pulse \in Pulses, ignition \in {"on", "cut"} :
          EnterShifting(g) = ActivateShift(k, pulse, ignition)
    BY <1>5 DEF EnterShifting, logged, aimed, Pulses, UpPulses, DownPulses
  <2> QED
    BY <1>3, <1>5, <2>1, <2>2
<1> QED
  BY <1>4, <1>5

\* _transitionTo: only the downshift's first state pulls the clutch, and only the
\* states with a pulse send a shift, one.
LEMMA TransitionSays ==
  ASSUME NEW g \in Machines, NEW next \in States
  PROVE  LET h == TransitionTo(g, next)
         IN /\ h.state = next /\ h.gear = g.gear /\ h.wasManual = g.wasManual
            /\ IsIdle(next) => h.target = g.target
            /\ IsIdle(next) => h.pulse = "none" \/ (h.pulse = g.pulse /\ next = g.state)
            /\ next # GB_DOWNSHIFT_CLUTCH_ENGAGING /\ Said(g, PullFns) = {} =>
                 Said(h, PullFns) = {}
            /\ next \notin PulseStates /\ Said(g, ShiftFns) = {} => Said(h, ShiftFns) = {}
            /\ Said(g, ShiftFns) = {} => Once(h, ShiftFns)
<1>1. CASE next = g.state
  BY <1>1 DEF TransitionTo, Once
<1>2. CASE next # g.state
  <2> DEFINE k == [g EXCEPT !.state = next, !.age = 0]
  <2>1. /\ k \in Machines /\ k.calls = g.calls /\ k.state = next /\ k.gear = g.gear
        /\ k.wasManual = g.wasManual /\ k.target = g.target
    BY NumbersTyped DEF Machines
  <2>2. \A fns : Said(k, fns) = Said(g, fns)
    BY <2>1, SameSaid
  <2>3. /\ IsIdle(next) => TransitionTo(g, next) = EnterIdle(k)
        /\ next = GB_DOWNSHIFT_TO_BITE_POINT => TransitionTo(g, next) = EnterBitePoint(k)
        /\ next \in PulseStates \cup {GB_DOWNSHIFT_CLUTCH_ENGAGING} =>
             TransitionTo(g, next) = EnterShifting(k)
        /\ next = GB_ERROR_SHIFT_TIMEOUT => TransitionTo(g, next) = EnterError(k)
        /\ IsWaiting(next) => TransitionTo(g, next) = k
    BY <1>2, KindsDisjoint DEF TransitionTo
  <2> HIDE DEF k
  <2>4. /\ {"clutch_release", "clutch_command_bite"} \subseteq ClutchFns
        /\ ({"clutch_release", "clutch_command_bite"} \cap (ShiftFns \cup PullFns)) = {}
    BY Names DEF ClutchFns
  <2>5. \A h : Said(h, ShiftFns) = {} => Once(h, ShiftFns)
    BY DEF Once
  <2>6. CASE IsIdle(next)
    <3>1. LET h == Say(k, ClutchCall("clutch_release"))
          IN /\ h \in Machines /\ Keeps(k, h) /\ h.target = k.target
             /\ \A fns \in {ShiftFns, PullFns} : Said(k, fns) = {} => Said(h, fns) = {}
      BY <2>1, <2>4, ClutchSays
    <3>2. /\ Keeps(k, EnterIdle(k)) /\ EnterIdle(k).target = k.target
          /\ EnterIdle(k).pulse = "none"
          /\ \A fns \in {ShiftFns, PullFns} :
               Said(k, fns) = {} => Said(EnterIdle(k), fns) = {}
      BY <3>1, EndPulseSays, SameSaid DEF EnterIdle, Keeps
    <3>3. /\ Said(g, PullFns) = {} => Said(EnterIdle(k), PullFns) = {}
          /\ Said(g, ShiftFns) = {} => Said(EnterIdle(k), ShiftFns) = {}
      BY <2>2, <3>2
    <3>4. Said(g, ShiftFns) = {} => Once(EnterIdle(k), ShiftFns)
      BY <2>5, <3>3
    <3>5. /\ EnterIdle(k).state = next /\ EnterIdle(k).gear = g.gear
          /\ EnterIdle(k).wasManual = g.wasManual /\ EnterIdle(k).target = g.target
          /\ EnterIdle(k).pulse = "none"
      BY <2>1, <3>2 DEF Keeps
    <3>6. TransitionTo(g, next) = EnterIdle(k)
      BY <2>3, <2>6
    <3> QED
      BY <3>3, <3>4, <3>5, <3>6
  <2>7. CASE next = GB_DOWNSHIFT_TO_BITE_POINT
    <3>1. ~IsIdle(next)
      BY <2>7, KindsDisjoint
    <3> QED
      BY <2>1, <2>2, <2>3, <2>4, <2>5, <2>7, <3>1, ClutchSays DEF EnterBitePoint, Keeps
  <2>8. CASE next \in PulseStates \cup {GB_DOWNSHIFT_CLUTCH_ENGAGING}
    <3>1. ~IsIdle(next)
      BY <2>8, KindsDisjoint
    <3> QED
      BY <2>1, <2>2, <2>3, <2>8, <3>1, EnterShiftingSays DEF Keeps
  <2>9. CASE next = GB_ERROR_SHIFT_TIMEOUT
    <3>1. ~IsIdle(next)
      BY <2>9, KindsDisjoint
    <3> DEFINE quiet == EndPulse(k)
               told  == Say(quiet, ClutchCall("clutch_release"))
    <3>2. /\ quiet \in Machines /\ Keeps(k, quiet)
          /\ \A fns : Said(quiet, fns) = Said(k, fns)
      BY <2>1, EndPulseSays, SameSaid
    <3> HIDE DEF quiet
    <3>3. /\ told \in Machines /\ Keeps(quiet, told)
          /\ \A fns \in {ShiftFns, PullFns} : Said(quiet, fns) = {} => Said(told, fns) = {}
      BY <2>4, <3>2, ClutchSays
    <3>4. TransitionTo(g, next) = ClearStack(told)
      BY <2>3, <2>9 DEF EnterError, told, quiet
    <3> HIDE DEF told
    <3>5. /\ Keeps(told, ClearStack(told))
          /\ \A fns \in {ShiftFns, PullFns} :
               Said(told, fns) = {} => Said(ClearStack(told), fns) = {}
      BY <3>3, ClearStackSays
    <3> QED
      BY <2>1, <2>2, <2>5, <3>1, <3>2, <3>3, <3>4, <3>5 DEF Keeps
  <2>10. CASE IsWaiting(next)
    <3>1. ~IsIdle(next)
      BY <2>10, KindsDisjoint
    <3> QED
      BY <2>1, <2>2, <2>3, <2>5, <2>10, <3>1
  <2> QED
    BY <2>6, <2>7, <2>8, <2>9, <2>10, StateKinds, KindsDisjoint
<1> QED
  BY <1>1, <1>2

----------------------------------------------------------------------------
(* Events and reports.                                                     *)

\* No row but a press of the shift-down paddle pulls the clutch, and that press sends
\* no shift; nothing leaves a state with a pulse by the table.
LEMMA RowSays ==
  ASSUME NEW row \in Table
  PROVE  /\ row.to = GB_DOWNSHIFT_CLUTCH_ENGAGING => row.event = "EV_SHIFT_DOWN_PRESSED"
         /\ row.event = "EV_SHIFT_DOWN_PRESSED" => row.to \notin PulseStates
         /\ row.from \notin PulseStates
         /\ row.event \in {"EV_CLUTCH_PULLED", "EV_TIMEOUT"} =>
              \/ IsWaiting(row.from)
              \/ row.from = GB_DOWNSHIFT_CLUTCH_ENGAGING
BY GearsAssumption DEF Table, Row, Gears, PulseStates, IsWaiting,
   GB_IDLE_NEUTRAL, GB_NEUTRAL_DOWN_SHIFTING, GB_NEUTRAL_UP_SHIFTING, GB_UPSHIFTING,
   GB_DOWNSHIFT_CLUTCH_ENGAGING, GB_DOWNSHIFT_SHIFTING,
   GB_WAITING_FOR_CLUTCH_SHIFT_DOWN, GB_WAITING_FOR_CLUTCH_SHIFT_UP

LEMMA FollowSays ==
  ASSUME NEW g \in Machines, NEW event
  PROVE  LET h == Follow(g, event)
         IN /\ h.gear = g.gear /\ h.wasManual = g.wasManual
            /\ event # "EV_SHIFT_DOWN_PRESSED" /\ Said(g, PullFns) = {} =>
                 Said(h, PullFns) = {}
            /\ event = "EV_SHIFT_DOWN_PRESSED" /\ Said(g, ShiftFns) = {} =>
                 Said(h, ShiftFns) = {}
            /\ Said(g, ShiftFns) = {} =>
                 /\ Once(h, ShiftFns)
                 /\ g.state \in PulseStates => Said(h, ShiftFns) = {}
<1>1. CASE Follow(g, event) = g
  BY <1>1 DEF Once
<1>2. ASSUME NEW row \in Table, row.from = g.state, row.event = event,
             Follow(g, event) = TransitionTo(g, row.to)
      PROVE  LET h == Follow(g, event)
             IN /\ h.gear = g.gear /\ h.wasManual = g.wasManual
                /\ event # "EV_SHIFT_DOWN_PRESSED" /\ Said(g, PullFns) = {} =>
                     Said(h, PullFns) = {}
                /\ event = "EV_SHIFT_DOWN_PRESSED" /\ Said(g, ShiftFns) = {} =>
                     Said(h, ShiftFns) = {}
                /\ Said(g, ShiftFns) = {} => Once(h, ShiftFns)
                /\ g.state \notin PulseStates
  BY <1>2, TableTyped, RowSays, TransitionSays
<1> QED
  BY <1>1, <1>2, FollowsARow

\* A stacked press tells the display, and nobody else.
LEMMA PushStackSays ==
  ASSUME NEW g \in Machines, NEW fns \in {ShiftFns, PullFns}
  PROVE  LET h == PushStack(g)
         IN Keeps(g, h) /\ (Said(g, fns) = {} => Said(h, fns) = {})
<1> DEFINE target == AtLeastOne((IF g.target = 0 THEN g.expected ELSE g.target) - 1)
           k      == [g EXCEPT !.target = target]
<1>1. target \in Gears
  BY GearsAssumption DEF Machines, AtLeastOne, Gears
<1> HIDE DEF target
<1>2. k \in Machines /\ Keeps(g, k) /\ k.calls = g.calls
  BY <1>1 DEF Machines, Keeps
<1>3. StackCall(target) \in CallTypes /\ StackCall(target).fn \notin fns
  BY <1>1, CallsTyped, Names
<1>4. PushStack(g) = Say(k, StackCall(target)) /\ Said(k, fns) = Said(g, fns)
  BY <1>2, SameSaid DEF PushStack, target
<1> HIDE DEF k
<1> QED
  BY <1>2, <1>3, <1>4, SaySaid, SayKeeps DEF Keeps

\* _processEvent.
LEMMA EventSays ==
  ASSUME NEW g \in Machines, NEW event
  PROVE  LET h == ProcessEvent(g, event)
         IN /\ h.gear = g.gear /\ h.wasManual = g.wasManual
            /\ event # "EV_SHIFT_DOWN_PRESSED" \/ ~IsIdle(g.state) =>
                 (Said(g, PullFns) = {} => Said(h, PullFns) = {})
            /\ event \in {"EV_SHIFT_DOWN_PRESSED", "EV_GEAR_CHANGED"} =>
                 (Said(g, ShiftFns) = {} => Said(h, ShiftFns) = {})
            /\ event = "EV_GEAR_CHANGED" => h.state = IdleFor(g.gear) /\ h.target = g.target
            /\ Said(g, ShiftFns) = {} =>
                 /\ Once(h, ShiftFns)
                 /\ g.state \in PulseStates => Said(h, ShiftFns) = {}
<1> DEFINE h == ProcessEvent(g, event)
<1>1. CASE event = "EV_SHIFT_DOWN_PRESSED"
  <2>1. h = IF IsIdle(g.state) THEN Follow(g, event) ELSE PushStack(g)
    BY <1>1 DEF ProcessEvent
  <2>2. \A k : Said(k, ShiftFns) = {} => Once(k, ShiftFns)
    BY DEF Once
  <2> QED
    BY <1>1, <2>1, <2>2, FollowSays, PushStackSays DEF Keeps
<1>2. CASE event = "EV_SHIFT_UP_PRESSED"
  <2> DEFINE k == ClearStack(g)
  <2>1. h = Follow(k, event)
    BY <1>2 DEF ProcessEvent
  <2>2. /\ k \in Machines /\ Keeps(g, k)
        /\ \A fns \in {ShiftFns, PullFns} : Said(g, fns) = {} => Said(k, fns) = {}
    BY ClearStackType, ClearStackSays
  <2> HIDE DEF k
  <2> QED
    BY <1>2, <2>1, <2>2, FollowSays DEF Keeps
<1>3. CASE event = "EV_GEAR_CHANGED"
  <2>1. h = TransitionTo(g, IdleFor(g.gear))
    BY <1>3 DEF ProcessEvent
  <2>2. IdleFor(g.gear) \in States /\ IsIdle(IdleFor(g.gear))
    BY NumbersTyped, HomeIsIdle
  <2>3. IdleFor(g.gear) \notin PulseStates /\ IdleFor(g.gear) # GB_DOWNSHIFT_CLUTCH_ENGAGING
    BY <2>2, KindsDisjoint
  <2> QED
    BY <1>3, <2>1, <2>2, <2>3, TransitionSays
<1>4. CASE event \notin {"EV_SHIFT_DOWN_PRESSED", "EV_SHIFT_UP_PRESSED", "EV_GEAR_CHANGED"}
  <2>1. h = Follow(g, event)
    BY <1>4 DEF ProcessEvent
  <2> QED
    BY <1>4, <2>1, FollowSays
<1> QED
  BY <1>1, <1>2, <1>3, <1>4

\* _setGear: a report sends no shift, changes nothing unless the gear is new, and pulls
\* the clutch only for a stack whose target is still below the new gear.
LEMMA GearSays ==
  ASSUME NEW g \in Machines, NEW gear, Said(g, ShiftFns) = {}, Said(g, PullFns) = {}
  PROVE  LET h == SetGear(g, gear)
         IN /\ h.wasManual = g.wasManual
            /\ Said(h, ShiftFns) = {}
            /\ h.gear = g.gear => h = g
            /\ Said(h, PullFns) # {} =>
                 /\ h.gear = gear /\ gear # g.gear
                 /\ g.target > 0 /\ gear > g.target
<1>1. CASE gear \notin Gears \/ gear = g.gear
  BY <1>1 DEF SetGear
<1>2. CASE gear \in Gears /\ gear # g.gear
  <2> DEFINE k1 == [g EXCEPT !.gear = gear]
             k2 == ProcessEvent(k1, "EV_GEAR_CHANGED")
             k3 == Say(k2, LogChanged(g.gear, gear))
  <2>1. /\ k1 \in Machines /\ k1.gear = gear /\ k1.wasManual = g.wasManual
        /\ k1.target = g.target /\ k1.calls = g.calls /\ g.gear \in Gears
        /\ g.target \in Gears
    BY <1>2 DEF Machines
  <2>2. Said(k1, ShiftFns) = {} /\ Said(k1, PullFns) = {}
    BY <2>1, SameSaid
  <2>3. SetGear(g, gear) = NextStacked(k3)
    BY <1>2 DEF SetGear
  <2> HIDE DEF k1
  <2>4. /\ k2 \in Machines /\ k2.gear = gear /\ k2.wasManual = g.wasManual
        /\ k2.state = IdleFor(gear) /\ k2.target = g.target
        /\ Said(k2, ShiftFns) = {} /\ Said(k2, PullFns) = {}
    BY <2>1, <2>2, EventSays, ProcessEventType
  <2> HIDE DEF k2
  <2>5. LogChanged(g.gear, gear) \in CallTypes
        /\ LogChanged(g.gear, gear).fn \notin ShiftFns
        /\ LogChanged(g.gear, gear).fn \notin PullFns
    BY <1>2, <2>1, CallsTyped, Names
  <2>6. /\ k3 \in Machines /\ k3.gear = gear /\ k3.wasManual = g.wasManual
        /\ k3.state = IdleFor(gear) /\ k3.target = g.target
        /\ Said(k3, ShiftFns) = {} /\ Said(k3, PullFns) = {}
    BY <2>4, <2>5, SayType, SayKeeps, SaySaid
  <2> HIDE DEF k3
  <2>7. IsIdle(k3.state) /\ k3.state # GB_DOWNSHIFT_TO_BITE_POINT
    BY <1>2, <2>6, GearsAssumption DEF IdleFor, IsIdle, Gears, GB_DOWNSHIFT_TO_BITE_POINT
  <2>8. CASE NextStacked(k3) = k3
    BY <1>2, <2>3, <2>6, <2>8
  <2>9. CASE NextStacked(k3) = ClearStack(k3)
    BY <1>2, <2>3, <2>6, <2>9, ClearStackSays DEF Keeps
  <2>10. CASE /\ NextStacked(k3) = ProcessEvent(k3, "EV_SHIFT_DOWN_PRESSED")
              /\ k3.target # 0 /\ k3.gear > k3.target
    <3>1. g.target > 0 /\ gear > g.target
      BY <2>1, <2>6, <2>10, GearsAssumption DEF Gears
    <3> QED
      BY <1>2, <2>3, <2>6, <2>10, <3>1, EventSays
  <2> QED
    BY <2>7, <2>8, <2>9, <2>10 DEF NextStacked
<1> QED
  BY <1>1, <1>2

----------------------------------------------------------------------------
(* The tick.                                                               *)

\* The way back from manual mode empties the machine, and only tells the clutch.
LEMMA LeaveManualSays ==
  ASSUME NEW g \in Machines
  PROVE  LET h == LeaveManual(g)
         IN /\ h.gear = g.gear
            /\ ~g.wasManual => h = g
            /\ g.wasManual => /\ h.state = IdleFor(g.gear) /\ h.target = 0
                              /\ h.pulse = "none"
            /\ \A fns \in {ShiftFns, PullFns} : Said(g, fns) = {} => Said(h, fns) = {}
<1>1. CASE ~g.wasManual
  BY <1>1 DEF LeaveManual
<1>2. CASE g.wasManual
  <2> DEFINE k1 == [g EXCEPT !.wasManual = FALSE]
             k2 == EndPulse(k1)
             k3 == ClearStack(k2)
  <2>1. k1 \in Machines /\ k1.gear = g.gear /\ k1.calls = g.calls
    BY DEF Machines
  <2>2. LeaveManual(g) = TransitionTo(k3, IdleFor(g.gear))
    BY <1>2 DEF LeaveManual
  <2> HIDE DEF k1
  <2>3. /\ k2 \in Machines /\ k2.gear = g.gear /\ k2.pulse = "none"
        /\ \A fns : Said(k2, fns) = Said(g, fns)
    BY <2>1, EndPulseSays, SameSaid DEF Keeps
  <2> HIDE DEF k2
  <2>4. /\ k3 \in Machines /\ k3.gear = g.gear /\ k3.pulse = "none" /\ k3.target = 0
        /\ \A fns \in {ShiftFns, PullFns} : Said(g, fns) = {} => Said(k3, fns) = {}
    BY <2>3, ClearStackType, ClearStackSays DEF Keeps
  <2> HIDE DEF k3
  <2>5. IdleFor(g.gear) \in States /\ IsIdle(IdleFor(g.gear))
    BY NumbersTyped, HomeIsIdle
  <2>6. IdleFor(g.gear) \notin PulseStates /\ IdleFor(g.gear) # GB_DOWNSHIFT_CLUTCH_ENGAGING
    BY <2>5, KindsDisjoint DEF IsShifting
  <2> QED
    BY <1>2, <2>2, <2>4, <2>5, <2>6, TransitionSays
<1> QED
  BY <1>1, <1>2

\* The end of a pulse and the timeout send nothing to the rear node and do not pull the
\* clutch; they leave a machine that waits for the clutch, or is idle without a pulse,
\* as it is, and make no other machine wait.
LEMMA TimersSay ==
  ASSUME NEW g \in Machines
  PROVE  LET h == CheckTimeouts(UpdateShiftTiming(g))
         IN /\ h.gear = g.gear
            /\ \A fns \in {ShiftFns, PullFns} : Said(g, fns) = {} => Said(h, fns) = {}
            /\ IsIdle(g.state) /\ g.pulse = "none" => h = g
            /\ IsWaiting(h.state) \/ h.state = GB_DOWNSHIFT_CLUTCH_ENGAGING => h = g
<1> DEFINE u == UpdateShiftTiming(g)
           Quiet(k, h) ==
             /\ h.gear = k.gear
             /\ \A fns \in {ShiftFns, PullFns} : Said(k, fns) = {} => Said(h, fns) = {}
             /\ IsWaiting(h.state) \/ h.state = GB_DOWNSHIFT_CLUTCH_ENGAGING => h = k
<1>1. \A k \in Machines, next \in States :
        \/ IsIdle(next) \/ next \in {GB_DOWNSHIFT_TO_BITE_POINT, GB_ERROR_SHIFT_TIMEOUT}
        => /\ Quiet(k, TransitionTo(k, next))
           /\ ~IsWaiting(next) /\ next # GB_DOWNSHIFT_CLUTCH_ENGAGING
           /\ TransitionTo(k, next).state = next
  <2> SUFFICES ASSUME NEW k \in Machines, NEW next \in States,
                      \/ IsIdle(next)
                      \/ next \in {GB_DOWNSHIFT_TO_BITE_POINT, GB_ERROR_SHIFT_TIMEOUT}
               PROVE  /\ Quiet(k, TransitionTo(k, next))
                      /\ ~IsWaiting(next) /\ next # GB_DOWNSHIFT_CLUTCH_ENGAGING
                      /\ TransitionTo(k, next).state = next
    OBVIOUS
  <2>1. /\ ~IsWaiting(next) /\ next # GB_DOWNSHIFT_CLUTCH_ENGAGING
        /\ next \notin PulseStates
    BY KindsDisjoint
  <2> QED
    BY <2>1, TransitionSays
<1>2. u \in Machines /\ Quiet(g, u)
  <2>1. CASE ~PulseOver(g)
    BY <2>1 DEF UpdateShiftTiming
  <2>2. CASE PulseOver(g)
    <3> DEFINE k    == EndPulse(g)
               next == IF HoldAtBite(g) THEN GB_DOWNSHIFT_TO_BITE_POINT
                                        ELSE IdleFor(g.expected)
    <3>1. k \in Machines /\ k.gear = g.gear /\ \A fns : Said(k, fns) = Said(g, fns)
      BY EndPulseSays, SameSaid DEF Keeps
    <3>2. next \in States /\ (IsIdle(next) \/ next = GB_DOWNSHIFT_TO_BITE_POINT)
      BY StatesTyped, NumbersTyped, HomeIsIdle
    <3>3. u = TransitionTo(k, next)
      BY <2>2 DEF UpdateShiftTiming
    <3> HIDE DEF k, next, u
    <3>4. /\ Quiet(k, u) /\ u.state = next
          /\ ~IsWaiting(next) /\ next # GB_DOWNSHIFT_CLUTCH_ENGAGING
      BY <1>1, <3>1, <3>2, <3>3
    <3> QED
      BY <3>1, <3>4, UpdateShiftTimingType DEF u
  <2> QED
    BY <2>1, <2>2
<1>3. ASSUME NEW k \in Machines PROVE Quiet(k, CheckTimeouts(k))
  <2> DEFINE late == [k EXCEPT !.timedOut = TRUE]
  <2>1. late \in Machines /\ late.gear = k.gear /\ late.calls = k.calls
    BY DEF Machines
  <2>2. \A fns : Said(late, fns) = Said(k, fns)
    BY <2>1, SameSaid
  <2>3. CheckTimeouts(k) \in {k, TransitionTo(late, GB_ERROR_SHIFT_TIMEOUT)}
    BY DEF CheckTimeouts
  <2> HIDE DEF late
  <2>4. /\ Quiet(late, TransitionTo(late, GB_ERROR_SHIFT_TIMEOUT))
        /\ ~IsWaiting(GB_ERROR_SHIFT_TIMEOUT)
        /\ GB_ERROR_SHIFT_TIMEOUT # GB_DOWNSHIFT_CLUTCH_ENGAGING
        /\ TransitionTo(late, GB_ERROR_SHIFT_TIMEOUT).state = GB_ERROR_SHIFT_TIMEOUT
    BY <1>1, <2>1, StatesTyped
  <2> QED
    BY <2>1, <2>2, <2>3, <2>4
<1>4. IsIdle(g.state) /\ g.pulse = "none" => CheckTimeouts(u) = g
  <2>1. g.state \in States
    BY DEF Machines
  <2> QED
    BY <2>1, KindsDisjoint DEF CheckTimeouts, UpdateShiftTiming, PulseOver
<1> HIDE DEF u
<1>5. Quiet(u, CheckTimeouts(u))
  BY <1>2, <1>3
<1> QED
  BY <1>2, <1>4, <1>5 DEF u

\* _updateState never pulls the clutch, and sends one shift at most, from a state that
\* waits for the clutch.
LEMMA UpdateStateSays ==
  ASSUME NEW g \in Machines, NEW held, Said(g, ShiftFns) = {}
  PROVE  LET h == UpdateState(g, held)
         IN /\ h.gear = g.gear
            /\ Said(g, PullFns) = {} => Said(h, PullFns) = {}
            /\ Once(h, ShiftFns)
            /\ IsIdle(g.state) => h = g
            /\ Said(h, ShiftFns) # {} =>
                 IsWaiting(g.state) \/ g.state = GB_DOWNSHIFT_CLUTCH_ENGAGING
<1> DEFINE h == UpdateState(g, held)
           Mild(k) == /\ k.gear = g.gear
                      /\ Said(g, PullFns) = {} => Said(k, PullFns) = {}
                      /\ Once(k, ShiftFns)
<1>1. \A k : Said(k, ShiftFns) = {} => Once(k, ShiftFns)
  BY DEF Once
<1>2. Mild(g)
  BY <1>1
<1>3. \A next \in States :
        IsIdle(next) \/ next = GB_ERROR_SHIFT_TIMEOUT =>
          Mild(TransitionTo(g, next)) /\ Said(TransitionTo(g, next), ShiftFns) = {}
  <2>1. \A next \in States :
          IsIdle(next) \/ next = GB_ERROR_SHIFT_TIMEOUT =>
            next # GB_DOWNSHIFT_CLUTCH_ENGAGING /\ next \notin PulseStates
    BY KindsDisjoint
  <2> QED
    BY <1>1, <2>1, TransitionSays
<1>4. Mild(ProcessEvent(g, "EV_CLUTCH_PULLED"))
  BY EventSays
<1>5. Mild(ProcessEvent(ClearStack(g), "EV_TIMEOUT"))
  <2>1. /\ ClearStack(g) \in Machines /\ ClearStack(g).gear = g.gear
        /\ \A fns \in {ShiftFns, PullFns} :
             Said(g, fns) = {} => Said(ClearStack(g), fns) = {}
    BY ClearStackType, ClearStackSays DEF Keeps
  <2> QED
    BY <2>1, EventSays
<1>6. /\ IdleFor(g.gear) \in States /\ IsIdle(IdleFor(g.gear))
      /\ IdleFor(g.expected) \in States /\ IsIdle(IdleFor(g.expected))
      /\ GB_ERROR_SHIFT_TIMEOUT \in States
  BY NumbersTyped, HomeIsIdle, StatesTyped
<1>7. CASE g.state = GB_DOWNSHIFT_CLUTCH_ENGAGING
  <2>1. ~IsIdle(g.state)
    BY <1>7, StatesTyped, KindsDisjoint
  <2>2. h = UpdateDownshiftClutchWait(g, held)
    BY <1>7, StatesTyped, KindsDisjoint DEF UpdateState
  <2>3. \/ h = g \/ h = ProcessEvent(g, "EV_CLUTCH_PULLED")
        \/ h = TransitionTo(g, GB_ERROR_SHIFT_TIMEOUT)
    BY <2>2 DEF UpdateDownshiftClutchWait
  <2> HIDE DEF h
  <2> QED
    BY <1>2, <1>3, <1>4, <1>6, <1>7, <2>1, <2>3 DEF h
<1>8. CASE g.state = GB_DOWNSHIFT_TO_BITE_POINT
  <2>1. ~IsIdle(g.state) /\ g.state # GB_DOWNSHIFT_CLUTCH_ENGAGING
    BY <1>8, StatesTyped, KindsDisjoint
  <2>2. h = UpdateToBitePoint(g, held)
    BY <1>8, <2>1, StatesTyped, KindsDisjoint DEF UpdateState
  <2>3. h = g \/ h = TransitionTo(g, IdleFor(g.expected))
    BY <2>2 DEF UpdateToBitePoint
  <2> HIDE DEF h
  <2> QED
    BY <1>2, <1>3, <1>6, <2>1, <2>3 DEF h
<1>9. CASE IsWaiting(g.state)
  <2>1. g.state \in States
    BY DEF Machines
  <2>2. /\ ~IsIdle(g.state) /\ g.state # GB_DOWNSHIFT_CLUTCH_ENGAGING
        /\ g.state # GB_DOWNSHIFT_TO_BITE_POINT
    BY <1>9, <2>1, KindsDisjoint
  <2>3. h = UpdateWaiting(g, held)
    BY <1>9, <2>1, <2>2, KindsDisjoint DEF UpdateState
  <2>4. \/ h = g \/ h = ProcessEvent(g, "EV_CLUTCH_PULLED")
        \/ h = ProcessEvent(ClearStack(g), "EV_TIMEOUT")
    BY <2>3 DEF UpdateWaiting
  <2> HIDE DEF h
  <2> QED
    BY <1>2, <1>4, <1>5, <1>9, <2>2, <2>4 DEF h
<1>10. CASE /\ g.state \notin {GB_DOWNSHIFT_CLUTCH_ENGAGING, GB_DOWNSHIFT_TO_BITE_POINT}
            /\ ~IsWaiting(g.state)
  <2>1. g.state \in States
    BY DEF Machines
  <2>2. \/ h = g
        \/ ~IsIdle(g.state) /\ h = TransitionTo(g, IdleFor(g.gear))
    BY <1>10, <2>1, KindsDisjoint DEF UpdateState
  <2> HIDE DEF h
  <2> QED
    BY <1>2, <1>3, <1>6, <2>2 DEF h
<1> QED
  BY <1>7, <1>8, <1>9, <1>10

\* gearbox_tick in auto mode: nothing is left of manual mode after the first one; a shift
\* is sent only from a state without a pulse, and no clutch is pulled.
LEMMA TickAutoSays ==
  ASSUME NEW g \in Machines, NEW held, Said(g, ShiftFns) = {}
  PROVE  LET h == TickAuto(g, held)
         IN /\ h.gear = g.gear
            /\ Said(g, PullFns) = {} => Said(h, PullFns) = {}
            /\ Once(h, ShiftFns)
            /\ Said(h, ShiftFns) # {} => ~g.wasManual /\ g.state \notin PulseStates
            /\ g.wasManual => /\ h.state = IdleFor(h.gear)
                              /\ h.target = 0 /\ h.pulse = "none"
<1> DEFINE l == LeaveManual(g)
           t == CheckTimeouts(UpdateShiftTiming(l))
           h == UpdateState(t, held)
<1>1. /\ l \in Machines /\ l.gear = g.gear
      /\ ~g.wasManual => l = g
      /\ g.wasManual => l.state = IdleFor(g.gear) /\ l.target = 0 /\ l.pulse = "none"
      /\ Said(l, ShiftFns) = {}
      /\ Said(g, PullFns) = {} => Said(l, PullFns) = {}
  BY LeaveManualType, LeaveManualSays
<1> HIDE DEF l
<1>2. /\ t \in Machines /\ t.gear = l.gear /\ Said(t, ShiftFns) = {}
      /\ Said(l, PullFns) = {} => Said(t, PullFns) = {}
      /\ IsIdle(l.state) /\ l.pulse = "none" => t = l
      /\ IsWaiting(t.state) \/ t.state = GB_DOWNSHIFT_CLUTCH_ENGAGING => t = l
  BY <1>1, TimersSay, UpdateShiftTimingType, CheckTimeoutsType
<1> HIDE DEF t
<1>3. /\ h.gear = t.gear /\ Once(h, ShiftFns)
      /\ Said(t, PullFns) = {} => Said(h, PullFns) = {}
      /\ IsIdle(t.state) => h = t
      /\ Said(h, ShiftFns) # {} =>
           IsWaiting(t.state) \/ t.state = GB_DOWNSHIFT_CLUTCH_ENGAGING
  BY <1>2, UpdateStateSays
<1>4. TickAuto(g, held) = h
  BY DEF TickAuto, l, t
<1> HIDE DEF h
<1>5. IsIdle(IdleFor(g.gear))
  BY NumbersTyped, HomeIsIdle
<1>6. g.wasManual => h = l
  BY <1>1, <1>2, <1>3, <1>5
<1>7. Said(h, ShiftFns) # {} => ~g.wasManual /\ g.state \notin PulseStates
  <2>1. Said(h, ShiftFns) # {} => ~g.wasManual
    BY <1>1, <1>6
  <2>2. g.state \in States
    BY DEF Machines
  <2> QED
    BY <1>1, <1>2, <1>3, <2>1, <2>2, KindsDisjoint
<1> QED
  BY <1>1, <1>2, <1>3, <1>4, <1>6, <1>7

\* A step begins with nothing said; can_gear() is taken over unless it is unknown.
LEMMA SyncSays ==
  ASSUME NEW g \in Machines, NEW report
  PROVE  LET h == SyncGear(Silent(g), report)
         IN /\ h \in Machines /\ h.wasManual = g.wasManual
            /\ Said(h, ShiftFns) = {}
            /\ h.gear = g.gear => h.state = g.state
            /\ Said(h, PullFns) # {} => /\ h.gear = report /\ report # g.gear
                                        /\ g.target > 0 /\ report > g.target
<1> DEFINE k == Silent(g)
<1>1. /\ k \in Machines /\ Keeps(g, k) /\ k.target = g.target
      /\ Said(k, ShiftFns) = {} /\ Said(k, PullFns) = {}
  BY SilentType DEF Silent, Said, Keeps, Machines
<1> HIDE DEF k
<1>2. SetGear(k, report) \in Machines
  BY <1>1, SetGearType
<1> QED
  BY <1>1, <1>2, GearSays DEF SyncGear, Keeps, k

----------------------------------------------------------------------------
(* The steps.                                                              *)

\* What one step of the node says, of a machine whose pulses track its states.
LEMMA StepSays ==
  ASSUME TypeOK, Tracks(gb), Next
  PROVE  /\ Once(gb', ShiftFns)
         /\ Said(gb', ShiftFns) # {} /\ ~manualMode =>
              gb.pulse = "none" \/ gb.gear # gb'.gear
         /\ Said(gb', PullFns) # {} =>
              \/ IsIdle(gb.state) /\ gb.gear = gb'.gear /\ DownPressed
              \/ /\ gb.target > 0 /\ canGear = gb'.gear
                 /\ gb'.gear # gb.gear /\ gb'.gear > gb.target
<1> DEFINE k == Silent(gb)
           Goal == /\ Once(gb', ShiftFns)
                   /\ Said(gb', ShiftFns) # {} /\ ~manualMode =>
                        gb.pulse = "none" \/ gb.gear # gb'.gear
                   /\ Said(gb', PullFns) # {} =>
                        \/ IsIdle(gb.state) /\ gb.gear = gb'.gear /\ DownPressed
                        \/ /\ gb.target > 0 /\ canGear = gb'.gear
                           /\ gb'.gear # gb.gear /\ gb'.gear > gb.target
<1>1. /\ gb \in Machines /\ k \in Machines /\ Keeps(gb, k)
      /\ Said(k, ShiftFns) = {} /\ Said(k, PullFns) = {} /\ k.calls = << >>
  BY SilentType DEF TypeOK, Silent, Said, Keeps, Machines
<1>2. \A h : Said(h, ShiftFns) = {} => Once(h, ShiftFns)
  BY DEF Once
<1>3. gb.state \notin PulseStates => gb.pulse = "none"
  BY DEF Tracks
<1>4. gb'.calls = << >> => Goal
  BY <1>2 DEF Said
<1>5. ASSUME NEW event, gb' = ProcessEvent(k, event),
             event = "EV_SHIFT_DOWN_PRESSED" => DownPressed
      PROVE  Goal
  <2> HIDE DEF k
  <2> QED
    BY <1>1, <1>3, <1>5, EventSays DEF Keeps
<1>6. CASE UpPressed
  BY <1>5, <1>6 DEF UpPressed
<1>7. CASE DownPressed
  <2>1. gb' = ProcessEvent(k, "EV_SHIFT_DOWN_PRESSED")
    BY <1>7 DEF DownPressed
  <2> QED
    BY <1>5, <1>7, <2>1
<1>8. CASE NeutralPressed
  <2>1. \/ gb' = ProcessEvent(k, "EV_NEUTRAL_UP_PRESSED")
        \/ gb' = ProcessEvent(k, "EV_NEUTRAL_DOWN_PRESSED")
        \/ gb' = k
    BY <1>8 DEF NeutralPressed
  <2> QED
    BY <1>1, <1>4, <1>5, <2>1
<1>9. ASSUME NEW up \in BOOLEAN, ManualShift(up) PROVE Goal
  <2> DEFINE started == [k EXCEPT !.manualActive = TRUE, !.manualAge = 0]
  <2>1. /\ started \in Machines /\ started.calls = k.calls
        /\ ManualCall(up) \in CallTypes /\ ManualCall(up).fn \notin PullFns
    BY <1>1, NumbersTyped, CallsTyped, Names DEF Machines
  <2>2. manualMode /\ (gb' = k \/ gb' = Say(started, ManualCall(up)))
    BY <1>9 DEF ManualShift
  <2>3. Said(started, ShiftFns) = {} /\ Said(started, PullFns) = {}
    BY <1>1, <2>1, SameSaid
  <2> HIDE DEF k, started
  <2> QED
    BY <1>1, <1>4, <2>1, <2>2, <2>3, SaySaid
<1>10. CASE Tick
  <2> DEFINE s == SyncGear(k, canGear)
  <2>1. /\ s \in Machines /\ s.wasManual = gb.wasManual
        /\ Said(s, ShiftFns) = {}
        /\ s.gear = gb.gear => s.state = gb.state
        /\ Said(s, PullFns) # {} => /\ s.gear = canGear /\ canGear # gb.gear
                                    /\ gb.target > 0 /\ canGear > gb.target
    BY <1>1, SyncSays
  <2>2. gb' = IF manualMode THEN TickManual(s) ELSE TickAuto(s, clutchIs)
    BY <1>10 DEF Tick
  <2> HIDE DEF k, s
  <2>3. CASE manualMode
    <3>1. gb'.calls = s.calls /\ gb'.gear = s.gear
      BY <2>1, <2>2, <2>3 DEF TickManual, Machines
    <3>2. \A fns : Said(gb', fns) = Said(s, fns)
      BY <3>1, SameSaid
    <3> QED
      BY <1>2, <2>1, <2>3, <3>1, <3>2
  <2>4. CASE ~manualMode
    BY <1>3, <2>1, <2>2, <2>4, TickAutoSays
  <2> QED
    BY <2>3, <2>4
<1>11. CASE SwitchManual \/ GearReported \/ ClutchMoved \/ Time
  <2>1. gb'.calls = << >>
    BY <1>1, <1>11 DEF SwitchManual, GearReported, ClutchMoved, Time, Machines, Older
  <2> QED
    BY <1>4, <2>1
<1> QED
  BY <1>6, <1>7, <1>8, <1>9, <1>10, <1>11 DEF Next, Rider, Buses

\* The first tick in auto mode starts from nothing.
LEMMA TickLeavesNothing ==
  ASSUME TypeOK, Tick, ~manualMode, gb.wasManual
  PROVE  gb'.state = IdleFor(gb'.gear) /\ gb'.target = 0 /\ gb'.pulse = "none"
<1> DEFINE s == SyncGear(Silent(gb), canGear)
<1>1. s \in Machines /\ s.wasManual /\ Said(s, ShiftFns) = {}
  BY SyncSays DEF TypeOK
<1>2. gb' = TickAuto(s, clutchIs)
  BY DEF Tick
<1> HIDE DEF s
<1> QED
  BY <1>1, <1>2, TickAutoSays

\* At most one shift frame in a step, and none over a running pulse unless the rear
\* node has just confirmed a new gear: gearbox.cpp never sends a second shift while the
\* first is being timed.
THEOREM ShiftsDoNotOverlap == Safety => PulsesDoNotOverlap
<1>1. GearboxInv /\ [Next]_vars =>
        [ /\ \A i, j \in ShiftCalls' : i = j
          /\ (ShiftCalls' # {} /\ ~manualMode) =>
               (gb.pulse = "none" \/ gb.gear # gb'.gear) ]_vars
  BY StepSays DEF GearboxInv, MachineInv, ShiftCalls, Said, Once
<1> QED
  BY <1>1, InvariantHolds, PTL DEF Safety, PulsesDoNotOverlap

\* Only a press in an idle state, or the report of a new gear above the stack's target,
\* pulls the clutch: a stacked downshift waits for the confirmation of the one before.
THEOREM StackWaitsForReport == Safety => StackFiresOnConfirmation
<1>1. TypeOK /\ Tracks(gb) /\ Next /\ Asked("clutch_command_pull")' =>
        \/ IsIdle(gb.state) /\ gb.gear = gb'.gear /\ DownPressed
        \/ /\ gb.target > 0 /\ canGear = gb'.gear
           /\ gb'.gear # gb.gear /\ gb'.gear > gb.target
  BY StepSays DEF Asked, Said, PullFns
<1>2. GearboxInv /\ [Next]_vars =>
        [ Asked("clutch_command_pull")' =>
            \/ IsIdle(gb.state) /\ gb.gear = gb'.gear /\ DownPressed
            \/ /\ gb.target > 0 /\ canGear = gb'.gear
               /\ gb'.gear # gb.gear /\ gb'.gear > gb.target ]_vars
  BY <1>1 DEF GearboxInv, MachineInv
<1> QED
  BY <1>2, InvariantHolds, PTL DEF Safety, StackFiresOnConfirmation

\* Whatever manual mode left, and whatever is reported in the same pass, the first tick
\* in auto mode ends idle in the reported gear without a stack or a pulse.
THEOREM ManualModeLeavesNothing == Safety => ManualLeavesNothing
<1>1. TypeOK /\ [Next]_vars =>
        [ Tick /\ ~manualMode /\ gb.wasManual =>
            /\ gb'.state = IdleFor(gb'.gear)
            /\ gb'.target = 0 /\ gb'.pulse = "none" ]_vars
  BY TickLeavesNothing
<1> QED
  BY <1>1, TypeCorrect, PTL DEF Safety, ManualLeavesNothing
=============================================================================
