-------------------------- MODULE ClutchPathProofs --------------------------
(***************************************************************************)
(* The composition of the gearbox with the clutch, the paddle, the console *)
(* and the servo implements the gearbox of module Gearbox, for every       *)
(* travel, every setting of the paddle and every behaviour of the servo.   *)
(***************************************************************************)
EXTENDS ClutchPath, WellFoundedInduction, TLAPS


\* A clutch nobody has heard from is neither disengaged nor at the bite point.
LEMMA InitImplements == Init => G!Init
BY DEF Init, G!Init, Held, G!GB_IDLE_NEUTRAL, G!GEAR_UNKNOWN, Stale

\* A step outside the gearbox leaves it as it is, but for the clutch's feedback.
LEMMA QuietImplements == ASSUME Quiet PROVE G!ClutchMoved
BY DEF Quiet, G!ClutchMoved, Held, G!ClutchPredicates

\* A press, a pass of the loop and a step of the clock are the gearbox's own; every
\* other step only changes what the gearbox hears of the clutch.
LEMMA StepImplements == [Next]_vars => [G!Next]_G!vars
<1> SUFFICES ASSUME [Next]_vars PROVE [G!Next]_G!vars
  OBVIOUS
<1>1. CASE Press
  BY <1>1 DEF Press, G!Next
<1>2. CASE Loop
  BY <1>2 DEF Loop, G!Next
<1>3. CASE Clock
  BY <1>3 DEF Clock, G!Next
<1>4. CASE Console
  <2>1. Quiet
    BY <1>4 DEF Console, ConsolePos, ConsolePull, ConsoleRelease, ConsolePaddle
  <2> QED
    BY <2>1, QuietImplements DEF G!Next, G!Buses
<1>5. CASE Squeeze \/ ServoMoves \/ Feedback
  <2>1. Quiet
    BY <1>5 DEF Squeeze, ServoMoves, Feedback
  <2> QED
    BY <2>1, QuietImplements DEF G!Next, G!Buses
<1>6. CASE GearReported
  BY <1>6 DEF GearReported, G!Next, G!Buses
<1>7. CASE UNCHANGED vars
  BY <1>7 DEF vars, rest, G!vars, Held
<1> QED
  BY <1>1, <1>2, <1>3, <1>4, <1>5, <1>6, <1>7 DEF Next, World

\* The composition implements Gearbox: whatever the paddle, the console and the servo
\* do, the gearbox sees an environment its own specification allows.
THEOREM Implements == Safety => RefinesGearbox
<1>1. Init => G!Init
  BY InitImplements
<1>2. [Next]_vars => [G!Next]_G!vars
  BY StepImplements
<1> QED
  BY <1>1, <1>2, PTL DEF Safety, RefinesGearbox, G!Safety

----------------------------------------------------------------------------
(* The clutch and what it was told.                                        *)

\* A position clutch.cpp tells the servo is the position it remembers.
LEMMA SameCalls ==
  ASSUME NEW g, NEW a, NEW b
  PROVE  AfterCalls(g, a) = AfterCalls(g, b) \/ (AfterCalls(g, a) = a /\ AfterCalls(g, b) = b)
BY DEF AfterCalls

\* Until the console's pos, what clutch.cpp believes is what the servo was told: only
\* the boot leaves the one without the other.
THEOREM CommandedPositionIsTold == Safety => []CommandedIsTold
<1>1. Init => CommandedIsTold
  BY DEF Init, CommandedIsTold
<1>2. CommandedIsTold /\ [Next]_vars => CommandedIsTold'
  <2> SUFFICES ASSUME CommandedIsTold, [Next]_vars PROVE CommandedIsTold'
    OBVIOUS
  <2>1. ASSUME Obeyed, bench' = bench PROVE CommandedIsTold'
    BY <2>1, SameCalls DEF Obeyed, CommandedIsTold
  <2>2. CASE Press
    BY <2>1, <2>2 DEF Press, rest
  <2>3. CASE Loop
    BY <2>1, <2>3 DEF Loop, PaddleTick, Command, rest, CommandedIsTold
  <2>4. CASE Console
    BY <2>4 DEF Console, CommandedIsTold
  <2>5. CASE Clock \/ World \/ UNCHANGED vars
    BY <2>5 DEF Clock, World, Squeeze, ServoMoves, Feedback, GearReported, vars, drive,
       rest, CommandedIsTold
  <2> QED
    BY <2>2, <2>3, <2>4, <2>5 DEF Next
<1> QED
  BY <1>1, <1>2, PTL DEF Safety

\* A pass that leaves the machine idle leaves the clutch with the paddle, whatever the
\* machine called on the way there.
THEOREM PaddleEndsWithTheClutch == Safety => PaddleHasTheClutch
<1>1. [Next]_vars =>
        [ticked' /\ ~ticked /\ ~override /\ (manualMode \/ G!IsIdle(gb'.state))
           => commanded' = paddle]_vars
  <2> SUFFICES ASSUME Next, ticked' # ticked, ~override,
                      manualMode \/ G!IsIdle(gb'.state), ticked'
               PROVE  commanded' = paddle
    BY DEF vars
  <2>1. CASE Loop
    BY <2>1 DEF Loop, PaddleTick, PaddleDrives, Command, Obeyed
  <2>2. CASE Press
    BY <2>2 DEF Press, G!Rider, G!UpPressed, G!DownPressed, G!NeutralPressed,
       G!SwitchManual, G!ManualShift
  <2>3. CASE Clock
    BY <2>3 DEF Clock, G!Time
  <2>4. CASE Console
    BY <2>4 DEF Console, ConsolePos, ConsolePull, ConsoleRelease, ConsolePaddle, Quiet
  <2>5. CASE World
    BY <2>5 DEF World, Squeeze, ServoMoves, Feedback, GearReported, G!GearReported, Quiet
  <2> QED
    BY <2>1, <2>2, <2>3, <2>4, <2>5 DEF Next
<1> QED
  BY <1>1, PTL DEF Safety, PaddleHasTheClutch

----------------------------------------------------------------------------
(* The clutch during a downshift.                                          *)

\* The travel and the states are numbers apart from each other.
LEMMA Numbers ==
  /\ Bite \in Nat /\ Trigger \in Nat /\ Disengaged \in Nat
  /\ 0 < Disengaged /\ Bite <= Trigger /\ Trigger <= Disengaged
  /\ MaxGear \in Nat /\ MaxGear >= 3
BY TravelAssumption, GearboxAssumption

Fields == {"state", "age", "gear", "expected", "target", "pulse", "shiftAge",
           "wasManual", "manualActive", "manualAge", "timedOut", "calls"}

\* What the argument needs to know of a machine.
Good(g) == DOMAIN g = Fields /\ \E S : g.calls \in Seq(S)

\* What a state owes the clutch: position is what it was told, at where it is.
Keeps(state, position, at) ==
  /\ state \in Pulling => position = Disengaged
  /\ state = G!GB_DOWNSHIFT_TO_BITE_POINT => position = Bite
  /\ state = G!GB_DOWNSHIFT_SHIFTING => at >= Trigger

\* A machine serves the clutch if its calls, on top of what was told before, give its
\* state what it is owed.  The time of manual mode owes nothing.
Serves(g, before, at) ==
  Good(g) /\ (~g.wasManual => Keeps(g.state, AfterCalls(g, before), at))

\* The states of a downshift are no others.
LEMMA States ==
  /\ \A s : G!IsIdle(s) => /\ s \notin Pulling /\ s # G!GB_DOWNSHIFT_TO_BITE_POINT
                           /\ s # G!GB_DOWNSHIFT_SHIFTING /\ s \in G!States
  /\ \A s : s \in {G!GB_NEUTRAL_DOWN_SHIFTING, G!GB_NEUTRAL_UP_SHIFTING, G!GB_UPSHIFTING,
                   G!GB_WAITING_FOR_CLUTCH_SHIFT_DOWN, G!GB_WAITING_FOR_CLUTCH_SHIFT_UP,
                   G!GB_ERROR_SHIFT_TIMEOUT} =>
              /\ s \notin Pulling /\ s # G!GB_DOWNSHIFT_TO_BITE_POINT
              /\ s # G!GB_DOWNSHIFT_SHIFTING /\ s \in G!States /\ ~ G!IsIdle(s)
  /\ G!GB_DOWNSHIFT_SHIFTING \in Pulling /\ G!GB_DOWNSHIFT_CLUTCH_ENGAGING \in Pulling
  /\ G!GB_DOWNSHIFT_TO_BITE_POINT \notin Pulling
  /\ G!GB_DOWNSHIFT_SHIFTING # G!GB_DOWNSHIFT_CLUTCH_ENGAGING
  /\ {G!GB_DOWNSHIFT_SHIFTING, G!GB_DOWNSHIFT_CLUTCH_ENGAGING,
        G!GB_DOWNSHIFT_TO_BITE_POINT} \subseteq G!States
  /\ \A s \in Pulling \cup {G!GB_DOWNSHIFT_TO_BITE_POINT} : ~ G!IsIdle(s) /\ ~ G!IsWaiting(s)
  /\ \A gear : G!IsIdle(G!IdleFor(gear))
BY Numbers DEF Pulling, G!IsIdle, G!IsWaiting, G!Gears, G!States, G!IdleFor,
   G!GB_IDLE_NEUTRAL,
   G!GB_NEUTRAL_DOWN_SHIFTING, G!GB_NEUTRAL_UP_SHIFTING, G!GB_UPSHIFTING,
   G!GB_DOWNSHIFT_CLUTCH_ENGAGING, G!GB_DOWNSHIFT_SHIFTING,
   G!GB_DOWNSHIFT_TO_BITE_POINT, G!GB_WAITING_FOR_CLUTCH_SHIFT_DOWN,
   G!GB_WAITING_FOR_CLUTCH_SHIFT_UP, G!GB_ERROR_SHIFT_TIMEOUT

\* Every state is of one kind.
LEMMA Kinds ==
  \A s \in G!States :
    /\ G!IsIdle(s) \/ G!IsWaiting(s) \/ G!IsShifting(s) \/ s = G!GB_ERROR_SHIFT_TIMEOUT
    /\ G!IsIdle(s) => /\ ~ G!IsWaiting(s) /\ ~ G!IsShifting(s)
                      /\ s # G!GB_ERROR_SHIFT_TIMEOUT /\ s # G!GB_DOWNSHIFT_TO_BITE_POINT
    /\ G!IsWaiting(s) => /\ ~ G!IsShifting(s) /\ s # G!GB_ERROR_SHIFT_TIMEOUT
                         /\ s # G!GB_DOWNSHIFT_TO_BITE_POINT
    /\ G!IsShifting(s) => s # G!GB_ERROR_SHIFT_TIMEOUT
    /\ s = G!GB_DOWNSHIFT_TO_BITE_POINT => G!IsShifting(s)
BY Numbers DEF G!States, G!IsIdle, G!Gears, G!IsWaiting, G!IsShifting,
   G!GB_ERROR_SHIFT_TIMEOUT, G!GB_NEUTRAL_DOWN_SHIFTING, G!GB_DOWNSHIFT_TO_BITE_POINT,
   G!GB_WAITING_FOR_CLUTCH_SHIFT_DOWN, G!GB_WAITING_FOR_CLUTCH_SHIFT_UP

\* Some of the calls of a list, if there are any, have a last one.
LEMMA LastCall ==
  ASSUME NEW n \in Nat, NEW S \in SUBSET (1 .. n), S # {}
  PROVE  \E i \in S : \A j \in S : j <= i
<1> DEFINE T == { n - i : i \in S }
<1>1. T \subseteq Nat /\ T # {}
  <2>1. \A i \in S : i \in Int /\ 1 <= i /\ i <= n
    OBVIOUS
  <2>2. \A i \in S : n - i \in Nat
    BY <2>1
  <2>3. PICK i \in S : TRUE
    OBVIOUS
  <2>4. n - i \in T
    BY <2>3
  <2> QED
    BY <2>2, <2>4
<1>2. PICK d \in T : \A e \in T : ~ (<<e, d>> \in OpToRel(<, Nat))
  BY <1>1, NatLessThanWellFounded, WFMin, Zenon
<1>3. \A e \in T : ~ (e < d)
  BY <1>1, <1>2 DEF OpToRel
<1>4. PICK i \in S : d = n - i
  OBVIOUS
<1>5. ASSUME NEW j \in S PROVE j <= i
  <2>1. ~ (n - j < n - i) /\ i \in Int /\ j \in Int
    BY <1>3, <1>4
  <2> QED
    BY <2>1
<1> QED
  BY <1>5

\* A machine that differs in neither state nor calls serves as well.
LEMMA Same ==
  ASSUME NEW g, NEW h, NEW before, NEW at, DOMAIN h = DOMAIN g,
         h.state = g.state, h.calls = g.calls, h.wasManual = g.wasManual
  PROVE  /\ Good(g) => Good(h)
         /\ Serves(g, before, at) => Serves(h, before, at)
BY DEF Good, Serves, AfterCalls, ClutchCalls

\* A machine that is not in a downshift serves anyhow.
LEMMA Free ==
  ASSUME NEW g, NEW before, NEW at, Good(g),
         g.state \notin Pulling, g.state # G!GB_DOWNSHIFT_TO_BITE_POINT
  PROVE  Serves(g, before, at)
BY States DEF Serves, Keeps

\* A call makes the list one longer.
LEMMA SayCalls ==
  ASSUME NEW g, Good(g), NEW call
  PROVE  /\ Good(G!Say(g, call)) /\ G!Say(g, call).state = g.state
         /\ G!Say(g, call).wasManual = g.wasManual
         /\ Len(g.calls) \in Nat /\ DOMAIN g.calls = 1 .. Len(g.calls)
         /\ DOMAIN G!Say(g, call).calls = 1 .. Len(g.calls) + 1
         /\ \A i \in DOMAIN g.calls : G!Say(g, call).calls[i] = g.calls[i]
         /\ G!Say(g, call).calls[Len(g.calls) + 1] = call
<1>1. PICK S : g.calls \in Seq(S)
  BY DEF Good
<1> DEFINE longer == Append(g.calls, call)
           h      == G!Say(g, call)
<1>2. g.calls \in Seq(S \cup {call}) /\ call \in S \cup {call}
  <2>1. S \subseteq S \cup {call}
    OBVIOUS
  <2> QED
    BY <1>1, <2>1
<1>3. /\ longer \in Seq(S \cup {call}) /\ Len(longer) = Len(g.calls) + 1
      /\ Len(g.calls) \in Nat /\ DOMAIN g.calls = 1 .. Len(g.calls)
      /\ DOMAIN longer = 1 .. Len(g.calls) + 1
      /\ \A i \in DOMAIN g.calls : longer[i] = g.calls[i]
      /\ longer[Len(g.calls) + 1] = call
  BY <1>2
<1> HIDE DEF longer
<1>4. /\ DOMAIN h = Fields /\ h.calls = longer /\ h.state = g.state
      /\ h.wasManual = g.wasManual
  BY DEF G!Say, Good, Fields, longer
<1> HIDE DEF h
<1>5. Good(h)
  BY <1>3, <1>4 DEF Good
<1> QED
  BY <1>3, <1>4, <1>5 DEF h

\* What is no call of the clutch leaves the last one the last.
LEMMA SayOther ==
  ASSUME NEW g, NEW call, NEW before, NEW at, call.fn \notin G!ClutchFns, Good(g)
  PROVE  /\ Good(G!Say(g, call))
         /\ AfterCalls(G!Say(g, call), before) = AfterCalls(g, before)
         /\ Serves(g, before, at) => Serves(G!Say(g, call), before, at)
<1> DEFINE h == G!Say(g, call)
<1>1. /\ Good(h) /\ h.state = g.state /\ h.wasManual = g.wasManual
      /\ Len(g.calls) \in Nat /\ DOMAIN g.calls = 1 .. Len(g.calls)
      /\ DOMAIN h.calls = 1 .. Len(g.calls) + 1
      /\ \A i \in DOMAIN g.calls : h.calls[i] = g.calls[i]
      /\ h.calls[Len(g.calls) + 1] = call
  BY SayCalls
<1> HIDE DEF h
<1>2. ClutchCalls(h) = ClutchCalls(g)
  BY <1>1 DEF ClutchCalls
<1>3. AfterCalls(h, before) = AfterCalls(g, before)
  <2>1. CASE ClutchCalls(g) = {}
    BY <1>2, <2>1 DEF AfterCalls
  <2>2. CASE ClutchCalls(g) # {}
    <3> DEFINE last == CHOOSE i \in ClutchCalls(g) : \A j \in ClutchCalls(g) : j <= i
    <3>1. /\ AfterCalls(h, before) = PositionOf(h.calls[last].fn)
          /\ AfterCalls(g, before) = PositionOf(g.calls[last].fn)
      BY <1>2, <2>2 DEF AfterCalls
    <3>2. \E i \in ClutchCalls(g) : \A j \in ClutchCalls(g) : j <= i
      BY <1>1, <2>2, LastCall DEF ClutchCalls
    <3>3. last \in DOMAIN g.calls
      BY <3>2 DEF ClutchCalls
    <3> QED
      BY <1>1, <3>1, <3>3
  <2> QED
    BY <2>1, <2>2
<1> QED
  BY <1>1, <1>3 DEF Serves, h

\* A call of the clutch is the last one.
LEMMA SayClutch ==
  ASSUME NEW g, NEW fn \in G!ClutchFns, NEW before, Good(g)
  PROVE  LET h == G!Say(g, G!ClutchCall(fn))
         IN /\ Good(h) /\ h.state = g.state /\ h.wasManual = g.wasManual
            /\ AfterCalls(h, before) = PositionOf(fn)
<1> DEFINE call == G!ClutchCall(fn)
           h    == G!Say(g, call)
<1>1. /\ Good(h) /\ h.state = g.state /\ h.wasManual = g.wasManual
      /\ Len(g.calls) \in Nat /\ DOMAIN h.calls = 1 .. Len(g.calls) + 1
      /\ h.calls[Len(g.calls) + 1] = call
  BY SayCalls
<1>2. call.fn = fn
  BY DEF G!ClutchCall, G!Plain, G!Call
<1> HIDE DEF call, h
<1> DEFINE last == Len(g.calls) + 1
<1>3. last \in ClutchCalls(h) /\ \A j \in ClutchCalls(h) : j <= last
  BY <1>1, <1>2 DEF ClutchCalls
<1>4. (CHOOSE i \in ClutchCalls(h) : \A j \in ClutchCalls(h) : j <= i) = last
  <2>1. \A i \in ClutchCalls(h) : (\A j \in ClutchCalls(h) : j <= i) => i = last
    <3> SUFFICES ASSUME NEW i \in ClutchCalls(h), \A j \in ClutchCalls(h) : j <= i
                 PROVE  i = last
      OBVIOUS
    <3>1. last <= i /\ i <= last
      BY <1>3
    <3>2. i \in Int /\ last \in Int
      BY <1>1 DEF ClutchCalls
    <3> QED
      BY <3>1, <3>2
  <2> QED
    BY <1>3, <2>1
<1> QED
  BY <1>1, <1>2, <1>3, <1>4 DEF AfterCalls, call, h

\* The calls of the stack, the log and the shifts are none of the clutch's.
LEMMA OtherCalls ==
  /\ \A target : G!StackCall(target).fn \notin G!ClutchFns
  /\ \A from, to : G!LogStart(from, to).fn \notin G!ClutchFns
  /\ \A old, now : G!LogChanged(old, now).fn \notin G!ClutchFns
  /\ \A pulse, ignition, gear : G!ShiftCall(pulse, ignition, gear).fn \notin G!ClutchFns
  /\ \A up : G!ManualCall(up).fn \notin G!ClutchFns
  /\ {"clutch_release", "clutch_command_pull", "clutch_command_bite"} \subseteq G!ClutchFns
BY DEF G!ClutchFns, G!StackCall, G!LogStart, G!LogChanged, G!ShiftCall, G!ManualCall,
   G!Plain, G!Call

\* _clearStack and the stacked press, and the start and the end of a pulse.
LEMMA StackAndPulse ==
  ASSUME NEW g, NEW before, NEW at, NEW h, Good(g),
         \/ h = G!ClearStack(g) \/ h = G!PushStack(g) \/ h = G!EndPulse(g)
         \/ \E pulse, ignition : h = G!ActivateShift(g, pulse, ignition)
  PROVE  /\ Good(h) /\ h.state = g.state /\ h.wasManual = g.wasManual
         /\ AfterCalls(h, before) = AfterCalls(g, before)
         /\ Serves(g, before, at) => Serves(h, before, at)
<1>1. DOMAIN g = Fields
  BY DEF Good
<1>2. ASSUME NEW k, NEW call, DOMAIN k = DOMAIN g, k.state = g.state,
             k.calls = g.calls, k.wasManual = g.wasManual,
             call.fn \notin G!ClutchFns
      PROVE  /\ Good(k) /\ Good(G!Say(k, call)) /\ G!Say(k, call).state = g.state
             /\ G!Say(k, call).wasManual = g.wasManual
             /\ AfterCalls(k, before) = AfterCalls(g, before)
             /\ AfterCalls(G!Say(k, call), before) = AfterCalls(g, before)
  <2>1. Good(k) /\ AfterCalls(k, before) = AfterCalls(g, before)
    BY <1>2 DEF Good, AfterCalls, ClutchCalls
  <2> QED
    BY <1>2, <2>1, SayOther, SayCalls
<1>3. \A target :
        LET k == [g EXCEPT !.target = target]
        IN /\ DOMAIN k = DOMAIN g /\ k.state = g.state /\ k.calls = g.calls
           /\ k.wasManual = g.wasManual
  BY <1>1 DEF Fields
<1>4. \A pulse :
        LET k == [g EXCEPT !.pulse = pulse, !.shiftAge = 0]
        IN /\ DOMAIN k = DOMAIN g /\ k.state = g.state /\ k.calls = g.calls
           /\ k.wasManual = g.wasManual
  BY <1>1 DEF Fields
<1>5. /\ Good(h) /\ h.state = g.state /\ h.wasManual = g.wasManual
      /\ AfterCalls(h, before) = AfterCalls(g, before)
  <2>0. \A target :
          LET k == G!Say([g EXCEPT !.target = target], G!StackCall(target))
          IN /\ Good(k) /\ k.state = g.state /\ k.wasManual = g.wasManual
             /\ AfterCalls(k, before) = AfterCalls(g, before)
    <3> TAKE target
    <3> DEFINE k    == [g EXCEPT !.target = target]
               call == G!StackCall(target)
    <3>1. /\ DOMAIN k = DOMAIN g /\ k.state = g.state /\ k.calls = g.calls
          /\ k.wasManual = g.wasManual /\ call.fn \notin G!ClutchFns
      BY <1>3, OtherCalls
    <3> HIDE DEF k, call
    <3>2. /\ Good(G!Say(k, call)) /\ G!Say(k, call).state = g.state
          /\ G!Say(k, call).wasManual = g.wasManual
          /\ AfterCalls(G!Say(k, call), before) = AfterCalls(g, before)
      BY <1>2, <3>1
    <3> QED
      BY <3>2 DEF k, call
  <2>1. CASE h = G!ClearStack(g)
    BY <2>0, <2>1 DEF G!ClearStack
  <2>2. CASE h = G!PushStack(g)
    BY <2>0, <2>2 DEF G!PushStack
  <2>3. CASE h = G!EndPulse(g)
    <3>1. \E call : call.fn \notin G!ClutchFns
      BY OtherCalls
    <3> QED
      BY <1>2, <1>4, <2>3, <3>1 DEF G!EndPulse
  <2>4. ASSUME NEW pulse, NEW ignition, h = G!ActivateShift(g, pulse, ignition)
        PROVE  /\ Good(h) /\ h.state = g.state /\ h.wasManual = g.wasManual
               /\ AfterCalls(h, before) = AfterCalls(g, before)
    BY <1>2, <1>4, <2>4, OtherCalls DEF G!ActivateShift
  <2> QED
    BY <2>1, <2>2, <2>3, <2>4
<1> QED
  BY <1>5 DEF Serves

\* _transitionTo says to the clutch what the state entered owes it; a pulse of a
\* downshift is started on top of what was said before.
LEMMA Transition ==
  ASSUME NEW g, NEW next \in G!States, NEW before, NEW at, Good(g),
         g.state \notin Pulling => next # G!GB_DOWNSHIFT_SHIFTING,
         g.state # G!GB_DOWNSHIFT_SHIFTING /\ next = G!GB_DOWNSHIFT_SHIFTING => at >= Trigger,
         G!IsIdle(next) \/ Serves(g, before, at)
  PROVE  /\ Serves(G!TransitionTo(g, next), before, at)
         /\ G!TransitionTo(g, next).state = next
         /\ G!TransitionTo(g, next).wasManual = g.wasManual
<1> DEFINE k == [g EXCEPT !.state = next, !.age = 0]
           h == G!TransitionTo(g, next)
<1>1. CASE next = g.state
  BY <1>1, Free, States DEF G!TransitionTo
<1>2. /\ DOMAIN k = Fields /\ k.state = next /\ k.calls = g.calls /\ k.gear = g.gear
      /\ k.wasManual = g.wasManual
  BY DEF Good, Fields
<1>3. Good(k) /\ AfterCalls(k, before) = AfterCalls(g, before)
  BY <1>2 DEF Good, AfterCalls, ClutchCalls
<1> HIDE DEF k
<1>4. ASSUME next # g.state, G!IsIdle(next)
      PROVE  h = G!EnterIdle(k)
  BY <1>4, Kinds DEF G!TransitionTo, k
<1>5. ASSUME next # g.state, ~ G!IsIdle(next)
      PROVE  h = CASE next = G!GB_DOWNSHIFT_TO_BITE_POINT -> G!EnterBitePoint(k)
                   [] G!IsShifting(next) /\ next # G!GB_DOWNSHIFT_TO_BITE_POINT
                        -> G!EnterShifting(k)
                   [] next = G!GB_ERROR_SHIFT_TIMEOUT -> G!EnterError(k)
                   [] G!IsWaiting(next) -> k
  BY <1>5, Kinds DEF G!TransitionTo, k
<1> HIDE DEF h
<1>6. ASSUME next # g.state, G!IsIdle(next)
      PROVE  Serves(h, before, at) /\ h.state = next /\ h.wasManual = g.wasManual
  <2> DEFINE said == G!Say(k, G!ClutchCall("clutch_release"))
  <2>1. Good(said) /\ said.state = next /\ said.wasManual = g.wasManual
    BY <1>2, <1>3, SayClutch, OtherCalls
  <2> HIDE DEF said
  <2>2. h = G!EndPulse(said)
    BY <1>4, <1>6 DEF G!EnterIdle, said
  <2>3. Good(h) /\ h.state = next /\ h.wasManual = g.wasManual
    BY <2>1, <2>2, StackAndPulse
  <2> QED
    BY <1>6, <2>3, Free, States
<1>7. ASSUME next # g.state, next = G!GB_DOWNSHIFT_TO_BITE_POINT
      PROVE  Serves(h, before, at) /\ h.state = next /\ h.wasManual = g.wasManual
  <2>1. h = G!EnterBitePoint(k)
    BY <1>5, <1>7, States
  <2>2. /\ Good(h) /\ h.state = next /\ h.wasManual = g.wasManual
        /\ AfterCalls(h, before) = PositionOf("clutch_command_bite")
    BY <1>2, <1>3, <2>1, SayClutch, OtherCalls DEF G!EnterBitePoint
  <2> QED
    BY <1>7, <2>2, States DEF Serves, Keeps, PositionOf
<1>8. ASSUME next # g.state, next = G!GB_ERROR_SHIFT_TIMEOUT
      PROVE  Serves(h, before, at) /\ h.state = next /\ h.wasManual = g.wasManual
  <2> DEFINE ended == G!EndPulse(k)
             said  == G!Say(ended, G!ClutchCall("clutch_release"))
  <2>1. h = G!ClearStack(said)
    <3>1. ~ G!IsShifting(next) /\ next # G!GB_DOWNSHIFT_TO_BITE_POINT
      BY <1>8, Numbers DEF G!IsShifting, G!GB_ERROR_SHIFT_TIMEOUT,
         G!GB_NEUTRAL_DOWN_SHIFTING, G!GB_DOWNSHIFT_TO_BITE_POINT
    <3>2. h = G!EnterError(k)
      BY <1>5, <1>8, <3>1, States, Kinds
    <3> QED
      BY <3>2 DEF G!EnterError
  <2>2. Good(ended) /\ ended.state = next /\ ended.wasManual = g.wasManual
    BY <1>2, <1>3, StackAndPulse
  <2> HIDE DEF ended
  <2>3. Good(said) /\ said.state = next /\ said.wasManual = g.wasManual
    BY <2>2, SayClutch, OtherCalls
  <2> HIDE DEF said
  <2>4. Good(h) /\ h.state = next /\ h.wasManual = g.wasManual
    BY <2>1, <2>3, StackAndPulse
  <2> QED
    BY <1>8, <2>4, Free, States
<1>9. ASSUME next # g.state, G!IsWaiting(next)
      PROVE  Serves(h, before, at) /\ h.state = next /\ h.wasManual = g.wasManual
  <2>1. /\ ~ G!IsShifting(next) /\ next # G!GB_DOWNSHIFT_TO_BITE_POINT
        /\ next # G!GB_ERROR_SHIFT_TIMEOUT /\ ~ G!IsIdle(next) /\ next \notin Pulling
    BY <1>9, Numbers, States DEF G!IsShifting, G!IsWaiting, G!GB_ERROR_SHIFT_TIMEOUT,
       G!GB_NEUTRAL_DOWN_SHIFTING, G!GB_DOWNSHIFT_TO_BITE_POINT,
       G!GB_WAITING_FOR_CLUTCH_SHIFT_DOWN, G!GB_WAITING_FOR_CLUTCH_SHIFT_UP
  <2>2. h = k
    BY <1>5, <1>9, <2>1
  <2> QED
    BY <1>2, <1>3, <2>1, <2>2, Free
<1>10. ASSUME next # g.state, G!IsShifting(next), next # G!GB_DOWNSHIFT_TO_BITE_POINT
       PROVE  Serves(h, before, at) /\ h.state = next /\ h.wasManual = g.wasManual
  <2> DEFINE aimed  == [k EXCEPT !.expected = G!ExpectedFrom(k.state, k.gear)]
             logged == G!Say(aimed, G!LogStart(k.gear, aimed.expected))
  <2>1. ~ G!IsIdle(next)
    BY <1>10, Numbers DEF G!IsShifting, G!IsIdle, G!Gears, G!GB_NEUTRAL_DOWN_SHIFTING
  <2>2. h = G!EnterShifting(k)
    BY <1>5, <1>10, <2>1, Kinds
  <2>3. /\ Good(aimed) /\ aimed.state = next /\ aimed.wasManual = g.wasManual
        /\ AfterCalls(aimed, before) = AfterCalls(g, before)
    <3>1. /\ DOMAIN aimed = Fields /\ aimed.state = next /\ aimed.calls = k.calls
          /\ aimed.wasManual = g.wasManual
      BY <1>2 DEF Fields
    <3> HIDE DEF aimed
    <3> QED
      BY <1>3, <3>1 DEF Good, AfterCalls, ClutchCalls
  <2>4. h = CASE next = G!GB_NEUTRAL_DOWN_SHIFTING ->
                   G!ActivateShift(logged, IF k.gear = 0 THEN "shiftDown" ELSE "neutralDown",
                                   "on")
              [] next = G!GB_NEUTRAL_UP_SHIFTING ->
                   G!ActivateShift(logged, IF k.gear = 0 THEN "shiftUp" ELSE "neutralUp", "on")
              [] next = G!GB_UPSHIFTING -> G!ActivateShift(logged, "shiftUp", "cut")
              [] next = G!GB_DOWNSHIFT_CLUTCH_ENGAGING ->
                   G!Say(logged, G!ClutchCall("clutch_command_pull"))
              [] OTHER -> G!ActivateShift(aimed, "shiftDown", "on")
    BY <1>2, <2>2 DEF G!EnterShifting
  <2> HIDE DEF aimed
  <2>5. Good(logged) /\ logged.state = next /\ logged.wasManual = g.wasManual
    BY <2>3, SayCalls
  <2> HIDE DEF logged
  <2>6. CASE next \in {G!GB_NEUTRAL_DOWN_SHIFTING, G!GB_NEUTRAL_UP_SHIFTING, G!GB_UPSHIFTING}
    <3>0. /\ G!GB_NEUTRAL_DOWN_SHIFTING # G!GB_NEUTRAL_UP_SHIFTING
          /\ G!GB_UPSHIFTING \notin {G!GB_NEUTRAL_DOWN_SHIFTING, G!GB_NEUTRAL_UP_SHIFTING}
          /\ G!GB_DOWNSHIFT_CLUTCH_ENGAGING \notin
               {G!GB_NEUTRAL_DOWN_SHIFTING, G!GB_NEUTRAL_UP_SHIFTING, G!GB_UPSHIFTING}
      BY Numbers DEF G!GB_DOWNSHIFT_CLUTCH_ENGAGING, G!GB_UPSHIFTING,
         G!GB_NEUTRAL_DOWN_SHIFTING, G!GB_NEUTRAL_UP_SHIFTING
    <3>1. \E pulse, ignition : h = G!ActivateShift(logged, pulse, ignition)
      BY <2>4, <2>6, <3>0
    <3>2. Good(h) /\ h.state = next /\ h.wasManual = g.wasManual
      BY <2>5, <3>1, StackAndPulse
    <3> QED
      BY <2>6, <3>2, Free, States
  <2>7. CASE next = G!GB_DOWNSHIFT_CLUTCH_ENGAGING
    <3>1. h = G!Say(logged, G!ClutchCall("clutch_command_pull"))
      BY <2>4, <2>7, Numbers DEF G!GB_DOWNSHIFT_CLUTCH_ENGAGING, G!GB_UPSHIFTING,
         G!GB_NEUTRAL_DOWN_SHIFTING, G!GB_NEUTRAL_UP_SHIFTING
    <3>2. /\ Good(h) /\ h.state = next /\ h.wasManual = g.wasManual
          /\ AfterCalls(h, before) = PositionOf("clutch_command_pull")
      BY <2>5, <3>1, SayClutch, OtherCalls
    <3> QED
      BY <2>7, <3>2, States DEF Serves, Keeps, PositionOf
  <2>8. CASE next = G!GB_DOWNSHIFT_SHIFTING
    <3>1. h = G!ActivateShift(aimed, "shiftDown", "on")
      BY <2>4, <2>8, Numbers DEF G!GB_DOWNSHIFT_CLUTCH_ENGAGING, G!GB_UPSHIFTING,
         G!GB_NEUTRAL_DOWN_SHIFTING, G!GB_NEUTRAL_UP_SHIFTING, G!GB_DOWNSHIFT_SHIFTING
    <3>2. /\ Good(h) /\ h.state = next /\ h.wasManual = g.wasManual
          /\ AfterCalls(h, before) = AfterCalls(g, before)
      <4>1. \E pulse, ignition : h = G!ActivateShift(aimed, pulse, ignition)
        BY <3>1
      <4> QED
        BY <2>3, <4>1, StackAndPulse
    <3>3. ~g.wasManual => AfterCalls(g, before) = Disengaged
      BY <2>1, <2>8 DEF Serves, Keeps
    <3> QED
      BY <1>10, <2>8, <3>2, <3>3, States DEF Serves, Keeps
  <2>9. next \in {G!GB_NEUTRAL_DOWN_SHIFTING, G!GB_NEUTRAL_UP_SHIFTING, G!GB_UPSHIFTING,
                  G!GB_DOWNSHIFT_CLUTCH_ENGAGING, G!GB_DOWNSHIFT_SHIFTING}
    BY <1>10, Numbers DEF G!IsShifting, G!GB_NEUTRAL_DOWN_SHIFTING,
       G!GB_NEUTRAL_UP_SHIFTING, G!GB_UPSHIFTING, G!GB_DOWNSHIFT_CLUTCH_ENGAGING,
       G!GB_DOWNSHIFT_SHIFTING, G!GB_DOWNSHIFT_TO_BITE_POINT
  <2> QED
    BY <2>6, <2>7, <2>8, <2>9
<1> QED
  BY <1>1, <1>6, <1>7, <1>8, <1>9, <1>10, Kinds DEF h

\* A downshift's pulse begins in one row of the table, from the pull and with the
\* clutch disengaged.
LEMMA TableShape ==
  \A row \in G!Table :
    /\ row.to \in G!States
    /\ row.to = G!GB_DOWNSHIFT_SHIFTING => /\ row.event = "EV_CLUTCH_PULLED"
                                           /\ row.from = G!GB_DOWNSHIFT_CLUTCH_ENGAGING
BY Numbers DEF G!Table, G!Row, G!States, G!GB_IDLE_NEUTRAL, G!GB_NEUTRAL_DOWN_SHIFTING,
   G!GB_NEUTRAL_UP_SHIFTING, G!GB_UPSHIFTING, G!GB_DOWNSHIFT_CLUTCH_ENGAGING,
   G!GB_DOWNSHIFT_SHIFTING, G!GB_WAITING_FOR_CLUTCH_SHIFT_DOWN,
   G!GB_WAITING_FOR_CLUTCH_SHIFT_UP, G!GB_ERROR_SHIFT_TIMEOUT

\* A machine that serves the clutch does so after every event, if the clutch that is
\* said to be pulled is.
LEMMA Event ==
  ASSUME NEW g, NEW event, NEW before, NEW at, Serves(g, before, at),
         event = "EV_CLUTCH_PULLED" /\ g.state = G!GB_DOWNSHIFT_CLUTCH_ENGAGING
           => at >= Trigger
  PROVE  Serves(G!ProcessEvent(g, event), before, at)
<1>1. ASSUME NEW h, Serves(h, before, at), h.state = g.state
      PROVE  Serves(G!Follow(h, event), before, at)
  <2>1. CASE G!RowsFor(h.state, event) = {}
    BY <1>1, <2>1 DEF G!Follow
  <2>2. CASE G!RowsFor(h.state, event) # {}
    <3> DEFINE row == CHOOSE r \in G!RowsFor(h.state, event) : TRUE
    <3>1. row \in G!RowsFor(h.state, event)
      BY <2>2
    <3>2. row \in G!Table /\ row.from = h.state /\ row.event = event
      BY <3>1 DEF G!RowsFor
    <3>3. G!Follow(h, event) = G!TransitionTo(h, row.to)
      BY <2>2 DEF G!Follow
    <3> HIDE DEF row
    <3>4. Serves(G!TransitionTo(h, row.to), before, at)
      <4>1. /\ row.to \in G!States /\ Good(h)
            /\ h.state \notin Pulling => row.to # G!GB_DOWNSHIFT_SHIFTING
            /\ row.to = G!GB_DOWNSHIFT_SHIFTING => at >= Trigger
        BY <1>1, <3>2, TableShape, States DEF Serves
      <4> QED
        BY <1>1, <4>1, Transition
    <3> QED
      BY <3>3, <3>4
  <2> QED
    BY <2>1, <2>2
<1>2. Good(g)
  BY DEF Serves
<1>3. /\ Serves(G!ClearStack(g), before, at) /\ G!ClearStack(g).state = g.state
      /\ Serves(G!PushStack(g), before, at)
  BY <1>2, StackAndPulse
<1>4. Serves(G!TransitionTo(g, G!IdleFor(g.gear)), before, at)
  <2> DEFINE idle == G!IdleFor(g.gear)
  <2>1. G!IsIdle(idle) /\ idle \in G!States /\ idle # G!GB_DOWNSHIFT_SHIFTING
    BY States
  <2> HIDE DEF idle
  <2> QED
    BY <1>2, <2>1, Transition DEF idle
<1> QED
  BY <1>1, <1>3, <1>4 DEF G!ProcessEvent

\* _setGear: the home coming and the stacked downshift of one report.
LEMMA NewGear ==
  ASSUME NEW g, NEW gear, NEW before, NEW at, Serves(g, before, at)
  PROVE  Serves(G!SetGear(g, gear), before, at)
<1>1. ASSUME NEW h, Serves(h, before, at)
      PROVE  Serves(G!NextStacked(h), before, at)
  <2>1. Good(h)
    BY <1>1 DEF Serves
  <2>2. Serves(G!TransitionTo(h, G!GB_DOWNSHIFT_CLUTCH_ENGAGING), before, at)
    BY <1>1, <2>1, Transition, States
  <2>3. Serves(G!ProcessEvent(h, "EV_SHIFT_DOWN_PRESSED"), before, at)
    BY <1>1, Event
  <2>4. Serves(G!ClearStack(h), before, at)
    BY <1>1, <2>1, StackAndPulse
  <2> QED
    BY <1>1, <2>2, <2>3, <2>4 DEF G!NextStacked
<1> DEFINE k    == [g EXCEPT !.gear = gear]
           home == G!ProcessEvent(k, "EV_GEAR_CHANGED")
<1>2. Serves(k, before, at)
  <2>1. /\ DOMAIN k = DOMAIN g /\ k.state = g.state /\ k.calls = g.calls
        /\ k.wasManual = g.wasManual
    BY DEF Serves, Good, Fields
  <2> HIDE DEF k
  <2> QED
    BY <2>1, Same
<1> HIDE DEF k
<1>3. Serves(home, before, at)
  BY <1>2, Event
<1> HIDE DEF home
<1>4. Serves(G!Say(home, G!LogChanged(g.gear, gear)), before, at)
  BY <1>3, SayOther, OtherCalls DEF Serves
<1> QED
  BY <1>1, <1>4 DEF G!SetGear, home, k

\* gearbox_tick in auto mode: no part of it lets go of a clutch that is owed.
LEMMA Ticked ==
  ASSUME NEW g, NEW held, NEW before, NEW at, Serves(g, before, at),
         "clutch_disengaged" \in held => at >= Trigger
  PROVE  Serves(G!TickAuto(g, held), before, at)
<1>1. ASSUME NEW h, Serves(h, before, at), NEW gear
      PROVE  Serves(G!TransitionTo(h, G!IdleFor(gear)), before, at)
  <2> DEFINE idle == G!IdleFor(gear)
  <2>1. G!IsIdle(idle) /\ idle \in G!States /\ idle # G!GB_DOWNSHIFT_SHIFTING
    BY States
  <2> HIDE DEF idle
  <2> QED
    BY <1>1, <2>1, Transition DEF idle, Serves
<1>2. Serves(G!LeaveManual(g), before, at)
  <2>1. CASE ~g.wasManual
    BY <2>1 DEF G!LeaveManual
  <2>2. CASE g.wasManual
    <3> DEFINE back == [g EXCEPT !.wasManual = FALSE]
               left == G!ClearStack(G!EndPulse(back))
               idle == G!IdleFor(g.gear)
    <3>1. Good(back)
      <4>1. DOMAIN back = Fields /\ back.calls = g.calls
        BY DEF Serves, Good, Fields
      <4> QED
        BY <4>1 DEF Serves, Good
    <3> HIDE DEF back
    <3>2. Good(left)
      BY <3>1, StackAndPulse
    <3> HIDE DEF left
    <3>3. G!IsIdle(idle) /\ idle \in G!States /\ idle # G!GB_DOWNSHIFT_SHIFTING
      BY States
    <3> HIDE DEF idle
    <3>4. Serves(G!TransitionTo(left, idle), before, at)
      BY <3>2, <3>3, Transition
    <3> QED
      BY <2>2, <3>4 DEF G!LeaveManual, left, back, idle
  <2> QED
    BY <2>1, <2>2
<1>3. ASSUME NEW h, Serves(h, before, at)
      PROVE  Serves(G!UpdateShiftTiming(h), before, at)
  <2>1. Serves(G!EndPulse(h), before, at) /\ Good(G!EndPulse(h))
    BY <1>3, StackAndPulse DEF Serves
  <2>2. Serves(G!TransitionTo(G!EndPulse(h), G!GB_DOWNSHIFT_TO_BITE_POINT), before, at)
    BY <2>1, Transition, States
  <2> QED
    BY <1>1, <1>3, <2>1, <2>2 DEF G!UpdateShiftTiming
<1>4. ASSUME NEW h, Serves(h, before, at)
      PROVE  Serves(G!TransitionTo(h, G!GB_ERROR_SHIFT_TIMEOUT), before, at)
  BY <1>4, Transition, States DEF Serves
<1>5. ASSUME NEW h, Serves(h, before, at)
      PROVE  Serves(G!CheckTimeouts(h), before, at)
  <2> DEFINE k == [h EXCEPT !.timedOut = TRUE]
  <2>1. /\ DOMAIN k = DOMAIN h /\ k.state = h.state /\ k.calls = h.calls
        /\ k.wasManual = h.wasManual
    BY <1>5 DEF Serves, Good, Fields
  <2> HIDE DEF k
  <2>2. Serves(k, before, at)
    BY <1>5, <2>1, Same
  <2> QED
    BY <1>4, <1>5, <2>2 DEF G!CheckTimeouts, k
<1>6. ASSUME NEW h, Serves(h, before, at)
      PROVE  Serves(G!UpdateState(h, held), before, at)
  <2>1. Serves(G!UpdateDownshiftClutchWait(h, held), before, at)
    BY <1>4, <1>6, Event DEF G!UpdateDownshiftClutchWait
  <2>2. Serves(G!UpdateToBitePoint(h, held), before, at)
    BY <1>1, <1>6 DEF G!UpdateToBitePoint
  <2>3. Serves(G!UpdateWaiting(h, held), before, at)
    <3>1. Serves(G!ClearStack(h), before, at)
      BY <1>6, StackAndPulse DEF Serves
    <3> QED
      BY <1>6, <3>1, Event DEF G!UpdateWaiting
  <2> QED
    BY <1>1, <1>6, <2>1, <2>2, <2>3 DEF G!UpdateState
<1> QED
  BY <1>2, <1>3, <1>5, <1>6 DEF G!TickAuto

\* The servo's position, as far as the predicates vouch for it.
At == IF Prompt THEN servo ELSE Disengaged

Positions == TypeOK /\ (Prompt => reported \in {servo, Stale})

\* The inductive invariant: outside manual mode and before the console, the machine's
\* state is given what it is owed.
Owned ==
  /\ Positions /\ Good(gb)
  /\ ~gb.wasManual /\ ~bench => Keeps(gb.state, told, At)

\* A machine that starts a step silent serves with what was told before; whatever that
\* was, there is a telling it would serve with.
LEMMA Silenced ==
  ASSUME NEW g, Good(g)
  PROVE  /\ Good(G!Silent(g)) /\ G!Silent(g).state = g.state
         /\ G!Silent(g).wasManual = g.wasManual
         /\ \A before, at : (~g.wasManual => Keeps(g.state, before, at))
                              => Serves(G!Silent(g), before, at)
         /\ \E before : Serves(G!Silent(g), before, Trigger)
<1> DEFINE h == G!Silent(g)
<1>1. /\ DOMAIN h = Fields /\ h.state = g.state /\ h.wasManual = g.wasManual
      /\ h.calls = << >>
  BY DEF G!Silent, Good, Fields
<1> HIDE DEF h
<1>2. Good(h)
  <2>1. << >> \in Seq({})
    OBVIOUS
  <2> QED
    BY <1>1, <2>1 DEF Good
<1>3. \A before : AfterCalls(h, before) = before
  BY <1>1 DEF AfterCalls, ClutchCalls
<1>4. \A before, at : (~g.wasManual => Keeps(g.state, before, at)) => Serves(h, before, at)
  BY <1>1, <1>2, <1>3 DEF Serves
<1>5. \E before : Keeps(g.state, before, Trigger)
  <2>1. CASE g.state \in Pulling
    BY <2>1, Numbers, States DEF Keeps
  <2>2. CASE g.state \notin Pulling
    BY <2>2, Numbers, States DEF Keeps
  <2> QED
    BY <2>1, <2>2
<1> QED
  BY <1>1, <1>2, <1>4, <1>5 DEF h

\* What the clutch is told and what is remembered of it are positions of its travel.
LEMMA ToldPositions ==
  ASSUME Positions, NEW g
  PROVE  AfterCalls(g, told) \in Travel \cup {Unsent} /\ AfterCalls(g, commanded) \in Travel
BY Numbers DEF Positions, TypeOK, AfterCalls, PositionOf, Travel, Engaged

\* Any step of the machine that is good for every telling is good.
LEMMA PressOwned ==
  ASSUME Owned, Press
  PROVE  Owned'
<1> DEFINE quiet == G!Silent(gb)
<1>1. /\ Good(gb) /\ Positions
      /\ ~gb.wasManual /\ ~bench => Keeps(gb.state, told, At)
  BY DEF Owned
<1>2. ASSUME NEW before, NEW at, Serves(quiet, before, at)
      PROVE  Serves(gb', before, at)
  <2>1. CASE G!UpPressed \/ G!DownPressed \/ G!NeutralPressed
    <3>1. /\ Serves(G!ProcessEvent(quiet, "EV_SHIFT_UP_PRESSED"), before, at)
          /\ Serves(G!ProcessEvent(quiet, "EV_SHIFT_DOWN_PRESSED"), before, at)
          /\ Serves(G!ProcessEvent(quiet, "EV_NEUTRAL_UP_PRESSED"), before, at)
          /\ Serves(G!ProcessEvent(quiet, "EV_NEUTRAL_DOWN_PRESSED"), before, at)
      BY <1>2, Event
    <3> HIDE DEF quiet
    <3> QED
      BY <1>2, <2>1, <3>1 DEF G!UpPressed, G!DownPressed, G!NeutralPressed, quiet
  <2>2. ASSUME NEW up \in BOOLEAN, G!ManualShift(up) PROVE Serves(gb', before, at)
    <3> DEFINE busy == [quiet EXCEPT !.manualActive = TRUE, !.manualAge = 0]
    <3> HIDE DEF quiet
    <3>1. /\ DOMAIN busy = DOMAIN quiet /\ busy.state = quiet.state
          /\ busy.calls = quiet.calls /\ busy.wasManual = quiet.wasManual
      BY <1>2 DEF Serves, Good, Fields
    <3> HIDE DEF busy
    <3>2. Serves(busy, before, at) /\ Good(busy)
      BY <1>2, <3>1, Same DEF Serves
    <3>3. Serves(G!Say(busy, G!ManualCall(up)), before, at)
      BY <3>2, SayOther, OtherCalls
    <3> QED
      BY <1>2, <2>2, <3>3 DEF G!ManualShift, busy, quiet
  <2>3. CASE G!SwitchManual
    BY <1>2, <2>3 DEF G!SwitchManual
  <2> QED
    BY <2>1, <2>2, <2>3 DEF Press, G!Rider
<1>3. Good(gb')
  <2>1. PICK before : Serves(quiet, before, Trigger)
    BY <1>1, Silenced
  <2> QED
    BY <1>2, <2>1 DEF Serves
<1>4. Positions' /\ At' = At /\ bench' = bench
  <2>1. told' \in Travel \cup {Unsent} /\ commanded' \in Travel
    BY <1>1, ToldPositions DEF Press, Obeyed
  <2> QED
    BY <1>1, <2>1 DEF Press, rest, Positions, TypeOK, At
<1>5. ASSUME ~gb'.wasManual, ~bench PROVE Keeps(gb'.state, told', At)
  <2>1. Serves(quiet, told, At)
    BY <1>1, <1>5, Silenced
  <2> HIDE DEF quiet
  <2>2. Serves(gb', told, At)
    BY <1>2, <2>1
  <2> QED
    BY <1>5, <2>2 DEF Serves, Press, Obeyed
<1> QED
  BY <1>3, <1>4, <1>5 DEF Owned

\* The loop: the machine's tick, then the paddle's, which only an idle machine lets have
\* the clutch.
LEMMA LoopOwned ==
  ASSUME Owned, Loop
  PROVE  Owned'
<1> DEFINE quiet  == G!Silent(gb)
           synced == G!SyncGear(quiet, canGear)
<1>1. /\ Good(gb) /\ Positions
      /\ ~gb.wasManual /\ ~bench => Keeps(gb.state, told, At)
  BY DEF Owned
<1>2. ASSUME NEW before, NEW at, Serves(quiet, before, at)
      PROVE  Serves(synced, before, at)
  BY <1>2, NewGear DEF G!SyncGear
<1>3. "clutch_disengaged" \in Held(reported) => At >= Trigger
  BY <1>1, Numbers DEF Held, At, Positions, TypeOK, Stale
<1>4. gb' = IF manualMode THEN G!TickManual(synced) ELSE G!TickAuto(synced, Held(reported))
  BY DEF Loop, G!Tick
<1>5. \E before : Serves(synced, before, Trigger)
  BY <1>1, <1>2, Silenced
<1> HIDE DEF synced
<1>6. Good(gb') /\ (manualMode => gb'.wasManual)
  <2>1. CASE manualMode
    <3>1. gb' = G!TickManual(synced) /\ Good(synced)
      BY <1>4, <1>5, <2>1 DEF Serves
    <3>2. DOMAIN gb' = Fields /\ gb'.calls = synced.calls /\ gb'.wasManual
      BY <3>1 DEF G!TickManual, Good, Fields
    <3> QED
      BY <3>1, <3>2 DEF Good
  <2>2. CASE ~manualMode
    <3>1. Trigger >= Trigger
      BY Numbers
    <3> QED
      BY <1>4, <1>5, <2>2, <3>1, Ticked DEF Serves
  <2> QED
    BY <2>1, <2>2
<1>7. Positions' /\ At' = At /\ bench' = bench
  <2>1. told' \in Travel \cup {Unsent} /\ commanded' \in Travel
    BY <1>1, ToldPositions, TravelAssumption
       DEF Loop, PaddleTick, Command, Obeyed, Positions, TypeOK
  <2> QED
    BY <1>1, <2>1 DEF Loop, rest, Positions, TypeOK, At
<1>8. ASSUME ~gb'.wasManual, ~bench PROVE Keeps(gb'.state, told', At)
  <2>1. ~manualMode
    BY <1>6, <1>8
  <2>2. CASE G!IsIdle(gb'.state)
    BY <2>2, States DEF Keeps
  <2>3. CASE ~ G!IsIdle(gb'.state)
    <3>1. told' = AfterCalls(gb', told)
      BY <2>1, <2>3 DEF Loop, PaddleTick, PaddleDrives, Obeyed
    <3>2. Serves(quiet, told, At)
      <4>1. ~gb.wasManual => Keeps(gb.state, told, At)
        BY <1>1, <1>8
      <4> QED
        BY <1>1, <4>1, Silenced
    <3> HIDE DEF quiet
    <3>3. Serves(synced, told, At)
      BY <1>2, <3>2
    <3>4. Serves(gb', told, At)
      BY <1>3, <1>4, <2>1, <3>3, Ticked
    <3> QED
      BY <1>8, <3>1, <3>4 DEF Serves
  <2> QED
    BY <2>2, <2>3
<1> QED
  BY <1>6, <1>7, <1>8 DEF Owned

\* Time, the console and the world: the servo moves only toward what it was told.
LEMMA WorldOwned ==
  ASSUME Owned, Clock \/ Console \/ World \/ UNCHANGED vars
  PROVE  Owned'
<1>1. /\ Good(gb) /\ Positions
      /\ ~gb.wasManual /\ ~bench => Keeps(gb.state, told, At)
  BY DEF Owned
<1>2. Good(G!Silent(gb)) /\ G!Silent(gb).state = gb.state
      /\ G!Silent(gb).wasManual = gb.wasManual
  BY <1>1, Silenced
<1>3. CASE Clock
  <2> DEFINE quiet == G!Silent(gb)
  <2>1. DOMAIN quiet = Fields
    BY <1>2 DEF Good
  <2> HIDE DEF quiet
  <2>2. /\ DOMAIN gb' = DOMAIN quiet /\ gb'.state = quiet.state
        /\ gb'.calls = quiet.calls /\ gb'.wasManual = quiet.wasManual
    BY <1>3, <2>1 DEF Clock, G!Time, quiet, Fields
  <2>3. Good(gb') /\ gb'.state = gb.state /\ gb'.wasManual = gb.wasManual
    BY <1>2, <2>2, Same DEF quiet
  <2> QED
    BY <1>1, <1>3, <2>3 DEF Clock, drive, rest, Owned, Positions, TypeOK, At
<1>4. CASE Console
  <2>1. Quiet /\ bench'
    BY <1>4 DEF Console, ConsolePos, ConsolePull, ConsoleRelease, ConsolePaddle
  <2>2. Engaged \in Travel
    BY Numbers DEF Engaged, Travel
  <2>3. told' \in Travel \cup {Unsent} /\ commanded' \in Travel
    BY <1>1, <1>4, <2>2, TravelAssumption
       DEF Console, ConsolePos, ConsolePull, ConsoleRelease, ConsolePaddle, Command,
           Positions, TypeOK, drive
  <2>4. UNCHANGED <<servo, reported, paddle>>
    BY <1>4 DEF Console, ConsolePos, ConsolePull, ConsoleRelease, ConsolePaddle
  <2>5. Positions'
    BY <1>1, <2>3, <2>4 DEF Positions, TypeOK
  <2> QED
    BY <1>2, <2>1, <2>5 DEF Quiet, Owned
<1>5. CASE ServoMoves
  <2>1. told \in Int /\ servo \in Int /\ 0 <= told /\ told <= Disengaged
        /\ 0 <= servo /\ servo <= Disengaged
    BY <1>1, <1>5, Numbers DEF ServoMoves, Positions, TypeOK, Travel, Unsent
  <2>2. servo' \in (servo + 1 .. told) \cup (told .. servo - 1)
    BY <1>5 DEF ServoMoves
  <2>3. servo' \in Travel /\ (told = Disengaged => servo' >= servo)
    BY <2>1, <2>2, Numbers DEF Travel
  <2>4. /\ reported' = IF Prompt /\ reported # Stale THEN servo' ELSE reported
        /\ gb' = G!Silent(gb) /\ UNCHANGED <<commanded, told, paddle, bench>>
    BY <1>5 DEF ServoMoves, Quiet, drive
  <2>5. Positions'
    <3>1. reported' \in Travel \cup {Stale} /\ (Prompt => reported' \in {servo', Stale})
      BY <1>1, <2>3, <2>4 DEF Positions, TypeOK
    <3> QED
      BY <1>1, <2>3, <2>4, <3>1 DEF Positions, TypeOK
  <2>6. ASSUME ~gb.wasManual, ~bench PROVE Keeps(gb.state, told, At')
    <3>1. Keeps(gb.state, told, At)
      BY <1>1, <2>6
    <3>2. gb.state = G!GB_DOWNSHIFT_SHIFTING => servo' >= servo
      BY <2>3, <3>1, States DEF Keeps
    <3>3. servo' \in Int
      BY <2>1, <2>2
    <3> QED
      BY <2>1, <3>1, <3>2, <3>3, Numbers DEF Keeps, At
  <2> QED
    BY <1>2, <2>4, <2>5, <2>6 DEF Owned
<1>6. CASE Squeeze \/ Feedback
  BY <1>1, <1>2, <1>6 DEF Squeeze, Feedback, Quiet, drive, Owned, Positions, TypeOK, At
<1>7. CASE GearReported
  BY <1>1, <1>2, <1>7 DEF GearReported, G!GearReported, drive, rest, Owned, Positions, TypeOK, At
<1>8. CASE UNCHANGED vars
  BY <1>1, <1>8 DEF vars, drive, rest, Owned, Positions, TypeOK, At
<1> QED
  BY <1>3, <1>4, <1>5, <1>6, <1>7, <1>8 DEF World

\* The machine starts in neutral, which owes the clutch nothing.
LEMMA InitOwned == Init => Owned
<1> SUFFICES ASSUME Init PROVE Owned
  OBVIOUS
<1>1. Good(gb)
  <2>1. << >> \in Seq({})
    OBVIOUS
  <2> QED
    BY <2>1 DEF Init, G!Init, Good, Fields
<1>2. G!IsIdle(gb.state)
  BY Numbers DEF Init, G!Init, G!IsIdle, G!Gears, G!GB_IDLE_NEUTRAL
<1>3. Positions
  <2>1. Engaged \in Travel
    BY Numbers DEF Engaged, Travel
  <2> QED
    BY <2>1, TravelAssumption DEF Init, Positions, TypeOK
<1> QED
  BY <1>1, <1>2, <1>3, States DEF Init, Owned, Keeps

LEMMA OwnedHolds == Safety => []Owned
<1>1. Owned /\ [Next]_vars => Owned'
  BY PressOwned, LoopOwned, WorldOwned DEF Next
<1> QED
  BY <1>1, InitOwned, PTL DEF Safety

\* Positions and targets stay within the clutch's travel, however paddle, state machine
\* and console command it.
THEOREM TypeCorrect == Safety => []TypeOK
<1>1. Owned => TypeOK
  BY DEF Owned, Positions
<1> QED
  BY <1>1, OwnedHolds, PTL

\* In auto mode and with the console away, the clutch stays told to pull from the start
\* of a downshift to the end of its pulse, and to the bite point between stacked shifts.
THEOREM ShiftsOwnTheClutch == Safety => []ShiftOwnsClutch
<1>1. Owned => ShiftOwnsClutch
  BY DEF Owned, ShiftOwnsClutch, Keeps
<1> QED
  BY <1>1, OwnedHolds, PTL

\* If every position is reported at once, a downshift's pulse runs with the clutch
\* disengaged from its first moment to its last.
THEOREM PulledThroughoutThePulse ==
  ASSUME Prompt
  PROVE  Safety => []PulledWhileShifting
<1>1. Owned => PulledWhileShifting
  BY DEF Owned, PulledWhileShifting, Keeps, At
<1> QED
  BY <1>1, OwnedHolds, PTL
=============================================================================
