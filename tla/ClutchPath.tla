----------------------------- MODULE ClutchPath -----------------------------
(***************************************************************************)
(* Who drives the clutch.  Three parts of the node command it - the state  *)
(* machine (module Gearbox), the paddle (paddle.cpp) and the bench console *)
(* (serial_cli.cpp) - through clutch.cpp, which remembers what it was last *)
(* told.  The servo follows what it was last sent, and its position is     *)
(* known only as of the last decoded reply.  The gearbox is Gearbox's own, *)
(* its clutch predicates computed here from the reported position.         *)
(***************************************************************************)
EXTENDS Integers, Sequences

CONSTANTS
  MaxGear, ShiftTimeout, ClutchWaitTimeout, ServoTimeout, StackBiteTimeout,
  ManualDuration, PulseMs, AgeCap,        \* as in Gearbox
  Bite, Trigger, Disengaged,              \* positions of the travel, engaged = 0
  PaddleTargets,                          \* positions the paddle asks for
  ConsoleTargets,                         \* positions the console asks for, {} without one
  Heard,                                  \* bound: the gears the rear node reports
  Prompt                                  \* whether every position is reported at once

Travel  == 0 .. Disengaged
Engaged == 0
Stale   == -1                             \* no reply within SERVO_STALE_MS
Unsent  == -1                             \* nothing has been sent since the boot

ASSUME TravelAssumption ==
  /\ Bite \in Nat /\ Trigger \in Nat /\ Disengaged \in Nat
  /\ 0 < Disengaged /\ Bite <= Trigger /\ Trigger <= Disengaged
  /\ PaddleTargets \subseteq Travel /\ ConsoleTargets \subseteq Travel
  /\ Prompt \in BOOLEAN
  /\ Heard \subseteq Nat

\* What Gearbox assumes of its constants.
ASSUME GearboxAssumption ==
  /\ MaxGear \in Nat /\ MaxGear >= 3 /\ MaxGear < 254
  /\ AgeCap \in Nat
  /\ {ShiftTimeout, ClutchWaitTimeout, ServoTimeout, StackBiteTimeout,
        ManualDuration} \subseteq 1 .. AgeCap
  /\ PulseMs \in [{"shiftUp", "neutralUp", "shiftDown", "neutralDown"}
                     -> 1 .. (ShiftTimeout - 1)]

VARIABLES
  gb, canGear, manualMode, ticked,        \* as in Gearbox
  commanded,      \* _commanded of clutch.cpp
  told,           \* the newest target in servo_can.cpp's mailbox, or Unsent
  override,       \* _override of paddle.cpp
  paddle,         \* the paddle's target for the halls as they are now
  servo,          \* where the servo is
  reported,       \* servo_position(), or Stale while servo_link_ok() is false
  bench           \* whether the console has moved the clutch

\* Mutant: the clutch counts as disengaged before the trigger.
HeldEarly(position) ==
  IF position = Stale THEN {}
  ELSE (IF position >= Bite THEN {"clutch_disengaged"} ELSE {})
         \cup (IF position <= Bite THEN {"clutch_at_bite"} ELSE {})

\* clutch_disengaged and clutch_at_bite.
Held(position) ==
  IF position = Stale THEN {}
  ELSE (IF position >= Trigger THEN {"clutch_disengaged"} ELSE {})
         \cup (IF position <= Bite THEN {"clutch_at_bite"} ELSE {})

G == INSTANCE Gearbox WITH clutchIs <- Held(reported)

drive == <<commanded, told>>
rest  == <<override, paddle, servo, reported, bench>>
vars  == <<gb, canGear, manualMode, ticked, drive, rest>>

\* clutch_init sends nothing: the servo is where it was before the boot.
Init ==
  /\ commanded = Engaged /\ told = Unsent /\ servo \in Travel /\ reported = Stale
  /\ G!Init
  /\ override = FALSE /\ bench = FALSE
  /\ paddle \in PaddleTargets

----------------------------------------------------------------------------
(* clutch.cpp: the last of the gearbox's calls is what the clutch is told.  *)

PositionOf(fn) == CASE fn = "clutch_command_pull" -> Disengaged
                    [] fn = "clutch_command_bite" -> Bite
                    [] OTHER                      -> Engaged

ClutchCalls(g) == { i \in DOMAIN g.calls : g.calls[i].fn \in G!ClutchFns }

\* What one of the two holds after g's calls.
AfterCalls(g, before) ==
  IF ClutchCalls(g) = {} THEN before
  ELSE PositionOf(g.calls[CHOOSE i \in ClutchCalls(g) :
                            \A j \in ClutchCalls(g) : j <= i].fn)

Obeyed == commanded' = AfterCalls(gb', commanded) /\ told' = AfterCalls(gb', told)

\* Mutant: what was sent is not remembered.
CommandForgotten(position) == told' = position /\ UNCHANGED commanded

Command(position) == commanded' = position /\ told' = position

----------------------------------------------------------------------------
(* The loop.  handle_input runs in a pass before the tick.                 *)

Press == UNCHANGED rest /\ G!Rider /\ Obeyed

\* paddle_tick's mode: manual mode and an idle gearbox leave the clutch to the paddle.
\* Mutant: the paddle drives through a shift.
PaddleDrivesAlways(g) == ~override

PaddleDrives(g) == (manualMode \/ G!IsIdle(g.state)) /\ ~override

\* Mutant: the paddle compares with its own last target, which has not moved.
PaddleTickOwnTarget(g) ==
  IF PaddleDrives(g) /\ ClutchCalls(g) = {} /\ commanded # paddle
    THEN Command(paddle) ELSE Obeyed

\* The clutch is commanded when it was last told something else than the target.
PaddleTick(g) ==
  IF PaddleDrives(g) /\ AfterCalls(g, commanded) # paddle THEN Command(paddle) ELSE Obeyed

\* Mutant: the predicates answer for the commanded position, not the reported one.
LoopUnconfirmed ==
  /\ UNCHANGED <<rest, canGear, manualMode>>
  /\ LET synced == G!SyncGear(G!Silent(gb), canGear)
     IN gb' = IF manualMode THEN G!TickManual(synced) ELSE G!TickAuto(synced, Held(commanded))
  /\ ticked' = TRUE
  /\ PaddleTick(gb')

Loop ==
  /\ UNCHANGED rest
  /\ G!Tick
  /\ PaddleTick(gb')

Clock == UNCHANGED <<drive, rest>> /\ G!Time

Quiet == gb' = G!Silent(gb) /\ UNCHANGED <<canGear, manualMode, ticked>>

----------------------------------------------------------------------------
(* The console's clutch commands.                                          *)

\* pos: straight to the servo, past clutch.cpp.
ConsolePos(position) ==
  /\ told' = position /\ override' = TRUE
  /\ Quiet /\ UNCHANGED <<commanded, paddle, servo, reported>>

\* pull and nudge: through clutch.cpp.
ConsolePull(position) ==
  /\ Command(position) /\ override' = TRUE
  /\ Quiet /\ UNCHANGED <<paddle, servo, reported>>

ConsoleRelease ==
  /\ Command(Engaged) /\ override' = FALSE
  /\ Quiet /\ UNCHANGED <<paddle, servo, reported>>

ConsolePaddle(on) ==
  /\ override' = ~on
  /\ Quiet /\ UNCHANGED <<drive, paddle, servo, reported>>

Console ==
  /\ ConsoleTargets # {} /\ bench' = TRUE
  /\ \/ \E position \in ConsoleTargets : ConsolePos(position) \/ ConsolePull(position)
     \/ ConsoleRelease
     \/ \E on \in BOOLEAN : ConsolePaddle(on)

----------------------------------------------------------------------------
(* The world.                                                              *)

Squeeze ==
  /\ paddle' \in PaddleTargets \ {paddle}
  /\ Quiet /\ UNCHANGED <<drive, override, servo, reported, bench>>

\* The servo moves toward what it was told, or all the way.
ServoMoves ==
  /\ told # Unsent
  /\ servo' \in (servo + 1 .. told) \cup (told .. servo - 1)
  /\ reported' = IF Prompt /\ reported # Stale THEN servo' ELSE reported
  /\ Quiet /\ UNCHANGED <<drive, override, paddle, bench>>

\* A reply is decoded, or none has been for SERVO_STALE_MS.
Feedback ==
  /\ reported' \in {servo, Stale} /\ reported' # reported
  /\ Quiet /\ UNCHANGED <<drive, override, paddle, servo, bench>>

GearReported == UNCHANGED <<drive, rest>> /\ canGear' \in Heard /\ G!GearReported

World == Squeeze \/ ServoMoves \/ Feedback \/ GearReported
Next  == Press \/ Loop \/ Clock \/ Console \/ World

Safety == Init /\ [][Next]_vars

----------------------------------------------------------------------------
(* Properties.                                                             *)

\* What is commanded, told, reached, reported and squeezed is a position of the travel.
TypeOK ==
  /\ commanded \in Travel /\ told \in Travel \cup {Unsent}
  /\ servo \in Travel /\ reported \in Travel \cup {Stale} /\ paddle \in PaddleTargets

Pulling == {G!GB_DOWNSHIFT_CLUTCH_ENGAGING, G!GB_DOWNSHIFT_SHIFTING}

\* In auto mode with the console away, the state machine owns the clutch during a
\* downshift: it stays told to pull until the pulse is over, and to hold the bite
\* point between stacked shifts, however the paddle moves and the modes change.
ShiftOwnsClutch ==
  (~manualMode /\ ~gb.wasManual /\ ~bench) =>
    /\ gb.state \in Pulling => told = Disengaged
    /\ gb.state = G!GB_DOWNSHIFT_TO_BITE_POINT => told = Bite

\* Once anything has been sent, what clutch.cpp believes is what the servo was told,
\* until the console's pos.
CommandedIsTold == (told # Unsent /\ ~bench) => commanded = told

\* A pass that leaves the machine idle leaves the clutch with the paddle: a release
\* on the way to idle never outlives the pass in which the paddle is held pulled.
PaddleHasTheClutch ==
  [][ ticked' /\ ~ticked /\ ~override /\ (manualMode \/ G!IsIdle(gb'.state))
        => commanded' = paddle ]_vars

\* If every position is reported at once, a downshift pulse runs with the clutch
\* really disengaged, from its first moment to its last.
PulledWhileShifting ==
  (gb.state = G!GB_DOWNSHIFT_SHIFTING /\ ~manualMode /\ ~gb.wasManual /\ ~bench)
    => servo >= Trigger

\* The composition is a gearbox in an environment Gearbox allows.
RefinesGearbox == G!Safety
=============================================================================
