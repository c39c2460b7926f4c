---------------------------- MODULE Calibration ----------------------------
(***************************************************************************)
(* A calibration (ClutchCal of clutch.h), what clutch.cpp accepts as one,  *)
(* and its answers to where the clutch is.  The servo's counts may rise or *)
(* fall as the clutch is pulled.  The travel, trigger and bite point are   *)
(* counts; left and right are the hall readings of a paddle at rest and    *)
(* pulled; response says how the clutch follows the paddles (module        *)
(* Paddle).  The shift timings are the constants of Gearbox.               *)
(***************************************************************************)
EXTENDS Integers

CONSTANTS
  PositionMax,    \* kPositionMax
  PaddleFull,     \* PADDLE_FULL
  Deadband        \* HALL_IDLE_DEADBAND

ASSUME CalibrationAssumption == {PositionMax, PaddleFull, Deadband} \subseteq Nat \ {0}

Curves == {"linear", "log", "exp", "smooth", "power", "piecewise"}

\* The fields are unsigned integers.
Paddles         == [idle : Nat, pulled : Nat]
PaddleResponses == [curve : STRING, strength : Nat, paddleStart : Nat, paddleEnd : Nat,
                    blend : Nat, clutchStart : Nat, clutchEnd : Nat]
ClutchCals      == [engaged : Nat, disengaged : Nat, trigger : Nat, bite : Nat,
                    left : Paddles, right : Paddles, response : PaddleResponses]

Size(n) == IF n < 0 THEN -n ELSE n

\* _countsRise, and counts as a distance from engaged toward disengaged.
Rises(c)        == c.disengaged >= c.engaged
Outward(c, pos) == IF Rises(c) THEN pos - c.engaged ELSE c.engaged - pos
Span(c)         == Size(c.disengaged - c.engaged)

\* _pastToward: pos has reached thr on the way toward disengaged.
PastToward(c, pos, thr) == Outward(c, pos) >= Outward(c, thr)

InTravel(c, pos) == Outward(c, pos) \in 0 .. Span(c)

\* One paddle is switched off by equal readings.
Off(paddle) == paddle.idle = paddle.pulled

\* Mutant: the trigger may lie outside the travel.
TravelValidUntriggered(c) ==
  /\ {c.engaged, c.disengaged, c.trigger, c.bite} \subseteq 0 .. PositionMax
  /\ c.engaged # c.disengaged
  /\ InTravel(c, c.bite) /\ PastToward(c, c.trigger, c.bite)

\* The bite point sits on the engaged side of the trigger.
TravelValid(c) ==
  /\ {c.engaged, c.disengaged, c.trigger, c.bite} \subseteq 0 .. PositionMax
  /\ c.engaged # c.disengaged
  /\ InTravel(c, c.trigger) /\ InTravel(c, c.bite)
  /\ PastToward(c, c.trigger, c.bite)

HallsValid(c) ==
  /\ ~(Off(c.left) /\ Off(c.right))
  /\ \A paddle \in {c.left, c.right} :
       Off(paddle) \/ Size(paddle.pulled - paddle.idle) > 2 * Deadband

ResponseValid(r) ==
  /\ r.curve \in Curves /\ r.strength \in 10 .. 500
  /\ r.paddleStart < r.paddleEnd /\ r.paddleEnd <= PaddleFull
  /\ r.blend <= PaddleFull \div 2
  /\ r.clutchStart <= r.clutchEnd /\ r.clutchEnd <= PaddleFull

\* _validate.
Valid(c) == TravelValid(c) /\ HallsValid(c) /\ ResponseValid(c.response)

\* clutch_disengaged and clutch_at_bite, on fresh feedback.
ClutchDisengaged(c, pos) == PastToward(c, pos, c.trigger)
ClutchAtBite(c, pos)     == Outward(c, pos) - Outward(c, c.bite) <= Span(c) \div 100 + 1

\* clutch_command_counts: what is sent, in the travel.
CommandCounts(c, pos) ==
  IF InTravel(c, pos) THEN pos ELSE IF Outward(c, pos) < 0 THEN c.engaged ELSE c.disengaged

\* clutch_command_pull(1.0), clutch_command_bite and clutch_release.
CommandPull(c) == CommandCounts(c, c.disengaged)
CommandBite(c) == CommandCounts(c, c.bite)
Release(c)     == CommandCounts(c, c.engaged)
=============================================================================
