----------------------------- MODULE CalPaddle -----------------------------
(***************************************************************************)
(* The calibration the node works with (CalStore) and what the paddles and *)
(* the clutch's predicates make of it (Paddle, Calibration).  The console  *)
(* may set the response of a calibration at any time, so the properties    *)
(* are about every response that validates.                                *)
(***************************************************************************)
EXTENDS CalStore, Paddle

CONSTANTS
  Responses,    \* paddle responses the console asks for
  Readings      \* hall readings

ASSUME CalPaddleAssumption ==
  /\ Cals \subseteq ClutchCals /\ \A cal \in Cals : Valid(cal)
  /\ Responses \subseteq PaddleResponses
  /\ Readings \subseteq Nat

\* What _validate lets the console make of a calibration.
Responding(cal) ==
  { c \in { [cal EXCEPT !.response = r] : r \in Responses \cup {cal.response} } : Valid(c) }

Positions == 0 .. PaddleFull

\* At rest, or a sensor fault, or switched off.
Idle(raw, paddle) ==
  Off(paddle) \/ OutOfRange(raw, paddle) \/ Along(raw, paddle) <= Deadband

\* The position does not fall while a paddle is pulled, wherever the other is.
HallsFollow(cal) ==
  \A raw, further, other \in Readings :
    /\ Along(raw, cal.left) <= Along(further, cal.left) /\ ~OutOfRange(further, cal.left)
         => FromHalls(cal, raw, other) <= FromHalls(cal, further, other)
    /\ Along(raw, cal.right) <= Along(further, cal.right) /\ ~OutOfRange(further, cal.right)
         => FromHalls(cal, other, raw) <= FromHalls(cal, other, further)

TargetsFollow(c) ==
  \A x \in Positions \ {PaddleFull} :
    /\ PastToward(c, ToCounts(c, x + 1), ToCounts(c, x))
    /\ PastToward(c, ToCountsDirect(c, x + 1), ToCountsDirect(c, x))

\* Worked out once for the calibrations there are.
NeverReversing ==
  { cal \in Cals : HallsFollow(cal) /\ \A c \in Responding(cal) : TargetsFollow(c) }

IdleIsNoPull(cal) ==
  \A left, right \in Readings :
    Idle(left, cal.left) /\ Idle(right, cal.right) => FromHalls(cal, left, right) = 0

OnlyPulled ==
  { cal \in Cals :
      /\ IdleIsNoPull(cal)
      /\ \A c \in Responding(cal) :
           ToCounts(c, 0) = Release(c) /\ ToCountsDirect(c, 0) = Release(c) }

FullPull(cal) ==
  \A left, right \in Readings :
    (~Off(cal.left) /\ left = cal.left.pulled) \/ (~Off(cal.right) /\ right = cal.right.pulled)
      => FromHalls(cal, left, right) = PaddleFull

\* A zone that ends with the paddle's travel ends the clutch's there as well.
EndsShort(r) == r.curve = "piecewise" /\ r.paddleEnd = PaddleFull /\ r.clutchEnd < PaddleFull

Reaching ==
  { cal \in Cals :
      /\ FullPull(cal)
      /\ \A c \in Responding(cal) :
           /\ \A x \in Positions : InTravel(c, ToCounts(c, x)) /\ InTravel(c, ToCountsDirect(c, x))
           /\ ClutchDisengaged(c, ToCountsDirect(c, PaddleFull))
           /\ ~EndsShort(c.response) => ClutchDisengaged(c, ToCounts(c, PaddleFull))
           /\ ClutchDisengaged(c, CommandPull(c))
           /\ ClutchAtBite(c, CommandBite(c)) /\ ClutchAtBite(c, Release(c)) }

----------------------------------------------------------------------------
(* Properties.                                                             *)

\* Pulling a paddle further never lets the clutch in, for whatever the node boots with or
\* is set to: no curve, rounded corner, rounding or direction of the counts reverses it
\* (paddle.cpp:79-82).  A smooth curve of strength above 3 does turn back, at both ends,
\* where only the clamp to the travel hides it.
PaddleNeverReverses == ram \in NeverReversing

\* Noise at rest and broken sensors leave the clutch engaged, in both modes
\* (_normalise; paddle.h: "treated as idle and counted, rather than allowed to pull").
OnlyPaddlesPull == ram \in OnlyPulled

\* What the gearbox and the rider wait for can happen: the commands and a full pull of
\* either paddle take the clutch to where clutch_disengaged and clutch_at_bite say yes,
\* and no target leaves the travel.  A piecewise zone that ends with the paddle's travel
\* short of the clutch's is accepted and never disengages (_validate).
PullsReachTheirEnds == ram \in Reaching
=============================================================================
