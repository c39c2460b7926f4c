------------------------------- MODULE Paddle -------------------------------
(***************************************************************************)
(* From two hall readings to the clutch's target (paddle.cpp): each paddle *)
(* is normalised on its own calibration, the further-pulled one wins, and  *)
(* its position is mapped onto the travel through the selected curve.  The *)
(* code's floating point is exact here: a height is a fraction <<n, d>> of *)
(* PaddleFull, and only the final count is rounded.                        *)
(***************************************************************************)
EXTENDS Calibration, FiniteSetsExt

CONSTANT Shapes     \* the curves libm computes, as heights for whole positions

ASSUME ShapesAssumption ==
  \A curve \in {"log", "exp", "power"} :
    /\ Shapes[curve] \in [0 .. PaddleFull -> 0 .. PaddleFull]
    /\ Shapes[curve][0] = 0 /\ Shapes[curve][PaddleFull] = PaddleFull
    /\ \A x \in 1 .. PaddleFull : Shapes[curve][x - 1] <= Shapes[curve][x]

----------------------------------------------------------------------------
(* Hall readings to a paddle position.                                     *)

Broken == -1

\* How far a reading is pulled past idle; both ends have a margin of a tenth.
Along(raw, paddle) == IF paddle.pulled > paddle.idle THEN raw - paddle.idle
                                                     ELSE paddle.idle - raw
Reach(paddle)        == Size(paddle.pulled - paddle.idle)
OutOfRange(raw, paddle) ==
  Along(raw, paddle) \notin -(Reach(paddle) \div 10) .. Reach(paddle) + Reach(paddle) \div 10

\* Mutant: a reading far out counts as a pull.
NormaliseTrusting(raw, paddle) ==
  IF Off(paddle) THEN 0
  ELSE Min({PaddleFull, (Max({0, Along(raw, paddle) - Deadband}) * PaddleFull)
                          \div (Reach(paddle) - Deadband)})

\* _normalise; a quotient below the deadband is negative and clamped.
Normalise(raw, paddle) ==
  IF Off(paddle) THEN 0
  ELSE IF OutOfRange(raw, paddle) THEN Broken
  ELSE Min({PaddleFull, (Max({0, Along(raw, paddle) - Deadband}) * PaddleFull)
                          \div (Reach(paddle) - Deadband)})

\* paddle_from_halls.
FromHalls(c, left, right) == Max({0, Normalise(left, c.left), Normalise(right, c.right)})

----------------------------------------------------------------------------
(* Paddle position to counts.                                              *)

\* The line through two points; a segment without length is its first point.
OnLine(x, x1, x2, y1, y2) ==
  IF x1 = x2 THEN <<y1, 1>> ELSE <<y1 * (x2 - x1) + (x - x1) * (y2 - y1), x2 - x1>>

\* A corner of width w about (xc, yc), between slopes m1 before and m2 after it.
OnCorner(x, w, xc, yc, m1, m2) ==
  <<4 * w * yc * m1[2] * m2[2] + m2[1] * m1[2] * (x - xc + w) * (x - xc + w)
                               - m1[1] * m2[2] * (xc + w - x) * (xc + w - x),
    4 * w * m1[2] * m2[2]>>

\* Mutant: the corners may cross each other.
CornerWidthAny(blend, outer, middle) == Min({blend, outer})

\* Neither corner reaches past the other, the far breakpoint or an end of the travel.
CornerWidth(blend, outer, middle) == Min({blend, outer, middle \div 2})

\* _piecewise: the paddle's zone onto the clutch's, with the two corners rounded.
Piecewise(r, x) ==
  LET xS == r.paddleStart   yS == r.clutchStart
      xE == r.paddleEnd     yE == r.clutchEnd
      wS == CornerWidth(r.blend, xS, xE - xS)
      wE == CornerWidth(r.blend, PaddleFull - xE, xE - xS)
      middle == <<yE - yS, xE - xS>>
  IN CASE Size(x - xS) < wS -> OnCorner(x, wS, xS, yS, <<yS, xS>>, middle)
       [] Size(x - xS) >= wS /\ Size(x - xE) < wE ->
            OnCorner(x, wE, xE, yE, middle, <<PaddleFull - yE, PaddleFull - xE>>)
       [] OTHER -> IF x <= xS THEN OnLine(x, 0, xS, 0, yS)
                   ELSE IF x <= xE THEN OnLine(x, xS, xE, yS, yE)
                   ELSE OnLine(x, xE, PaddleFull, yE, PaddleFull)

\* The S-curve goes from the line to the smooth step and, from strength 3 on, beyond it.
Smooth(strength, x) ==
  LET full == PaddleFull * PaddleFull
      step == x * x * (3 * PaddleFull - 2 * x)
  IN <<300 * full * x + strength * (step - full * x), 300 * full>>

\* _curve, and the piecewise map beside it.
Height(r, x) ==
  CASE r.curve = "linear"                  -> <<x, 1>>
    [] r.curve = "smooth"                  -> Smooth(r.strength, x)
    [] r.curve = "piecewise"               -> Piecewise(r, x)
    [] r.curve \in {"log", "exp", "power"} -> <<Shapes[r.curve][x], 1>>

\* _clampTravel: a height outside the travel is its end.
ClampTravel(h) == <<Max({0, Min({h[1], PaddleFull * h[2]})}), h[2]>>

\* The count at a height, rounded.
Counts(c, h) ==
  LET unit == PaddleFull * h[2]
      at   == c.engaged * unit + (c.disengaged - c.engaged) * h[1]
  IN (2 * at + unit) \div (2 * unit)

\* paddle_to_counts, and the straight map of manual mode (paddle_tick).
ToCounts(c, x)       == Counts(c, ClampTravel(Height(c.response, x)))
ToCountsDirect(c, x) == Counts(c, ClampTravel(<<x, 1>>))
=============================================================================
