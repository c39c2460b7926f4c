----------------------------- MODULE MCCalStore -----------------------------
EXTENDS CalPaddle

\* A travel whose counts rise, one whose counts fall, one with the bite point and the
\* trigger at its end, and three that _validate refuses.
Ways ==
  { [engaged |-> 3,  disengaged |-> 53, trigger |-> 33, bite |-> 13],
    [engaged |-> 53, disengaged |-> 3,  trigger |-> 30, bite |-> 50],
    [engaged |-> 3,  disengaged |-> 53, trigger |-> 53, bite |-> 53],
    [engaged |-> 3,  disengaged |-> 53, trigger |-> 54, bite |-> 13],
    [engaged |-> 3,  disengaged |-> 53, trigger |-> 13, bite |-> 33],
    [engaged |-> 5,  disengaged |-> 5,  trigger |-> 5,  bite |-> 5] }

Hall(idle, pulled) == [idle |-> idle, pulled |-> pulled]

\* Readings that rise and fall, the least travel accepted, a paddle switched off, and two
\* that are refused.
Halls ==
  { <<Hall(2, 13), Hall(14, 4)>>, <<Hall(6, 3), Hall(0, 0)>>,
    <<Hall(0, 0), Hall(5, 5)>>, <<Hall(2, 4), Hall(14, 4)>> }

ALine == [curve |-> "linear", strength |-> 200, paddleStart |-> 1, paddleEnd |-> 9,
          blend |-> 1, clutchStart |-> 6, clutchEnd |-> 8]

Candidates ==
  { [engaged |-> way.engaged, disengaged |-> way.disengaged, trigger |-> way.trigger,
     bite |-> way.bite, left |-> hall[1], right |-> hall[2], response |-> ALine] :
      way \in Ways, hall \in Halls }

MCCals     == { c \in Candidates : Valid(c) }
MCDefaults == CHOOSE c \in MCCals : c.left.idle = 2 /\ c.engaged = 3 /\ c.bite = 13

MCResponses ==
  { [ALine EXCEPT !.curve = curve, !.strength = strength] :
      curve \in Curves \ {"piecewise"}, strength \in {100, 300, 500} }
  \cup
  [curve : {"piecewise"}, strength : {200}, blend : {0, 1, 3, 5},
   paddleStart : {0, 1, 3, 4, 7}, paddleEnd : {3, 5, 8, 9, 10},
   clutchStart : {0, 2, 5, 9}, clutchEnd : {0, 2, 5, 8, 10}]

Heights(seq) == [x \in 0 .. 10 |-> seq[x + 1]]
MCShapes == [log   |-> Heights(<<0, 3, 5, 6, 7, 8, 8, 9, 9, 10, 10>>),
             exp   |-> Heights(<<0, 0, 1, 1, 2, 2, 3, 4, 5, 7, 10>>),
             power |-> Heights(<<0, 0, 0, 1, 2, 3, 4, 5, 6, 8, 10>>)]
=============================================================================
