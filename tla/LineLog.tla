------------------------------ MODULE LineLog ------------------------------
(***************************************************************************)
(* What the session log promises (sd_log.h): from the moment the file is   *)
(* open, a line is kept whole or not at all, and the bytes kept leave for  *)
(* the card once each, in order, in writes of at most a chunk, until the   *)
(* card is given up or the power goes.  Nothing else takes a byte away.    *)
(* Byte <<n, i>> is the i-th of a line of n bytes.                         *)
(***************************************************************************)
EXTENDS Naturals, Sequences

CONSTANTS LineLens, HeaderLen, Chunk, Capacity

VARIABLES pending, on

Line(n) == [i \in 1 .. n |-> <<n, i>>]

Init == pending = << >> /\ on = "boot"

Open ==
  /\ on = "boot"
  /\ \/ on' = "on" /\ pending' = Line(HeaderLen)
     \/ on' = "off" /\ UNCHANGED pending

Accept(n) ==
  /\ on = "on"
  /\ Len(pending) + n <= Capacity
  /\ pending' = pending \o Line(n)
  /\ UNCHANGED on

Write == on = "on" /\ on' = "writing" /\ UNCHANGED pending

Take(k) ==
  /\ on = "writing" /\ on' = "on"
  /\ k <= Chunk
  /\ pending' = SubSeq(pending, k + 1, Len(pending))

GiveUp == on \in {"on", "writing"} /\ on' = "off" /\ UNCHANGED pending

PowerCycle == on' = "boot" /\ pending' = << >>

Next ==
  \/ Open \/ Write \/ GiveUp \/ PowerCycle
  \/ \E n \in LineLens : Accept(n)
  \/ \E k \in 1 .. Len(pending) : Take(k)

Spec == Init /\ [][Next]_<<pending, on>>
=============================================================================
