------------------------------ MODULE EdgeFifo ------------------------------
(***************************************************************************)
(* What the input queue promises (inputs.h): the edges recorded by the     *)
(* interrupt handlers are handled once each, whole, in the order recorded; *)
(* up to Capacity of them wait.                                            *)
(***************************************************************************)
EXTENDS Naturals, Sequences

CONSTANTS Events, Capacity

VARIABLES queue, handled

Init == queue = << >> /\ handled \in Events

Record(event) ==
  /\ Len(queue) < Capacity
  /\ queue' = Append(queue, event)
  /\ UNCHANGED handled

Handle ==
  /\ queue # << >>
  /\ handled' = Head(queue) /\ queue' = Tail(queue)

Next == Handle \/ \E event \in Events : Record(event)

Spec == Init /\ [][Next]_<<queue, handled>>
=============================================================================
