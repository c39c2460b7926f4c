----------------------------- MODULE InputQueue -----------------------------
(***************************************************************************)
(* The rider's inputs (inputs.cpp, and the mode switch of main.cpp): the   *)
(* interrupt handlers write a ring that the loop reads.  A handler is not  *)
(* interrupted by the loop and runs whole, between any two accesses of the *)
(* loop.  An edge raises its interrupt; the handler runs later and reads   *)
(* the level of then, so edges that follow each other at once are one.     *)
(***************************************************************************)
EXTENDS Integers, Sequences

CONSTANTS
  Inputs,         \* InputId
  Switch,         \* INPUT_MANUAL_MODE
  QueueLen,       \* QUEUE_LEN
  Debounce        \* DEBOUNCE_MS

ASSUME QueueAssumption ==
  /\ Switch \in Inputs
  /\ QueueLen \in Nat /\ QueueLen >= 2
  /\ Debounce \in Nat \ {0}

Slots  == 0 .. QueueLen - 1
Events == [id : Inputs, pressed : BOOLEAN]

VARIABLES
  level,          \* of each input, TRUE while the pin is low
  raised,         \* the inputs whose interrupt is pending
  since,          \* the age of _lastEdgeMs of each input, at most Debounce
  ring,           \* _q
  head, tail,     \* _head, _tail
  pop,            \* where the loop is in inputs_pop, "boot" during setup
  event,          \* the event it copies out
  handled,        \* the last event handle_input was given
  manualMode,     \* _manualMode of main.cpp
  missed          \* history: whether the switch's latest edge was ignored or dropped

pins   == <<level, raised>>
reader == <<tail, pop, event, handled, manualMode>>
vars   == <<pins, since, ring, head, reader, missed>>

Init ==
  /\ level \in [Inputs -> BOOLEAN] /\ raised = {}
  /\ since \in [Inputs -> 0 .. Debounce]
  /\ \E zero \in {e \in Events : ~e.pressed} :
       ring = [slot \in Slots |-> zero] /\ event = zero /\ handled = zero
  /\ head = 0 /\ tail = 0 /\ pop = "boot"
  /\ manualMode = FALSE /\ missed = FALSE

----------------------------------------------------------------------------
(* The pins, the clock and the handlers.                                   *)

Edge(id) ==
  /\ level' = [level EXCEPT ![id] = ~@] /\ raised' = raised \cup {id}
  /\ UNCHANGED <<since, ring, head, reader, missed>>

Time ==
  /\ since' = [id \in Inputs |-> IF since[id] < Debounce THEN since[id] + 1 ELSE Debounce]
  /\ UNCHANGED <<pins, ring, head, reader, missed>>

After(slot) == IF slot = QueueLen - 1 THEN 0 ELSE slot + 1

\* Mutant: the ring is never found full.
FullNever == FALSE

Full == After(head) = tail

\* _push: the window starts again for an edge that is dropped, too.
Push(id) ==
  /\ id \in raised /\ raised' = raised \ {id}
  /\ \/ /\ since[id] < Debounce
        /\ missed' = (missed \/ id = Switch)
        /\ UNCHANGED <<since, ring, head>>
     \/ /\ since[id] >= Debounce /\ Full
        /\ since' = [since EXCEPT ![id] = 0] /\ missed' = (missed \/ id = Switch)
        /\ UNCHANGED <<ring, head>>
     \/ /\ since[id] >= Debounce /\ ~Full
        /\ since' = [since EXCEPT ![id] = 0] /\ missed' = (missed /\ id # Switch)
        /\ ring' = [ring EXCEPT ![head] = [id |-> id, pressed |-> level[id]]]
        /\ head' = After(head)
  /\ UNCHANGED <<level, reader>>

----------------------------------------------------------------------------
(* The loop: setup reads the switch after the handlers are attached, then  *)
(* inputs_pop copies the oldest event field by field and hands it on.      *)

\* Mutant: the switch is taken to be off at boot.
SetupAssumes ==
  /\ pop = "boot" /\ pop' = "look"
  /\ manualMode' = FALSE
  /\ UNCHANGED <<pins, since, ring, head, tail, event, handled, missed>>

Setup ==
  /\ pop = "boot" /\ pop' = "look"
  /\ manualMode' = level[Switch]
  /\ UNCHANGED <<pins, since, ring, head, tail, event, handled, missed>>

\* Mutant: the newest event is left in the ring.
LookBehind ==
  /\ pop = "look" /\ tail # head /\ After(tail) # head
  /\ pop' = "id"
  /\ UNCHANGED <<pins, since, ring, head, tail, event, handled, manualMode, missed>>

Look ==
  /\ pop = "look" /\ tail # head
  /\ pop' = "id"
  /\ UNCHANGED <<pins, since, ring, head, tail, event, handled, manualMode, missed>>

CopyId ==
  /\ pop = "id" /\ pop' = "pressed"
  /\ event' = [event EXCEPT !.id = ring[tail].id]
  /\ UNCHANGED <<pins, since, ring, head, tail, handled, manualMode, missed>>

CopyPressed ==
  /\ pop = "pressed" /\ pop' = "advance"
  /\ event' = [event EXCEPT !.pressed = ring[tail].pressed]
  /\ UNCHANGED <<pins, since, ring, head, tail, handled, manualMode, missed>>

\* The tail moves on and handle_input is given the event.
Advance ==
  /\ pop = "advance" /\ pop' = "look"
  /\ tail' = After(tail) /\ handled' = event
  /\ manualMode' = IF event.id = Switch THEN event.pressed ELSE manualMode
  /\ UNCHANGED <<pins, since, ring, head, event, missed>>

Loop == Setup \/ Look \/ CopyId \/ CopyPressed \/ Advance
Next == Loop \/ Time \/ \E id \in Inputs : Edge(id) \/ Push(id)

\* loop() runs for ever.
Safety == Init /\ [][Next]_vars
Spec   == Safety /\ WF_vars(Loop)

----------------------------------------------------------------------------
(* Properties.                                                             *)

Copying == pop \in {"id", "pressed", "advance"}

\* The values of the variables.
TypeOK ==
  /\ level \in [Inputs -> BOOLEAN] /\ raised \subseteq Inputs /\ missed \in BOOLEAN
  /\ since \in [Inputs -> 0 .. Debounce]
  /\ ring \in [Slots -> Events] /\ head \in Slots /\ tail \in Slots
  /\ pop \in {"boot", "look", "id", "pressed", "advance"}
  /\ event \in Events /\ handled \in Events /\ manualMode \in BOOLEAN

\* The entry the loop is copying is not written meanwhile: what has been copied of it
\* is still what is there, and there is something to copy.
CopyNeverTorn ==
  /\ Copying => tail # head
  /\ pop \in {"pressed", "advance"} => event.id = ring[tail].id
  /\ pop = "advance" => event = ring[tail]

Count == IF head >= tail THEN head - tail ELSE head - tail + QueueLen
SlotOf(i) == IF tail + i < QueueLen THEN tail + i ELSE tail + i - QueueLen

\* What waits in the ring, oldest first.
Contents == [i \in 1 .. Count |-> ring[SlotOf(i - 1)]]

F == INSTANCE EdgeFifo WITH queue <- Contents, Capacity <- QueueLen - 1

\* The ring is a queue of whole edges: none is handled twice, torn or out of order, and
\* none is lost once recorded; a slot of the ring stays free (inputs.cpp:22-41, 60-68).
RefinesFifo == F!Spec

SwitchEvents == { i \in 1 .. Count : Contents[i].id = Switch }

\* The mode the switch will be believed in once the ring is drained.
Believed ==
  IF SwitchEvents = {} THEN manualMode
  ELSE Contents[CHOOSE i \in SwitchEvents : \A j \in SwitchEvents : j <= i].pressed

\* The mode ends as the switch stands - across the boot, a stalled loop and edges in a
\* burst - unless the debounce window or a full ring has swallowed its latest edge.
ModeFollowsSwitch ==
  (pop # "boot" /\ Switch \notin raised /\ ~missed) => Believed = level[Switch]

\* Whatever is in the ring is handled, however many edges keep coming.
EdgesAreHandled == \A slot \in Slots : head = slot ~> tail = slot
=============================================================================
