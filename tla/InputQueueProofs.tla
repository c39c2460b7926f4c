-------------------------- MODULE InputQueueProofs --------------------------
(***************************************************************************)
(* The ring of the inputs, for every number of inputs, every length of the *)
(* ring and every debounce window: the loop never copies an entry that is  *)
(* being written, and the ring is a bounded queue of edges.                *)
(***************************************************************************)
EXTENDS InputQueue, TLAPS, SequenceTheorems, WellFoundedInduction

\* What Push does when it records an edge.
Recorded(id) ==
  /\ id \in raised /\ since[id] >= Debounce /\ ~Full
  /\ ring' = [ring EXCEPT ![head] = [id |-> id, pressed |-> level[id]]]
  /\ head' = After(head)
  /\ UNCHANGED <<level, reader>>

\* A handler records the edge, or leaves ring and reader alone.
LEMMA PushRecordsOrNot ==
  ASSUME NEW id \in Inputs, Push(id)
  PROVE  Recorded(id) \/ UNCHANGED <<ring, head, reader>>
BY DEF Push, Recorded

\* The index after a slot is a slot.
LEMMA AfterType == ASSUME NEW slot \in Slots PROVE After(slot) \in Slots
BY QueueAssumption DEF After, Slots

\* The two are inductive together: neither the handlers nor the loop leave the types,
\* and a handler writes the slot at the head, which is not the one being copied.
IndInv == TypeOK /\ CopyNeverTorn

\* The ring starts empty, with nothing being copied.
LEMMA InitInv == Init => IndInv
<1> SUFFICES ASSUME Init PROVE IndInv
  OBVIOUS
<1>1. PICK zero \in {e \in Events : ~e.pressed} :
        ring = [slot \in Slots |-> zero] /\ event = zero /\ handled = zero
  BY DEF Init
<1>2. TypeOK
  <2>1. zero \in Events
    OBVIOUS
  <2>2. 0 \in Slots
    BY QueueAssumption DEF Slots
  <2>3. ring \in [Slots -> Events] /\ event \in Events /\ handled \in Events
    BY <1>1, <2>1
  <2> QED
    BY <2>2, <2>3 DEF Init, TypeOK
<1> QED
  BY <1>2 DEF Init, IndInv, CopyNeverTorn, Copying

\* A handler keeps it: it writes the slot at the head, and only if the ring is not full.
LEMMA PushInv == ASSUME IndInv, NEW id \in Inputs, Push(id) PROVE IndInv'
<1> USE DEF IndInv
<1>1. level' = level /\ raised' \subseteq Inputs /\ missed' \in BOOLEAN
      /\ since' \in [Inputs -> 0 .. Debounce] /\ UNCHANGED reader
  <2>1. since' = since \/ since' = [since EXCEPT ![id] = 0]
    BY DEF Push
  <2>2. since' \in [Inputs -> 0 .. Debounce]
    BY <2>1, QueueAssumption DEF TypeOK
  <2>3. missed' \in BOOLEAN
    <3>1. missed' \in {missed \/ id = Switch, missed /\ id # Switch}
      BY DEF Push
    <3> QED
      BY <3>1 DEF TypeOK
  <2>4. level' = level /\ raised' \subseteq Inputs /\ UNCHANGED reader
    BY DEF Push, TypeOK
  <2> QED
    BY <2>2, <2>3, <2>4
<1>2. CASE Recorded(id)
  <2>1. ring[tail] = ring'[tail] \/ tail = head
    BY <1>2 DEF Recorded, TypeOK
  <2>2. [id |-> id, pressed |-> level[id]] \in Events
    BY DEF TypeOK, Events
  <2>3. ring' \in [Slots -> Events] /\ head' \in Slots
    BY <1>2, <2>2, AfterType DEF Recorded, TypeOK
  <2>4. TypeOK'
    BY <1>1, <2>3 DEF TypeOK, reader
  <2>5. CopyNeverTorn'
    BY <1>1, <1>2, <2>1 DEF Recorded, Full, CopyNeverTorn, Copying, reader
  <2> QED
    BY <2>4, <2>5
<1>3. CASE UNCHANGED <<ring, head, reader>>
  <2>1. TypeOK'
    BY <1>1, <1>3 DEF TypeOK, reader
  <2>2. CopyNeverTorn'
    BY <1>3 DEF CopyNeverTorn, Copying, reader
  <2> QED
    BY <2>1, <2>2
<1> QED
  BY <1>2, <1>3, PushRecordsOrNot

\* The loop keeps it: it copies the entry at the tail, one field after the other.
LEMMA LoopInv == ASSUME IndInv, Loop PROVE IndInv'
<1> USE DEF IndInv
<1>1. ring[tail] \in Events /\ ring[tail].id \in Inputs /\ ring[tail].pressed \in BOOLEAN
  BY DEF TypeOK, Events
<1>2. CASE Setup
  <2>1. level[Switch] \in BOOLEAN
    BY QueueAssumption DEF TypeOK
  <2>2. TypeOK'
    BY <1>2, <2>1 DEF Setup, TypeOK, pins
  <2> QED
    BY <1>2, <2>2 DEF Setup, CopyNeverTorn, Copying
<1>3. CASE Look
  BY <1>3 DEF Look, TypeOK, CopyNeverTorn, Copying, pins
<1>4. CASE CopyId
  <2>1. event' \in Events /\ event'.id = ring[tail].id
    BY <1>1, <1>4 DEF CopyId, TypeOK, Events
  <2>2. TypeOK'
    BY <1>4, <2>1 DEF CopyId, TypeOK, pins
  <2> QED
    BY <1>4, <2>1, <2>2 DEF CopyId, CopyNeverTorn, Copying
<1>5. CASE CopyPressed
  <2>1. event' \in Events /\ event' = ring[tail]
    BY <1>1, <1>5 DEF CopyPressed, TypeOK, CopyNeverTorn, Events
  <2>2. TypeOK'
    BY <1>5, <2>1 DEF CopyPressed, TypeOK, pins
  <2> QED
    BY <1>5, <2>1, <2>2 DEF CopyPressed, CopyNeverTorn, Copying
<1>6. CASE Advance
  <2>1. event.pressed \in BOOLEAN /\ tail' \in Slots
    BY <1>6, AfterType DEF Advance, TypeOK, Events
  <2>2. TypeOK'
    BY <1>6, <2>1 DEF Advance, TypeOK, pins
  <2> QED
    BY <1>6, <2>2 DEF Advance, CopyNeverTorn, Copying
<1> QED
  BY <1>2, <1>3, <1>4, <1>5, <1>6 DEF Loop

\* Every step keeps it.
LEMMA NextInv == IndInv /\ [Next]_vars => IndInv'
<1> SUFFICES ASSUME IndInv, [Next]_vars PROVE IndInv'
  OBVIOUS
<1>1. CASE Loop
  BY <1>1, LoopInv
<1>2. CASE Time
  <2>1. since' \in [Inputs -> 0 .. Debounce]
    BY <1>2, QueueAssumption DEF Time, IndInv, TypeOK
  <2> QED
    BY <1>2, <2>1 DEF Time, IndInv, TypeOK, CopyNeverTorn, Copying, pins, reader
<1>3. ASSUME NEW id \in Inputs, Edge(id) PROVE IndInv'
  <2>1. level' \in [Inputs -> BOOLEAN] /\ raised' \subseteq Inputs
    BY <1>3 DEF Edge, IndInv, TypeOK
  <2> QED
    BY <1>3, <2>1 DEF Edge, IndInv, TypeOK, CopyNeverTorn, Copying, reader
<1>4. ASSUME NEW id \in Inputs, Push(id) PROVE IndInv'
  BY <1>4, PushInv
<1>5. CASE UNCHANGED vars
  BY <1>5 DEF vars, IndInv, TypeOK, CopyNeverTorn, Copying, pins, reader
<1> QED
  BY <1>1, <1>2, <1>3, <1>4, <1>5 DEF Next

\* The variables stay in their ranges, the indices in the ring.
THEOREM TypeCorrect == Spec => []TypeOK
<1> QED
  BY InitInv, NextInv, PTL DEF Spec, Safety, IndInv

\* A handler that interrupts the loop between the fields of an entry never writes
\* the entry that is being copied, because a slot of the ring stays free.
THEOREM CopiesNeverTorn == Spec => []CopyNeverTorn
<1> QED
  BY InitInv, NextInv, PTL DEF Spec, Safety, IndInv

----------------------------------------------------------------------------
(* The ring implements the queue of EdgeFifo.                              *)

\* What waits is a sequence of as many edges as lie between tail and head.
IsQueue ==
  /\ Count \in 0 .. QueueLen - 1
  /\ \A i \in 0 .. QueueLen - 1 : SlotOf(i) \in Slots
  /\ Contents \in Seq(Events) /\ Len(Contents) = Count
  /\ \A i \in 1 .. Count : Contents[i] = ring[SlotOf(i - 1)]

\* With the variables in their ranges, what waits has that shape.
LEMMA ContentsType == TypeOK => IsQueue
<1> SUFFICES ASSUME TypeOK PROVE IsQueue
  OBVIOUS
<1>1. head \in 0 .. QueueLen - 1 /\ tail \in 0 .. QueueLen - 1 /\ QueueLen \in Nat
  BY QueueAssumption DEF TypeOK, Slots
<1>2. Count \in 0 .. QueueLen - 1
  BY <1>1 DEF Count
<1>3. \A i \in 0 .. QueueLen - 1 : SlotOf(i) \in Slots
  BY <1>1 DEF SlotOf, Slots
<1>4. \A i \in 1 .. Count : i - 1 \in 0 .. QueueLen - 1
  BY <1>1, <1>2
<1>5. \A i \in 1 .. Count : ring[SlotOf(i - 1)] \in Events
  BY <1>3, <1>4 DEF TypeOK
<1>6. Contents \in [1 .. Count -> Events]
  BY <1>5 DEF Contents
<1>7. Contents \in Seq(Events) /\ Len(Contents) = Count
  BY <1>2, <1>6
<1> QED
  BY <1>2, <1>3, <1>7 DEF Contents, IsQueue

\* Nothing waits when, and only when, the indices are equal.
LEMMA EmptyRing == ASSUME TypeOK PROVE (Count = 0) <=> (head = tail)
BY QueueAssumption DEF TypeOK, Slots, Count

\* An edge is recorded at the end of the queue, which was not full.
LEMMA PushRecords ==
  ASSUME TypeOK, TypeOK', NEW id \in Inputs, Recorded(id)
  PROVE  F!Record([id |-> id, pressed |-> level[id]])
<1>0. IsQueue
  BY ContentsType
<1> DEFINE edge == [id |-> id, pressed |-> level[id]]
<1>1. edge \in Events
  BY DEF TypeOK, Events
<1>2. head \in 0 .. QueueLen - 1 /\ tail \in 0 .. QueueLen - 1 /\ QueueLen \in Nat /\ QueueLen >= 2
  BY QueueAssumption DEF TypeOK, Slots
<1>3. tail' = tail /\ head' = After(head) /\ head' # tail
  BY DEF Recorded, Full, reader
<1>4. Count' = Count + 1 /\ Count < QueueLen - 1
  BY <1>2, <1>3 DEF Count, After
<1>5. SlotOf(Count) = head
  BY <1>2 DEF SlotOf, Count
<1>6. \A i \in 1 .. Count : SlotOf(i - 1) # head /\ SlotOf(i - 1) \in Slots
  BY <1>2 DEF SlotOf, Count, Slots
<1>7. \A i \in Int : SlotOf(i)' = SlotOf(i)
  BY <1>3 DEF SlotOf
<1>8. ring'[head] = edge /\ \A slot \in Slots : slot # head => ring'[slot] = ring[slot]
  BY DEF Recorded, TypeOK
<1>9. \A i \in 1 .. Count : Contents'[i] = Contents[i]
  <2> TAKE i \in 1 .. Count
  <2>1. i \in 1 .. Count' /\ i \in Int
    BY <1>4, <1>0 DEF IsQueue
  <2>2. Contents'[i] = ring'[SlotOf(i - 1)]
    BY <2>1, <1>7, <1>0 DEF Contents, IsQueue
  <2> QED
    BY <2>2, <1>6, <1>8, <1>0 DEF IsQueue
<1>10. Contents'[Count + 1] = edge
  BY <1>4, <1>5, <1>7, <1>8, <1>0 DEF Contents, IsQueue
<1>11. Contents' \in Seq(Events) /\ Len(Contents') = Count + 1
  <2>1. IsQueue'
    BY ContentsType, PTL
  <2> QED
    BY <1>4, <2>1 DEF IsQueue
<1>12. Contents' = Append(Contents, edge)
  BY <1>1, <1>9, <1>10, <1>11, <1>0, AppendProperties, SeqEqual DEF IsQueue
<1>13. handled' = handled
  BY DEF Recorded, reader
<1> QED
  BY <1>4, <1>12, <1>13, <1>0 DEF F!Record, IsQueue

\* The loop hands on the oldest edge and takes it out of the queue.
LEMMA AdvanceHandles ==
  ASSUME IndInv, TypeOK', Advance
  PROVE  F!Handle
<1>0. IsQueue
  BY ContentsType DEF IndInv
<1> USE DEF IndInv
<1>1. head \in 0 .. QueueLen - 1 /\ tail \in 0 .. QueueLen - 1 /\ QueueLen \in Nat /\ QueueLen >= 2
  BY QueueAssumption DEF TypeOK, Slots
<1>2. head # tail /\ handled' = ring[tail] /\ ring' = ring /\ head' = head /\ tail' = After(tail)
  BY DEF Advance, CopyNeverTorn, Copying
<1>3. Count \in Nat /\ Count # 0 /\ Count' = Count - 1
  BY <1>1, <1>2 DEF Count, After
<1>4. \A i \in 0 .. Count - 2 : SlotOf(i)' = SlotOf(i + 1)
  BY <1>1, <1>2 DEF SlotOf, After, Count
<1>5. SlotOf(0) = tail
  BY <1>1 DEF SlotOf
<1>6. Contents # << >> /\ Head(Contents) = ring[tail]
  BY <1>3, <1>5, <1>0 DEF IsQueue
<1>7. Contents' \in Seq(Events) /\ Len(Contents') = Count - 1
  <2>1. IsQueue'
    BY ContentsType, PTL
  <2> QED
    BY <1>3, <2>1 DEF IsQueue
<1>8. \A i \in 1 .. Count - 1 : Contents'[i] = Contents[i + 1]
  <2> TAKE i \in 1 .. Count - 1
  <2>1. i \in 1 .. Count' /\ i + 1 \in 1 .. Count /\ i - 1 \in 0 .. Count - 2
    BY <1>3
  <2>2. Contents'[i] = ring[SlotOf(i - 1)']
    BY <1>2, <2>1 DEF Contents
  <2>3. Contents[i + 1] = ring[SlotOf(i)]
    BY <1>3, <2>1 DEF Contents
  <2>4. SlotOf(i - 1)' = SlotOf(i)
    BY <1>4, <2>1
  <2> QED
    BY <2>2, <2>3, <2>4
<1>9. Contents' = Tail(Contents)
  BY <1>3, <1>6, <1>7, <1>8, <1>0, HeadTailProperties, SeqEqual DEF IsQueue
<1> QED
  BY <1>2, <1>6, <1>9 DEF F!Handle

\* What touches neither ring nor indices nor the last edge handled is a stutter.
LEMMA QuietStutters ==
  ASSUME UNCHANGED <<ring, head, tail, handled>>
  PROVE  UNCHANGED <<Contents, handled>>
BY DEF Contents, Count, SlotOf

\* Every step records, handles, or leaves the queue alone.
LEMMA StepRefines == IndInv /\ IndInv' /\ [Next]_vars => [F!Next]_<<Contents, handled>>
<1> SUFFICES ASSUME IndInv, IndInv', [Next]_vars PROVE [F!Next]_<<Contents, handled>>
  OBVIOUS
<1> USE DEF IndInv
<1>1. CASE Advance
  BY <1>1, AdvanceHandles DEF F!Next
<1>2. ASSUME NEW id \in Inputs, Push(id) PROVE [F!Next]_<<Contents, handled>>
  <2>1. CASE Recorded(id)
    <3>1. [id |-> id, pressed |-> level[id]] \in Events
      BY DEF TypeOK, Events
    <3> QED
      BY <2>1, <3>1, PushRecords DEF F!Next
  <2>2. CASE UNCHANGED <<ring, head, reader>>
    BY <2>2, QuietStutters DEF reader
  <2> QED
    BY <1>2, <2>1, <2>2, PushRecordsOrNot
<1>3. CASE Setup \/ Look \/ CopyId \/ CopyPressed \/ Time \/ (\E id \in Inputs : Edge(id)) \/ UNCHANGED vars
  <2>1. UNCHANGED <<ring, head, tail, handled>>
    BY <1>3 DEF Setup, Look, CopyId, CopyPressed, Time, Edge, vars, reader
  <2> QED
    BY <2>1, QuietStutters
<1> QED
  BY <1>1, <1>2, <1>3 DEF Next, Loop

\* Ring, handlers and loop implement the queue: edges are handled in the order recorded,
\* once each and whole, and one is refused only when QUEUE_LEN - 1 are waiting.
THEOREM ImplementsFifo == Spec => RefinesFifo
<1>1. Init => F!Init
  <2> SUFFICES ASSUME Init PROVE F!Init
    OBVIOUS
  <2>1. TypeOK /\ IsQueue
    BY InitInv, ContentsType DEF IndInv
  <2>2. Count = 0
    BY <2>1, EmptyRing DEF Init
  <2>3. Contents = << >>
    BY <2>1, <2>2, EmptySeq DEF IsQueue
  <2> QED
    BY <2>1, <2>3 DEF F!Init, TypeOK
<1> QED
  BY <1>1, InitInv, NextInv, StepRefines, PTL DEF Spec, Safety, RefinesFifo, F!Spec

----------------------------------------------------------------------------
(* The mode follows the switch.                                            *)

\* Places in a queue, if there are any, have a last one.
LEMMA LastPlace ==
  ASSUME NEW n \in Nat, NEW S \in SUBSET (1 .. n), S # {}
  PROVE  \E i \in S : \A j \in S : j <= i
<1> DEFINE T == { n - i : i \in S }
<1>1. T \subseteq Nat /\ T # {}
  <2>1. \A i \in S : i \in Int /\ 1 <= i /\ i <= n
    OBVIOUS
  <2>2. \A i \in S : n - i \in Nat
    BY <2>1
  <2>3. PICK i \in S : TRUE
    OBVIOUS
  <2>4. n - i \in T
    BY <2>3
  <2> QED
    BY <2>2, <2>4
<1>2. PICK d \in T : \A e \in T : ~ (<<e, d>> \in OpToRel(<, Nat))
  BY <1>1, NatLessThanWellFounded, WFMin, Zenon
<1>3. \A e \in T : ~ (e < d)
  BY <1>1, <1>2 DEF OpToRel
<1>4. PICK i \in S : d = n - i
  OBVIOUS
<1>5. ASSUME NEW j \in S PROVE j <= i
  <2>1. ~ (n - j < n - i) /\ i \in Int /\ j \in Int
    BY <1>3, <1>4
  <2> QED
    BY <2>1
<1> QED
  BY <1>5

\* The switch's newest edge that waits is what is believed.
LEMMA NewestBelieved ==
  ASSUME IsQueue, NEW i \in SwitchEvents, \A j \in SwitchEvents : j <= i
  PROVE  Believed = Contents[i].pressed
<1>1. \A k \in SwitchEvents : (\A j \in SwitchEvents : j <= k) => k = i
  <2> SUFFICES ASSUME NEW k \in SwitchEvents, \A j \in SwitchEvents : j <= k
               PROVE  k = i
    OBVIOUS
  <2>1. k <= i /\ i <= k /\ k \in Int /\ i \in Int
    BY DEF SwitchEvents, IsQueue
  <2> QED
    BY <2>1
<1>2. (CHOOSE k \in SwitchEvents : \A j \in SwitchEvents : j <= k) = i
  BY <1>1
<1> QED
  BY <1>2 DEF Believed

NewestIsBelieved ==
  \A i \in SwitchEvents : (\A j \in SwitchEvents : j <= i) => Believed = Contents[i].pressed

\* So it is in every state.
LEMMA NewestAlways == IsQueue => NewestIsBelieved
BY NewestBelieved DEF NewestIsBelieved

\* What is believed agrees with the switch unless an edge of it is pending or was missed;
\* before setup has read the switch, only edges that wait tell anything.
Settled ==
  (Switch \notin raised /\ ~missed) =>
    ((SwitchEvents # {} \/ pop # "boot") => Believed = level[Switch])

\* An edge that is recorded is the last to wait.
LEMMA RecordSettles ==
  ASSUME TypeOK, TypeOK', NEW id \in Inputs, Recorded(id), Push(id), Settled
  PROVE  Settled'
<1> DEFINE edge == [id |-> id, pressed |-> level[id]]
<1>1. IsQueue /\ IsQueue'
  BY ContentsType, PTL
<1>2. F!Record(edge)
  BY PushRecords
<1>3. /\ Contents \in Seq(Events) /\ edge \in Events /\ Len(Contents) = Count
      /\ Contents' = Append(Contents, edge) /\ Count' = Len(Contents')
  <2>1. edge \in Events
    BY DEF TypeOK, Events
  <2> QED
    BY <1>1, <1>2, <2>1 DEF F!Record, IsQueue
<1> HIDE DEF edge
<1>4. /\ Count \in Nat /\ Count' = Count + 1 /\ Contents'[Count + 1] = edge
      /\ \A i \in 1 .. Count : Contents'[i] = Contents[i]
  <2>1. Count \in Nat
    BY <1>3
  <2> QED
    BY <1>3, <2>1, AppendProperties
<1>5. /\ level' = level /\ raised' = raised \ {id} /\ pop' = pop /\ manualMode' = manualMode
  BY DEF Recorded, Push, reader
<1>6. CASE id = Switch
  <2>1. Count + 1 \in SwitchEvents' /\ \A j \in SwitchEvents' : j <= Count + 1
    BY <1>4, <1>6 DEF SwitchEvents, edge
  <2>2. NewestIsBelieved'
    BY <1>1, NewestAlways, PTL
  <2>3. Believed' = edge.pressed
    BY <1>4, <2>1, <2>2 DEF NewestIsBelieved
  <2> QED
    BY <1>5, <1>6, <2>3 DEF Settled, edge
<1>7. CASE id # Switch
  <2>1. SwitchEvents' = SwitchEvents
    <3>1. \A i : i \in 1 .. Count + 1 <=> (i \in 1 .. Count \/ i = Count + 1)
      BY <1>4
    <3> QED
      BY <1>4, <1>7, <3>1 DEF SwitchEvents, edge
  <2>2. Believed' = Believed
    <3>1. CASE SwitchEvents = {}
      BY <1>5, <2>1, <3>1 DEF Believed
    <3>2. CASE SwitchEvents # {}
      <4>1. PICK i \in SwitchEvents : \A j \in SwitchEvents : j <= i
        <5>1. SwitchEvents \in SUBSET (1 .. Count)
          BY DEF SwitchEvents
        <5> QED
          BY <1>4, <3>2, <5>1, LastPlace
      <4>2. Believed = Contents[i].pressed /\ Contents'[i] = Contents[i]
        BY <1>1, <1>4, <4>1, NewestBelieved DEF SwitchEvents
      <4>3. i \in SwitchEvents' /\ \A j \in SwitchEvents' : j <= i
        BY <2>1, <4>1
      <4>4. NewestIsBelieved'
        BY <1>1, NewestAlways, PTL
      <4> QED
        BY <4>2, <4>3, <4>4 DEF NewestIsBelieved
    <3> QED
      BY <3>1, <3>2
  <2>3. Switch \notin raised' => Switch \notin raised
    BY <1>5, <1>7
  <2>4. missed' = missed
    BY <1>7, QueueAssumption DEF Push, Recorded, TypeOK
  <2> QED
    BY <1>5, <2>1, <2>2, <2>3, <2>4 DEF Settled
<1> QED
  BY <1>6, <1>7

\* The edge that is handled was the oldest: if it was the switch's only one the mode is
\* now what was believed, and otherwise what was believed still waits.
LEMMA HandleSettles ==
  ASSUME IndInv, TypeOK', Advance, Settled
  PROVE  Settled'
<1>1. IsQueue /\ IsQueue'
  BY ContentsType, PTL DEF IndInv
<1>2. F!Handle
  BY AdvanceHandles
<1>3. /\ Contents \in Seq(Events) /\ Contents # << >> /\ Len(Contents) = Count
      /\ Contents' = Tail(Contents) /\ handled' = Contents[1] /\ Count' = Len(Contents')
  BY <1>1, <1>2 DEF F!Handle, IsQueue
<1>4. /\ Count \in Nat /\ Count >= 1 /\ Count' = Count - 1
      /\ \A i \in 1 .. Count - 1 : Contents'[i] = Contents[i + 1]
  <2>1. Count \in Nat /\ Count # 0
    BY <1>3
  <2> QED
    BY <1>3, <2>1, HeadTailProperties
<1>5. /\ level' = level /\ raised' = raised /\ missed' = missed /\ pop # "boot" /\ pop' # "boot"
      /\ manualMode' = IF Contents[1].id = Switch THEN Contents[1].pressed ELSE manualMode
  BY <1>3 DEF Advance, pins
<1>6. \A i : i \in SwitchEvents' <=> i \in 1 .. Count - 1 /\ i + 1 \in SwitchEvents
  <2>1. \A i \in 1 .. Count - 1 : i + 1 \in 1 .. Count
    BY <1>4
  <2> QED
    BY <1>4, <2>1 DEF SwitchEvents
<1>7. Believed' = Believed
  <2>1. CASE SwitchEvents = {}
    <3>1. SwitchEvents' = {} /\ Contents[1].id # Switch
      BY <1>4, <1>6, <2>1 DEF SwitchEvents
    <3> QED
      BY <1>5, <2>1, <3>1 DEF Believed
  <2>2. CASE SwitchEvents # {}
    <3>1. PICK i \in SwitchEvents : \A j \in SwitchEvents : j <= i
      <4>1. SwitchEvents \in SUBSET (1 .. Count)
        BY DEF SwitchEvents
      <4> QED
        BY <1>4, <2>2, <4>1, LastPlace
    <3>2. Believed = Contents[i].pressed /\ i \in 1 .. Count /\ Contents[i].id = Switch
      BY <1>1, <3>1, NewestBelieved DEF SwitchEvents
    <3>3. CASE i = 1
      <4>1. SwitchEvents' = {}
        <5> SUFFICES ASSUME NEW j \in SwitchEvents' PROVE FALSE
          OBVIOUS
        <5>1. j \in 1 .. Count - 1 /\ j + 1 <= 1
          BY <1>6, <3>1, <3>3
        <5> QED
          BY <1>4, <5>1
      <4> QED
        BY <1>5, <3>2, <3>3, <4>1 DEF Believed
    <3>4. CASE i # 1
      <4>1. i - 1 \in 1 .. Count - 1 /\ (i - 1) + 1 = i
        BY <1>4, <3>2, <3>4
      <4>2. i - 1 \in SwitchEvents' /\ Contents'[i - 1] = Contents[i]
        BY <1>4, <1>6, <3>1, <4>1
      <4>3. ASSUME NEW j \in SwitchEvents' PROVE j <= i - 1
        <5>1. j \in Int /\ i \in Int /\ j + 1 <= i
          BY <1>4, <1>6, <3>1, <3>2
        <5> QED
          BY <5>1
      <4>4. NewestIsBelieved'
        BY <1>1, NewestAlways, PTL
      <4> QED
        BY <3>2, <4>2, <4>3, <4>4 DEF NewestIsBelieved
    <3> QED
      BY <3>3, <3>4
  <2> QED
    BY <2>1, <2>2
<1> QED
  BY <1>5, <1>7 DEF Settled

\* Every step keeps what is believed settled.
LEMMA StepSettles == IndInv /\ IndInv' /\ Settled /\ [Next]_vars => Settled'
<1> SUFFICES ASSUME IndInv, IndInv', Settled, [Next]_vars PROVE Settled'
  OBVIOUS
<1>0. TypeOK /\ TypeOK'
  BY DEF IndInv
<1>1. ASSUME UNCHANGED <<ring, head, tail>>
      PROVE  UNCHANGED <<Contents, Count, SwitchEvents>>
  BY <1>1 DEF Contents, Count, SlotOf, SwitchEvents
<1>2. ASSUME UNCHANGED <<ring, head, tail, manualMode>>
      PROVE  UNCHANGED <<SwitchEvents, Believed>>
  BY <1>1, <1>2 DEF Believed
<1>3. CASE Advance
  BY <1>0, <1>3, HandleSettles
<1>4. ASSUME NEW id \in Inputs, Push(id) PROVE Settled'
  <2>1. CASE Recorded(id)
    BY <1>0, <1>4, <2>1, RecordSettles
  <2>2. CASE ~Recorded(id)
    <3>1. /\ UNCHANGED <<ring, head, reader, level>> /\ raised' = raised \ {id}
          /\ missed' = (missed \/ id = Switch)
      BY <1>4, <2>2 DEF Push, Recorded
    <3>2. UNCHANGED <<SwitchEvents, Believed>>
      BY <1>2, <3>1 DEF reader
    <3> QED
      BY <3>1, <3>2 DEF Settled, reader
  <2> QED
    BY <2>1, <2>2
<1>5. CASE Setup
  <2>1. /\ UNCHANGED <<ring, head, tail, pins, missed>> /\ pop = "boot"
        /\ manualMode' = level[Switch]
    BY <1>5 DEF Setup
  <2>2. UNCHANGED <<Contents, SwitchEvents>>
    BY <1>1, <2>1
  <2>3. CASE SwitchEvents = {}
    BY <2>1, <2>2, <2>3 DEF Settled, Believed, pins
  <2>4. CASE SwitchEvents # {}
    <3>1. Believed' = Believed
      BY <2>2, <2>4 DEF Believed
    <3> QED
      BY <2>1, <2>2, <2>4, <3>1 DEF Settled, pins
  <2> QED
    BY <2>3, <2>4
<1>6. ASSUME NEW id \in Inputs, Edge(id) PROVE Settled'
  <2>1. /\ UNCHANGED <<ring, head, tail, manualMode, pop, missed>>
        /\ raised' = raised \cup {id} /\ level' = [level EXCEPT ![id] = ~@]
    BY <1>6 DEF Edge, reader
  <2>2. UNCHANGED <<SwitchEvents, Believed>>
    BY <1>2, <2>1
  <2>3. id # Switch => level'[Switch] = level[Switch]
    BY <1>0, <2>1, QueueAssumption DEF TypeOK
  <2> QED
    BY <2>1, <2>2, <2>3 DEF Settled
<1>7. CASE Look \/ CopyId \/ CopyPressed \/ Time \/ UNCHANGED vars
  <2>1. /\ UNCHANGED <<ring, head, tail, manualMode, pins, missed>>
        /\ (pop' = "boot" <=> pop = "boot")
    BY <1>7 DEF Look, CopyId, CopyPressed, Time, vars, reader
  <2>2. UNCHANGED <<SwitchEvents, Believed>>
    BY <1>2, <2>1
  <2> QED
    BY <2>1, <2>2 DEF Settled, pins
<1> QED
  BY <1>3, <1>4, <1>5, <1>6, <1>7 DEF Next, Loop

\* The mode ends as the switch stands, whatever the boot, the loop and the edges do,
\* unless the switch's latest edge was ignored or dropped.
THEOREM ModeFollows == Spec => []ModeFollowsSwitch
<1>1. Init => Settled
  <2> SUFFICES ASSUME Init PROVE Settled
    OBVIOUS
  <2>1. Count = 0
    BY InitInv, EmptyRing DEF Init, IndInv
  <2>2. SwitchEvents = {}
    BY <2>1 DEF SwitchEvents
  <2> QED
    BY <2>2 DEF Init, Settled
<1>2. Settled => ModeFollowsSwitch
  BY DEF Settled, ModeFollowsSwitch
<1> QED
  BY <1>1, <1>2, InitInv, NextInv, StepSettles, PTL DEF Spec, Safety
=============================================================================
