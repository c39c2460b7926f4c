---------------------------- MODULE SdLogProofs ----------------------------
(***************************************************************************)
(* The session log, for every size of the ring and of a chunk, every set   *)
(* of line lengths and every limit: the card is left alone once it was     *)
(* given up and outside the gearbox's idle states, every wait is bounded,  *)
(* and the ring implements a log of whole lines.                           *)
(***************************************************************************)
EXTENDS SdLog, TLAPS, SequenceTheorems

----------------------------------------------------------------------------
(* Arithmetic of the ring.                                                 *)

LEMMA ModSlot == \A a \in Int : a % RingLen \in Slots
BY LengthsAssumption, SMT DEF Slots

LEMMA ModSmall == \A a \in Slots : a % RingLen = a
BY LengthsAssumption, SMT DEF Slots

LEMMA ModOver == \A a \in RingLen .. (2 * RingLen - 1) : a % RingLen = a - RingLen
BY LengthsAssumption, SMT

LEMMA ModUnder == \A a \in -RingLen .. -1 : a % RingLen = a + RingLen
BY LengthsAssumption, SMT

\* How far one slot is after another.
Gap(from, to) == (to - from) % RingLen

\* The slot k after another is k after it.
LEMMA GapOfAfter ==
  ASSUME NEW s \in Slots, NEW k \in Slots
  PROVE  /\ (s + k) % RingLen \in Slots
         /\ Gap(s, (s + k) % RingLen) = k
<1>1. RingLen \in Nat /\ RingLen > 1 /\ s \in 0 .. (RingLen - 1) /\ k \in 0 .. (RingLen - 1)
  BY LengthsAssumption DEF Slots
<1>2. CASE s + k < RingLen
  <2>1. (s + k) % RingLen = s + k
    BY <1>1, <1>2, ModSmall DEF Slots
  <2>2. (s + k) - s = k /\ k % RingLen = k
    BY <1>1, ModSmall
  <2> QED
    BY <1>1, <1>2, <2>1, <2>2 DEF Gap, Slots
<1>3. CASE s + k >= RingLen
  <2>1. (s + k) % RingLen = s + k - RingLen
    BY <1>1, <1>3, ModOver
  <2>2. s + k - RingLen - s = k - RingLen /\ k - RingLen \in -RingLen .. -1
    BY <1>1
  <2>3. (k - RingLen) % RingLen = k
    BY <1>1, <2>2, ModUnder
  <2> QED
    BY <1>1, <1>3, <2>1, <2>2, <2>3 DEF Gap, Slots
<1> QED
  BY <1>1, <1>2, <1>3

\* The slot the gap after another is the slot itself.
LEMMA AfterGap ==
  ASSUME NEW s \in Slots, NEW t \in Slots
  PROVE  /\ Gap(s, t) \in Slots
         /\ (s + Gap(s, t)) % RingLen = t
<1>1. RingLen \in Nat /\ RingLen > 1 /\ s \in 0 .. (RingLen - 1) /\ t \in 0 .. (RingLen - 1)
  BY LengthsAssumption DEF Slots
<1>2. CASE t >= s
  <2>1. Gap(s, t) = t - s
    BY <1>1, <1>2, ModSmall DEF Gap, Slots
  <2>2. s + (t - s) = t /\ t % RingLen = t
    BY <1>1, ModSmall
  <2> QED
    BY <1>1, <1>2, <2>1, <2>2 DEF Slots
<1>3. CASE t < s
  <2>1. Gap(s, t) = t - s + RingLen
    <3>1. t - s \in -RingLen .. -1
      BY <1>1, <1>3
    <3> QED
      BY <3>1, ModUnder DEF Gap
  <2>2. s + (t - s + RingLen) = t + RingLen /\ t + RingLen \in RingLen .. (2 * RingLen - 1)
    BY <1>1
  <2>3. (t + RingLen) % RingLen = t
    BY <1>1, <2>2, ModOver
  <2> QED
    BY <1>1, <1>3, <2>1, <2>2, <2>3 DEF Slots
<1> QED
  BY <1>1, <1>2, <1>3

\* Gaps add up, as long as they do not go round.
LEMMA GapsAdd ==
  ASSUME NEW s \in Slots, NEW j \in Slots, NEW k \in Slots, j + k \in Slots
  PROVE  (((s + j) % RingLen) + k) % RingLen = (s + (j + k)) % RingLen
<1>1. RingLen \in Nat /\ RingLen > 1 /\ s \in 0 .. (RingLen - 1) /\ j \in 0 .. (RingLen - 1)
      /\ k \in 0 .. (RingLen - 1) /\ j + k \in 0 .. (RingLen - 1)
  BY LengthsAssumption DEF Slots
<1>2. CASE s + j < RingLen
  <2>1. (s + j) % RingLen = s + j
    BY <1>1, <1>2, ModSmall DEF Slots
  <2> QED
    BY <1>1, <2>1
<1>3. CASE s + j >= RingLen
  <2>1. (s + j) % RingLen = s + j - RingLen
    BY <1>1, <1>3, ModOver
  <2>2. s + j - RingLen + k \in 0 .. (RingLen - 1)
    BY <1>1, <1>3
  <2>3. (s + j - RingLen + k) % RingLen = s + j - RingLen + k
    BY <2>2, ModSmall DEF Slots
  <2>4. (s + (j + k)) % RingLen = s + (j + k) - RingLen
    BY <1>1, <1>3, ModOver
  <2> QED
    BY <1>1, <2>1, <2>3, <2>4
<1> QED
  BY <1>1, <1>2, <1>3

----------------------------------------------------------------------------
(* Types, and what is known of the card.                                   *)

\* During an operation the gearbox is idle and the log open or being opened.  While
\* the card is polled it has been busy for as long as it was waited for, and the last
\* poll came before the limit.
CardInv ==
  /\ op # "none" => idle
  /\ op \in {"write", "sync"} => ready
  /\ op = "open" => head = tail /\ ~ready
  /\ phase \in AtCard => ~cardStuck
  /\ ~cardStuck /\ phase # "poll" => ~busyTiming
  /\ waited <= BusyLimit
  /\ phase = "poll" => IF busyTiming THEN busyAge = waited ELSE waited = 0
  /\ phase = "poll" /\ polled => busyTiming /\ waited < BusyLimit

IndInv == TypeOK /\ CardInv

LEMMA InitInv == Init => IndInv
<1> SUFFICES ASSUME Init PROVE IndInv
  OBVIOUS
<1>1. 0 \in Slots /\ NoByte \in Bytes
  BY LengthsAssumption DEF Slots, Bytes
<1>2. TypeOK
  <2>1. ring \in [Slots -> Bytes] /\ head \in Slots /\ tail \in Slots
    BY <1>1 DEF Init
  <2>2. 0 \in 0 .. FlushAfter /\ 0 \in 0 .. SyncEvery
    BY TimesAssumption
  <2> QED
    BY <2>1, <2>2 DEF Init, TypeOK
<1>3. CardInv
  BY TimesAssumption DEF Init, CardInv, AtCard
<1> QED
  BY <1>2, <1>3 DEF IndInv

\* A line put in is made of bytes, and the head stays a slot.
LEMMA PutTypes ==
  ASSUME TypeOK, NEW n \in LineLens \cup {HeaderLen}, Put(n)
  PROVE  ring' \in [Slots -> Bytes] /\ head' \in Slots
<1>1. n \in Nat \ {0} /\ head \in Int
  BY LengthsAssumption DEF TypeOK, Slots
<1>2. head' \in Slots
  BY <1>1, ModSlot DEF Put
<1>3. ASSUME NEW k \in Slots, (k - head) % RingLen < n
      PROVE  <<n, ((k - head) % RingLen) + 1>> \in Bytes
  <2>1. (k - head) % RingLen \in Nat
    <3>1. k - head \in Int
      BY <1>1, LengthsAssumption DEF Slots
    <3> QED
      BY <3>1, ModSlot, LengthsAssumption DEF Slots
  <2>2. ((k - head) % RingLen) + 1 \in 1 .. n
    BY <2>1, <1>3, <1>1
  <2> QED
    BY <2>2 DEF Bytes
<1>4. \A k \in Slots : ring[k] \in Bytes
  BY DEF TypeOK
<1>5. ring' \in [Slots -> Bytes]
  BY <1>3, <1>4 DEF Put
<1> QED
  BY <1>2, <1>5

\* What is in the ring is less than the ring.
LEMMA UsedType == TypeOK => Used \in Slots
<1> SUFFICES ASSUME TypeOK PROVE Used \in Slots
  OBVIOUS
<1>1. head - tail \in Int
  BY LengthsAssumption DEF TypeOK, Slots
<1> QED
  BY <1>1, ModSlot DEF Used

LEMMA TakenType == ASSUME TypeOK, op = "write" PROVE Taken \in 1 .. Used /\ Taken \in Slots
BY UsedType, LengthsAssumption DEF TypeOK, Taken, Slots

LEMMA LineInv ==
  ASSUME IndInv, NEW n \in LineLens, SdLogLine(n)
  PROVE  IndInv'
<1> USE DEF IndInv
<1>1. ring' \in [Slots -> Bytes] /\ head' \in Slots
  BY PutTypes DEF SdLogLine
<1>2. op = "none"
  BY DEF SdLogLine, TypeOK
<1>3. TypeOK'
  BY <1>1, <1>2 DEF SdLogLine, TypeOK, log, ages, card, busy, where
<1>4. CardInv'
  BY <1>2 DEF SdLogLine, CardInv, AtCard, log, ages, card, busy, where
<1> QED
  BY <1>3, <1>4

LEMMA TickInv == ASSUME IndInv, SdLogTick PROVE IndInv'
<1> USE DEF IndInv
<1>1. WriteDue => Used > 0
  BY UsedType, LengthsAssumption DEF WriteDue, Slots
<1>2. Used' = Used
  BY DEF SdLogTick, log, Used
<1>3. TypeOK'
  BY <1>1, <1>2 DEF SdLogTick, TypeOK, log, ages, card, busy, where
<1>4. CardInv'
  BY DEF SdLogTick, CardInv, TypeOK, AtCard, log, ages, card, busy, where
<1> QED
  BY <1>3, <1>4

LEMMA ReturnInv == ASSUME IndInv, Return PROVE IndInv'
<1> USE DEF IndInv
<1>1. PICK ok \in BOOLEAN : Opened(ok) \/ Written(ok) \/ Synced
  BY DEF Return
<1>2. ring' \in [Slots -> Bytes] /\ head' \in Slots
  <2>1. CASE Put(HeaderLen)
    BY <2>1, PutTypes
  <2>2. CASE UNCHANGED <<ring, head>>
    BY <2>2 DEF TypeOK
  <2> QED
    BY <1>1, <2>1, <2>2 DEF Opened, Written, Synced, log
<1>3. tail' \in Slots
  <2>1. op = "write" => (tail + Taken) % RingLen \in Slots
    <3> SUFFICES ASSUME op = "write" PROVE (tail + Taken) % RingLen \in Slots
      OBVIOUS
    <3>1. tail + Taken \in Int
      BY TakenType, LengthsAssumption DEF TypeOK, Slots
    <3> QED
      BY <3>1, ModSlot
  <2> QED
    BY <1>1, <2>1 DEF Opened, Written, Synced, log, TypeOK
<1>4. ready' \in BOOLEAN /\ dirty' \in BOOLEAN
      /\ writeAge' \in 0 .. FlushAfter /\ syncAge' \in 0 .. SyncEvery
  <2>1. 0 \in 0 .. FlushAfter /\ 0 \in 0 .. SyncEvery
    BY TimesAssumption
  <2>2. CASE Opened(ok)
    BY <2>1, <2>2 DEF Opened, log, ages, TypeOK
  <2>3. CASE Written(ok)
    BY <2>1, <2>3 DEF Written, ages, TypeOK
  <2>4. CASE Synced
    BY <2>1, <2>4 DEF Synced, ages, TypeOK
  <2> QED
    BY <1>1, <2>2, <2>3, <2>4
<1>5. TypeOK'
  BY <1>2, <1>3, <1>4 DEF Return, TypeOK, card, busy
<1>6. CardInv'
  BY DEF Return, CardInv, AtCard, card, busy, TypeOK
<1> QED
  BY <1>5, <1>6

LEMMA CallsInv == ASSUME IndInv, Calls PROVE IndInv'
<1> USE DEF IndInv, log, ages, busy, where
<1>1. CASE Transfer
  <2>1. TypeOK'
    BY <1>1 DEF Transfer, TypeOK, Used
  <2>2. CardInv'
    BY <1>1, TimesAssumption DEF Transfer, CardInv, AtCard, TypeOK
  <2> QED
    BY <2>1, <2>2
<1>2. ASSUME NEW ok \in BOOLEAN, TransferEnds(ok) PROVE IndInv'
  <2>1. TypeOK'
    BY <1>2 DEF TransferEnds, TypeOK, Used
  <2>2. CardInv'
    BY <1>2, TimesAssumption DEF TransferEnds, CardInv, AtCard, TypeOK
  <2> QED
    BY <2>1, <2>2
<1>3. CASE PollReady
  <2>1. TypeOK'
    BY <1>3 DEF PollReady, TypeOK, Used
  <2>2. CardInv'
    BY <1>3, TimesAssumption DEF PollReady, CardInv, AtCard, TypeOK
  <2> QED
    BY <2>1, <2>2
<1>4. CASE PollBusy
  <2>1. busyAge' \in Nat
    BY <1>4 DEF PollBusy, TypeOK
  <2>2. TypeOK'
    <3>1. /\ cardStuck' \in BOOLEAN /\ phase' \in {"lib", "poll"} /\ phase = "poll"
          /\ waited' \in Nat /\ busyTiming' \in BOOLEAN /\ polled' \in BOOLEAN
      <4>1. CASE busyAge' >= BusyLimit
        <5>1. cardStuck' = TRUE /\ phase' = "lib" /\ waited' = 0
          BY <1>4, <4>1 DEF PollBusy
        <5> QED
          BY <1>4, <5>1 DEF PollBusy
      <4>2. CASE ~(busyAge' >= BusyLimit)
        BY <1>4, <4>2 DEF PollBusy, TypeOK
      <4> QED
        BY <4>1, <4>2
    <3> QED
      BY <1>4, <2>1, <3>1 DEF PollBusy, TypeOK, Used
  <2>3. CardInv'
    BY <1>4, <2>1, TimesAssumption DEF PollBusy, CardInv, AtCard, TypeOK
  <2> QED
    BY <2>2, <2>3
<1> QED
  BY <1>1, <1>2, <1>3, <1>4 DEF Calls

LEMMA WorldInv == ASSUME IndInv, World PROVE IndInv'
<1> USE DEF IndInv, log, ages, busy, where, card
<1>1. CASE Time
  <2>1. writeAge' \in 0 .. FlushAfter /\ syncAge' \in 0 .. SyncEvery
    BY <1>1, TimesAssumption DEF Time, Older, TypeOK
  <2>2. TypeOK'
    <3>1. waited' \in Nat /\ busyAge' \in Nat /\ polled' \in BOOLEAN
      <4>1. CASE phase \in {"transfer", "poll"}
        <5>1. waited' = waited + 1 /\ busyAge' \in {busyAge, busyAge + 1}
          BY <1>1, <4>1 DEF Time
        <5>2. waited \in Nat /\ busyAge \in Nat
          BY DEF TypeOK
        <5>3. waited' \in Nat /\ busyAge' \in Nat
          BY <5>1, <5>2
        <5> QED
          BY <1>1, <5>3 DEF Time
      <4>2. CASE phase \notin {"transfer", "poll"}
        BY <1>1, <4>2 DEF Time, TypeOK
      <4> QED
        BY <4>1, <4>2
    <3> QED
      BY <1>1, <2>1, <3>1 DEF Time, TypeOK, Used
  <2>3. CardInv'
    BY <1>1, TimesAssumption DEF Time, CardInv, AtCard, TypeOK
  <2> QED
    BY <2>2, <2>3
<1>2. CASE GearboxMoves
  <2>1. TypeOK'
    BY <1>2 DEF GearboxMoves, TypeOK, Used
  <2>2. CardInv'
    BY <1>2 DEF GearboxMoves, CardInv, AtCard, TypeOK
  <2> QED
    BY <2>1, <2>2
<1>3. CASE PowerCycle
  <2>1. 0 \in Slots /\ NoByte \in Bytes
    BY LengthsAssumption DEF Slots, Bytes
  <2>2. TypeOK'
    <3>1. ring' \in [Slots -> Bytes] /\ head' \in Slots /\ tail' \in Slots
      BY <1>3, <2>1 DEF PowerCycle
    <3>2. 0 \in 0 .. FlushAfter /\ 0 \in 0 .. SyncEvery
      BY TimesAssumption
    <3> QED
      BY <1>3, <3>1, <3>2 DEF PowerCycle, TypeOK
  <2>3. CardInv'
    BY <1>3, TimesAssumption DEF PowerCycle, CardInv, AtCard
  <2> QED
    BY <2>2, <2>3
<1> QED
  BY <1>1, <1>2, <1>3 DEF World

LEMMA NextInv == IndInv /\ [Next]_vars => IndInv'
<1> SUFFICES ASSUME IndInv, [Next]_vars PROVE IndInv'
  OBVIOUS
<1>1. CASE UNCHANGED vars
  BY <1>1 DEF vars, log, ages, card, busy, where, IndInv, TypeOK, CardInv, AtCard, Used
<1> QED
  BY <1>1, LineInv, TickInv, ReturnInv, CallsInv, WorldInv DEF Next, Loop

\* The variables keep their types.
THEOREM TypeCorrect == Spec => []TypeOK
<1>1. IndInv => TypeOK
  BY DEF IndInv
<1> QED
  BY <1>1, InitInv, NextInv, PTL DEF Spec, Safety

\* A card that was given up is never called again before the next boot, and no card
\* is called while the gearbox shifts.
THEOREM DeadCardsUntouched == Spec => []DeadCardUntouched
<1>1. IndInv => DeadCardUntouched
  BY DEF IndInv, TypeOK, CardInv, DeadCardUntouched, AtCard
<1> QED
  BY <1>1, InitInv, NextInv, PTL DEF Spec, Safety

\* Every wait for the card ends at the limit at the latest, and only a wait that long,
\* or a transfer that failed, gives the card up.
THEOREM CardsGivenUpInTime == Spec => GivenUpInTime
<1>1. IndInv /\ IndInv' /\ [Next]_vars
        => [ /\ waited' <= BusyLimit
             /\ cardStuck' /\ ~cardStuck => phase = "transfer" \/ waited = BusyLimit ]_vars
  <2> SUFFICES ASSUME IndInv, IndInv', [Next]_vars, cardStuck', ~cardStuck
               PROVE  phase = "transfer" \/ waited = BusyLimit
    BY DEF IndInv, CardInv
  <2> USE DEF log, ages, card, busy, where
  <2>1. PollBusy \/ \E ok \in BOOLEAN : TransferEnds(ok)
    BY DEF Next, vars, Loop, SdLogLine, SdLogTick, Return, Calls, Transfer, PollReady, World, Time, GearboxMoves,
       PowerCycle, IndInv, TypeOK
  <2>2. CASE PollBusy
    <3>1. busyAge' >= BusyLimit
      BY <2>2 DEF PollBusy
    <3>2. busyTiming /\ busyAge' = busyAge /\ phase = "poll"
      BY <2>2, <3>1, TimesAssumption DEF PollBusy
    <3>3. busyAge = waited /\ waited <= BusyLimit /\ waited \in Nat
      BY <3>2 DEF IndInv, CardInv, TypeOK
    <3> QED
      BY <3>1, <3>2, <3>3, TimesAssumption
  <2> QED
    BY <2>1, <2>2 DEF TransferEnds
<1> QED
  BY <1>1, InitInv, NextInv, PTL DEF Spec, Safety, GivenUpInTime

----------------------------------------------------------------------------
(* The ring is a log of whole lines.                                       *)

IsQueue == Contents \in Seq(Bytes) /\ Len(Contents) = Used

LEMMA ContentsType == TypeOK => IsQueue
<1> SUFFICES ASSUME TypeOK PROVE IsQueue
  OBVIOUS
<1>1. Used \in Nat
  BY UsedType, LengthsAssumption DEF Slots
<1>2. ASSUME NEW i \in 1 .. Used PROVE ring[(tail + i - 1) % RingLen] \in Bytes
  <2>1. tail + i - 1 \in Int
    BY <1>1, LengthsAssumption DEF TypeOK, Slots
  <2> QED
    BY <2>1, ModSlot DEF TypeOK
<1> QED
  BY <1>1, <1>2 DEF IsQueue, Contents

\* The head is as far after the tail as the ring is used, and the i-th byte is in the
\* slot i - 1 after the tail.
LEMMA Places ==
  ASSUME TypeOK
  PROVE  /\ Used \in Slots /\ Used = Gap(tail, head)
         /\ head = (tail + Used) % RingLen
         /\ \A i \in 1 .. Used : /\ i - 1 \in Slots
                                /\ (tail + i - 1) % RingLen = (tail + (i - 1)) % RingLen
<1>1. tail \in Slots /\ head \in Slots /\ Used \in Slots /\ Used = Gap(tail, head)
  BY UsedType DEF TypeOK, Used, Gap
<1>2. head = (tail + Used) % RingLen
  BY <1>1, AfterGap
<1>3. ASSUME NEW i \in 1 .. Used
      PROVE  i - 1 \in Slots /\ (tail + i - 1) % RingLen = (tail + (i - 1)) % RingLen
  <2>1. i - 1 \in Slots /\ tail + i - 1 = tail + (i - 1)
    BY <1>1, LengthsAssumption DEF Slots
  <2> QED
    BY <2>1
<1> QED
  BY <1>1, <1>2, <1>3

\* A line put into a ring that has room for it follows what is there.
LEMMA PutAppends ==
  ASSUME TypeOK, TypeOK', NEW n \in Nat \ {0}, Put(n), Room(n), UNCHANGED tail
  PROVE  Contents' = Contents \o [i \in 1 .. n |-> <<n, i>>]
<1> DEFINE U == Used
<1>1. /\ tail \in Slots /\ head \in Slots /\ U \in Slots /\ n \in Slots /\ U + n \in Slots
  <2>1. U \in Slots
    BY UsedType
  <2>2. RingLen \in Nat /\ U \in Nat /\ RingLen - 1 - U >= n
    BY <2>1, LengthsAssumption DEF Slots, Room
  <2> QED
    BY <2>1, <2>2 DEF Slots, TypeOK
<1>2. head = (tail + U) % RingLen
  BY Places
<1>3. head' = (tail + (U + n)) % RingLen
  BY <1>1, <1>2, GapsAdd DEF Put
<1>4. Used' = U + n
  <2>1. Used' = Gap(tail, head')
    BY DEF Used, Gap
  <2> QED
    BY <2>1, <1>1, <1>3, GapOfAfter
<1>5. ASSUME NEW g \in Slots, U + g \in Slots
      PROVE  Gap(head, (tail + (U + g)) % RingLen) = g /\ (tail + (U + g)) % RingLen \in Slots
  <2>1. (tail + (U + g)) % RingLen = (head + g) % RingLen
    BY <1>1, <1>2, <1>5, GapsAdd
  <2> QED
    BY <2>1, <1>1, GapOfAfter
<1>6. ASSUME NEW i \in 1 .. (U + n)
      PROVE  ring'[(tail + i - 1) % RingLen]
               = IF i <= U THEN ring[(tail + i - 1) % RingLen] ELSE <<n, i - U>>
  <2> DEFINE slot == (tail + i - 1) % RingLen
  <2>1. i - 1 \in Slots /\ slot = (tail + (i - 1)) % RingLen /\ U \in Nat /\ n \in Nat
    <3>1. i - 1 \in Slots /\ tail + i - 1 = tail + (i - 1)
      BY <1>1, LengthsAssumption DEF Slots
    <3> QED
      BY <3>1, <1>1, LengthsAssumption DEF Slots
  <2>2. slot \in Slots /\ Gap(tail, slot) = i - 1
    BY <2>1, <1>1, GapOfAfter
  <2>3. ring'[slot] = IF Gap(head, slot) < n THEN <<n, Gap(head, slot) + 1>> ELSE ring[slot]
    BY <2>2 DEF Put, Gap
  <2>4. CASE i > U
    <3>1. i - 1 - U \in Slots /\ U + (i - 1 - U) = i - 1
      BY <2>1, <2>4, <1>1, LengthsAssumption DEF Slots
    <3>2. Gap(head, slot) = i - 1 - U
      BY <3>1, <2>1, <1>5
    <3>3. i - 1 - U < n /\ (i - 1 - U) + 1 = i - U /\ ~(i <= U)
      BY <2>1, <2>4
    <3> QED
      BY <2>3, <3>2, <3>3
  <2>5. CASE i <= U
    <3>1. ASSUME NEW g \in Slots, slot = (head + g) % RingLen, g < n PROVE FALSE
      <4>1. U + g \in Slots /\ g \in Nat
        BY <3>1, <1>1, LengthsAssumption DEF Slots
      <4>2. slot = (tail + (U + g)) % RingLen
        BY <3>1, <4>1, <1>1, <1>2, GapsAdd
      <4>3. Gap(tail, slot) = U + g
        BY <4>1, <4>2, <1>1, GapOfAfter
      <4> QED
        BY <4>1, <4>3, <2>1, <2>2, <2>5
    <3>2. Gap(head, slot) \in Slots /\ slot = (head + Gap(head, slot)) % RingLen
      BY <2>2, <1>1, AfterGap
    <3> QED
      BY <3>1, <3>2, <2>3, <2>5
  <2> QED
    BY <2>1, <2>4, <2>5
<1>7. Contents' = [i \in 1 .. (U + n) |-> IF i <= U THEN ring[(tail + i - 1) % RingLen]
                                                     ELSE <<n, i - U>>]
  BY <1>4, <1>6 DEF Contents
<1>8. U \in Nat /\ n \in Nat
  BY <1>1, LengthsAssumption DEF Slots
<1>9. Contents = [i \in 1 .. U |-> ring[(tail + i - 1) % RingLen]]
  BY DEF Contents
<1> HIDE DEF U
<1> QED
  BY <1>7, <1>8, <1>9

\* What a write takes are the first bytes.
LEMMA WriteTakes ==
  ASSUME TypeOK, TypeOK', NEW k \in 1 .. Used, tail' = (tail + k) % RingLen, UNCHANGED <<ring, head>>
  PROVE  Contents' = SubSeq(Contents, k + 1, Len(Contents))
<1> DEFINE U == Used
<1>1. /\ tail \in Slots /\ head \in Slots /\ U \in Slots /\ k \in Slots /\ U - k \in Slots
      /\ tail' \in Slots /\ k + (U - k) = U /\ k \in Nat /\ U \in Nat
  BY UsedType, LengthsAssumption DEF TypeOK, Slots
<1>2. head = (tail + U) % RingLen
  BY Places
<1>3. Used' = U - k
  <2>1. head = (tail' + (U - k)) % RingLen
    BY <1>1, <1>2, GapsAdd
  <2>2. Gap(tail', head) = U - k
    BY <2>1, <1>1, GapOfAfter
  <2> QED
    BY <2>2 DEF Used, Gap
<1>4. ASSUME NEW i \in 1 .. (U - k)
      PROVE  (tail' + i - 1) % RingLen = (tail + (k + i) - 1) % RingLen
  <2>1. i - 1 \in Slots /\ k + (i - 1) \in Slots /\ tail' + i - 1 = tail' + (i - 1)
        /\ tail + (k + i) - 1 = tail + (k + (i - 1))
    BY <1>1, LengthsAssumption DEF Slots
  <2> QED
    BY <2>1, <1>1, GapsAdd
<1>5. Contents' = [i \in 1 .. (U - k) |-> ring[(tail + (k + i) - 1) % RingLen]]
  BY <1>3, <1>4 DEF Contents
<1>6. Contents \in Seq(Bytes) /\ Len(Contents) = U
  BY ContentsType DEF IsQueue
<1>7. \A i \in 1 .. U : Contents[i] = ring[(tail + i - 1) % RingLen]
  BY DEF Contents
<1>8. SubSeq(Contents, k + 1, U) = [i \in 1 .. (U - k) |-> Contents[k + i]]
  <2> HIDE DEF U
  <2>1. SubSeq(Contents, k + 1, U) = [i \in 1 .. (U - (k + 1) + 1) |-> Contents[i + (k + 1) - 1]]
    BY <1>1, <1>6
  <2>2. U - (k + 1) + 1 = U - k /\ \A i \in 1 .. (U - k) : i + (k + 1) - 1 = k + i
    BY <1>1
  <2> QED
    BY <2>1, <2>2
<1>9. \A i \in 1 .. (U - k) : k + i \in 1 .. U
  BY <1>1
<1> HIDE DEF U
<1> QED
  BY <1>5, <1>6, <1>7, <1>8, <1>9

LEMMA StepRefines == IndInv /\ IndInv' /\ [Next]_vars => [Kept!Next]_<<Contents, Standing>>
<1> SUFFICES ASSUME IndInv, IndInv', [Next]_vars
             PROVE  Kept!Next \/ UNCHANGED <<Contents, Standing>>
  OBVIOUS
<1> USE DEF IndInv, log, ages, card, busy, where
<1>1. ASSUME UNCHANGED <<ring, head, tail, ready, op>> PROVE UNCHANGED <<Contents, Standing>>
  BY <1>1 DEF Contents, Used, Standing
<1>2. ASSUME NEW n \in LineLens, SdLogLine(n) PROVE Kept!Next
  <2>1. Room(n) /\ Put(n) /\ UNCHANGED <<tail, ready, op>> /\ ready /\ op = "none"
        /\ n \in Nat \ {0}
    BY <1>2, LengthsAssumption DEF SdLogLine, TypeOK
  <2>2. Contents' = Contents \o Kept!Line(n)
    BY <2>1, PutAppends DEF Kept!Line
  <2>3. Len(Contents) + n <= RingLen - 1
    BY <2>1, ContentsType, UsedType, LengthsAssumption DEF IsQueue, Room, Slots
  <2>4. Standing = "on" /\ Standing' = "on"
    BY <2>1 DEF Standing
  <2> QED
    BY <2>2, <2>3, <2>4 DEF Kept!Next, Kept!Accept
<1>3. CASE SdLogTick
  <2>1. UNCHANGED <<ring, head, tail, ready>> /\ ready /\ op = "none" /\ op' \in {"write", "sync"}
    BY <1>3 DEF SdLogTick, TypeOK
  <2>2. UNCHANGED Contents
    BY <2>1 DEF Contents, Used
  <2>3. Standing = "on" /\ Standing' \in {"on", "writing"}
    BY <2>1 DEF Standing
  <2> QED
    BY <2>2, <2>3 DEF Kept!Next, Kept!Write
<1>4. CASE Return
  <2>1. PICK ok \in BOOLEAN : Opened(ok) \/ Written(ok) \/ Synced
    BY <1>4 DEF Return
  <2>2. op' = "none"
    BY <1>4 DEF Return
  <2>3. CASE Opened(ok)
    <3>1. op = "open" /\ Standing = "boot" /\ head = tail
      BY <2>3 DEF Opened, Standing, CardInv
    <3>2. CASE ok /\ ~cardStuck
      <4>1. ready' /\ Put(HeaderLen) /\ UNCHANGED tail
        BY <2>3, <3>2 DEF Opened
      <4>2. Used = 0 /\ HeaderLen \in Nat \ {0} /\ Room(HeaderLen)
        <5>1. tail \in Slots /\ head - tail = 0 /\ 0 \in Slots
          BY <3>1, LengthsAssumption DEF TypeOK, Slots
        <5>2. Used = 0
          BY <5>1, ModSmall DEF Used
        <5> QED
          BY <5>2, LengthsAssumption DEF Room
      <4>3. Contents' = Contents \o [i \in 1 .. HeaderLen |-> <<HeaderLen, i>>]
        BY <4>1, <4>2, PutAppends
      <4>4. Contents = << >>
        BY <4>2, ContentsType, EmptySeq DEF IsQueue
      <4>5. Contents' = Kept!Line(HeaderLen)
        BY <4>2, <4>3, <4>4 DEF Kept!Line
      <4>6. Standing' = "on"
        BY <4>1, <2>2 DEF Standing
      <4> QED
        BY <3>1, <4>5, <4>6 DEF Kept!Next, Kept!Open
    <3>3. CASE ~(ok /\ ~cardStuck)
      <4>1. UNCHANGED <<ring, head, tail, ready>>
        BY <2>3, <3>3 DEF Opened
      <4>2. UNCHANGED Contents /\ Standing' \in {"on", "off"}
        BY <4>1, <2>2 DEF Contents, Used, Standing
      <4>3. ~ready'
        BY <4>1, <3>1 DEF CardInv
      <4> QED
        BY <3>1, <4>2, <4>3, <2>2 DEF Kept!Next, Kept!Open, Standing
    <3> QED
      BY <3>2, <3>3
  <2>4. CASE Written(ok)
    <3>1. op = "write" /\ ready /\ Standing = "writing"
      BY <2>4 DEF Written, CardInv, Standing
    <3>2. CASE ok /\ ~cardStuck
      <4>1. tail' = (tail + Taken) % RingLen /\ UNCHANGED <<ring, head, ready>>
        BY <2>4, <3>2 DEF Written
      <4>2. Taken \in 1 .. Used /\ Taken <= Chunk
        BY <3>1, TakenType, UsedType, LengthsAssumption DEF Taken, Slots
      <4>3. Contents' = SubSeq(Contents, Taken + 1, Len(Contents))
        BY <4>1, <4>2, WriteTakes
      <4>4. Taken \in 1 .. Len(Contents)
        BY <4>2, ContentsType DEF IsQueue
      <4>5. Standing' = "on"
        BY <4>1, <3>1, <2>2 DEF Standing
      <4> QED
        BY <3>1, <4>2, <4>3, <4>4, <4>5 DEF Kept!Next, Kept!Take
    <3>3. CASE ~(ok /\ ~cardStuck)
      <4>1. UNCHANGED <<ring, head, tail>> /\ ~ready'
        BY <2>4, <3>3 DEF Written
      <4> QED
        BY <3>1, <4>1, <2>2 DEF Kept!Next, Kept!GiveUp, Standing, Contents, Used
    <3> QED
      BY <3>2, <3>3
  <2>5. CASE Synced
    <3>1. op = "sync" /\ ready /\ Standing = "on" /\ UNCHANGED <<ring, head, tail>>
      BY <2>5 DEF Synced, CardInv, Standing
    <3>2. UNCHANGED Contents
      BY <3>1 DEF Contents, Used
    <3>3. Standing' \in {"on", "off"}
      BY <2>2 DEF Standing
    <3> QED
      BY <3>1, <3>2, <3>3 DEF Kept!Next, Kept!GiveUp
  <2> QED
    BY <2>1, <2>3, <2>4, <2>5
<1>5. CASE PowerCycle
  <2>1. Standing' = "boot" /\ head' = 0 /\ tail' = 0
    BY <1>5 DEF PowerCycle, Standing
  <2>2. Used' = 0
    <3>1. 0 \in Slots /\ 0 - 0 = 0
      BY LengthsAssumption DEF Slots
    <3> QED
      BY <2>1, <3>1, ModSmall DEF Used
  <2>3. Contents' = << >>
    BY <2>2 DEF Contents
  <2> QED
    BY <2>1, <2>3 DEF Kept!Next, Kept!PowerCycle
<1>6. CASE Calls \/ Time \/ GearboxMoves \/ UNCHANGED vars
  <2>1. UNCHANGED <<ring, head, tail, ready, op>>
    BY <1>6 DEF Calls, Transfer, TransferEnds, PollReady, PollBusy, Time, GearboxMoves, vars
  <2> QED
    BY <2>1, <1>1
<1> QED
  BY <1>2, <1>3, <1>4, <1>5, <1>6 DEF Next, Loop, World

\* The ring and its operations implement the log of whole lines.
THEOREM ImplementsLog == Spec => RefinesLog
<1>1. Init => Kept!Init
  <2> SUFFICES ASSUME Init PROVE Kept!Init
    OBVIOUS
  <2>1. TypeOK /\ Used = 0
    <3>1. 0 \in Slots /\ 0 - 0 = 0
      BY LengthsAssumption DEF Slots
    <3> QED
      BY <3>1, InitInv, ModSmall DEF Init, IndInv, Used
  <2>2. Contents = << >>
    BY <2>1 DEF Contents
  <2> QED
    BY <2>2 DEF Init, Kept!Init, Standing
<1> QED
  BY <1>1, InitInv, NextInv, StepRefines, PTL DEF Spec, Safety, RefinesLog, Kept!Spec
=============================================================================
