--------------------------- MODULE CanMainProofs ---------------------------
(***************************************************************************)
(* Theorems about the main bus for every width of the clock, every timeout *)
(* and period, FIFOs of every length and every stall of the loop.          *)
(***************************************************************************)
EXTENDS CanMain, WellFoundedInduction, TLAPS

\* Widths and lengths are positive numbers.
LEMMA Positive ==
  /\ Wrap \in Nat /\ GearTimeout \in Nat /\ MaxStall \in Nat
  /\ Wrap > 0 /\ GearTimeout > 0 /\ GearTimeout < Wrap /\ MaxStall > 0
  /\ TxLen \in Nat /\ RxLen \in Nat /\ OutageCap \in Nat
  /\ TxLen > 0 /\ RxLen > 0 /\ OutageCap > 0
  /\ AgeOfReport \in Nat /\ AgeOfReport = GearTimeout + MaxStall
BY WidthsAssumption, PeriodsAssumption DEF AgeOfReport

\* A set of places in a FIFO has a last one.
LEMMA LastIndex ==
  ASSUME NEW n \in Nat, NEW S \in SUBSET (1 .. n), S # {}
  PROVE  Max(S) \in S
<1> DEFINE T == { n - i : i \in S }
<1>1. T \subseteq Nat /\ T # {}
  OBVIOUS
<1>2. PICK d \in T : \A e \in T : ~ (<<e, d>> \in OpToRel(<, Nat))
  BY <1>1, NatLessThanWellFounded, WFMin, Zenon
<1>3. \A e \in T : ~ (e < d)
  BY <1>1, <1>2 DEF OpToRel
<1>4. PICK i \in S : d = n - i
  OBVIOUS
<1>5. \A j \in S : i >= j
  <2> TAKE j \in S
  <2>1. ~ (n - j < n - i)
    BY <1>3, <1>4
  <2>2. i \in Int /\ j \in Int
    OBVIOUS
  <2> QED
    BY <2>1, <2>2
<1> QED
  BY <1>5 DEF Max

Frames   == {Other} \cup { StackFrame(t) : t \in Targets }
Received == [gear : {<< >>} \cup { <<gear>> : gear \in Heard }, age : 0 .. MaxStall]

Ages == [report : 0 .. AgeOfReport, decoded : 0 .. Wrap,
         outage : 0 .. OutageCap, commands : 0 .. TxLen]

\* The FIFOs of a node.
LEMMA NodeFifos ==
  ASSUME NEW n \in Nodes
  PROVE  /\ n.rx \in Seq(Received) /\ n.tx \in Seq(Frames)
         /\ n.lastGearMs \in Stamps /\ n.busLive \in BOOLEAN
         /\ n.gear \in Heard \cup {GEAR_UNKNOWN}
BY DEF Nodes, Frames, Received

----------------------------------------------------------------------------
(* Types.                                                                  *)

\* _tx queues the frame or leaves the node alone.
LEMMA TxType ==
  ASSUME NEW n \in Nodes, NEW frame \in Frames, Len(n.tx) <= TxLen
  PROVE  /\ Tx(n, frame) \in Nodes /\ Len(Tx(n, frame).tx) <= TxLen
         /\ Tx(n, frame).rx = n.rx /\ Tx(n, frame).lastGearMs = n.lastGearMs
<1>1. CASE Room(n)
  <2>1. n.tx \in Seq(Frames)
    BY NodeFifos
  <2>2. Append(n.tx, frame) \in Seq(Frames) /\ Len(Append(n.tx, frame)) = Len(n.tx) + 1
    BY <2>1
  <2>3. Len(n.tx) \in Nat /\ Len(n.tx) + 1 <= TxLen
    BY <1>1, <2>1, Positive DEF Room
  <2> DEFINE h == [n EXCEPT !.tx = Append(n.tx, frame)]
  <2>4. h \in Nodes /\ h.tx = Append(n.tx, frame) /\ h.rx = n.rx
        /\ h.lastGearMs = n.lastGearMs
    BY <2>2 DEF Nodes, Frames
  <2>5. Tx(n, frame) = h
    BY <1>1 DEF Tx
  <2> HIDE DEF h
  <2> QED
    BY <2>2, <2>3, <2>4, <2>5
<1>2. CASE ~Room(n)
  BY <1>2 DEF Tx
<1> QED
  BY <1>1, <1>2

\* can_tick touches neither the receive FIFO nor the gear's stamp.
LEMMA CanTickType ==
  ASSUME NEW n \in Nodes, Len(n.tx) <= TxLen, now \in Stamps
  PROVE  /\ CanTick(n) \in Nodes /\ Len(CanTick(n).tx) <= TxLen
         /\ CanTick(n).rx = n.rx /\ CanTick(n).lastGearMs = n.lastGearMs
<1>0. Other \in Frames
  BY DEF Frames
<1>1. ASSUME NEW m \in Nodes, Len(m.tx) <= TxLen
      PROVE  /\ TickRpm(m) \in Nodes /\ Len(TickRpm(m).tx) <= TxLen
             /\ TickRpm(m).rx = m.rx /\ TickRpm(m).lastGearMs = m.lastGearMs
  <2> DEFINE k == [m EXCEPT !.lastRpmMs = now]
  <2>1. k \in Nodes /\ k.tx = m.tx /\ k.rx = m.rx /\ k.lastGearMs = m.lastGearMs
    BY DEF Nodes
  <2> HIDE DEF k
  <2>2. /\ Tx(k, Other) \in Nodes /\ Len(Tx(k, Other).tx) <= TxLen
        /\ Tx(k, Other).rx = k.rx /\ Tx(k, Other).lastGearMs = k.lastGearMs
    BY <1>0, <1>1, <2>1, TxType
  <2> QED
    BY <1>1, <2>1, <2>2 DEF TickRpm, k
<1>2. ASSUME NEW m \in Nodes, Len(m.tx) <= TxLen
      PROVE  /\ TickHeartbeat(m) \in Nodes /\ Len(TickHeartbeat(m).tx) <= TxLen
             /\ TickHeartbeat(m).rx = m.rx
             /\ TickHeartbeat(m).lastGearMs = m.lastGearMs
  <2> DEFINE k == [m EXCEPT !.lastHbMs = now]
             h == Tx(k, Other)
  <2>1. k \in Nodes /\ k.tx = m.tx /\ k.rx = m.rx /\ k.lastGearMs = m.lastGearMs
    BY DEF Nodes
  <2> HIDE DEF k
  <2>2. /\ h \in Nodes /\ Len(h.tx) <= TxLen
        /\ h.rx = k.rx /\ h.lastGearMs = k.lastGearMs
    BY <1>0, <1>2, <2>1, TxType
  <2> HIDE DEF h
  <2>3. /\ Tx(h, Other) \in Nodes /\ Len(Tx(h, Other).tx) <= TxLen
        /\ Tx(h, Other).rx = h.rx /\ Tx(h, Other).lastGearMs = h.lastGearMs
    BY <1>0, <2>2, TxType
  <2> QED
    BY <1>2, <2>1, <2>2, <2>3 DEF TickHeartbeat, k, h
<1>3. /\ TickRpm(n) \in Nodes /\ Len(TickRpm(n).tx) <= TxLen
      /\ TickRpm(n).rx = n.rx /\ TickRpm(n).lastGearMs = n.lastGearMs
  BY <1>1
<1> QED
  BY <1>2, <1>3 DEF CanTick

\* The newest report in the receive FIFO.
LEMMA NewestReport ==
  ASSUME NEW n \in Nodes, GearReports(n) # {}
  PROVE  /\ Max(GearReports(n)) \in DOMAIN n.rx
         /\ n.rx[Max(GearReports(n))].gear[1] \in Heard
         /\ n.rx[Max(GearReports(n))].age \in 0 .. MaxStall
<1>1. n.rx \in Seq(Received)
  BY NodeFifos
<1>2. Len(n.rx) \in Nat /\ GearReports(n) \subseteq 1 .. Len(n.rx)
  BY <1>1 DEF GearReports
<1>3. Max(GearReports(n)) \in GearReports(n)
  BY <1>2, LastIndex
<1>4. \A i \in GearReports(n) :
        /\ i \in DOMAIN n.rx /\ n.rx[i] \in Received /\ n.rx[i].gear # << >>
  BY <1>1 DEF GearReports
<1>5. \A frame \in Received : frame.gear # << >> =>
        frame.gear[1] \in Heard /\ frame.age \in 0 .. MaxStall
  BY DEF Received
<1> QED
  BY <1>3, <1>4, <1>5

\* can_poll empties the receive FIFO, and stamps the newest report if there is one.
LEMMA CanPollType ==
  ASSUME NEW n \in Nodes, now \in Stamps
  PROVE  /\ CanPoll(n) \in Nodes /\ CanPoll(n).tx = n.tx /\ CanPoll(n).rx = << >>
         /\ CanPoll(n).lastGearMs = IF GearReports(n) = {} THEN n.lastGearMs ELSE now
<1>1. CASE n.rx = << >>
  <2>1. GearReports(n) = {}
    BY <1>1 DEF GearReports
  <2> QED
    BY <1>1, <2>1 DEF CanPoll
<1>2. CASE n.rx # << >> /\ GearReports(n) = {}
  <2>1. << >> \in Seq(Received) /\ n.rx \in Seq(Received)
    BY NodeFifos
  <2> DEFINE h == [n EXCEPT !.rx = << >>, !.busLive = TRUE]
  <2>2. h \in Nodes /\ h.tx = n.tx /\ h.rx = << >> /\ h.lastGearMs = n.lastGearMs
    BY <2>1 DEF Nodes, Received
  <2>3. CanPoll(n) = h
    BY <1>2 DEF CanPoll
  <2> HIDE DEF h
  <2> QED
    BY <1>2, <2>2, <2>3
<1>3. CASE n.rx # << >> /\ GearReports(n) # {}
  <2>1. n.rx[Max(GearReports(n))].gear[1] \in Heard
    BY <1>3, NewestReport
  <2> DEFINE gear == n.rx[Max(GearReports(n))].gear[1]
  <2>2. CanPoll(n) = [n EXCEPT !.rx = << >>, !.busLive = TRUE, !.gear = gear,
                               !.lastGearMs = now]
    BY <1>3 DEF CanPoll
  <2> HIDE DEF gear
  <2>3. gear \in Heard /\ << >> \in Seq(Received)
    BY <2>1 DEF gear
  <2> DEFINE h == [n EXCEPT !.rx = << >>, !.busLive = TRUE, !.gear = gear,
                            !.lastGearMs = now]
  <2>4. h \in Nodes /\ h.tx = n.tx /\ h.rx = << >> /\ h.lastGearMs = now
    BY <2>3 DEF Nodes, Received
  <2>5. CanPoll(n) = h
    BY <2>2
  <2> HIDE DEF h
  <2> QED
    BY <1>3, <2>4, <2>5
<1> QED
  BY <1>1, <1>2, <1>3

\* One pass of the loop.
LEMMA PassType ==
  ASSUME NEW n \in Nodes, Len(n.tx) <= TxLen, now \in Stamps
  PROVE  LET h == CanTick(CanPoll(n))
         IN /\ h \in Nodes /\ Len(h.tx) <= TxLen /\ h.rx = << >>
            /\ h.lastGearMs = IF GearReports(n) = {} THEN n.lastGearMs ELSE now
<1> DEFINE p == CanPoll(n)
<1>1. /\ p \in Nodes /\ p.tx = n.tx /\ p.rx = << >>
      /\ p.lastGearMs = IF GearReports(n) = {} THEN n.lastGearMs ELSE now
  BY CanPollType
<1> HIDE DEF p
<1>2. /\ CanTick(p) \in Nodes /\ Len(CanTick(p).tx) <= TxLen
      /\ CanTick(p).rx = p.rx /\ CanTick(p).lastGearMs = p.lastGearMs
  BY <1>1, CanTickType
<1> QED
  BY <1>1, <1>2 DEF p

\* An age that grows stays under its cap.
LEMMA OlderType ==
  ASSUME NEW cap \in Nat, NEW n \in 0 .. cap
  PROVE  Older(n, cap) \in 0 .. cap
BY DEF Older

\* What an inductive step has to show, and may use.
Inv == TypeOK /\ StampsTellAges

\* The node starts in the invariant.
LEMMA InitInv == Init => Inv
<1> SUFFICES ASSUME Init PROVE Inv
  OBVIOUS
<1>1. 0 \in Stamps /\ 0 \in Targets /\ 0 \in 0 .. MaxStall
  BY Positive, WidthsAssumption DEF Stamps
<1>2. node \in Nodes /\ node.rx = << >> /\ node.tx = << >>
  BY <1>1 DEF Init, Nodes
<1>3. age \in Ages /\ age.decoded = Wrap
  BY Positive DEF Init, Ages
<1>4. Len(node.rx) <= RxLen /\ Len(node.tx) <= TxLen
  <2>1. Len(<< >>) = 0
    OBVIOUS
  <2> QED
    BY <1>2, <2>1, Positive
<1>5. now \in Stamps /\ stalled = 0 /\ up \in BOOLEAN /\ lost \in BOOLEAN
      /\ {display, target} \subseteq Targets
  BY <1>1 DEF Init, Stamps
<1>6. TypeOK
  BY <1>1, <1>2, <1>3, <1>4, <1>5 DEF TypeOK, Ages
<1> QED
  BY <1>2, <1>3, <1>6, Positive DEF Inv, StampsTellAges

\* The commands only fill the transmit FIFO.
LEMMA CommandsInv ==
  ASSUME Inv, Commands
  PROVE  Inv'
<1>1. /\ node \in Nodes /\ Len(node.tx) <= TxLen /\ age \in Ages
      /\ age.commands \in 0 .. TxLen
  BY DEF Inv, TypeOK, Ages
<1>2. PICK frame \in Frames :
        /\ node' = Tx(node, frame) /\ age' = Counted(node)
        /\ UNCHANGED <<now, up, display, stalled>>
        /\ target' \in Targets /\ lost' \in BOOLEAN
  <2>1. CASE SendShift
    BY <2>1 DEF SendShift, Frames, Inv, TypeOK
  <2>2. ASSUME NEW t \in Targets, SendShiftStack(t)
        PROVE  \E frame \in Frames :
                 /\ node' = Tx(node, frame) /\ age' = Counted(node)
                 /\ UNCHANGED <<now, up, display, stalled>>
                 /\ target' \in Targets /\ lost' \in BOOLEAN
    <3>1. StackFrame(t) \in Frames
      BY DEF Frames
    <3> QED
      BY <2>2, <3>1 DEF SendShiftStack
  <2> QED
    BY <2>1, <2>2 DEF Commands
<1>3. /\ node' \in Nodes /\ Len(node'.tx) <= TxLen
      /\ node'.rx = node.rx /\ node'.lastGearMs = node.lastGearMs
  BY <1>1, <1>2, TxType
<1>4. /\ age' \in Ages /\ age'.decoded = age.decoded /\ age'.report = age.report
  <2>1. Older(age.commands, TxLen) \in 0 .. TxLen
    BY <1>1, Positive, OlderType
  <2>2. age' = [age EXCEPT !.commands = IF Room(node) THEN Older(age.commands, TxLen)
                                                      ELSE age.commands]
    BY <1>2 DEF Counted
  <2> QED
    BY <1>1, <2>1, <2>2 DEF Ages
<1>5. TypeOK'
  BY <1>2, <1>3, <1>4 DEF Inv, TypeOK, Ages
<1> QED
  BY <1>2, <1>3, <1>4, <1>5 DEF Inv, StampsTellAges, Since

\* A pass reads every frame that waits, none older than the pass before.
LEMMA PassInv ==
  ASSUME Inv, Pass
  PROVE  Inv'
<1>1. /\ node \in Nodes /\ Len(node.tx) <= TxLen /\ age \in Ages /\ now \in Stamps
      /\ stalled \in 0 .. MaxStall
  BY DEF Inv, TypeOK, Ages
<1>2. /\ node' \in Nodes /\ Len(node'.tx) <= TxLen /\ node'.rx = << >>
      /\ node'.lastGearMs = IF GearReports(node) = {} THEN node.lastGearMs ELSE now
  BY <1>1, PassType DEF Pass
<1>3. /\ now' = now /\ stalled' = 0 /\ UNCHANGED <<up, display, target, lost>>
  BY DEF Pass
<1>4. CASE GearReports(node) = {}
  <2>1. age' = age
    BY <1>4 DEF Pass
  <2>2. TypeOK'
    BY <1>1, <1>2, <1>3, <2>1, Positive DEF Inv, TypeOK, Ages
  <2> QED
    BY <1>2, <1>3, <1>4, <2>1, <2>2 DEF Inv, StampsTellAges, Since
<1>5. CASE GearReports(node) # {}
  <2> DEFINE since == node.rx[Max(GearReports(node))].age
  <2>1. since \in 0 .. MaxStall
    BY <1>1, <1>5, NewestReport
  <2>2. age' = [age EXCEPT !.report = since, !.decoded = 0]
    BY <1>5 DEF Pass
  <2> HIDE DEF since
  <2>3. age' \in Ages /\ age'.report = since /\ age'.decoded = 0
    <3>1. since \in 0 .. AgeOfReport /\ 0 \in 0 .. Wrap
      BY <2>1, Positive
    <3> QED
      BY <1>1, <2>2, <3>1 DEF Ages
  <2>4. TypeOK'
    BY <1>1, <1>2, <1>3, <2>3, Positive DEF Inv, TypeOK, Ages
  <2>5. Since(node.lastGearMs)' = 0
    BY <1>1, <1>2, <1>3, <1>5 DEF Since, Stamps
  <2> QED
    BY <1>2, <1>3, <2>1, <2>3, <2>4, <2>5, Positive DEF Inv, StampsTellAges
<1> QED
  BY <1>4, <1>5

\* Time ages frames and loop alike, and moves the clock as it moves the ages.
LEMMA TimeInv ==
  ASSUME Inv, Time
  PROVE  Inv'
<1>1. /\ node \in Nodes /\ Len(node.tx) <= TxLen /\ age \in Ages /\ now \in Stamps
      /\ stalled \in 0 .. MaxStall /\ stalled < MaxStall /\ Len(node.rx) <= RxLen
      /\ \A i \in DOMAIN node.rx : node.rx[i].age <= stalled
  BY DEF Inv, TypeOK, Ages, StampsTellAges, Time
<1> DEFINE aged == Aged(node.rx)
<1>2. node.rx \in Seq(Received)
  BY <1>1, NodeFifos
<1>3. /\ aged \in Seq(Received) /\ Len(aged) = Len(node.rx)
      /\ \A i \in DOMAIN aged : aged[i].age <= stalled + 1
  <2>1. \A i \in DOMAIN node.rx : node.rx[i] \in Received
    BY <1>2
  <2>2. \A frame \in Received : frame.age <= stalled =>
          /\ [frame EXCEPT !.age = @ + 1] \in Received
          /\ [frame EXCEPT !.age = @ + 1].age <= stalled + 1
    BY <1>1, Positive DEF Received
  <2>3. DOMAIN node.rx = 1 .. Len(node.rx) /\ Len(node.rx) \in Nat
    BY <1>2
  <2>4. \A i \in 1 .. Len(node.rx) :
          aged[i] \in Received /\ aged[i].age <= stalled + 1
    BY <1>1, <2>1, <2>2, <2>3 DEF Aged
  <2>5. aged \in [1 .. Len(node.rx) -> Received]
    BY <2>3, <2>4 DEF Aged
  <2> HIDE DEF aged
  <2> QED
    BY <2>3, <2>4, <2>5
<1>4. node' = [node EXCEPT !.rx = aged]
  BY DEF Time
<1> HIDE DEF aged
<1>5. /\ node' \in Nodes /\ node'.rx = aged /\ node'.tx = node.tx
      /\ node'.lastGearMs = node.lastGearMs /\ node.lastGearMs \in Stamps
  BY <1>1, <1>3, <1>4 DEF Nodes, Received
<1>6. /\ now' \in Stamps /\ stalled' = stalled + 1 /\ stalled' \in 0 .. MaxStall
      /\ UNCHANGED <<up, display, target, lost>>
  <2>1. now \in Int /\ 0 <= now /\ now < Wrap
    BY <1>1, Positive DEF Stamps
  <2>2. /\ now' = IF now + 1 = Wrap THEN 0 ELSE now + 1
        /\ stalled' = stalled + 1 /\ UNCHANGED <<up, display, target, lost>>
    BY DEF Time
  <2>3. now' \in Int /\ 0 <= now' /\ now' < Wrap
    BY <2>1, <2>2, Positive
  <2>4. stalled' \in 0 .. MaxStall
    BY <1>1, <2>2, Positive
  <2> QED
    BY <2>2, <2>3, <2>4, Positive DEF Stamps
<1>7. /\ age' \in Ages /\ age'.decoded = Older(age.decoded, Wrap)
      /\ age'.report = Older(age.report, AgeOfReport)
  <2>1. /\ age.decoded \in 0 .. Wrap /\ age.report \in 0 .. AgeOfReport
        /\ age.outage \in 0 .. OutageCap
    BY <1>1 DEF Ages
  <2>2. /\ Older(age.decoded, Wrap) \in 0 .. Wrap
        /\ Older(age.report, AgeOfReport) \in 0 .. AgeOfReport
        /\ (IF node.tx = << >> THEN 0 ELSE Older(age.outage, OutageCap)) \in 0 .. OutageCap
    <3>1. Older(age.decoded, Wrap) \in 0 .. Wrap
      BY <2>1, Positive, OlderType
    <3>2. Older(age.report, AgeOfReport) \in 0 .. AgeOfReport
      BY <2>1, Positive, OlderType
    <3>3. Older(age.outage, OutageCap) \in 0 .. OutageCap /\ 0 \in 0 .. OutageCap
      BY <2>1, Positive, OlderType
    <3> QED
      BY <3>1, <3>2, <3>3
  <2>3. age' = [age EXCEPT !.report  = Older(age.report, AgeOfReport),
                           !.decoded = Older(age.decoded, Wrap),
                           !.outage  = IF node.tx = << >> THEN 0
                                       ELSE Older(age.outage, OutageCap)]
    BY DEF Time
  <2> QED
    BY <1>1, <2>2, <2>3 DEF Ages
<1>8. TypeOK'
  BY <1>1, <1>3, <1>5, <1>6, <1>7 DEF Inv, TypeOK, Ages
<1>9. ASSUME age'.decoded < Wrap
      PROVE  /\ Since(node.lastGearMs)' = age'.decoded
             /\ age'.report <= age'.decoded + MaxStall
  <2>1. /\ age.decoded \in 0 .. Wrap /\ age.report \in 0 .. AgeOfReport
        /\ age.decoded + 1 < Wrap /\ age'.decoded = age.decoded + 1
    BY <1>1, <1>7, <1>9, Positive DEF Ages, Older
  <2>2. Since(node.lastGearMs) = age.decoded /\ age.report <= age.decoded + MaxStall
    BY <2>1, Positive DEF Inv, StampsTellAges
  <2>3. age'.report <= age.report + 1
    BY <1>7, <2>1, Positive DEF Older
  <2>4. now' = IF now + 1 = Wrap THEN 0 ELSE now + 1
    BY DEF Time
  <2>5. Since(node.lastGearMs)' = age.decoded + 1
    <3> DEFINE stamp == node.lastGearMs
    <3>1. stamp \in Int /\ 0 <= stamp /\ stamp < Wrap /\ now \in Int /\ 0 <= now
          /\ now < Wrap /\ now' \in Int /\ node'.lastGearMs = stamp
      BY <1>1, <1>5, <1>6, Positive DEF Stamps
    <3>2. /\ age.decoded = IF now >= stamp THEN now - stamp ELSE Wrap - stamp + now
          /\ Since(node.lastGearMs)' =
               IF now' >= stamp THEN now' - stamp ELSE Wrap - stamp + now'
      BY <2>2, <3>1 DEF Since
    <3> HIDE DEF stamp
    <3>3. CASE now + 1 = Wrap
      BY <2>1, <2>4, <3>1, <3>2, <3>3, Positive
    <3>4. CASE now + 1 # Wrap
      BY <2>1, <2>4, <3>1, <3>2, <3>4, Positive
    <3> QED
      BY <3>3, <3>4
  <2>6. age'.report \in Int
    BY <1>7, Positive DEF Ages
  <2> QED
    BY <2>1, <2>2, <2>3, <2>5, <2>6, Positive
<1> QED
  BY <1>3, <1>5, <1>6, <1>8, <1>9 DEF Inv, StampsTellAges

\* A frame that arrives is new, one that leaves changes nothing that is read.
LEMMA BusInv ==
  ASSUME Inv, Transmit \/ Report \/ BusChanges
  PROVE  Inv'
<1>1. /\ node \in Nodes /\ Len(node.tx) <= TxLen /\ age \in Ages /\ now \in Stamps
      /\ stalled \in 0 .. MaxStall /\ Len(node.rx) <= RxLen
      /\ node.rx \in Seq(Received) /\ node.tx \in Seq(Frames)
  BY NodeFifos DEF Inv, TypeOK, Ages
<1>2. CASE Transmit
  <2>1. Tail(node.tx) \in Seq(Frames) /\ Len(Tail(node.tx)) <= TxLen
        /\ Head(node.tx) \in Frames
    BY <1>1, <1>2, Positive DEF Transmit
  <2>2. /\ node' \in Nodes /\ node'.tx = Tail(node.tx) /\ node'.rx = node.rx
        /\ node'.lastGearMs = node.lastGearMs
    BY <1>1, <1>2, <2>1 DEF Transmit, Nodes, Frames
  <2>3. display' \in Targets
    BY <1>2, <2>1 DEF Transmit, Frames, StackFrame, Inv, TypeOK
  <2>4. age' \in Ages /\ age'.decoded = age.decoded /\ age'.report = age.report
    <3>1. 0 \in 0 .. OutageCap /\ 0 \in 0 .. TxLen
      BY Positive
    <3>2. age' = age \/ age' = [age EXCEPT !.outage = 0, !.commands = 0]
      BY <1>2 DEF Transmit
    <3> QED
      BY <1>1, <3>1, <3>2 DEF Ages
  <2>5. UNCHANGED <<now, up, target, lost, stalled>>
    BY <1>2 DEF Transmit
  <2>6. TypeOK'
    BY <1>1, <2>1, <2>2, <2>3, <2>4, <2>5 DEF Inv, TypeOK, Ages
  <2> QED
    BY <2>2, <2>4, <2>5, <2>6 DEF Inv, StampsTellAges, Since
<1>3. CASE Report
  <2>1. PICK report \in Received :
          report.age = 0 /\ node' = [node EXCEPT !.rx = Append(node.rx, report)]
    <3>1. PICK r \in {HeartbeatOfRear} \cup { GearReport(gear) : gear \in Heard } :
            node' = [node EXCEPT !.rx = Append(node.rx, r)]
      BY <1>3 DEF Report
    <3>2. r \in Received /\ r.age = 0
      BY Positive DEF Received, HeartbeatOfRear, GearReport
    <3> QED
      BY <3>1, <3>2
  <2>2. /\ Append(node.rx, report) \in Seq(Received)
        /\ Len(Append(node.rx, report)) <= RxLen
        /\ \A i \in DOMAIN Append(node.rx, report) :
             \/ i \in DOMAIN node.rx /\ Append(node.rx, report)[i] = node.rx[i]
             \/ Append(node.rx, report)[i] = report
    BY <1>1, <1>3, Positive DEF Report
  <2>3. /\ node' \in Nodes /\ node'.rx = Append(node.rx, report) /\ node'.tx = node.tx
        /\ node'.lastGearMs = node.lastGearMs
    BY <1>1, <2>1, <2>2 DEF Nodes, Received
  <2>4. UNCHANGED <<now, up, display, target, lost, stalled, age>>
    BY <1>3 DEF Report
  <2>5. TypeOK'
    BY <1>1, <2>2, <2>3, <2>4 DEF Inv, TypeOK
  <2>6. \A i \in DOMAIN node'.rx : node'.rx[i].age <= stalled'
    BY <1>1, <2>1, <2>2, <2>3, <2>4 DEF Inv, StampsTellAges
  <2> QED
    BY <2>3, <2>4, <2>5, <2>6 DEF Inv, StampsTellAges, Since
<1>4. CASE BusChanges
  BY <1>4 DEF BusChanges, Inv, TypeOK, StampsTellAges, Since
<1> QED
  BY <1>2, <1>3, <1>4

\* The inductive invariant holds throughout.
LEMMA InvHolds == Safety => []Inv
<1>1. Inv /\ [Next]_vars => Inv'
  <2>1. Inv /\ UNCHANGED vars => Inv'
    BY DEF vars, Inv, TypeOK, StampsTellAges, Since
  <2> QED
    BY <2>1, CommandsInv, PassInv, TimeInv, BusInv DEF Next
<1> QED
  BY <1>1, InitInv, PTL DEF Safety

\* The variables stay in their ranges and the FIFOs within their lengths.
THEOREM TypeCorrect == Safety => []TypeOK
<1>1. Inv => TypeOK
  BY DEF Inv
<1> QED
  BY <1>1, InvHolds, PTL

\* The gear the node acts on is never staler than the timeout and one stall, whatever
\* the width of the clock: its wrapping is invisible to any silence shorter than it.
THEOREM GearsAreFresh == Safety => []GearIsFresh
<1>1. Inv => GearIsFresh
  BY Positive DEF Inv, TypeOK, StampsTellAges, GearIsFresh, GearValid
<1> QED
  BY <1>1, InvHolds, PTL
----------------------------------------------------------------------------
(* Room for the commands.                                                  *)

\* A quotient bounds the multiples that fit.
LEMMA Quotient ==
  ASSUME NEW a \in Nat, NEW n \in Nat, NEW d \in Nat, d > 0, a * d <= n
  PROVE  a <= n \div d /\ n \div d \in Nat
<1> DEFINE q == n \div d
           m == n % d
<1>1. q \in Int /\ m \in Nat /\ m < d /\ n = d * q + m
  OBVIOUS
<1> HIDE DEF q, m
<1>2. ASSUME q < a PROVE FALSE
  <2>1. a - q - 1 \in Nat
    BY <1>1, <1>2
  <2>2. (a - q - 1) * d >= 0
    BY <2>1
  <2>3. (a - q - 1) * d = a * d - d * q - d
    BY <1>1
  <2> QED
    BY <1>1, <2>2, <2>3
<1>3. q >= 0
  <2> SUFFICES ASSUME q < 0 PROVE FALSE
    BY <1>1
  <2>1. -q - 1 \in Nat
    BY <1>1
  <2>2. d * (-q - 1) >= 0
    BY <2>1
  <2>3. d * (-q - 1) = -(d * q) - d
    BY <1>1
  <2> QED
    BY <1>1, <2>2, <2>3
<1> QED
  BY <1>1, <1>2, <1>3 DEF q

\* k events at least a period apart, the last of them so long ago, fit into the outage.
Fits(k, period, since, outage) == k = 0 \/ (k - 1) * period + since <= outage

\* The frames in the FIFO are broadcasts and heartbeats that fit into the outage, and
\* the commands.
Filled(n, outage, commands) ==
  \E r, h \in Nat :
    /\ Len(n.tx) <= r + 2 * h + commands
    /\ Fits(r, RpmPeriod, Since(n.lastRpmMs), outage)
    /\ Fits(h, HeartbeatMs, Since(n.lastHbMs), outage)

\* While neither count is at its bound they tell what fills the FIFO.
RoomInv ==
  /\ node.tx = << >> => age.outage = 0 /\ age.commands = 0
  /\ age.outage < OutageCap /\ age.commands < TxLen
       => Filled(node, age.outage, age.commands)

LEMMA Periods == RpmPeriod \in Nat /\ HeartbeatMs \in Nat /\ RpmPeriod > 0 /\ HeartbeatMs > 0
BY PeriodsAssumption

\* The time since a stamp.
LEMMA SinceType ==
  ASSUME now \in Stamps, NEW stamp \in Stamps
  PROVE  Since(stamp) \in Nat
BY Positive DEF Since, Stamps

\* An event when its period is over fits as well.
LEMMA OneMoreFits ==
  ASSUME NEW k \in Nat, NEW period \in Nat, NEW since \in Nat, NEW outage \in Nat,
         since >= period, Fits(k, period, since, outage)
  PROVE  Fits(k + 1, period, 0, outage)
<1>1. (k + 1) - 1 = k
  OBVIOUS
<1>2. CASE k = 0
  BY <1>1, <1>2 DEF Fits
<1>3. CASE k # 0
  <2>1. (k - 1) * period + since <= outage
    BY <1>3 DEF Fits
  <2>2. (k - 1) * period = k * period - period
    OBVIOUS
  <2>3. k * period \in Nat
    OBVIOUS
  <2> QED
    BY <1>1, <2>1, <2>2, <2>3 DEF Fits
<1> QED
  BY <1>2, <1>3

\* What fits goes on fitting while the outage grows at least as fast as the time since.
LEMMA GoesOnFitting ==
  ASSUME NEW k \in Nat, NEW period \in Nat, NEW since \in Nat, NEW later \in Nat,
         NEW outage \in Nat, later <= since + 1, Fits(k, period, since, outage)
  PROVE  Fits(k, period, later, outage + 1)
<1>1. CASE k = 0
  BY <1>1 DEF Fits
<1>2. CASE k # 0
  <2>1. (k - 1) * period \in Int
    OBVIOUS
  <2> DEFINE p == (k - 1) * period
  <2> HIDE DEF p
  <2>2. p \in Int /\ p + since <= outage
    BY <1>2, <2>1 DEF Fits, p
  <2>3. p + later <= outage + 1
    BY <2>2
  <2> QED
    BY <2>3 DEF Fits, p
<1> QED
  BY <1>1, <1>2

\* An empty FIFO needs nothing to fill it.
LEMMA EmptyFilled ==
  ASSUME NEW n \in Nodes, Len(n.tx) = 0, NEW outage \in Nat, NEW commands \in Nat
  PROVE  Filled(n, outage, commands)
<1>1. 0 \in Nat /\ Len(n.tx) <= 0 + 2 * 0 + commands
  OBVIOUS
<1>2. Fits(0, RpmPeriod, Since(n.lastRpmMs), outage) /\ Fits(0, HeartbeatMs, Since(n.lastHbMs), outage)
  BY DEF Fits
<1> QED
  BY <1>1, <1>2 DEF Filled

\* _tx touches no stamp, queues at most one frame and takes none away.
LEMMA TxFifo ==
  ASSUME NEW n \in Nodes, NEW frame \in Frames, Len(n.tx) <= TxLen
  PROVE  /\ Tx(n, frame).lastRpmMs = n.lastRpmMs /\ Tx(n, frame).lastHbMs = n.lastHbMs
         /\ Len(Tx(n, frame).tx) \in Nat /\ Len(Tx(n, frame).tx) <= Len(n.tx) + 1
         /\ Len(n.tx) \in Nat
         /\ Tx(n, frame).tx = << >> => n.tx = << >>
         /\ Room(n) => Len(Tx(n, frame).tx) = Len(n.tx) + 1
         /\ ~Room(n) => Tx(n, frame) = n
<1>1. n.tx \in Seq(Frames)
  BY NodeFifos
<1>2. Append(n.tx, frame) \in Seq(Frames) /\ Len(Append(n.tx, frame)) = Len(n.tx) + 1
      /\ Append(n.tx, frame) # << >> /\ Len(n.tx) \in Nat
  BY <1>1
<1> DEFINE h == [n EXCEPT !.tx = Append(n.tx, frame)]
<1>3. h.tx = Append(n.tx, frame) /\ h.lastRpmMs = n.lastRpmMs /\ h.lastHbMs = n.lastHbMs
  BY DEF Nodes
<1>4. Tx(n, frame) = IF Room(n) THEN h ELSE n
  BY DEF Tx
<1> HIDE DEF h
<1> QED
  BY <1>2, <1>3, <1>4

\* The broadcast and the heartbeat keep the FIFO filled with what fits.
LEMMA TickFills ==
  ASSUME NEW n \in Nodes, Len(n.tx) <= TxLen, now \in Stamps,
         NEW outage \in Nat, NEW commands \in Nat
  PROVE  /\ Filled(n, outage, commands) => Filled(CanTick(n), outage, commands)
         /\ CanTick(n).tx = << >> => n.tx = << >>
<1> USE Periods
<1>0. Other \in Frames /\ Since(now) = 0
  BY DEF Frames, Since, Stamps
<1>1. ASSUME NEW m \in Nodes, Len(m.tx) <= TxLen
      PROVE  /\ TickRpm(m) \in Nodes /\ Len(TickRpm(m).tx) <= TxLen
             /\ Filled(m, outage, commands) => Filled(TickRpm(m), outage, commands)
             /\ TickRpm(m).tx = << >> => m.tx = << >>
  <2>1. CASE Since(m.lastRpmMs) >= RpmPeriod
    <3> DEFINE k == [m EXCEPT !.lastRpmMs = now]
               t == Tx(k, Other)
    <3>1. k \in Nodes /\ k.tx = m.tx /\ k.lastHbMs = m.lastHbMs /\ k.lastRpmMs = now
      BY DEF Nodes
    <3>2. TickRpm(m) = t
      BY <2>1 DEF TickRpm
    <3> HIDE DEF k
    <3>3. /\ t \in Nodes /\ Len(t.tx) <= TxLen
          /\ t.lastRpmMs = now /\ t.lastHbMs = m.lastHbMs
          /\ Len(t.tx) \in Nat /\ Len(t.tx) <= Len(m.tx) + 1 /\ Len(m.tx) \in Nat
          /\ t.tx = << >> => m.tx = << >>
      BY <1>0, <1>1, <3>1, TxType, TxFifo
    <3> HIDE DEF t
    <3>4. ASSUME Filled(m, outage, commands) PROVE Filled(t, outage, commands)
      <4>1. PICK r, h \in Nat :
              /\ Len(m.tx) <= r + 2 * h + commands
              /\ Fits(r, RpmPeriod, Since(m.lastRpmMs), outage)
              /\ Fits(h, HeartbeatMs, Since(m.lastHbMs), outage)
        BY <3>4 DEF Filled
      <4>2. Since(m.lastRpmMs) \in Nat
        BY SinceType DEF Nodes
      <4>3. Fits(r + 1, RpmPeriod, Since(t.lastRpmMs), outage)
        BY <1>0, <2>1, <3>3, <4>1, <4>2, OneMoreFits
      <4>4. r + 1 \in Nat /\ Len(t.tx) <= (r + 1) + 2 * h + commands
        <5> DEFINE a == Len(t.tx)
                   b == Len(m.tx)
        <5>1. a \in Nat /\ b \in Nat /\ a <= b + 1 /\ b <= r + 2 * h + commands
          BY <3>3, <4>1
        <5> HIDE DEF a, b
        <5>2. r + 1 \in Nat /\ a <= (r + 1) + 2 * h + commands
          BY <5>1
        <5> QED
          BY <5>2 DEF a
      <4>5. Fits(h, HeartbeatMs, Since(t.lastHbMs), outage)
        BY <3>3, <4>1
      <4> QED
        BY <4>3, <4>4, <4>5 DEF Filled
    <3> QED
      BY <3>2, <3>3, <3>4
  <2>2. CASE ~(Since(m.lastRpmMs) >= RpmPeriod)
    BY <1>1, <2>2 DEF TickRpm
  <2> QED
    BY <2>1, <2>2
<1>2. ASSUME NEW m \in Nodes, Len(m.tx) <= TxLen
      PROVE  /\ Filled(m, outage, commands) => Filled(TickHeartbeat(m), outage, commands)
             /\ TickHeartbeat(m).tx = << >> => m.tx = << >>
  <2>1. CASE Since(m.lastHbMs) >= HeartbeatMs
    <3> DEFINE k == [m EXCEPT !.lastHbMs = now]
               s == Tx(k, Other)
               t == Tx(s, Other)
    <3>1. k \in Nodes /\ k.tx = m.tx /\ k.lastRpmMs = m.lastRpmMs /\ k.lastHbMs = now
      BY DEF Nodes
    <3>2. TickHeartbeat(m) = t
      BY <2>1 DEF TickHeartbeat
    <3> HIDE DEF k
    <3>3. /\ s \in Nodes /\ Len(s.tx) <= TxLen
          /\ s.lastHbMs = now /\ s.lastRpmMs = m.lastRpmMs
          /\ Len(s.tx) \in Nat /\ Len(s.tx) <= Len(m.tx) + 1 /\ Len(m.tx) \in Nat
          /\ s.tx = << >> => m.tx = << >>
      BY <1>0, <1>2, <3>1, TxType, TxFifo
    <3> HIDE DEF s
    <3>4. /\ t.lastHbMs = now /\ t.lastRpmMs = m.lastRpmMs
          /\ Len(t.tx) \in Nat /\ Len(t.tx) <= Len(m.tx) + 2
          /\ t.tx = << >> => m.tx = << >>
      <4>1. /\ t.lastHbMs = s.lastHbMs /\ t.lastRpmMs = s.lastRpmMs
            /\ Len(t.tx) \in Nat /\ Len(t.tx) <= Len(s.tx) + 1
            /\ t.tx = << >> => s.tx = << >>
        BY <1>0, <3>3, TxFifo
      <4> HIDE DEF t
      <4> QED
        BY <3>3, <4>1
    <3> HIDE DEF t
    <3>5. ASSUME Filled(m, outage, commands) PROVE Filled(t, outage, commands)
      <4>1. PICK r, h \in Nat :
              /\ Len(m.tx) <= r + 2 * h + commands
              /\ Fits(r, RpmPeriod, Since(m.lastRpmMs), outage)
              /\ Fits(h, HeartbeatMs, Since(m.lastHbMs), outage)
        BY <3>5 DEF Filled
      <4>2. Since(m.lastHbMs) \in Nat
        BY SinceType DEF Nodes
      <4>3. Fits(h + 1, HeartbeatMs, Since(t.lastHbMs), outage)
        BY <1>0, <2>1, <3>4, <4>1, <4>2, OneMoreFits
      <4>4. h + 1 \in Nat /\ Len(t.tx) <= r + 2 * (h + 1) + commands
        <5> DEFINE a == Len(t.tx)
                   b == Len(m.tx)
        <5>1. a \in Nat /\ b \in Nat /\ a <= b + 2 /\ b <= r + 2 * h + commands
          BY <3>3, <3>4, <4>1
        <5> HIDE DEF a, b
        <5>2. h + 1 \in Nat /\ a <= r + 2 * (h + 1) + commands
          BY <5>1
        <5> QED
          BY <5>2 DEF a
      <4>5. Fits(r, RpmPeriod, Since(t.lastRpmMs), outage)
        BY <3>4, <4>1
      <4> QED
        BY <4>3, <4>4, <4>5 DEF Filled
    <3> QED
      BY <3>2, <3>4, <3>5
  <2>2. CASE ~(Since(m.lastHbMs) >= HeartbeatMs)
    BY <2>2 DEF TickHeartbeat
  <2> QED
    BY <2>1, <2>2
<1>3. /\ TickRpm(n) \in Nodes /\ Len(TickRpm(n).tx) <= TxLen
      /\ Filled(n, outage, commands) => Filled(TickRpm(n), outage, commands)
      /\ TickRpm(n).tx = << >> => n.tx = << >>
  BY <1>1
<1>4. CASE n.busLive
  BY <1>2, <1>3, <1>4 DEF CanTick
<1>5. CASE ~n.busLive
  BY <1>5 DEF CanTick
<1> QED
  BY <1>4, <1>5

\* can_poll leaves the stamps of the telemetry alone.
LEMMA CanPollStamps ==
  ASSUME NEW n \in Nodes
  PROVE  CanPoll(n).lastRpmMs = n.lastRpmMs /\ CanPoll(n).lastHbMs = n.lastHbMs
BY DEF CanPoll, Nodes

\* The counts and the FIFO of a state in the invariant.
LEMMA CountsType ==
  ASSUME Inv
  PROVE  /\ node \in Nodes /\ now \in Stamps /\ Len(node.tx) \in Nat
         /\ Len(node.tx) <= TxLen
         /\ age \in Ages /\ age.outage \in 0 .. OutageCap /\ age.commands \in 0 .. TxLen
         /\ node.tx \in Seq(Frames)
         /\ node.lastRpmMs \in Stamps /\ node.lastHbMs \in Stamps
<1>1. node \in Nodes /\ now \in Stamps /\ Len(node.tx) <= TxLen /\ age \in Ages
  BY DEF Inv, TypeOK, Ages
<1>2. node.tx \in Seq(Frames)
  BY <1>1, NodeFifos
<1> QED
  BY <1>1, <1>2 DEF Ages, Nodes

\* Every step keeps what fills the FIFO accounted for.
LEMMA RoomStep ==
  ASSUME Inv, RoomInv, Inv', [Next]_vars
  PROVE  RoomInv'
<1>1. /\ node \in Nodes /\ now \in Stamps /\ Len(node.tx) \in Nat /\ Len(node.tx) <= TxLen
      /\ age \in Ages /\ age.outage \in 0 .. OutageCap /\ age.commands \in 0 .. TxLen
      /\ node.tx \in Seq(Frames)
      /\ node.lastRpmMs \in Stamps /\ node.lastHbMs \in Stamps
  BY CountsType
<1>2. CASE Pass
  <2> DEFINE p == CanPoll(node)
  <2>1. /\ p \in Nodes /\ p.tx = node.tx
        /\ p.lastRpmMs = node.lastRpmMs /\ p.lastHbMs = node.lastHbMs
    BY <1>1, CanPollType, CanPollStamps
  <2>2. now' = now /\ node' = CanTick(p)
    BY <1>2 DEF Pass
  <2>3. age'.outage = age.outage /\ age'.commands = age.commands
    BY <1>1, <1>2 DEF Pass, Ages
  <2> HIDE DEF p
  <2>4. /\ Filled(p, age.outage, age.commands) => Filled(node', age.outage, age.commands)
        /\ node'.tx = << >> => node.tx = << >>
    BY <1>1, <2>1, <2>2, Positive, TickFills
  <2>5. Filled(node, age.outage, age.commands) => Filled(p, age.outage, age.commands)
    BY <2>1 DEF Filled
  <2>6. Filled(node', age.outage, age.commands)
          => Filled(node, age.outage, age.commands)'
    BY <2>2, <2>3 DEF Filled, Since
  <2> QED
    BY <2>3, <2>4, <2>5, <2>6 DEF RoomInv
<1>3. CASE Commands
  <2>1. PICK frame \in Frames :
          node' = Tx(node, frame) /\ age' = Counted(node) /\ now' = now
    <3>1. CASE SendShift
      BY <3>1 DEF SendShift, Frames
    <3>2. ASSUME NEW t \in Targets, SendShiftStack(t)
          PROVE  \E frame \in Frames :
                   node' = Tx(node, frame) /\ age' = Counted(node) /\ now' = now
      <4>1. StackFrame(t) \in Frames
        BY DEF Frames
      <4> QED
        BY <3>2, <4>1 DEF SendShiftStack
    <3> QED
      BY <1>3, <3>1, <3>2 DEF Commands
  <2>2. /\ node'.lastRpmMs = node.lastRpmMs /\ node'.lastHbMs = node.lastHbMs
        /\ Len(node'.tx) \in Nat
        /\ node'.tx = << >> => node.tx = << >>
        /\ Room(node) => Len(node'.tx) = Len(node.tx) + 1
        /\ ~Room(node) => node' = node
    BY <1>1, <2>1, TxFifo
  <2>3. age'.outage = age.outage
        /\ age'.commands = IF Room(node) THEN Older(age.commands, TxLen) ELSE age.commands
    BY <1>1, <2>1 DEF Counted, Ages
  <2>4. CASE ~Room(node)
    BY <2>1, <2>2, <2>3, <2>4 DEF RoomInv, Filled, Since
  <2>5. CASE Room(node)
    <3>1. node'.tx # << >>
      <4>1. Len(node'.tx) > 0
        BY <1>1, <2>2, <2>5
      <4>2. Len(<< >>) = 0
        OBVIOUS
      <4> QED
        BY <4>1, <4>2
    <3>2. ASSUME age'.outage < OutageCap, age'.commands < TxLen
          PROVE  Filled(node, age.outage, age.commands)'
      <4>1. age.commands < TxLen /\ age'.commands = age.commands + 1
        BY <1>1, <2>3, <2>5, <3>2, Positive DEF Older
      <4>2. PICK r, h \in Nat :
              /\ Len(node.tx) <= r + 2 * h + age.commands
              /\ Fits(r, RpmPeriod, Since(node.lastRpmMs), age.outage)
              /\ Fits(h, HeartbeatMs, Since(node.lastHbMs), age.outage)
        BY <2>3, <3>2, <4>1 DEF RoomInv, Filled
      <4>3. Len(node'.tx) <= r + 2 * h + age'.commands
        BY <1>1, <2>2, <2>5, <4>1, <4>2
      <4>4. /\ Fits(r, RpmPeriod, Since(node.lastRpmMs)', age'.outage)
            /\ Fits(h, HeartbeatMs, Since(node.lastHbMs)', age'.outage)
        BY <2>1, <2>2, <2>3, <4>2 DEF Since
      <4> QED
        BY <4>3, <4>4 DEF Filled
    <3> QED
      BY <3>1, <3>2 DEF RoomInv
  <2> QED
    BY <2>4, <2>5
<1>4. CASE Transmit
  <2>1. /\ node.tx # << >> /\ now' = now
        /\ node' = [node EXCEPT !.tx = Tail(node.tx)]
        /\ age' = IF Len(node.tx) = 1 THEN [age EXCEPT !.outage = 0, !.commands = 0] ELSE age
    BY <1>4 DEF Transmit
  <2>2. /\ node'.tx = Tail(node.tx) /\ node'.lastRpmMs = node.lastRpmMs
        /\ node'.lastHbMs = node.lastHbMs
    BY <1>1, <2>1 DEF Nodes
  <2>3. Len(node'.tx) = Len(node.tx) - 1 /\ (node'.tx = << >> => Len(node.tx) = 1)
    <3>1. \A q \in Seq(Frames) : q # << >> => Len(Tail(q)) = Len(q) - 1
      OBVIOUS
    <3>2. Len(<< >>) = 0
      OBVIOUS
    <3>3. Len(node'.tx) = Len(node.tx) - 1
      BY <1>1, <2>1, <2>2, <3>1
    <3>4. node'.tx = << >> => Len(node'.tx) = 0
      BY <3>2, Zenon
    <3>5. Len(node.tx) - 1 = 0 => Len(node.tx) = 1
      BY <1>1
    <3> QED
      BY <3>3, <3>4, <3>5, Zenon
  <2>4. CASE Len(node.tx) = 1
    <3>1. age'.outage = 0 /\ age'.commands = 0
      BY <1>1, <2>1, <2>4 DEF Ages
    <3>2. node' \in Nodes /\ Len(node'.tx) = 0
      BY <2>3, <2>4 DEF Inv, TypeOK
    <3>3. Filled(node, age.outage, age.commands)'
      <4>1. 0 \in Nat /\ Len(node'.tx) <= 0 + 2 * 0 + 0
        BY <3>2
      <4>2. \A x, y : Fits(0, x, y, 0)
        BY DEF Fits
      <4> QED
        BY <3>1, <4>1, <4>2 DEF Filled
    <3> QED
      BY <3>1, <3>3 DEF RoomInv
  <2>5. CASE Len(node.tx) # 1
    <3>1. age' = age /\ node'.tx # << >>
      BY <2>1, <2>3, <2>5
    <3>2. ASSUME Filled(node, age.outage, age.commands)
          PROVE  Filled(node, age.outage, age.commands)'
      <4>1. PICK r, h \in Nat :
              /\ Len(node.tx) <= r + 2 * h + age.commands
              /\ Fits(r, RpmPeriod, Since(node.lastRpmMs), age.outage)
              /\ Fits(h, HeartbeatMs, Since(node.lastHbMs), age.outage)
        BY <3>2 DEF Filled
      <4>2. Len(node'.tx) <= r + 2 * h + age.commands
        BY <1>1, <2>3, <4>1
      <4> QED
        BY <2>1, <2>2, <3>1, <4>1, <4>2 DEF Filled, Since
    <3> QED
      BY <3>1, <3>2 DEF RoomInv
  <2> QED
    BY <2>4, <2>5
<1>5. CASE Time
  <2>1. /\ now' = IF now + 1 = Wrap THEN 0 ELSE now + 1
        /\ node' = [node EXCEPT !.rx = Aged(node.rx)]
    BY <1>5 DEF Time
  <2>2. /\ node'.tx = node.tx /\ node'.lastRpmMs = node.lastRpmMs
        /\ node'.lastHbMs = node.lastHbMs
    BY <1>1, <2>1 DEF Nodes
  <2>3. /\ age'.outage = IF node.tx = << >> THEN 0 ELSE Older(age.outage, OutageCap)
        /\ age'.commands = age.commands
    BY <1>1, <1>5 DEF Time, Ages
  <2>4. ASSUME NEW stamp \in Stamps
        PROVE  Since(stamp) \in Nat /\ Since(stamp)' \in Nat
               /\ Since(stamp)' <= Since(stamp) + 1
    <3>1. now \in Int /\ 0 <= now /\ now < Wrap /\ stamp \in Int /\ 0 <= stamp /\ stamp < Wrap
      BY <1>1, Positive DEF Stamps
    <3>2. Since(stamp)' = IF now' >= stamp THEN now' - stamp ELSE Wrap - stamp + now'
      BY DEF Since
    <3>3. Since(stamp) = IF now >= stamp THEN now - stamp ELSE Wrap - stamp + now
      BY DEF Since
    <3>4. CASE now + 1 = Wrap
      BY <2>1, <3>1, <3>2, <3>3, <3>4, Positive
    <3>5. CASE now + 1 # Wrap
      BY <2>1, <3>1, <3>2, <3>3, <3>5, Positive
    <3> QED
      BY <3>4, <3>5
  <2>5. CASE node.tx = << >>
    <3>1. age'.outage = 0 /\ age'.commands = 0 /\ Len(node'.tx) = 0
      BY <2>2, <2>3, <2>5 DEF RoomInv
    <3>2. Filled(node, age.outage, age.commands)'
      <4>1. 0 \in Nat /\ Len(node'.tx) <= 0 + 2 * 0 + 0
        BY <3>1
      <4>2. \A x, y : Fits(0, x, y, 0)
        BY DEF Fits
      <4> QED
        BY <3>1, <4>1, <4>2 DEF Filled
    <3> QED
      BY <3>1, <3>2 DEF RoomInv
  <2>6. CASE node.tx # << >>
    <3>1. ASSUME age'.outage < OutageCap, age'.commands < TxLen
          PROVE  Filled(node, age.outage, age.commands)'
      <4>1. age.outage < OutageCap /\ age'.outage = age.outage + 1
        BY <1>1, <2>3, <2>6, <3>1, Positive DEF Older
      <4>2. PICK r, h \in Nat :
              /\ Len(node.tx) <= r + 2 * h + age.commands
              /\ Fits(r, RpmPeriod, Since(node.lastRpmMs), age.outage)
              /\ Fits(h, HeartbeatMs, Since(node.lastHbMs), age.outage)
        BY <2>3, <3>1, <4>1 DEF RoomInv, Filled
      <4>3. Fits(r, RpmPeriod, Since(node.lastRpmMs)', age'.outage)
        <5>1. /\ Since(node.lastRpmMs) \in Nat
              /\ Since(node.lastRpmMs)' \in Nat
              /\ Since(node.lastRpmMs)' <= Since(node.lastRpmMs) + 1
          <6>1. Since(node.lastRpmMs)' = IF now' >= node.lastRpmMs THEN now' - node.lastRpmMs
                                         ELSE Wrap - node.lastRpmMs + now'
            BY <2>2 DEF Since
          <6> QED
            BY <1>1, <2>2, <2>4, <6>1 DEF Since
        <5> QED
          BY <1>1, <4>1, <4>2, <5>1, Periods, GoesOnFitting
      <4>4. Fits(h, HeartbeatMs, Since(node.lastHbMs)', age'.outage)
        <5>1. /\ Since(node.lastHbMs) \in Nat
              /\ Since(node.lastHbMs)' \in Nat
              /\ Since(node.lastHbMs)' <= Since(node.lastHbMs) + 1
          <6>1. Since(node.lastHbMs)' = IF now' >= node.lastHbMs THEN now' - node.lastHbMs
                                        ELSE Wrap - node.lastHbMs + now'
            BY <2>2 DEF Since
          <6> QED
            BY <1>1, <2>2, <2>4, <6>1 DEF Since
        <5> QED
          BY <1>1, <4>1, <4>2, <5>1, Periods, GoesOnFitting
      <4> QED
        BY <2>2, <2>3, <4>2, <4>3, <4>4 DEF Filled
    <3> QED
      BY <2>2, <2>6, <3>1 DEF RoomInv
  <2> QED
    BY <2>5, <2>6
<1>6. CASE Report \/ BusChanges \/ UNCHANGED vars
  <2>1. /\ node'.tx = node.tx /\ node'.lastRpmMs = node.lastRpmMs
        /\ node'.lastHbMs = node.lastHbMs /\ now' = now /\ age' = age
    BY <1>1, <1>6 DEF Report, BusChanges, vars, Nodes
  <2> QED
    BY <2>1 DEF RoomInv, Filled, Since
<1> QED
  BY <1>2, <1>3, <1>4, <1>5, <1>6 DEF Next

\* Broadcasts and heartbeats that fit into an outage are no more than its telemetry.
LEMMA TelemetryBounds ==
  ASSUME NEW r \in Nat, NEW h \in Nat, NEW outage \in Nat, NEW s \in Nat, NEW t \in Nat,
         Fits(r, RpmPeriod, s, outage), Fits(h, HeartbeatMs, t, outage)
  PROVE  Telemetry(outage) \in Nat /\ r + 2 * h <= Telemetry(outage)
<1>1. ASSUME NEW k \in Nat, NEW d \in Nat, NEW since \in Nat, d > 0,
             Fits(k, d, since, outage)
      PROVE  k <= outage \div d + 1 /\ outage \div d \in Nat
  <2>1. CASE k = 0
    <3>1. 0 * d <= outage
      OBVIOUS
    <3>2. outage \div d \in Nat
      BY <1>1, <3>1, Quotient
    <3> QED
      BY <2>1, <3>2
  <2>2. CASE k # 0
    <3>1. k - 1 \in Nat /\ (k - 1) * d \in Nat
      BY <2>2
    <3>2. (k - 1) * d <= outage
      BY <1>1, <2>2, <3>1 DEF Fits
    <3>3. k - 1 <= outage \div d /\ outage \div d \in Nat
      BY <1>1, <3>1, <3>2, Quotient
    <3> QED
      BY <3>3
  <2> QED
    BY <2>1, <2>2
<1>2. r <= outage \div RpmPeriod + 1 /\ outage \div RpmPeriod \in Nat
  BY <1>1, Periods
<1>3. h <= outage \div HeartbeatMs + 1 /\ outage \div HeartbeatMs \in Nat
  BY <1>1, Periods
<1> QED
  BY <1>2, <1>3 DEF Telemetry

\* A full FIFO is the work of an outage the telemetry fills, or of the commands.
LEMMA FullIsExplained ==
  ASSUME Inv, RoomInv, ~Room(node)
  PROVE  Telemetry(age.outage) + age.commands >= TxLen
<1>1. /\ node \in Nodes /\ now \in Stamps /\ Len(node.tx) \in Nat /\ Len(node.tx) >= TxLen
      /\ age.outage \in 0 .. OutageCap /\ age.commands \in 0 .. TxLen
      /\ node.lastRpmMs \in Stamps /\ node.lastHbMs \in Stamps
  BY CountsType, Positive DEF Room
<1>2. age.outage \in Nat /\ Telemetry(age.outage) \in Nat
  <2>1. age.outage \in Nat /\ OutageCap \in Nat
    BY <1>1, Positive
  <2>2. Fits(0, RpmPeriod, 0, age.outage) /\ Fits(0, HeartbeatMs, 0, age.outage)
    BY DEF Fits
  <2>3. 0 \in Nat
    OBVIOUS
  <2>4. Telemetry(age.outage) \in Nat
    BY <2>1, <2>2, <2>3, TelemetryBounds
  <2> QED
    BY <2>1, <2>4
<1>3. CASE age.outage = OutageCap
  BY <1>1, <1>2, <1>3, Positive, OutageAssumption
<1>4. CASE age.commands = TxLen
  BY <1>2, <1>4, Positive
<1>5. CASE age.outage < OutageCap /\ age.commands < TxLen
  <2>1. PICK r, h \in Nat :
          /\ Len(node.tx) <= r + 2 * h + age.commands
          /\ Fits(r, RpmPeriod, Since(node.lastRpmMs), age.outage)
          /\ Fits(h, HeartbeatMs, Since(node.lastHbMs), age.outage)
    BY <1>5 DEF RoomInv, Filled
  <2>2. r + 2 * h <= Telemetry(age.outage)
    <3>1. Since(node.lastRpmMs) \in Nat /\ Since(node.lastHbMs) \in Nat
      BY <1>1, SinceType
    <3> QED
      BY <1>2, <2>1, <3>1, TelemetryBounds
  <2> DEFINE filled == Len(node.tx)
             room   == Telemetry(age.outage)
             sent   == age.commands
  <2>3. /\ filled \in Nat /\ room \in Nat /\ sent \in Nat /\ TxLen \in Nat
        /\ TxLen <= filled /\ filled <= r + 2 * h + sent /\ r + 2 * h <= room
    BY <1>1, <1>2, <2>1, <2>2, Positive
  <2> HIDE DEF filled, room, sent
  <2>4. room + sent >= TxLen
    BY <2>3
  <2> QED
    BY <2>4 DEF room, sent
<1> QED
  BY <1>1, <1>3, <1>4, <1>5, Positive

\* A command is dropped only in an outage that the telemetry alone may fill, but for
\* the commands before it: for any periods, FIFO and width of the clock.
THEOREM CommandsHaveRoom == Safety => CommandsFindRoom
<1>1. Init => RoomInv
  <2> SUFFICES ASSUME Init PROVE RoomInv
    OBVIOUS
  <2>1. node \in Nodes /\ node.tx = << >> /\ age.outage = 0 /\ age.commands = 0
    BY InitInv DEF Init, Inv, TypeOK
  <2>2. Filled(node, 0, 0)
    BY <2>1, EmptyFilled
  <2> QED
    BY <2>1, <2>2 DEF RoomInv
<1>2. Inv /\ Inv' /\ RoomInv /\ [Next]_vars => RoomInv'
  BY RoomStep
<1>3. Inv /\ RoomInv /\ [Next]_vars =>
        [Commands /\ ~Room(node) => Telemetry(age.outage) + age.commands >= TxLen]_vars
  BY FullIsExplained
<1> QED
  BY <1>1, <1>2, <1>3, InvHolds, PTL DEF Safety, CommandsFindRoom
=============================================================================
