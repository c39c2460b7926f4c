------------------------------ MODULE CanMain ------------------------------
(***************************************************************************)
(* The main bus of the node (can_main.cpp): the rear node's gear with its  *)
(* staleness, the periodic telemetry, and the shift and stack commands of  *)
(* the gearbox, all through the controller's FIFOs.  The gearbox, which    *)
(* may command at any time, the bus and the other nodes are external: the  *)
(* bus goes up and down, and may stay down for good, as it does once the   *)
(* controller is bus-off, from which nothing in this file brings it back.  *)
(*                                                                         *)
(* millis() wraps: clocks and time stamps are numbers below Wrap, and real *)
(* time is kept apart, in the ages of history that no code reads.          *)
(***************************************************************************)
EXTENDS Integers, Sequences, FiniteSetsExt

CONSTANTS
  Wrap,                   \* the range of millis(), 2^32
  GearTimeout,            \* GEAR_TIMEOUT_MS
  RpmPeriod,              \* RPM_TX_PERIOD_MS
  HeartbeatMs,            \* CAN_HEARTBEAT_INTERVAL_MS
  TxLen, RxLen,           \* elements of the controller's FIFOs, 8 and 32
  Heard,                  \* the gears the rear node reports
  Targets,                \* the stack's targets, 0 for no stack
  MaxStall,               \* bound: the longest time between two passes of loop()
  OutageCap               \* bound: elapsed outages saturate here

GEAR_UNKNOWN == 255

\* Frames to send: the stack frames are told apart by their target, the others not.
StackFrame(t) == <<t>>
Other         == << >>

\* Frames received: the rear node's gear, or a heartbeat without one.
GearReport(gear) == [gear |-> <<gear>>, age |-> 0]
HeartbeatOfRear  == [gear |-> << >>, age |-> 0]

ASSUME WidthsAssumption ==
  /\ {Wrap, GearTimeout, MaxStall} \subseteq Nat \ {0}
  /\ GearTimeout < Wrap
  /\ 0 \in Targets /\ Heard \subseteq 0 .. GEAR_UNKNOWN

ASSUME PeriodsAssumption ==
  /\ {RpmPeriod, HeartbeatMs, TxLen, RxLen, OutageCap} \subseteq Nat \ {0}
  /\ {RpmPeriod, HeartbeatMs} \subseteq 1 .. (Wrap - MaxStall)

\* What the telemetry can queue in a time that long: the broadcast of the engine's
\* speed, the heartbeat and the shift status.
Telemetry(outage) == (outage \div RpmPeriod + 1) + 2 * (outage \div HeartbeatMs + 1)

\* An outage at the bound is one in which the telemetry alone fills the FIFO.
ASSUME OutageAssumption == Telemetry(OutageCap) >= TxLen

VARIABLES
  now,            \* millis()
  node,           \* the static variables of can_main.cpp and the two FIFOs
  up,             \* whether the bus works: another node is there and acknowledges
  display,        \* the stack target the display last received
  target,         \* the gearbox's stack target, each change of which it sends
  lost,           \* whether the newest stack frame found the FIFO full
  stalled,        \* real time since the last pass of loop()
  age             \* real ages: of the gear's report, of its decoding, of the oldest
                  \* frame waiting to leave, and the commands queued since then

vars == <<now, node, up, display, target, lost, stalled, age>>

AgeOfReport == GearTimeout + MaxStall

\* Nothing has been heard yet, and no other node may be there.
Init ==
  /\ now \in 0 .. Wrap - 1
  /\ node = [busLive |-> FALSE, gear |-> GEAR_UNKNOWN, lastGearMs |-> 0,
             lastRpmMs |-> 0, lastHbMs |-> 0, rx |-> << >>, tx |-> << >>]
  /\ up \in BOOLEAN
  /\ display = 0 /\ target = 0 /\ lost = FALSE
  /\ stalled = 0
  /\ age = [report |-> AgeOfReport, decoded |-> Wrap, outage |-> 0, commands |-> 0]

----------------------------------------------------------------------------
(* can_main.cpp.                                                           *)

\* The difference of two time stamps, as unsigned numbers subtract.
Since(stamp) == IF now >= stamp THEN now - stamp ELSE Wrap - stamp + now

\* can_gear_valid: a stamp of 0 stands for never.
GearValid(n) ==
  n.lastGearMs # 0 /\ Since(n.lastGearMs) < GearTimeout /\ n.gear # GEAR_UNKNOWN

Room(n) == Len(n.tx) < TxLen

\* Mutant: nothing is queued until the bus has been heard.
TxOnceLive(n, frame) ==
  IF Room(n) /\ n.busLive THEN [n EXCEPT !.tx = Append(@, frame)] ELSE n

\* _tx: whether the frame was queued is not looked at.
Tx(n, frame) == IF Room(n) THEN [n EXCEPT !.tx = Append(@, frame)] ELSE n

GearReports(n) == { i \in DOMAIN n.rx : n.rx[i].gear # << >> }

\* Mutant: one frame a pass.
CanPollOne(n) ==
  IF n.rx = << >> THEN n
  ELSE IF 1 \notin GearReports(n) THEN [n EXCEPT !.rx = Tail(@), !.busLive = TRUE]
  ELSE [n EXCEPT !.rx = Tail(@), !.busLive = TRUE,
                 !.gear = n.rx[1].gear[1], !.lastGearMs = now]

\* Every frame that has arrived; the newest gear is the gear.
CanPoll(n) ==
  IF n.rx = << >> THEN n
  ELSE IF GearReports(n) = {} THEN [n EXCEPT !.rx = << >>, !.busLive = TRUE]
  ELSE [n EXCEPT !.rx = << >>, !.busLive = TRUE,
                 !.gear = n.rx[Max(GearReports(n))].gear[1], !.lastGearMs = now]

\* Mutant: the broadcast does not note when it went.
TickRpmFlooding(n) == IF Since(n.lastRpmMs) >= RpmPeriod THEN Tx(n, Other) ELSE n

TickRpm(n) ==
  IF Since(n.lastRpmMs) >= RpmPeriod THEN Tx([n EXCEPT !.lastRpmMs = now], Other)
                                     ELSE n

\* The heartbeat and the shift status.
TickHeartbeat(n) ==
  IF Since(n.lastHbMs) >= HeartbeatMs
    THEN Tx(Tx([n EXCEPT !.lastHbMs = now], Other), Other) ELSE n

CanTick(n) == IF n.busLive THEN TickHeartbeat(TickRpm(n)) ELSE n

\* One pass of loop(): can_poll, and can_tick at its end.
Pass ==
  /\ node' = CanTick(CanPoll(node))
  /\ stalled' = 0
  /\ age' = IF GearReports(node) = {} THEN age
            ELSE [age EXCEPT !.report  = node.rx[Max(GearReports(node))].age,
                             !.decoded = 0]
  /\ UNCHANGED <<now, up, display, target, lost>>

Older(n, cap) == IF n < cap THEN n + 1 ELSE n

Counted(n) == [age EXCEPT !.commands = IF Room(n) THEN Older(@, TxLen) ELSE @]

\* can_send_shift_up and can_send_shift_down.
SendShift ==
  /\ node' = Tx(node, Other)
  /\ age' = Counted(node)
  /\ UNCHANGED <<now, up, display, target, lost, stalled>>

SendShiftStack(t) ==
  /\ node' = Tx(node, StackFrame(t))
  /\ target' = t /\ lost' = ~Room(node)
  /\ age' = Counted(node)
  /\ UNCHANGED <<now, up, display, stalled>>

----------------------------------------------------------------------------
(* The bus and the nodes on it.                                            *)

\* The head of the FIFO is acknowledged; until then it is sent again and again.
Transmit ==
  /\ up /\ node.tx # << >>
  /\ node' = [node EXCEPT !.tx = Tail(@)]
  /\ display' = IF Head(node.tx) = Other THEN display ELSE Head(node.tx)[1]
  /\ age' = IF Len(node.tx) = 1 THEN [age EXCEPT !.outage = 0, !.commands = 0] ELSE age
  /\ UNCHANGED <<now, up, target, lost, stalled>>

\* The rear node's gear or its heartbeat, unless the FIFO has no room.
Report ==
  /\ up /\ Len(node.rx) < RxLen
  /\ \E report \in {HeartbeatOfRear} \cup { GearReport(gear) : gear \in Heard } :
       node' = [node EXCEPT !.rx = Append(@, report)]
  /\ UNCHANGED <<now, up, display, target, lost, stalled, age>>

BusChanges ==
  /\ up' = ~up
  /\ UNCHANGED <<now, node, display, target, lost, stalled, age>>

\* Only the frames that wait to be read have an age.
Aged(frames) == [i \in DOMAIN frames |-> [frames[i] EXCEPT !.age = @ + 1]]

Time ==
  /\ stalled < MaxStall /\ stalled' = stalled + 1
  /\ now' = IF now + 1 = Wrap THEN 0 ELSE now + 1
  /\ node' = [node EXCEPT !.rx = Aged(@)]
  /\ age' = [age EXCEPT !.report  = Older(@, AgeOfReport),
                        !.decoded = Older(@, Wrap),
                        !.outage  = IF node.tx = << >> THEN 0 ELSE Older(@, OutageCap)]
  /\ UNCHANGED <<up, display, target, lost>>

Commands == SendShift \/ \E t \in Targets : SendShiftStack(t)
Next == Pass \/ Commands \/ Transmit \/ Report \/ BusChanges \/ Time

\* A controller on a bus that acknowledges sends what it holds.
Fairness == WF_vars(Transmit)

Safety == Init /\ [][Next]_vars
Spec   == Safety /\ Fairness

----------------------------------------------------------------------------
(* Properties.                                                             *)

Stamps == 0 .. Wrap - 1
Nodes  ==
  [busLive : BOOLEAN, gear : Heard \cup {GEAR_UNKNOWN}, lastGearMs : Stamps,
   lastRpmMs : Stamps, lastHbMs : Stamps,
   rx : Seq([gear : {<< >>} \cup { <<gear>> : gear \in Heard }, age : 0 .. MaxStall]),
   tx : Seq({Other} \cup { StackFrame(t) : t \in Targets })]

\* The values of the variables; the FIFOs stay within their lengths.
TypeOK ==
  /\ now \in Stamps /\ stalled \in 0 .. MaxStall
  /\ node \in Nodes /\ Len(node.tx) <= TxLen /\ Len(node.rx) <= RxLen
  /\ up \in BOOLEAN /\ lost \in BOOLEAN /\ {display, target} \subseteq Targets
  /\ age \in [report : 0 .. AgeOfReport, decoded : 0 .. Wrap,
              outage : 0 .. OutageCap, commands : 0 .. TxLen]

\* No frame waits to be read for longer than the loop has been away, and while the
\* decoding is younger than the clock's range the stamp still tells its age.
StampsTellAges ==
  /\ \A i \in DOMAIN node.rx : node.rx[i].age <= stalled
  /\ age.decoded < Wrap => /\ Since(node.lastGearMs) = age.decoded
                           /\ age.report <= age.decoded + MaxStall

\* A gear the node acts on was reported within the timeout and one stall of the loop,
\* however the clock wraps, the bus comes and goes and reports pile up; only a silence
\* as long as the clock's whole range makes an old report look new (can_gear_valid).
GearIsFresh == GearValid(node) /\ age.decoded < Wrap => age.report < AgeOfReport

\* A shift or stack command finds the FIFO full only after an outage so long that the
\* telemetry alone can have filled what the commands before it left: the broadcasts
\* never crowd a command out of a bus that has just been working (can_tick, _tx).
CommandsFindRoom ==
  [][ Commands /\ ~Room(node) =>
        Telemetry(age.outage) + age.commands >= TxLen ]_vars

\* Once the bus stays up the display ends with the gearbox's stack, whatever outages
\* were before and however much telemetry is in the way, unless the newest stack frame
\* itself found the FIFO full: nothing sends it again.
DisplayCatchesUp ==
  \A t \in Targets :
    <>[](up /\ target = t /\ ~lost) => <>[](display = t)
=============================================================================
