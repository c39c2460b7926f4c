------------------------------ MODULE ServoBus ------------------------------
(***************************************************************************)
(* The servo bus engine of the main node (servo_can.cpp): a mailbox for    *)
(* position commands, one request in flight at a time, a reply deadline    *)
(* and recovery from bus-off.  The record node holds the static variables  *)
(* of that file and the controller's transmit and receive FIFOs.  The wire *)
(* and the servo are external: they are modelled from the way the engine   *)
(* uses them, and may lose, delay or never answer a frame.                 *)
(*                                                                         *)
(* Time is counted in units in which the frames of a FIFO can leave (half  *)
(* a millisecond each).  Passes of loop() within a unit find no timer      *)
(* changed and are one; a stalled loop lets more than one unit go by.      *)
(***************************************************************************)
EXTENDS Integers, Sequences

CONSTANTS
  Targets,            \* servo positions, in counts
  Addresses,          \* values servo_set_address is given
  ServoAddr,          \* the address the servo really has
  Requests,           \* the one-shot requests the console makes
  PollCmds,           \* the values of servo_set_poll_cmd
  ReplyTimeout,       \* REPLY_TIMEOUT_US
  PosMinInterval,     \* POS_MIN_INTERVAL_MS
  PollMs,             \* _pollMs
  StaleMs,            \* SERVO_STALE_MS
  TxLen, RxLen,       \* elements of the controller's FIFOs, 8 and 16
  MaxStall,           \* bound: the longest stall of loop(), in units
  Lossy               \* whether the wire ever loses a frame

OneShots  == {"ReadId", "ReadPid", "ReadCurrentConfig"}
PosReads  == {"ReadPosition", "ReadPositionAndI"}
Broadcast == "broadcast"
NoValue   == "zero"        \* the zero a static variable starts with
Other     == "other"       \* the payload of a reply that is not a position

ASSUME ValuesAssumption ==
  /\ Targets # {} /\ {NoValue, Other} \cap Targets = {}
  /\ ServoAddr \in Addresses /\ Broadcast \notin Addresses
  /\ Requests \subseteq OneShots
  /\ PollCmds \subseteq PosReads /\ PollCmds # {}
  /\ Lossy \in BOOLEAN

\* servo_set_poll_interval_ms keeps the poll period at or above the deadline.
ASSUME TimesAssumption ==
  /\ {ReplyTimeout, PosMinInterval, PollMs, StaleMs, MaxStall} \subseteq Nat \ {0}
  /\ PollMs >= ReplyTimeout
  /\ TxLen \in Nat \ {0} /\ RxLen \in Nat \ {0}

Cmds     == OneShots \cup PosReads
Echoes   == Cmds \cup {"SetCurrent"}

Frame(cmd, addr, value) == [cmd |-> cmd, addr |-> addr, value |-> value]
Frames  == [cmd : {"SetPositionSpeed"}, addr : Addresses, value : Targets]
             \cup [cmd : Cmds, addr : Addresses \cup {Broadcast}, value : {NoValue}]
Replies == [cmd : PosReads, addr : Addresses, value : Targets]
             \cup [cmd : Echoes \ PosReads, addr : Addresses, value : {Other}]

VARIABLES node, busOff, servo, asked, calm

vars == <<node, busOff, servo, asked, calm>>

Init ==
  /\ node = [reqs |-> {}, posPending |-> FALSE, posCounts |-> NoValue,
             sincePos |-> PosMinInterval, waitCmd |-> "none", waitAddr |-> ServoAddr,
             sinceSent |-> 0, sincePoll |-> PollMs,
             addr |-> ServoAddr, polling |-> TRUE,
             pollCmd |-> CHOOSE cmd \in PollCmds : TRUE,
             position |-> NoValue, sinceGood |-> StaleMs, tx |-> << >>, rx |-> << >>]
  /\ busOff = FALSE
  /\ servo \in Targets
  /\ asked = << >>
  /\ calm \in BOOLEAN

----------------------------------------------------------------------------
(* The parts of servo_can_poll, each from node to node.                    *)

Waiting(n) == n.waitCmd # "none"
LinkOk(n)  == n.sinceGood < StaleMs
RoomTx(n)  == Len(n.tx) < TxLen

AddrOk(n, reply) == n.waitCmd = "ReadId" \/ reply.addr = n.waitAddr
CmdOk(n, reply)  ==
  \/ reply.cmd = n.waitCmd
  \/ n.waitCmd = "ReadCurrentConfig" /\ reply.cmd = "SetCurrent"

\* Mutant: any frame from the polled address is taken for the reply.
AcceptsAnyCmd(n, reply) == Waiting(n) /\ AddrOk(n, reply)

Accepts(n, reply) == Waiting(n) /\ AddrOk(n, reply) /\ CmdOk(n, reply)

HandleReply(n, reply) ==
  [n EXCEPT !.waitCmd = "none", !.sinceGood = 0,
            !.position = IF n.waitCmd \in PosReads THEN reply.value ELSE @]

\* Draining the receive FIFO.  The first frame that answers the outstanding request
\* ends the wait, and nothing is decoded without one: the others are only traced.
DrainRx(n) ==
  LET answers == { i \in DOMAIN n.rx : Accepts(n, n.rx[i]) }
      read    == IF answers = {} THEN n
                 ELSE HandleReply(n, n.rx[CHOOSE i \in answers :
                                            \A j \in answers : i <= j])
  IN [read EXCEPT !.rx = << >>]

\* Mutant: a dead request is never given up.
RetireDeadNever(n) == n

RetireDead(n) ==
  IF Waiting(n) /\ n.sinceSent >= ReplyTimeout THEN [n EXCEPT !.waitCmd = "none"] ELSE n

Transmitted(n, frame) == IF RoomTx(n) THEN [n EXCEPT !.tx = Append(@, frame)] ELSE n

\* Mutant: the mailbox is emptied without sending.
SendPositionLate(n) ==
  IF n.posPending /\ n.sincePos >= PosMinInterval
    THEN [n EXCEPT !.posPending = FALSE, !.sincePos = 0] ELSE n

\* The mailbox is emptied whether or not the frame could be queued.
SendPosition(n) ==
  IF n.posPending /\ n.sincePos >= PosMinInterval
    THEN Transmitted([n EXCEPT !.posPending = FALSE, !.sincePos = 0],
                     Frame("SetPositionSpeed", n.addr, n.posCounts))
    ELSE n

Request(n, cmd) ==
  IF RoomTx(n)
    THEN [Transmitted(n, Frame(cmd, IF cmd = "ReadId" THEN Broadcast ELSE n.addr, NoValue))
            EXCEPT !.waitCmd = cmd, !.waitAddr = n.addr, !.sinceSent = 0]
    ELSE n

OneShot(n) == CASE "ReadId"  \in n.reqs -> "ReadId"
                [] "ReadId"  \notin n.reqs /\ "ReadPid" \in n.reqs -> "ReadPid"
                [] OTHER -> "ReadCurrentConfig"

\* Mutant: the poll clock starts again whether or not a poll is due.
SendRequestRestarting(n) ==
  IF Waiting(n) THEN n
  ELSE IF n.reqs # {} THEN Request([n EXCEPT !.reqs = @ \ {OneShot(n)}], OneShot(n))
  ELSE IF n.polling /\ n.sincePoll >= PollMs
    THEN Request([n EXCEPT !.sincePoll = 0], n.pollCmd)
  ELSE [n EXCEPT !.sincePoll = 0]

SendRequest(n) ==
  IF Waiting(n) THEN n
  ELSE IF n.reqs # {} THEN Request([n EXCEPT !.reqs = @ \ {OneShot(n)}], OneShot(n))
  ELSE IF n.polling /\ n.sincePoll >= PollMs
    THEN Request([n EXCEPT !.sincePoll = 0], n.pollCmd)
  ELSE n

Older(age, by, cap) == IF age + by < cap THEN age + by ELSE cap

Aged(n, by) ==
  [n EXCEPT !.sincePos  = Older(@, by, PosMinInterval),
            !.sinceSent = IF Waiting(n) THEN Older(@, by, ReplyTimeout) ELSE 0,
            !.sincePoll = Older(@, by, PollMs),
            !.sinceGood = Older(@, by, StaleMs)]

\* One call of servo_can_poll, by units after the last.  The health check has a
\* period longer than a pass: it clears bus-off in some pass.
Pass(by, check) ==
  /\ busOff \/ node.tx = << >>
  /\ calm => /\ by = 1 /\ check
             /\ busOff \/ asked = << >>
  /\ \E heard \in {RetireDead(DrainRx(Aged(node, by)))} :
       \E sent \in {SendPosition(heard)} : node' = SendRequest(sent)
  /\ busOff' = (busOff /\ ~check)
  /\ UNCHANGED <<servo, asked, calm>>

----------------------------------------------------------------------------
(* Calls from the clutch and the console, between two passes.              *)

CommandPosition(counts) ==
  /\ node' = [node EXCEPT !.posPending = TRUE, !.posCounts = counts]
  /\ UNCHANGED <<busOff, servo, asked, calm>>

AskOnce(cmd) ==
  /\ node' = [node EXCEPT !.reqs = @ \cup {cmd}]
  /\ UNCHANGED <<busOff, servo, asked, calm>>

SetAddress(addr) ==
  /\ node' = [node EXCEPT !.addr = addr]
  /\ UNCHANGED <<busOff, servo, asked, calm>>

SetPolling ==
  /\ node' = [node EXCEPT !.polling = ~@]
  /\ UNCHANGED <<busOff, servo, asked, calm>>

SetPollCmd(cmd) ==
  /\ node' = [node EXCEPT !.pollCmd = cmd]
  /\ UNCHANGED <<busOff, servo, asked, calm>>

----------------------------------------------------------------------------
(* The wire and the servo.  While calm the loop does not stall and the     *)
(* servo answers before the next pass; until then a frame may be lost, an  *)
(* answer may come late or not at all, and the controller may go bus-off.   *)

Hears(frame) == frame.addr \in {ServoAddr, Broadcast}

\* The head of the transmit FIFO leaves (single shot: it is never sent again).  A
\* request that reaches a servo still busy with one is ignored.
Transmit ==
  /\ ~busOff /\ node.tx # << >>
  /\ LET frame == Head(node.tx)
     IN \/ /\ Hears(frame) /\ frame.cmd = "SetPositionSpeed"
           /\ servo' = frame.value
           /\ UNCHANGED asked
        \/ /\ Hears(frame) /\ frame.cmd \in Cmds /\ asked = << >>
           /\ asked' = <<frame>>
           /\ UNCHANGED servo
        \/ /\ ~Hears(frame) \/ (Lossy /\ ~calm) \/ (~calm /\ asked # << >>
                                                     /\ frame.cmd \in Cmds)
           /\ UNCHANGED <<servo, asked>>
  /\ node' = [node EXCEPT !.tx = Tail(@)]
  /\ UNCHANGED <<busOff, calm>>

EchoesOf(cmd) == IF cmd = "ReadCurrentConfig" THEN {cmd, "SetCurrent"} ELSE {cmd}

Answer ==
  /\ asked # << >>
  /\ ~busOff /\ Len(node.rx) < RxLen
  /\ \E echo \in EchoesOf(asked[1].cmd) :
       node' = [node EXCEPT !.rx = Append(@, Frame(echo, ServoAddr,
                  IF asked[1].cmd \in PosReads THEN servo ELSE Other))]
  /\ asked' = << >>
  /\ UNCHANGED <<busOff, servo, calm>>

AnswerLost ==
  /\ asked # << >>
  /\ busOff \/ Len(node.rx) >= RxLen \/ (Lossy /\ ~calm)
  /\ asked' = << >>
  /\ UNCHANGED <<node, busOff, servo, calm>>

GoBusOff ==
  /\ ~calm /\ ~busOff
  /\ busOff' = TRUE
  /\ UNCHANGED <<node, servo, asked, calm>>

Settle ==
  /\ ~calm /\ calm' = TRUE
  /\ UNCHANGED <<node, busOff, servo, asked>>

Console ==
  \/ \E counts \in Targets : CommandPosition(counts)
  \/ \E cmd \in Requests : AskOnce(cmd)
  \/ \E addr \in Addresses : SetAddress(addr)
  \/ SetPolling
  \/ \E cmd \in PollCmds : SetPollCmd(cmd)

Passes == \E by \in 1 .. MaxStall, check \in BOOLEAN : Pass(by, check)
Wire   == Transmit \/ Answer \/ AnswerLost \/ GoBusOff \/ Settle
Next   == Passes \/ Console \/ Wire

\* loop() runs for ever, frames leave the FIFO of a controller that is on the bus,
\* and a servo that was asked answers or fails to.
Fairness == WF_vars(calm /\ Pass(1, TRUE)) /\ WF_vars(Transmit) /\ WF_vars(Answer \/ AnswerLost)

Safety == Init /\ [][Next]_vars
Spec   == Safety /\ Fairness

----------------------------------------------------------------------------
(* Properties.                                                             *)

Nodes ==
  [reqs : SUBSET OneShots, posPending : BOOLEAN, posCounts : Targets \cup {NoValue},
   sincePos : 0 .. PosMinInterval, waitCmd : Cmds \cup {"none"}, waitAddr : Addresses,
   sinceSent : 0 .. ReplyTimeout, sincePoll : 0 .. PollMs,
   addr : Addresses, polling : BOOLEAN, pollCmd : PollCmds,
   position : Targets \cup {NoValue}, sinceGood : 0 .. StaleMs,
   tx : Seq(Frames), rx : Seq(Replies)]

Mailbox(n) == n.posPending => n.posCounts \in Targets

\* The values of the variables.  The position is only ever one the servo was asked
\* for: a late reply to another request is not decoded as one.
TypeOK ==
  /\ node \in Nodes /\ Len(node.tx) <= TxLen /\ Len(node.rx) <= RxLen
  /\ busOff \in BOOLEAN /\ calm \in BOOLEAN /\ servo \in Targets
  /\ asked \in Seq(Frames) /\ Len(asked) <= 1
  /\ \A i \in DOMAIN asked : asked[i].cmd \in Cmds
  /\ Mailbox(node)

\* No request in flight is past its deadline, whatever has arrived meanwhile.
DeadRequestsRetire == Waiting(node) => node.sinceSent < ReplyTimeout

\* A command still in the mailbox after a pass is there because the interval between
\* position frames has not run out, never to wait for a reply (servo_can.cpp:285-288).
CommandNeverWaits ==
  [][ node.posPending /\ node'.posPending
        => node'.sincePos < PosMinInterval \/ node'.sincePos = node.sincePos ]_vars

\* Once the bus is calm, a command in the mailbox reaches the servo unless a newer
\* one replaces it, whatever replies, one-shots and polls are in the way.
CommandArrives ==
  \A t \in Targets :
    [](([]calm /\ ~busOff /\ node.tx = << >> /\ node.posPending /\ node.posCounts = t
          /\ [](node.addr = ServoAddr))
         => <>(servo = t \/ node.posCounts # t))

\* Once the bus is calm and polled at the servo's address, the node's position
\* becomes, and stays, the servo's, and the link fresh: bus-off, replies lost or late
\* and requests that died leave nothing behind that keeps it stale.
FeedbackConverges ==
  \A t \in Targets :
    <>[](calm /\ node.polling /\ node.reqs = {} /\ node.addr = ServoAddr /\ servo = t)
      => <>[](node.position = t /\ LinkOk(node))

----------------------------------------------------------------------------
(* What a comment says and the code does not do; refuted by a run.          *)

\* servo_can.cpp:347: "mailbox, not a queue: the newest target wins".
NewestTargetWins ==
  (calm /\ ~busOff /\ node.tx = << >> /\ ~node.posPending /\ node.posCounts # NoValue)
    => servo = node.posCounts
=============================================================================
