--------------------------- MODULE ServoBusProofs ---------------------------
(***************************************************************************)
(* Theorems about the servo bus engine for all its timings, addresses and  *)
(* targets and for transmit and receive FIFOs of every length.             *)
(***************************************************************************)
EXTENDS ServoBus, WellFoundedInduction, TLAPS

\* The deadlines and the capacities are positive numbers.
LEMMA Positive ==
  /\ ReplyTimeout \in Nat /\ PosMinInterval \in Nat /\ PollMs \in Nat /\ StaleMs \in Nat
  /\ MaxStall \in Nat
  /\ ReplyTimeout > 0 /\ TxLen \in Nat /\ RxLen \in Nat /\ TxLen > 0 /\ RxLen > 0
BY TimesAssumption

\* A set of frames in a FIFO has a first one.
LEMMA LeastIndex ==
  ASSUME NEW S \in SUBSET Nat, S # {}
  PROVE  \E i \in S : \A j \in S : i <= j
<1>1. PICK i \in S : \A j \in S : ~ (<<j, i>> \in OpToRel(<, Nat))
  BY NatLessThanWellFounded, WFMin, Zenon
<1>2. \A j \in S : ~ (j < i)
  BY <1>1 DEF OpToRel
<1> QED
  BY <1>2

\* An age that grows stays under its cap.
LEMMA OlderType ==
  ASSUME NEW cap \in Nat, NEW age \in 0 .. cap, NEW by \in Nat
  PROVE  Older(age, by, cap) \in 0 .. cap
BY DEF Older

\* Time passing only ages the timers.
LEMMA AgedType ==
  ASSUME NEW n \in Nodes, NEW by \in Nat
  PROVE  /\ Aged(n, by) \in Nodes /\ (Mailbox(n) => Mailbox(Aged(n, by)))
         /\ Aged(n, by).rx = n.rx /\ Aged(n, by).tx = n.tx
<1>1. n.sincePos \in 0 .. PosMinInterval /\ n.sinceSent \in 0 .. ReplyTimeout
      /\ n.sincePoll \in 0 .. PollMs /\ n.sinceGood \in 0 .. StaleMs
  BY DEF Nodes
<1>2. /\ Older(n.sincePos, by, PosMinInterval) \in 0 .. PosMinInterval
      /\ Older(n.sinceSent, by, ReplyTimeout) \in 0 .. ReplyTimeout
      /\ Older(n.sincePoll, by, PollMs) \in 0 .. PollMs
      /\ Older(n.sinceGood, by, StaleMs) \in 0 .. StaleMs
  <2>1. Older(n.sincePos, by, PosMinInterval) \in 0 .. PosMinInterval
    BY <1>1, Positive, OlderType
  <2>2. Older(n.sinceSent, by, ReplyTimeout) \in 0 .. ReplyTimeout
    BY <1>1, Positive, OlderType
  <2>3. Older(n.sincePoll, by, PollMs) \in 0 .. PollMs
    BY <1>1, Positive, OlderType
  <2>4. Older(n.sinceGood, by, StaleMs) \in 0 .. StaleMs
    BY <1>1, Positive, OlderType
  <2> QED
    BY <2>1, <2>2, <2>3, <2>4
<1>3. 0 \in 0 .. ReplyTimeout
  BY Positive
<1> QED
  BY <1>2, <1>3 DEF Aged, Nodes, Mailbox

\* Draining empties the receive FIFO and decodes a position only from a reply to the
\* position read in flight.
LEMMA DrainRxType ==
  ASSUME NEW n \in Nodes
  PROVE  /\ DrainRx(n) \in Nodes /\ DrainRx(n).rx = << >> /\ DrainRx(n).tx = n.tx
         /\ Mailbox(n) => Mailbox(DrainRx(n))
<1> DEFINE answers == { i \in DOMAIN n.rx : Accepts(n, n.rx[i]) }
           first   == CHOOSE i \in answers : \A j \in answers : i <= j
           read    == IF answers = {} THEN n ELSE HandleReply(n, n.rx[first])
<1>0. DrainRx(n) = [read EXCEPT !.rx = << >>]
  BY DEF DrainRx
<1>1. << >> \in Seq(Replies)
  OBVIOUS
<1>2. CASE answers = {}
  BY <1>0, <1>1, <1>2 DEF Nodes, Mailbox
<1>3. CASE answers # {}
  <2>1. answers \in SUBSET Nat
    <3>1. n.rx \in Seq(Replies)
      BY DEF Nodes
    <3> QED
      BY <3>1
  <2>2. first \in answers
    BY <2>1, <1>3, LeastIndex
  <2>3. Accepts(n, n.rx[first]) /\ n.rx[first] \in Replies
    BY <2>2 DEF Nodes
  <2>4. n.waitCmd \in PosReads => n.rx[first].value \in Targets
    BY <2>3 DEF Accepts, CmdOk, PosReads, Replies
  <2>5. 0 \in 0 .. StaleMs
    BY Positive
  <2> HIDE DEF first
  <2>6. /\ HandleReply(n, n.rx[first]) \in Nodes /\ HandleReply(n, n.rx[first]).tx = n.tx
        /\ Mailbox(n) => Mailbox(HandleReply(n, n.rx[first]))
    BY <2>4, <2>5 DEF HandleReply, Nodes, Mailbox
  <2> QED
    BY <1>0, <1>1, <1>3, <2>6 DEF Nodes, Mailbox
<1> QED
  BY <1>2, <1>3

\* Giving up a request only ends the wait, and leaves none past its deadline.
LEMMA RetireDeadType ==
  ASSUME NEW n \in Nodes
  PROVE  /\ RetireDead(n) \in Nodes
         /\ RetireDead(n).rx = n.rx /\ RetireDead(n).tx = n.tx
         /\ Mailbox(n) => Mailbox(RetireDead(n))
         /\ Waiting(RetireDead(n)) => RetireDead(n).sinceSent < ReplyTimeout
<1>1. n.sinceSent \in Nat
  BY Positive DEF Nodes
<1>2. CASE Waiting(n) /\ n.sinceSent >= ReplyTimeout
  BY <1>2 DEF RetireDead, Nodes, Waiting, Mailbox
<1>3. CASE ~ (Waiting(n) /\ n.sinceSent >= ReplyTimeout)
  BY <1>1, <1>3, Positive DEF RetireDead
<1> QED
  BY <1>2, <1>3

\* A frame is queued within the capacity of the transmit FIFO, or not at all.
LEMMA TransmittedType ==
  ASSUME NEW n \in Nodes, NEW frame \in Frames, Len(n.tx) <= TxLen
  PROVE  /\ Transmitted(n, frame) \in Nodes
         /\ Len(Transmitted(n, frame).tx) <= TxLen
         /\ Transmitted(n, frame).rx = n.rx
         /\ Transmitted(n, frame).waitCmd = n.waitCmd
         /\ Transmitted(n, frame).sinceSent = n.sinceSent
         /\ Mailbox(n) => Mailbox(Transmitted(n, frame))
         /\ Transmitted(n, frame).posPending = n.posPending
         /\ Transmitted(n, frame).sincePos = n.sincePos
<1>1. n.tx \in Seq(Frames)
  BY DEF Nodes
<1>2. /\ Append(n.tx, frame) \in Seq(Frames)
      /\ Len(Append(n.tx, frame)) = Len(n.tx) + 1 /\ Len(n.tx) \in Nat
  BY <1>1
<1>3. CASE RoomTx(n)
  <2>1. Transmitted(n, frame) = [n EXCEPT !.tx = Append(@, frame)]
    BY <1>3 DEF Transmitted
  <2>2. Len(Append(n.tx, frame)) <= TxLen
    BY <1>2, <1>3, Positive DEF RoomTx
  <2> QED
    BY <1>2, <2>1, <2>2 DEF Nodes, Mailbox
<1>4. CASE ~RoomTx(n)
  BY <1>4 DEF Transmitted
<1> QED
  BY <1>3, <1>4
\* Emptying the mailbox sends its command, or drops it, and touches no request.
LEMMA SendPositionType ==
  ASSUME NEW n \in Nodes, Mailbox(n), Len(n.tx) <= TxLen
  PROVE  /\ SendPosition(n) \in Nodes /\ Mailbox(SendPosition(n))
         /\ SendPosition(n).posPending => SendPosition(n).sincePos < PosMinInterval
         /\ Len(SendPosition(n).tx) <= TxLen
         /\ SendPosition(n).rx = n.rx
         /\ SendPosition(n).waitCmd = n.waitCmd
         /\ SendPosition(n).sinceSent = n.sinceSent
<1> DEFINE emptied == [n EXCEPT !.posPending = FALSE, !.sincePos = 0]
           frame   == Frame("SetPositionSpeed", n.addr, n.posCounts)
<1>1. 0 \in 0 .. PosMinInterval
  BY Positive
<1>2. /\ emptied \in Nodes /\ emptied.tx = n.tx /\ emptied.rx = n.rx
      /\ emptied.waitCmd = n.waitCmd /\ emptied.sinceSent = n.sinceSent
      /\ Mailbox(emptied) /\ emptied.posPending = FALSE
  BY <1>1 DEF Nodes, Mailbox
<1>3. CASE n.posPending /\ n.sincePos >= PosMinInterval
  <2>1. frame \in Frames
    BY <1>3 DEF Nodes, Frame, Frames, Mailbox
  <2>2. SendPosition(n) = Transmitted(emptied, frame)
    BY <1>3 DEF SendPosition
  <2> HIDE DEF emptied, frame
  <2> QED
    BY <1>2, <2>1, <2>2, TransmittedType
<1>4. CASE ~ (n.posPending /\ n.sincePos >= PosMinInterval)
  <2>1. n.sincePos \in Nat
    BY Positive DEF Nodes
  <2>2. SendPosition(n) = n
    BY <1>4 DEF SendPosition
  <2> QED
    BY <1>4, <2>1, <2>2, Positive
<1> QED
  BY <1>3, <1>4

\* A request goes out young, or not at all.
LEMMA RequestType ==
  ASSUME NEW n \in Nodes, NEW cmd \in Cmds, Len(n.tx) <= TxLen,
         Waiting(n) => n.sinceSent < ReplyTimeout
  PROVE  /\ Request(n, cmd) \in Nodes /\ (Mailbox(n) => Mailbox(Request(n, cmd)))
         /\ Len(Request(n, cmd).tx) <= TxLen
         /\ Request(n, cmd).rx = n.rx
         /\ Request(n, cmd).posPending = n.posPending
         /\ Request(n, cmd).sincePos = n.sincePos
         /\ Waiting(Request(n, cmd)) => Request(n, cmd).sinceSent < ReplyTimeout
<1> DEFINE frame == Frame(cmd, IF cmd = "ReadId" THEN Broadcast ELSE n.addr, NoValue)
           sent  == Transmitted(n, frame)
<1>1. frame \in Frames /\ n.addr \in Addresses
  BY DEF Nodes, Frame, Frames
<1>2. 0 \in 0 .. ReplyTimeout /\ 0 < ReplyTimeout
  BY Positive
<1> HIDE DEF frame
<1>3. /\ sent \in Nodes /\ Len(sent.tx) <= TxLen /\ sent.rx = n.rx
      /\ Mailbox(n) => Mailbox(sent)
      /\ sent.posPending = n.posPending /\ sent.sincePos = n.sincePos
  BY <1>1, TransmittedType
<1> HIDE DEF sent
<1>4. Request(n, cmd) =
        IF RoomTx(n) THEN [sent EXCEPT !.waitCmd = cmd, !.waitAddr = n.addr, !.sinceSent = 0]
                     ELSE n
  BY DEF Request, sent, frame
<1>5. CASE RoomTx(n)
  <2> DEFINE asking == [sent EXCEPT !.waitCmd = cmd, !.waitAddr = n.addr, !.sinceSent = 0]
  <2>1. asking \in Nodes
    BY <1>1, <1>2, <1>3 DEF Nodes
  <2>2. /\ asking.tx = sent.tx /\ asking.rx = sent.rx /\ asking.sinceSent = 0
        /\ asking.posPending = sent.posPending /\ asking.sincePos = sent.sincePos
        /\ Mailbox(sent) => Mailbox(asking)
    BY <1>3 DEF Nodes, Mailbox
  <2> HIDE DEF asking
  <2>3. Request(n, cmd) = asking
    BY <1>4, <1>5 DEF asking
  <2> QED
    BY <1>2, <1>3, <2>1, <2>2, <2>3
<1>6. CASE ~RoomTx(n)
  BY <1>4, <1>6
<1> QED
  BY <1>5, <1>6

\* At most one request leaves, and the one in flight is within its deadline.
LEMMA SendRequestType ==
  ASSUME NEW n \in Nodes, Len(n.tx) <= TxLen,
         Waiting(n) => n.sinceSent < ReplyTimeout
  PROVE  /\ SendRequest(n) \in Nodes /\ (Mailbox(n) => Mailbox(SendRequest(n)))
         /\ Len(SendRequest(n).tx) <= TxLen
         /\ SendRequest(n).rx = n.rx
         /\ SendRequest(n).posPending = n.posPending
         /\ SendRequest(n).sincePos = n.sincePos
         /\ Waiting(SendRequest(n)) => SendRequest(n).sinceSent < ReplyTimeout
<1> DEFINE taken == [n EXCEPT !.reqs = @ \ {OneShot(n)}]
           due   == [n EXCEPT !.sincePoll = 0]
<1>1. OneShot(n) \in Cmds /\ n.pollCmd \in Cmds
  BY ValuesAssumption DEF OneShot, Nodes, Cmds, OneShots
<1>2. 0 \in 0 .. PollMs
  BY Positive
<1>3. /\ taken \in Nodes /\ taken.tx = n.tx /\ taken.rx = n.rx
      /\ taken.posPending = n.posPending /\ taken.sincePos = n.sincePos
      /\ Waiting(taken) => taken.sinceSent < ReplyTimeout
      /\ Mailbox(n) => Mailbox(taken)
  BY DEF Nodes, Waiting, Mailbox
<1>4. /\ due \in Nodes /\ due.tx = n.tx /\ due.rx = n.rx
      /\ due.posPending = n.posPending /\ due.sincePos = n.sincePos
      /\ Waiting(due) => due.sinceSent < ReplyTimeout
      /\ Mailbox(n) => Mailbox(due)
  BY <1>2 DEF Nodes, Waiting, Mailbox
<1>5. SendRequest(n) \in {n, Request(taken, OneShot(n)), Request(due, n.pollCmd)}
  BY DEF SendRequest
<1> HIDE DEF taken, due
<1>6. CASE SendRequest(n) = n
  BY <1>6
<1>7. CASE SendRequest(n) = Request(taken, OneShot(n))
  BY <1>1, <1>3, <1>7, RequestType
<1>8. CASE SendRequest(n) = Request(due, n.pollCmd)
  BY <1>1, <1>4, <1>8, RequestType
<1> QED
  BY <1>5, <1>6, <1>7, <1>8
----------------------------------------------------------------------------
(* The invariant.                                                          *)

\* Inductive as it stands: the types say which payload goes with which command.
BusInv == TypeOK /\ DeadRequestsRetire

\* The engine starts with nothing in flight and nothing decoded.
LEMMA InitInv == Init => BusInv
<1> SUFFICES ASSUME Init PROVE BusInv
  OBVIOUS
<1>1. (CHOOSE cmd \in PollCmds : TRUE) \in PollCmds
  BY ValuesAssumption
<1>2. ServoAddr \in Addresses
  BY ValuesAssumption
<1>3. /\ PosMinInterval \in 0 .. PosMinInterval /\ 0 \in 0 .. ReplyTimeout
      /\ PollMs \in 0 .. PollMs /\ StaleMs \in 0 .. StaleMs
  BY Positive
<1>4. << >> \in Seq(Frames) /\ << >> \in Seq(Replies)
  OBVIOUS
<1>5. node \in Nodes
  BY <1>1, <1>2, <1>3, <1>4 DEF Init, Nodes
<1>6. node.tx = << >> /\ node.rx = << >> /\ node.waitCmd = "none" /\ Mailbox(node)
  BY DEF Init, Mailbox
<1>7. Len(node.tx) <= TxLen /\ Len(node.rx) <= RxLen
  BY <1>6, Positive
<1>8. busOff \in BOOLEAN /\ calm \in BOOLEAN /\ servo \in Targets /\ asked = << >>
  BY DEF Init
<1>9. TypeOK
  BY <1>4, <1>5, <1>6, <1>7, <1>8 DEF TypeOK
<1>10. DeadRequestsRetire
  BY <1>6 DEF DeadRequestsRetire, Waiting
<1> QED
  BY <1>9, <1>10 DEF BusInv

\* One call of servo_can_poll, from the timers to the request it ends with.
LEMMA PassInv ==
  ASSUME BusInv, NEW by \in 1 .. MaxStall, NEW check \in BOOLEAN, Pass(by, check)
  PROVE  BusInv'
<1> DEFINE aged  == Aged(node, by)
           heard == RetireDead(DrainRx(aged))
           sent  == SendPosition(heard)
<1>1. node \in Nodes /\ Len(node.tx) <= TxLen /\ Mailbox(node) /\ by \in Nat
  BY Positive DEF BusInv, TypeOK
<1>2. aged \in Nodes /\ aged.tx = node.tx /\ Mailbox(aged)
  BY <1>1, AgedType
<1> HIDE DEF aged
<1>3. /\ DrainRx(aged) \in Nodes /\ DrainRx(aged).rx = << >>
      /\ DrainRx(aged).tx = node.tx /\ Mailbox(DrainRx(aged))
  BY <1>2, DrainRxType
<1>4. /\ heard \in Nodes /\ heard.rx = << >> /\ heard.tx = node.tx /\ Mailbox(heard)
      /\ Waiting(heard) => heard.sinceSent < ReplyTimeout
  BY <1>3, RetireDeadType
<1> HIDE DEF heard
<1>5. /\ sent \in Nodes /\ Len(sent.tx) <= TxLen /\ sent.rx = << >> /\ Mailbox(sent)
      /\ Waiting(sent) => sent.sinceSent < ReplyTimeout
  BY <1>1, <1>4, SendPositionType DEF Waiting
<1> HIDE DEF sent
<1>6. node' = SendRequest(sent)
  BY DEF Pass, sent, heard, aged
<1>7. /\ node' \in Nodes /\ Len(node'.tx) <= TxLen /\ node'.rx = << >> /\ Mailbox(node')
      /\ Waiting(node') => node'.sinceSent < ReplyTimeout
  BY <1>5, <1>6, SendRequestType
<1>8. UNCHANGED <<servo, asked, calm>> /\ busOff' \in BOOLEAN
  BY DEF Pass, BusInv, TypeOK
<1>9. Len(node'.rx) <= RxLen
  BY <1>7, Positive
<1> QED
  BY <1>7, <1>8, <1>9 DEF BusInv, TypeOK, DeadRequestsRetire, Mailbox, Waiting

\* The calls between passes write settings and the mailbox, and no request in flight.
LEMMA ConsoleInv == ASSUME BusInv, Console PROVE BusInv'
<1>1. node \in Nodes /\ UNCHANGED <<busOff, servo, asked, calm>>
  BY DEF BusInv, TypeOK, Console, CommandPosition, AskOnce, SetAddress, SetPolling, SetPollCmd
<1>2. node' \in Nodes
  <2>1. ASSUME NEW counts \in Targets, CommandPosition(counts) PROVE node' \in Nodes
    BY <1>1, <2>1, Zenon DEF CommandPosition, Nodes
  <2>2. CASE \E cmd \in Requests : AskOnce(cmd)
    BY <1>1, <2>2, ValuesAssumption DEF AskOnce, Nodes
  <2>3. CASE \E addr \in Addresses : SetAddress(addr)
    BY <1>1, <2>3 DEF SetAddress, Nodes
  <2>4. CASE SetPolling
    BY <1>1, <2>4 DEF SetPolling, Nodes
  <2>5. CASE \E cmd \in PollCmds : SetPollCmd(cmd)
    BY <1>1, <2>5 DEF SetPollCmd, Nodes
  <2> QED
    BY <2>1, <2>2, <2>3, <2>4, <2>5 DEF Console
<1>3. /\ node'.tx = node.tx /\ node'.rx = node.rx
      /\ node'.waitCmd = node.waitCmd /\ node'.sinceSent = node.sinceSent
  BY <1>1 DEF Console, CommandPosition, AskOnce, SetAddress, SetPolling, SetPollCmd, Nodes
<1>4. Mailbox(node)'
  BY <1>1 DEF Console, CommandPosition, AskOnce, SetAddress, SetPolling, SetPollCmd, Nodes,
              Mailbox, BusInv, TypeOK
<1> QED
  BY <1>1, <1>2, <1>3, <1>4 DEF BusInv, TypeOK, DeadRequestsRetire, Waiting

\* A frame leaves the transmit FIFO; a position frame holds a target.
LEMMA TransmitInv == ASSUME BusInv, Transmit PROVE BusInv'
<1> DEFINE frame == Head(node.tx)
<1>1. /\ node \in Nodes /\ node.tx \in Seq(Frames) /\ node.tx # << >>
      /\ Len(node.tx) <= TxLen
  BY DEF BusInv, TypeOK, Transmit, Nodes
<1>2. frame \in Frames /\ Tail(node.tx) \in Seq(Frames) /\ Len(Tail(node.tx)) <= TxLen
  BY <1>1, Positive
<1>3. node' = [node EXCEPT !.tx = Tail(@)] /\ UNCHANGED <<busOff, calm>>
  BY DEF Transmit
<1>4. /\ node' \in Nodes /\ node'.tx = Tail(node.tx) /\ node'.rx = node.rx
      /\ node'.waitCmd = node.waitCmd /\ node'.sinceSent = node.sinceSent
      /\ node'.posPending = node.posPending /\ node'.posCounts = node.posCounts
  BY <1>1, <1>2, <1>3 DEF Nodes
<1>5. \/ servo' = frame.value /\ frame.cmd = "SetPositionSpeed" /\ UNCHANGED asked
      \/ asked' = <<frame>> /\ frame.cmd \in Cmds /\ UNCHANGED servo
      \/ UNCHANGED <<servo, asked>>
  BY DEF Transmit
<1>6. frame.cmd = "SetPositionSpeed" => frame.value \in Targets
  BY <1>2 DEF Frames, Cmds, OneShots, PosReads
<1> HIDE DEF frame
<1>7. servo' \in Targets
  BY <1>5, <1>6 DEF BusInv, TypeOK
<1>8. /\ asked' \in Seq(Frames) /\ Len(asked') <= 1
      /\ \A i \in DOMAIN asked' : asked'[i].cmd \in Cmds
  <2>1. CASE asked' = <<frame>> /\ frame.cmd \in Cmds
    BY <1>2, <2>1
  <2>2. CASE UNCHANGED asked
    BY <2>2 DEF BusInv, TypeOK
  <2> QED
    BY <1>5, <2>1, <2>2
<1> QED
  BY <1>2, <1>3, <1>4, <1>7, <1>8 DEF BusInv, TypeOK, DeadRequestsRetire, Waiting, Mailbox

\* The servo's answer carries a position exactly when it was asked for one.
LEMMA AnswerInv == ASSUME BusInv, Answer PROVE BusInv'
<1>1. /\ node \in Nodes /\ node.rx \in Seq(Replies) /\ Len(node.rx) < RxLen
      /\ servo \in Targets /\ asked # << >> /\ asked \in Seq(Frames)
      /\ \A i \in DOMAIN asked : asked[i].cmd \in Cmds
  BY DEF BusInv, TypeOK, Answer, Nodes
<1>2. asked[1].cmd \in Cmds
  BY <1>1
<1> DEFINE value == IF asked[1].cmd \in PosReads THEN servo ELSE Other
<1>3. PICK echo \in EchoesOf(asked[1].cmd) :
        node' = [node EXCEPT !.rx = Append(@, Frame(echo, ServoAddr, value))]
  BY DEF Answer
<1>4. Frame(echo, ServoAddr, value) \in Replies
  BY <1>1, <1>2, <1>3, ValuesAssumption
     DEF EchoesOf, Frame, Replies, Cmds, Echoes, OneShots, PosReads
<1> DEFINE rx == Append(node.rx, Frame(echo, ServoAddr, value))
<1>5. rx \in Seq(Replies) /\ Len(rx) = Len(node.rx) + 1
  BY <1>1, <1>4
<1>6. Len(rx) <= RxLen
  BY <1>1, <1>5, Positive
<1>7. node' = [node EXCEPT !.rx = rx]
  BY <1>3
<1> HIDE DEF rx
<1>8. /\ node' \in Nodes /\ node'.tx = node.tx /\ node'.rx = rx
      /\ node'.waitCmd = node.waitCmd /\ node'.sinceSent = node.sinceSent
      /\ node'.posPending = node.posPending /\ node'.posCounts = node.posCounts
  BY <1>1, <1>5, <1>7 DEF Nodes
<1>9. asked' = << >> /\ UNCHANGED <<busOff, servo, calm>>
  BY DEF Answer
<1>10. asked' \in Seq(Frames) /\ Len(asked') <= 1 /\ DOMAIN asked' = {}
  BY <1>9
<1> QED
  BY <1>6, <1>8, <1>9, <1>10 DEF BusInv, TypeOK, DeadRequestsRetire, Waiting, Mailbox

\* A lost answer, a bus that fails and a bus that settles decode nothing.
LEMMA RestInv == ASSUME BusInv, AnswerLost \/ GoBusOff \/ Settle PROVE BusInv'
<1>1. UNCHANGED <<node, servo>> /\ busOff' \in BOOLEAN /\ calm' \in BOOLEAN
  BY DEF BusInv, TypeOK, AnswerLost, GoBusOff, Settle
<1>2. asked' = asked \/ asked' = << >>
  BY DEF AnswerLost, GoBusOff, Settle
<1>3. /\ asked' \in Seq(Frames) /\ Len(asked') <= 1
      /\ \A i \in DOMAIN asked' : asked'[i].cmd \in Cmds
  <2>1. CASE asked' = asked
    BY <2>1 DEF BusInv, TypeOK
  <2>2. CASE asked' = << >>
    <3>1. << >> \in Seq(Frames) /\ Len(<< >>) <= 1 /\ DOMAIN << >> = {}
      OBVIOUS
    <3> QED
      BY <2>2, <3>1
  <2> QED
    BY <1>2, <2>1, <2>2
<1> QED
  BY <1>1, <1>3 DEF BusInv, TypeOK, DeadRequestsRetire, Waiting, Mailbox

\* Every step keeps the invariant.
LEMMA StepInv == BusInv /\ [Next]_vars => BusInv'
<1> SUFFICES ASSUME BusInv, [Next]_vars PROVE BusInv'
  OBVIOUS
<1>1. CASE Passes
  BY <1>1, PassInv DEF Passes
<1>2. CASE Console
  BY <1>2, ConsoleInv
<1>3. CASE Wire
  BY <1>3, TransmitInv, AnswerInv, RestInv DEF Wire
<1>4. CASE UNCHANGED vars
  BY <1>4 DEF vars, BusInv, TypeOK, DeadRequestsRetire, Waiting, Mailbox
<1> QED
  BY <1>1, <1>2, <1>3, <1>4 DEF Next

\* The types of the engine's state: in particular the node's position is only ever one
\* decoded from an answer to a position read, however replies are lost, late or
\* answer a request that has been given up (servo_can.cpp, _handle_rx).
THEOREM TypeCorrect == Safety => []TypeOK
<1>1. BusInv => TypeOK
  BY DEF BusInv
<1> QED
  BY <1>1, InitInv, StepInv, PTL DEF Safety

\* No request in flight outlives its deadline by a pass, for every reply timeout and
\* every stall of the loop (servo_can_poll).
THEOREM DeadRequestsAlwaysRetire == Safety => []DeadRequestsRetire
<1>1. BusInv => DeadRequestsRetire
  BY DEF BusInv
<1> QED
  BY <1>1, InitInv, StepInv, PTL DEF Safety

----------------------------------------------------------------------------
(* The mailbox.                                                            *)

NeverWaits ==
  node.posPending /\ node'.posPending
    => node'.sincePos < PosMinInterval \/ node'.sincePos = node.sincePos

\* A pass sends the command in the mailbox if its interval is over.
LEMMA PassNeverWaits ==
  ASSUME BusInv, NEW by \in 1 .. MaxStall, NEW check \in BOOLEAN, Pass(by, check)
  PROVE  NeverWaits
<1> DEFINE aged  == Aged(node, by)
           heard == RetireDead(DrainRx(aged))
           sent  == SendPosition(heard)
<1>1. node \in Nodes /\ Len(node.tx) <= TxLen /\ Mailbox(node) /\ by \in Nat
  BY Positive DEF BusInv, TypeOK
<1>2. aged \in Nodes /\ aged.tx = node.tx /\ Mailbox(aged)
  BY <1>1, AgedType
<1> HIDE DEF aged
<1>3. /\ DrainRx(aged) \in Nodes /\ DrainRx(aged).tx = node.tx /\ Mailbox(DrainRx(aged))
  BY <1>2, DrainRxType
<1>4. /\ heard \in Nodes /\ heard.tx = node.tx /\ Mailbox(heard)
      /\ Waiting(heard) => heard.sinceSent < ReplyTimeout
  BY <1>3, RetireDeadType
<1> HIDE DEF heard
<1>5. /\ sent \in Nodes /\ Len(sent.tx) <= TxLen
      /\ Waiting(sent) => sent.sinceSent < ReplyTimeout
      /\ sent.posPending => sent.sincePos < PosMinInterval
  BY <1>1, <1>4, SendPositionType DEF Waiting
<1> HIDE DEF sent
<1>6. node' = SendRequest(sent)
  BY DEF Pass, sent, heard, aged
<1>7. node'.posPending = sent.posPending /\ node'.sincePos = sent.sincePos
  BY <1>5, <1>6, SendRequestType
<1> QED
  BY <1>5, <1>7 DEF NeverWaits

\* Only a pass moves the clock of the position frames.
LEMMA StepNeverWaits == BusInv /\ [Next]_vars => NeverWaits
<1> SUFFICES ASSUME BusInv, [Next]_vars PROVE NeverWaits
  OBVIOUS
<1>1. CASE Passes
  BY <1>1, PassNeverWaits DEF Passes
<1>2. CASE ~Passes
  <2>1. node \in Nodes
    BY DEF BusInv, TypeOK
  <2>2. node'.sincePos = node.sincePos
    <3>1. CASE Console
      BY <2>1, <3>1 DEF Console, CommandPosition, AskOnce, SetAddress, SetPolling,
                        SetPollCmd, Nodes
    <3>2. CASE Wire
      BY <2>1, <3>2 DEF Wire, Transmit, Answer, AnswerLost, GoBusOff, Settle, Nodes
    <3>3. CASE UNCHANGED vars
      BY <3>3 DEF vars
    <3> QED
      BY <1>2, <3>1, <3>2, <3>3 DEF Next
  <2> QED
    BY <2>2 DEF NeverWaits
<1> QED
  BY <1>1, <1>2

\* A clutch command never waits behind a reply: a pass that leaves it in the mailbox
\* does so only because the interval between position frames has not run out
\* (servo_can_poll).
THEOREM CommandsNeverWait == Safety => CommandNeverWaits
<1>1. BusInv /\ [Next]_vars => [NeverWaits]_vars
  BY StepNeverWaits
<1> QED
  BY <1>1, InitInv, StepInv, PTL DEF Safety, CommandNeverWaits, NeverWaits
=============================================================================
