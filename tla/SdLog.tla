------------------------------- MODULE SdLog -------------------------------
(***************************************************************************)
(* The session log of the main node (sd_log.cpp): a RAM ring that lines    *)
(* are put into, at most one card operation a pass of the loop and only    *)
(* with the gearbox idle, and the three wrapped calls that bound the card  *)
(* library's waits and give the card up.                                   *)
(*                                                                         *)
(* The library is external.  An operation of it (op) is any number of      *)
(* sector transfers, each followed, when it succeeded, by a loop that      *)
(* polls the card until it is ready (sd_log.cpp:28-35), and returns        *)
(* success or not.  phase says where control is: in the node's loop, in    *)
(* the library between two calls, in a transfer, or in the polling loop.   *)
(* The loop stands still during an operation.                              *)
(***************************************************************************)
EXTENDS Integers, Sequences

CONSTANTS
  RingLen,            \* RING_LEN
  Chunk,              \* CHUNK
  LineLens,           \* the lengths lines have once formatted, at most 128
  HeaderLen,          \* the length of the header line
  FlushAfter,         \* FLUSH_AFTER_MS
  SyncEvery,          \* SYNC_EVERY_MS
  BusyLimit           \* SD_LOG_BUSY_LIMIT_MS

ASSUME LengthsAssumption ==
  /\ RingLen \in Nat \ {0, 1}
  /\ Chunk \in 1 .. (RingLen - 1)
  /\ HeaderLen \in 1 .. (RingLen - 1)
  /\ LineLens \subseteq Nat \ {0}

ASSUME TimesAssumption == {FlushAfter, SyncEvery, BusyLimit} \subseteq Nat \ {0}

Slots  == 0 .. (RingLen - 1)
NoByte == <<0, 0>>
Bytes  == {NoByte} \cup UNION { {<<n, i>> : i \in 1 .. n} : n \in LineLens \cup {HeaderLen} }

VARIABLES
  ring, head, tail,             \* _ring, _head, _tail
  ready, dirty,                 \* _st.ready, _dirty
  writeAge, syncAge,            \* time since _lastWrite and _lastSync
  cardStuck,                    \* _cardStuck
  busyTiming, busyAge,          \* _busyTiming, time since _busySince
  idle,                         \* what gearbox_is_idle() answers
  op, phase,                    \* where control is
  waited,                       \* time since the card last answered, in a call to it
  polled                        \* whether it was polled since the clock last moved

log    == <<ring, head, tail, ready, dirty>>
ages   == <<writeAge, syncAge>>
busy   == <<busyTiming, busyAge>>
where  == <<op, phase>>
card   == <<cardStuck, busy, waited, polled>>
vars   == <<log, ages, card, idle, where>>

\* The state at power-up, sd_log_init having been entered.
Init ==
  /\ ring = [k \in Slots |-> NoByte] /\ head = 0 /\ tail = 0
  /\ ready = FALSE /\ dirty = FALSE
  /\ writeAge = 0 /\ syncAge = 0
  /\ cardStuck = FALSE /\ busyTiming = FALSE /\ busyAge = 0
  /\ idle = TRUE
  /\ op = "open" /\ phase = "lib"
  /\ waited = 0 /\ polled = FALSE

----------------------------------------------------------------------------
(* The ring.                                                               *)

Used == (head - tail) % RingLen

\* Mutant: the byte that tells a full ring from an empty one is given away.
RoomUpToTheTail(n) == RingLen - Used >= n

Room(n) == RingLen - 1 - Used >= n

\* The n bytes of a line, put in from the head on.
Put(n) ==
  /\ ring' = [k \in Slots |-> IF (k - head) % RingLen < n
                                THEN <<n, ((k - head) % RingLen) + 1>> ELSE ring[k]]
  /\ head' = (head + n) % RingLen

\* sd_log_line.  A line there is no room for is dropped.
SdLogLine(n) ==
  /\ phase = "loop" /\ ready
  /\ Room(n)
  /\ Put(n)
  /\ UNCHANGED <<tail, ready, dirty, ages, card, idle, where>>

----------------------------------------------------------------------------
(* sd_log_tick starts an operation of the library, if one is due.          *)

Taken == IF Used < Chunk THEN Used ELSE Chunk

\* Mutant: a part-filled chunk waits until it is full.
WriteDueFull == Used >= Chunk

WriteDue == Used >= Chunk \/ (Used > 0 /\ writeAge >= FlushAfter)
SyncDue  == dirty /\ syncAge >= SyncEvery

SdLogTick ==
  /\ phase = "loop"
  /\ ready /\ idle
  /\ WriteDue \/ SyncDue
  /\ op' = (IF WriteDue THEN "write" ELSE "sync") /\ phase' = "lib"
  /\ UNCHANGED <<log, ages, card, idle>>

----------------------------------------------------------------------------
(* The library returns.  ok says it reports success: the file is open, the *)
(* bytes written are as many as asked.                                     *)

\* The rest of sd_log_init.
Opened(ok) ==
  /\ op = "open"
  /\ IF ok /\ ~cardStuck
       THEN /\ ready' = TRUE
            /\ writeAge' = 0 /\ syncAge' = 0
            /\ Put(HeaderLen)
            /\ UNCHANGED <<tail, dirty>>
       ELSE UNCHANGED <<log, ages>>

Written(ok) ==
  /\ op = "write"
  /\ IF ok /\ ~cardStuck
       THEN /\ tail' = (tail + Taken) % RingLen
            /\ dirty' = TRUE /\ writeAge' = 0
            /\ UNCHANGED <<ring, head, ready, syncAge>>
       ELSE /\ ready' = FALSE
            /\ UNCHANGED <<ring, head, tail, dirty, ages>>

\* What flush itself reports is not looked at.
Synced ==
  /\ op = "sync"
  /\ IF cardStuck
       THEN /\ ready' = FALSE
            /\ UNCHANGED <<ring, head, tail, dirty, ages>>
       ELSE /\ dirty' = FALSE /\ syncAge' = 0
            /\ UNCHANGED <<ring, head, tail, ready, writeAge>>

Return ==
  /\ phase = "lib"
  /\ \E ok \in BOOLEAN : Opened(ok) \/ Written(ok) \/ Synced
  /\ op' = "none" /\ phase' = "loop"
  /\ UNCHANGED <<card, idle>>

----------------------------------------------------------------------------
(* The wrapped calls.  Once the card is stuck none of them reaches it.     *)

\* Mutant: a card given up is called again.
TransferAnyway ==
  /\ phase = "lib"
  /\ phase' = "transfer" /\ waited' = 0
  /\ UNCHANGED <<log, ages, cardStuck, busy, polled, idle, op>>

\* BSP_SD_ReadBlocks and BSP_SD_WriteBlocks.
Transfer ==
  /\ phase = "lib" /\ ~cardStuck
  /\ phase' = "transfer" /\ waited' = 0
  /\ UNCHANGED <<log, ages, cardStuck, busy, polled, idle, op>>

TransferEnds(ok) ==
  /\ phase = "transfer"
  /\ phase' = (IF ok THEN "poll" ELSE "lib")
  /\ cardStuck' = ~ok
  /\ waited' = 0 /\ polled' = FALSE
  /\ UNCHANGED <<log, ages, busy, idle, op>>

\* Mutant: the next wait is timed from the start of the first.
PollReadyStillTiming ==
  /\ phase = "poll"
  /\ phase' = "lib" /\ waited' = 0
  /\ UNCHANGED <<log, ages, cardStuck, busy, polled, idle, op>>

\* BSP_SD_GetCardState.
PollReady ==
  /\ phase = "poll"
  /\ busyTiming' = FALSE
  /\ phase' = "lib" /\ waited' = 0
  /\ UNCHANGED <<log, ages, cardStuck, busyAge, polled, idle, op>>

PollBusy ==
  /\ phase = "poll"
  /\ busyTiming' = TRUE /\ polled' = TRUE
  /\ busyAge' = (IF busyTiming THEN busyAge ELSE 0)
  /\ IF busyAge' >= BusyLimit
       THEN cardStuck' = TRUE /\ phase' = "lib" /\ waited' = 0
       ELSE UNCHANGED <<cardStuck, phase, waited>>
  /\ UNCHANGED <<log, ages, idle, op>>

----------------------------------------------------------------------------
(* The clock, the gearbox and the power.                                   *)

Older(age, cap) == IF age < cap THEN age + 1 ELSE age

\* A transfer ends by the timeout it is given; the polling loop polls more often
\* than the clock counts.
Time ==
  /\ phase = "transfer" => waited < BusyLimit
  /\ phase = "poll" => polled
  /\ writeAge' = Older(writeAge, FlushAfter) /\ syncAge' = Older(syncAge, SyncEvery)
  /\ waited' = (IF phase \in {"transfer", "poll"} THEN waited + 1 ELSE 0)
  /\ busyAge' = (IF phase = "poll" THEN busyAge + 1 ELSE busyAge)
  /\ polled' = FALSE
  /\ UNCHANGED <<log, cardStuck, busyTiming, idle, where>>

GearboxMoves ==
  /\ phase = "loop"
  /\ idle' = ~idle
  /\ UNCHANGED <<log, ages, card, where>>

\* The power goes, in the middle of anything, and the node boots again.
PowerCycle ==
  /\ ring' = [k \in Slots |-> NoByte] /\ head' = 0 /\ tail' = 0
  /\ ready' = FALSE /\ dirty' = FALSE
  /\ writeAge' = 0 /\ syncAge' = 0
  /\ cardStuck' = FALSE /\ busyTiming' = FALSE /\ busyAge' = 0
  /\ idle' = TRUE
  /\ op' = "open" /\ phase' = "lib"
  /\ waited' = 0 /\ polled' = FALSE

Loop  == SdLogTick \/ \E n \in LineLens : SdLogLine(n)
Calls == Transfer \/ PollReady \/ PollBusy \/ \E ok \in BOOLEAN : TransferEnds(ok)
World == Time \/ GearboxMoves \/ PowerCycle
Next  == Loop \/ Return \/ Calls \/ World

\* The clock runs, a transfer ends, the polling loop polls and an operation consists
\* of finitely many calls.  Passes of the loop end with the gearbox idle again and
\* again if it is idle again and again.
Fairness ==
  /\ WF_vars(Time) /\ SF_vars(SdLogTick) /\ SF_vars(Return)
  /\ WF_vars(\E ok \in BOOLEAN : TransferEnds(ok)) /\ WF_vars(PollReady \/ PollBusy)

Safety == Init /\ [][Next]_vars
Spec   == Safety /\ Fairness

----------------------------------------------------------------------------
(* Properties.                                                             *)

\* The values of the variables.  The loop runs when no operation does; the card is
\* timed as busy only while it is polled, or once it was given up.
TypeOK ==
  /\ ring \in [Slots -> Bytes] /\ head \in Slots /\ tail \in Slots
  /\ ready \in BOOLEAN /\ dirty \in BOOLEAN /\ idle \in BOOLEAN /\ polled \in BOOLEAN
  /\ writeAge \in 0 .. FlushAfter /\ syncAge \in 0 .. SyncEvery
  /\ cardStuck \in BOOLEAN /\ busyTiming \in BOOLEAN
  /\ busyAge \in Nat /\ waited \in Nat
  /\ op \in {"none", "open", "write", "sync"}
  /\ phase \in {"loop", "lib", "transfer", "poll"} /\ (phase = "loop" <=> op = "none")
  /\ op = "write" => Used > 0

\* What waits in the ring, oldest first, and what is being done with the log.
Contents == [i \in 1 .. Used |-> ring[(tail + i - 1) % RingLen]]
Standing ==
  CASE op = "open"             -> "boot"
    [] op # "open" /\ ~ready   -> "off"
    [] ready /\ op = "write"   -> "writing"
    [] OTHER                   -> "on"

Kept == INSTANCE LineLog WITH pending <- Contents, on <- Standing, Capacity <- RingLen - 1

\* The ring keeps whole lines, in order, once each, whatever its fill, its wrap, a
\* failing write or a power cut (sd_log.h:48-49).
RefinesLog == Kept!Spec

AtCard == {"transfer", "poll"}

\* A card is only ever called for a log that is open or being opened, never after it
\* was given up or an operation failed, and with the gearbox idle from the beginning
\* of the call to its end (sd_log.h:14-15, 24-28).
DeadCardUntouched ==
  phase \in AtCard => /\ ~cardStuck
                      /\ op = "open" \/ ready
                      /\ idle

\* No wait for the card is longer than the limit, and no card is given up that has
\* answered within it, however many short waits came before (sd_log.cpp:26-40).
GivenUpInTime ==
  [][ /\ waited' <= BusyLimit
      /\ cardStuck' /\ ~cardStuck => phase = "transfer" \/ waited = BusyLimit ]_vars

\* While the gearbox is idle again and again, the oldest byte in the ring leaves for
\* the card unless the card is given up, however few bytes follow it.
LinesReachTheCard ==
  []<>idle =>
    \A i \in Slots : (ready /\ Used > 0 /\ tail = i) ~> (~ready \/ tail # i)
=============================================================================
