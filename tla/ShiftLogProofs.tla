--------------------------- MODULE ShiftLogProofs ---------------------------
(***************************************************************************)
(* The shift log under the state machine, for any number of gears, any     *)
(* timing and whatever the rear node and the clutch report.  The log only  *)
(* hears the calls of a step, so the lemmas follow them through the        *)
(* functions of gearbox.cpp, as those of GearboxProofs do.                 *)
(***************************************************************************)
EXTENDS ShiftLog, GearboxProofs, FiniteSetTheorems, WellFoundedInduction

----------------------------------------------------------------------------
(* The calls of a step, one after the other.                               *)

\* What the log has become after n of the calls.
Tells(f, l, calls) ==
  f = [n \in 0 .. Len(calls) |-> IF n = 0 THEN l ELSE LogTold(f[n - 1], calls[n])]

\* There is such a function: the shortest calls without one could be told one more.
LEMMA TellsExists ==
  ASSUME NEW l, NEW calls, Len(calls) \in Nat
  PROVE  \E f : Tells(f, l, calls)
<1> DEFINE Upto(f, m) ==
             f = [n \in 0 .. m |-> IF n = 0 THEN l ELSE LogTold(f[n - 1], calls[n])]
           T == { m \in 0 .. Len(calls) : ~ \E f : Upto(f, m) }
<1>1. ASSUME T # {} PROVE FALSE
  <2>1. T \subseteq Nat
    OBVIOUS
  <2>2. PICK m \in T : \A k \in T : ~ (<<k, m>> \in OpToRel(<, Nat))
    BY <1>1, <2>1, NatLessThanWellFounded, WFMin, Zenon
  <2>3. \A k \in T : ~ (k < m)
    BY <2>1, <2>2 DEF OpToRel
  <2>4. m # 0
    <3>1. Upto([n \in 0 .. 0 |-> l], 0)
      OBVIOUS
    <3> QED
      BY <3>1
  <2>5. m \in Nat /\ m - 1 \in 0 .. Len(calls) /\ m - 1 < m
    BY <2>4
  <2>6. PICK f : Upto(f, m - 1)
    BY <2>3, <2>5
  <2> DEFINE g == [n \in 0 .. m |-> IF n = m THEN LogTold(f[m - 1], calls[m]) ELSE f[n]]
  <2>7. \A n \in 0 .. m : g[n] = IF n = 0 THEN l ELSE LogTold(g[n - 1], calls[n])
    <3> TAKE n \in 0 .. m
    <3>1. CASE n = 0
      BY <2>4, <2>5, <2>6, <3>1
    <3>2. CASE n = m
      BY <2>4, <2>5, <3>2
    <3>3. CASE n # 0 /\ n # m
      BY <2>4, <2>5, <2>6, <3>3
    <3> QED
      BY <3>1, <3>2, <3>3
  <2>8. g = [n \in 0 .. m |-> g[n]]
    OBVIOUS
  <2> HIDE DEF g
  <2>9. Upto(g, m)
    BY <2>7, <2>8
  <2> QED
    BY <2>9
<1>2. \E f : Upto(f, Len(calls))
  BY <1>1
<1> QED
  BY <1>2 DEF Tells

\* Two of them agree on the calls they share.
LEMMA TellsAgree ==
  ASSUME NEW l, NEW calls, NEW longer, NEW f, NEW g, Tells(f, l, calls), Tells(g, l, longer),
         Len(calls) \in Nat, Len(longer) \in Nat, Len(calls) <= Len(longer),
         \A n \in 1 .. Len(calls) : longer[n] = calls[n]
  PROVE  f[Len(calls)] = g[Len(calls)]
<1> DEFINE T == { n \in 0 .. Len(calls) : f[n] # g[n] }
<1>1. ASSUME T # {} PROVE FALSE
  <2>1. T \subseteq Nat
    OBVIOUS
  <2>2. PICK m \in T : \A k \in T : ~ (<<k, m>> \in OpToRel(<, Nat))
    BY <1>1, <2>1, NatLessThanWellFounded, WFMin, Zenon
  <2>3. \A k \in T : ~ (k < m)
    BY <2>1, <2>2 DEF OpToRel
  <2>4. /\ f[m] = IF m = 0 THEN l ELSE LogTold(f[m - 1], calls[m])
        /\ g[m] = IF m = 0 THEN l ELSE LogTold(g[m - 1], longer[m])
    BY DEF Tells
  <2>5. m # 0 /\ m - 1 \in 0 .. Len(calls) /\ m - 1 < m
    BY <2>4
  <2>6. f[m - 1] = g[m - 1]
    BY <2>3, <2>5
  <2> QED
    BY <2>4, <2>5, <2>6
<1> QED
  BY <1>1

LEMMA AfterCallsTells ==
  ASSUME NEW l, NEW calls, Len(calls) \in Nat
  PROVE  \E f : Tells(f, l, calls) /\ AfterCalls(l, calls) = f[Len(calls)]
<1> DEFINE after[n \in 0 .. Len(calls)] ==
             IF n = 0 THEN l ELSE LogTold(after[n - 1], calls[n])
<1>1. AfterCalls(l, calls) = after[Len(calls)]
  BY DEF AfterCalls
<1>2. Tells(after, l, calls)
  <2>1. after = CHOOSE f : Tells(f, l, calls)
    BY DEF Tells
  <2> HIDE DEF after
  <2> QED
    BY <2>1, TellsExists
<1> QED
  BY <1>1, <1>2

\* No call changes nothing, and one call more is told to what the others left.
LEMMA AfterNoCalls == ASSUME NEW l PROVE AfterCalls(l, << >>) = l
<1>1. Len(<< >>) = 0
  OBVIOUS
<1>2. PICK f : Tells(f, l, << >>) /\ AfterCalls(l, << >>) = f[0]
  BY <1>1, AfterCallsTells
<1> QED
  BY <1>1, <1>2 DEF Tells

LEMMA AfterOneMore ==
  ASSUME NEW l, NEW calls \in Seq(CallTypes), NEW call \in CallTypes
  PROVE  AfterCalls(l, Append(calls, call)) = LogTold(AfterCalls(l, calls), call)
<1> DEFINE longer == Append(calls, call)
           m == Len(calls)
<1>1. /\ m \in Nat /\ Len(longer) = m + 1 /\ longer[m + 1] = call
      /\ \A n \in 1 .. m : longer[n] = calls[n]
  OBVIOUS
<1> HIDE DEF longer
<1>2. PICK f : Tells(f, l, calls) /\ AfterCalls(l, calls) = f[m]
  BY <1>1, AfterCallsTells
<1>3. PICK g : Tells(g, l, longer) /\ AfterCalls(l, longer) = g[m + 1]
  BY <1>1, AfterCallsTells
<1>4. f[m] = g[m]
  BY <1>1, <1>2, <1>3, TellsAgree
<1>5. g[m + 1] = LogTold(g[m], longer[m + 1])
  BY <1>1, <1>3 DEF Tells
<1> QED
  BY <1>1, <1>2, <1>3, <1>4, <1>5 DEF longer

----------------------------------------------------------------------------
(* What the log may become in a step.                                      *)

Bytes == 0 .. 255
Lines == [from : Bytes, to : Bytes, ok : BOOLEAN, time : Nat]
Logs  == [active : BOOLEAN, from : Bytes, to : Bytes, age : Nat, lines : Seq(Lines)]

Running(l)   == IF l.active THEN 1 ELSE 0
GoodLines(l) == { i \in DOMAIN l.lines : l.lines[i].ok }

\* After n starts in a step that may take the gear from old to new: every start has been
\* written or is being timed, a shift is as old as it was or began in the step, and one
\* line at most is good, for a shift from old to new.
Kept(l, n, old, new) ==
  /\ l \in Logs
  /\ Running(l) + Len(l.lines) = Running(log) + n
  /\ l.age \in {0, log.age}
  /\ l.active /\ l.age # 0 => log.active
  /\ \A i, j \in GoodLines(l) : i = j
  /\ \A i \in GoodLines(l) : /\ l.lines[i].from = old /\ l.lines[i].to = new /\ old # new
                             /\ l.lines[i].time <= log.age

\* _finish writes one line and stops timing.
LEMMA FinishWrites ==
  ASSUME NEW l \in Logs, NEW ok \in BOOLEAN, NEW time \in Nat
  PROVE  LET f == Finish(l, ok, time)
         IN /\ f \in Logs /\ ~f.active /\ f.age = l.age
            /\ f.from = l.from /\ f.to = l.to
            /\ Len(f.lines) = Len(l.lines) + 1 /\ Len(l.lines) \in Nat
            /\ ok => GoodLines(f) = GoodLines(l) \cup {Len(l.lines) + 1}
            /\ ~ok => GoodLines(f) = GoodLines(l)
            /\ \A i \in GoodLines(l) : f.lines[i] = l.lines[i]
            /\ f.lines[Len(l.lines) + 1] = Line(l, ok, time)
<1> DEFINE line == Line(l, ok, time)
           f    == Finish(l, ok, time)
<1>1. line \in Lines /\ l.lines \in Seq(Lines) /\ line.ok = ok
  BY DEF Line, Lines, Logs
<1>2. /\ f = [l EXCEPT !.active = FALSE, !.lines = Append(l.lines, line)]
      /\ f.lines = Append(l.lines, line)
      /\ ~f.active /\ f.age = l.age /\ f.from = l.from /\ f.to = l.to
  BY DEF Finish, Logs
<1> HIDE DEF line
<1>3. /\ Append(l.lines, line) \in Seq(Lines) /\ Len(l.lines) \in Nat
      /\ DOMAIN l.lines = 1 .. Len(l.lines)
      /\ DOMAIN f.lines = 1 .. Len(l.lines) + 1 /\ Len(f.lines) = Len(l.lines) + 1
      /\ f.lines[Len(l.lines) + 1] = line
      /\ \A i \in DOMAIN l.lines : f.lines[i] = l.lines[i]
  BY <1>1, <1>2
<1>4. f \in Logs
  BY <1>2, <1>3 DEF Logs
<1> HIDE DEF f
<1>5. /\ ok => GoodLines(f) = GoodLines(l) \cup {Len(l.lines) + 1}
      /\ ~ok => GoodLines(f) = GoodLines(l)
  BY <1>1, <1>3 DEF GoodLines
<1>6. \A i \in GoodLines(l) : f.lines[i] = l.lines[i]
  BY <1>3 DEF GoodLines
<1> QED
  BY <1>2, <1>3, <1>4, <1>5, <1>6 DEF f, line

\* A line that says the shift failed.
LEMMA FailureKept ==
  ASSUME NEW l, NEW n \in Nat, NEW old, NEW new, Kept(l, n, old, new), l.active, NEW time \in Nat
  PROVE  Kept(Finish(l, FALSE, time), n, old, new)
<1> DEFINE f == Finish(l, FALSE, time)
<1>1. /\ f \in Logs /\ ~f.active /\ f.age = l.age /\ GoodLines(f) = GoodLines(l)
      /\ Len(f.lines) = Len(l.lines) + 1 /\ Len(l.lines) \in Nat
      /\ \A i \in GoodLines(l) : f.lines[i] = l.lines[i]
  <2>1. l \in Logs /\ FALSE \in BOOLEAN
    BY DEF Kept
  <2> QED
    BY <2>1, FinishWrites
<1> HIDE DEF f
<1>2. Running(f) + Len(f.lines) = Running(l) + Len(l.lines)
  BY <1>1 DEF Running
<1> QED
  BY <1>1, <1>2 DEF Kept, f

\* shift_log_start.
LEMMA StartKept ==
  ASSUME NEW l, NEW n \in Nat, NEW old, NEW new, Kept(l, n, old, new),
         NEW from \in Bytes, NEW to \in Bytes
  PROVE  /\ Kept(ShiftLogStart(l, from, to), n + 1, old, new)
         /\ ShiftLogStart(l, from, to).active /\ ShiftLogStart(l, from, to).age = 0
         /\ ShiftLogStart(l, from, to).from = from /\ ShiftLogStart(l, from, to).to = to
<1> DEFINE done == IF l.active THEN Finish(l, FALSE, l.age) ELSE l
           s    == ShiftLogStart(l, from, to)
<1>1. Kept(done, n, old, new) /\ ~done.active
  <2>1. l \in Logs /\ l.age \in Nat
    BY DEF Kept, Logs
  <2>2. l.active => ~Finish(l, FALSE, l.age).active
    BY <2>1, FinishWrites
  <2> QED
    BY <2>1, <2>2, FailureKept
<1>2. s = [done EXCEPT !.active = TRUE, !.from = from, !.to = to, !.age = 0]
  BY DEF ShiftLogStart
<1> HIDE DEF done, s
<1>3. /\ s \in Logs /\ s.active /\ s.from = from /\ s.to = to /\ s.age = 0
      /\ s.lines = done.lines
  <2>1. done \in Logs
    BY <1>1 DEF Kept
  <2>2. /\ DOMAIN done = {"active", "from", "to", "age", "lines"}
        /\ done.lines \in Seq(Lines)
    BY <2>1 DEF Logs
  <2>3. /\ s.active /\ s.from = from /\ s.to = to /\ s.age = 0
        /\ s.lines = done.lines
    BY <1>2, <2>2
  <2>4. s \in Logs
    BY <1>2, <2>1 DEF Logs
  <2> QED
    BY <2>3, <2>4
<1>4. GoodLines(s) = GoodLines(done)
  BY <1>3 DEF GoodLines
<1>5. Running(s) = 1 /\ Running(done) = 0 /\ Len(done.lines) \in Nat /\ Running(log) \in Nat
  BY <1>1, <1>3 DEF Running, Kept, Logs
<1>6. Kept(s, n + 1, old, new)
  BY <1>1, <1>3, <1>4, <1>5 DEF Kept
<1> QED
  BY <1>3, <1>6 DEF s

\* shift_log_gear_changed, before which no line of the step is good.
LEMMA GearChangedKept ==
  ASSUME NEW l, NEW n \in Nat, NEW old \in Bytes, NEW new \in Bytes, old # new,
         log \in Logs, Kept(l, n, old, old)
  PROVE  Kept(ShiftLogGearChanged(l, old, new), n, old, new)
<1>1. GoodLines(l) = {} /\ l \in Logs /\ l.age \in Nat /\ l.age <= log.age
  <2>1. log.age \in Nat
    BY DEF Logs
  <2> QED
    BY <2>1 DEF Kept
<1>2. Kept(l, n, old, new)
  BY <1>1 DEF Kept
<1>3. CASE l.active /\ old = l.from /\ new = l.to
  <2> DEFINE f == Finish(l, TRUE, l.age)
  <2>1. /\ f \in Logs /\ ~f.active /\ f.age = l.age
        /\ Len(f.lines) = Len(l.lines) + 1 /\ Len(l.lines) \in Nat
        /\ GoodLines(f) = GoodLines(l) \cup {Len(l.lines) + 1}
        /\ f.lines[Len(l.lines) + 1] = Line(l, TRUE, l.age)
    BY <1>1, FinishWrites
  <2>2. ShiftLogGearChanged(l, old, new) = f
    BY <1>3 DEF ShiftLogGearChanged
  <2> HIDE DEF f
  <2>3. Running(f) + Len(f.lines) = Running(l) + Len(l.lines)
    BY <1>3, <2>1 DEF Running
  <2>4. \A i \in GoodLines(f) : /\ f.lines[i].from = old /\ f.lines[i].to = new
                                /\ f.lines[i].time <= log.age
    BY <1>1, <1>3, <2>1 DEF Line
  <2>5. Kept(f, n, old, new)
    BY <1>3, <2>1, <2>3, <2>4 DEF Kept
  <2> QED
    BY <2>2, <2>5
<1>4. CASE ~(l.active /\ old = l.from /\ new = l.to)
  BY <1>2, <1>4 DEF ShiftLogGearChanged
<1> QED
  BY <1>3, <1>4

----------------------------------------------------------------------------
(* What the machine's functions tell the log.                              *)

\* The log as the calls of the step so far leave it, and the starts among them.
LogOf(g)  == AfterCalls(Unwritten, g.calls)
Starts(g) == Cardinality(StartsIn(g.calls))

LogFns == {"shift_log_start", "shift_log_gear_changed"}

\* The log hears nothing between g and h, or the start of one shift.
Unheard(g, h) == LogOf(h) = LogOf(g) /\ Starts(h) = Starts(g)
HearsStart(g, h, from, to) ==
  LogOf(h) = ShiftLogStart(LogOf(g), from, to) /\ Starts(h) = Starts(g) + 1

\* Without a call between them two machines have told the same.
LEMMA SameHeard == ASSUME NEW g, NEW h, h.calls = g.calls PROVE Unheard(g, h)
BY DEF Unheard, LogOf, Starts

LEMMA UnheardJoin ==
  ASSUME NEW g, NEW h, NEW k, Unheard(g, h), Unheard(h, k) PROVE Unheard(g, k)
BY DEF Unheard

\* One call more: a start is counted, and only the log's own functions are heard.
LEMMA StartsCounted ==
  ASSUME NEW calls \in Seq(CallTypes), NEW call \in CallTypes
  PROVE  /\ Cardinality(StartsIn(calls)) \in Nat
         /\ call.fn = "shift_log_start" =>
              Cardinality(StartsIn(Append(calls, call))) = Cardinality(StartsIn(calls)) + 1
         /\ call.fn # "shift_log_start" =>
              StartsIn(Append(calls, call)) = StartsIn(calls)
<1> DEFINE longer == Append(calls, call)
           m == Len(calls)
<1>1. /\ m \in Nat /\ DOMAIN calls = 1 .. m /\ DOMAIN longer = 1 .. m + 1
      /\ longer[m + 1] = call /\ \A i \in 1 .. m : longer[i] = calls[i]
  OBVIOUS
<1> HIDE DEF longer, m
<1>2. StartsIn(calls) \subseteq 1 .. m /\ m + 1 \notin StartsIn(calls)
  BY <1>1 DEF StartsIn
<1>3. IsFiniteSet(StartsIn(calls))
  <2>1. 1 \in Int /\ m \in Int
    BY <1>1
  <2>2. IsFiniteSet(1 .. m)
    BY <2>1, FS_Interval
  <2> QED
    BY <1>2, <2>2, FS_Subset
<1>4. call.fn = "shift_log_start" => StartsIn(longer) = StartsIn(calls) \cup {m + 1}
  BY <1>1 DEF StartsIn
<1>5. call.fn # "shift_log_start" => StartsIn(longer) = StartsIn(calls)
  BY <1>1 DEF StartsIn
<1>6. /\ Cardinality(StartsIn(calls)) \in Nat
      /\ Cardinality(StartsIn(calls) \cup {m + 1}) = Cardinality(StartsIn(calls)) + 1
  BY <1>2, <1>3, FS_AddElement, FS_CardinalityType
<1> QED
  BY <1>4, <1>5, <1>6 DEF longer

LEMMA SayHeard ==
  ASSUME NEW g \in Machines, NEW call \in CallTypes
  PROVE  /\ call.fn \notin LogFns => Unheard(g, Say(g, call))
         /\ call.fn = "shift_log_start" => HearsStart(g, Say(g, call), call.from, call.gear)
         /\ call.fn = "shift_log_gear_changed" =>
              /\ LogOf(Say(g, call)) = ShiftLogGearChanged(LogOf(g), call.from, call.gear)
              /\ Starts(Say(g, call)) = Starts(g)
<1>1. g.calls \in Seq(CallTypes) /\ Say(g, call).calls = Append(g.calls, call)
  BY DEF Machines, Say
<1>2. LogOf(Say(g, call)) = LogTold(LogOf(g), call)
  BY <1>1, AfterOneMore DEF LogOf
<1>3. /\ call.fn = "shift_log_start" => Starts(Say(g, call)) = Starts(g) + 1
      /\ call.fn # "shift_log_start" => Starts(Say(g, call)) = Starts(g)
  BY <1>1, StartsCounted DEF Starts
<1> QED
  BY <1>2, <1>3 DEF LogTold, LogFns, Unheard, HearsStart

\* The clutch's, the display's and the rear node's calls are none of the log's.
LEMMA NotHeard ==
  /\ \A fn \in ClutchFns : ClutchCall(fn).fn \notin LogFns
  /\ \A target : StackCall(target).fn \notin LogFns
  /\ \A pulse, ignition, gear : ShiftCall(pulse, ignition, gear).fn \notin LogFns
  /\ \A up : ManualCall(up).fn \notin LogFns
BY DEF ClutchFns, LogFns, ClutchCall, StackCall, ShiftCall, ManualCall, Plain, Call

LEMMA ClutchUnheard ==
  ASSUME NEW g \in Machines, NEW fn \in ClutchFns
  PROVE  Say(g, ClutchCall(fn)) \in Machines /\ Unheard(g, Say(g, ClutchCall(fn)))
BY SayType, SayHeard, CallsTyped, NotHeard

\* Neither the stack nor the pulse is the log's business.
LEMMA StackUnheard ==
  ASSUME NEW g \in Machines
  PROVE  Unheard(g, ClearStack(g)) /\ Unheard(g, PushStack(g))
<1>1. ASSUME NEW target \in Gears
      PROVE  Unheard(g, Say([g EXCEPT !.target = target], StackCall(target)))
  <2> DEFINE k == [g EXCEPT !.target = target]
  <2>1. k \in Machines /\ k.calls = g.calls
    BY DEF Machines
  <2> HIDE DEF k
  <2>2. Unheard(k, Say(k, StackCall(target)))
    BY <2>1, SayHeard, CallsTyped, NotHeard
  <2>3. Unheard(g, k)
    BY <2>1, SameHeard
  <2> QED
    BY <2>2, <2>3, UnheardJoin DEF k
<1>2. AtLeastOne((IF g.target = 0 THEN g.expected ELSE g.target) - 1) \in Gears
  <2>1. g.target \in Gears /\ g.expected \in -1 .. MaxGear + 1
    BY DEF Machines
  <2> QED
    BY <2>1, GearsAssumption DEF AtLeastOne, Gears
<1>3. Unheard(g, PushStack(g))
  BY <1>1, <1>2 DEF PushStack
<1>4. Unheard(g, g)
  BY DEF Unheard
<1> QED
  BY <1>1, <1>3, <1>4, NumbersTyped DEF ClearStack

LEMMA PulseUnheard ==
  ASSUME NEW g \in Machines
  PROVE  /\ Unheard(g, EndPulse(g))
         /\ \A pulse \in Pulses, ignition \in {"on", "cut"} :
              Unheard(g, ActivateShift(g, pulse, ignition))
<1>1. Unheard(g, EndPulse(g))
  <2>1. EndPulse(g).calls = g.calls
    BY DEF Machines, EndPulse
  <2> QED
    BY <2>1, SameHeard
<1>2. ASSUME NEW pulse \in Pulses, NEW ignition \in {"on", "cut"}
      PROVE  Unheard(g, ActivateShift(g, pulse, ignition))
  <2> DEFINE k    == [g EXCEPT !.pulse = pulse, !.shiftAge = 0]
             call == ShiftCall(pulse, ignition, g.expected)
  <2>1. k \in Machines /\ k.calls = g.calls
    BY NumbersTyped DEF Machines
  <2>2. call \in CallTypes /\ call.fn \notin LogFns
    BY NumbersTyped, CallsTyped, NotHeard
  <2>3. ActivateShift(g, pulse, ignition) = Say(k, call)
    BY DEF ActivateShift
  <2> HIDE DEF k, call
  <2>4. Unheard(g, k) /\ Unheard(k, Say(k, call))
    BY <2>1, <2>2, SameHeard, SayHeard
  <2> QED
    BY <2>3, <2>4, UnheardJoin
<1> QED
  BY <1>1, <1>2

\* A shift begins, for the log, in every state that runs one but the pulse of a downshift,
\* whose start was the wait for its clutch.
Opening == Shifting \ {GB_DOWNSHIFT_SHIFTING}

\* _enterShifting.
LEMMA EnterShiftingHeard ==
  ASSUME NEW k \in Machines, k.state \in Shifting
  PROVE  /\ k.state \in Opening =>
              HearsStart(k, EnterShifting(k), Byte(k.gear), Byte(ExpectedFrom(k.state, k.gear)))
         /\ k.state \notin Opening => Unheard(k, EnterShifting(k))
         /\ EnterShifting(k).expected = ExpectedFrom(k.state, k.gear)
<1> DEFINE expected == ExpectedFrom(k.state, k.gear)
           aimed    == [k EXCEPT !.expected = expected]
           logged   == Say(aimed, LogStart(k.gear, aimed.expected))
           h        == EnterShifting(k)
<1>1. /\ aimed \in Machines /\ aimed.calls = k.calls /\ aimed.expected = expected
      /\ k.gear \in Int /\ expected \in Int /\ k.state \in States
  BY NumbersTyped DEF Machines
<1> HIDE DEF aimed
<1>2. /\ logged \in Machines /\ logged.expected = expected
      /\ HearsStart(aimed, logged, Byte(k.gear), Byte(expected))
  <2> DEFINE call == LogStart(k.gear, expected)
  <2>1. /\ call \in CallTypes /\ call.fn = "shift_log_start"
        /\ call.from = Byte(k.gear) /\ call.gear = Byte(expected)
    BY <1>1, CallsTyped DEF LogStart, Plain, Call
  <2> HIDE DEF call
  <2>2. logged = Say(aimed, call)
    BY <1>1 DEF call
  <2> HIDE DEF logged
  <2>3. Say(aimed, call).expected = expected
    BY <1>1, SayKeeps
  <2> QED
    BY <1>1, <2>1, <2>2, <2>3, SayType, SayHeard
<1>3. Unheard(k, aimed) /\ HearsStart(k, logged, Byte(k.gear), Byte(expected))
  <2>1. Unheard(k, aimed)
    BY <1>1, SameHeard
  <2> QED
    BY <1>2, <2>1 DEF HearsStart, Unheard
<1>4. h = CASE k.state = GB_NEUTRAL_DOWN_SHIFTING ->
                 ActivateShift(logged, IF k.gear = 0 THEN "shiftDown" ELSE "neutralDown", "on")
            [] k.state = GB_NEUTRAL_UP_SHIFTING ->
                 ActivateShift(logged, IF k.gear = 0 THEN "shiftUp" ELSE "neutralUp", "on")
            [] k.state = GB_UPSHIFTING -> ActivateShift(logged, "shiftUp", "cut")
            [] k.state = GB_DOWNSHIFT_CLUTCH_ENGAGING ->
                 Say(logged, ClutchCall("clutch_command_pull"))
            [] OTHER -> ActivateShift(aimed, "shiftDown", "on")
  BY DEF EnterShifting, aimed
<1> HIDE DEF logged, expected, h
<1>5. ASSUME NEW m \in Machines, m.expected = expected
      PROVE  /\ Unheard(m, Say(m, ClutchCall("clutch_command_pull")))
             /\ Say(m, ClutchCall("clutch_command_pull")).expected = expected
             /\ \A pulse \in Pulses, ignition \in {"on", "cut"} :
                  /\ Unheard(m, ActivateShift(m, pulse, ignition))
                  /\ ActivateShift(m, pulse, ignition).expected = expected
  <2>1. "clutch_command_pull" \in ClutchFns
    BY DEF ClutchFns
  <2> QED
    BY <1>5, <2>1, ClutchUnheard, PulseUnheard, SayKeeps, ActivateShiftKeeps
<1>6. /\ k.state \in Opening => Unheard(logged, h) /\ h.expected = expected
      /\ k.state \notin Opening => Unheard(aimed, h) /\ h.expected = expected
  <2>1. k.state \in Opening =>
          k.state \in {GB_NEUTRAL_DOWN_SHIFTING, GB_NEUTRAL_UP_SHIFTING, GB_UPSHIFTING,
                       GB_DOWNSHIFT_CLUTCH_ENGAGING}
    BY DEF Opening, Shifting, PulseStates
  <2>2. k.state \notin Opening => k.state = GB_DOWNSHIFT_SHIFTING
    BY DEF Opening
  <2>3. /\ GB_DOWNSHIFT_SHIFTING \notin {GB_NEUTRAL_DOWN_SHIFTING, GB_NEUTRAL_UP_SHIFTING,
                                         GB_UPSHIFTING, GB_DOWNSHIFT_CLUTCH_ENGAGING}
    BY GearsAssumption DEF GB_NEUTRAL_DOWN_SHIFTING, GB_NEUTRAL_UP_SHIFTING,
       GB_UPSHIFTING, GB_DOWNSHIFT_CLUTCH_ENGAGING, GB_DOWNSHIFT_SHIFTING
  <2>4. {"shiftDown", "neutralDown", "shiftUp", "neutralUp"} \subseteq Pulses
    BY DEF Pulses, UpPulses, DownPulses
  <2>5. k.state \in Opening => Unheard(logged, h) /\ h.expected = expected
    BY <1>2, <1>4, <1>5, <2>1, <2>4
  <2>6. k.state \notin Opening => Unheard(aimed, h) /\ h.expected = expected
    BY <1>1, <1>4, <1>5, <2>2, <2>3, <2>4
  <2> QED
    BY <2>5, <2>6
<1>7. k.state \in Opening => HearsStart(k, h, Byte(k.gear), Byte(expected))
  BY <1>3, <1>6 DEF HearsStart, Unheard
<1>8. k.state \notin Opening => Unheard(k, h)
  BY <1>3, <1>6, UnheardJoin
<1> QED
  BY <1>6, <1>7, <1>8 DEF h, expected

\* _transitionTo.
LEMMA TransitionToHeard ==
  ASSUME NEW g \in Machines, NEW next \in States
  PROVE  /\ next # g.state /\ next \in Opening =>
              HearsStart(g, TransitionTo(g, next), Byte(g.gear),
                         Byte(ExpectedFrom(next, g.gear)))
         /\ next = g.state \/ next \notin Opening => Unheard(g, TransitionTo(g, next))
         /\ next # g.state /\ next \in Shifting =>
              TransitionTo(g, next).expected = ExpectedFrom(next, g.gear)
<1> DEFINE k == [g EXCEPT !.state = next, !.age = 0]
           h == TransitionTo(g, next)
<1>1. k \in Machines /\ k.calls = g.calls /\ k.state = next /\ k.gear = g.gear
  BY NumbersTyped DEF Machines
<1>2. Unheard(g, k)
  BY <1>1, SameHeard
<1>3. h = IF next = g.state THEN g
          ELSE IF IsIdle(next) THEN EnterIdle(k)
          ELSE IF next = GB_DOWNSHIFT_TO_BITE_POINT THEN EnterBitePoint(k)
          ELSE IF IsShifting(next) THEN EnterShifting(k)
          ELSE IF next = GB_ERROR_SHIFT_TIMEOUT THEN EnterError(k)
          ELSE k
  BY StateKinds, KindsDisjoint DEF TransitionTo
<1>4. next \in Shifting <=> IsShifting(next) /\ next # GB_DOWNSHIFT_TO_BITE_POINT
  BY KindsDisjoint DEF Shifting
<1>5. next \in Shifting => ~IsIdle(next)
  BY <1>4, KindsDisjoint
<1> HIDE DEF k, h
<1>6. {"clutch_release", "clutch_command_bite"} \subseteq ClutchFns
  BY DEF ClutchFns
<1>7. Unheard(k, EnterIdle(k))
  BY <1>1, <1>6, ClutchUnheard, PulseUnheard, UnheardJoin DEF EnterIdle
<1>8. Unheard(k, EnterBitePoint(k))
  BY <1>1, <1>6, ClutchUnheard DEF EnterBitePoint
<1>9. Unheard(k, EnterError(k))
  <2> DEFINE ended == EndPulse(k)
             said  == Say(ended, ClutchCall("clutch_release"))
  <2>1. ended \in Machines /\ Unheard(k, ended)
    BY <1>1, EndPulseType, PulseUnheard
  <2> HIDE DEF ended
  <2>2. said \in Machines /\ Unheard(ended, said)
    BY <1>6, <2>1, ClutchUnheard
  <2> HIDE DEF said
  <2>3. Unheard(said, ClearStack(said))
    BY <2>2, StackUnheard
  <2>4. EnterError(k) = ClearStack(said)
    BY DEF EnterError, said, ended
  <2> QED
    BY <2>1, <2>2, <2>3, <2>4, UnheardJoin
<1>10. next \in Shifting =>
         /\ next \in Opening =>
              HearsStart(k, EnterShifting(k), Byte(g.gear), Byte(ExpectedFrom(next, g.gear)))
         /\ next \notin Opening => Unheard(k, EnterShifting(k))
         /\ EnterShifting(k).expected = ExpectedFrom(next, g.gear)
  BY <1>1, EnterShiftingHeard
<1>11. next \in Opening => next \in Shifting
  BY DEF Opening
<1>12. CASE next = g.state
  <2>1. Unheard(g, g)
    BY DEF Unheard
  <2> QED
    BY <1>3, <1>12, <2>1 DEF h
<1>13. CASE next # g.state /\ next \in Shifting
  <2>1. h = EnterShifting(k)
    BY <1>3, <1>4, <1>5, <1>13
  <2>2. next \in Opening =>
          HearsStart(g, h, Byte(g.gear), Byte(ExpectedFrom(next, g.gear)))
    BY <1>2, <1>10, <1>13, <2>1 DEF HearsStart, Unheard
  <2>3. next \notin Opening => Unheard(g, h)
    BY <1>2, <1>10, <1>13, <2>1, UnheardJoin
  <2> QED
    BY <1>10, <1>13, <2>1, <2>2, <2>3 DEF h
<1>14. CASE next # g.state /\ next \notin Shifting
  <2>1. h \in {EnterIdle(k), EnterBitePoint(k), EnterError(k), k}
    BY <1>3, <1>4, <1>14
  <2>2. Unheard(g, h)
    BY <1>2, <1>7, <1>8, <1>9, <2>1, UnheardJoin
  <2> QED
    BY <1>11, <1>14, <2>2 DEF h
<1> QED
  BY <1>12, <1>13, <1>14

----------------------------------------------------------------------------
(* The shift that runs is the one being timed.                             *)

\* How long a state that runs a shift may last when the loop keeps up, and how old the
\* shift may have been when it began.
Ends(g)  == IF g.state = GB_DOWNSHIFT_CLUTCH_ENGAGING THEN ServoTimeout ELSE PulseMs[g.pulse]
Slack(s) == IF s = GB_DOWNSHIFT_SHIFTING THEN ServoTimeout ELSE 0

Watched(g) == prompt /\ ~g.wasManual /\ g.state \in Shifting

Timed(g, l) ==
  Watched(g) =>
    /\ l.active /\ l.from = g.gear /\ l.to = Byte(g.expected)
    /\ g.expected = ExpectedFrom(g.state, g.gear)
    /\ l.age <= g.age + Slack(g.state) /\ g.age <= Ends(g)

\* After the loop has passed there is time left.
Early(g) == Watched(g) => g.age < Ends(g)

\* A machine in the middle of a step that found the gear old and may have made it new.
InStep(g, old, new) == Kept(LogOf(g), Starts(g), old, new) /\ Timed(g, LogOf(g))

\* A shift's limits, and that together they stay below the log's.
LEMMA Limits ==
  /\ ServoTimeout \in Nat /\ ServoTimeout > 0
  /\ \A g \in Machines :
       /\ g.state \in Shifting
       /\ g.state \in PulseStates => g.pulse # "none"
       => /\ Ends(g) \in Nat /\ Ends(g) > 0 /\ Slack(g.state) \in Nat
          /\ Ends(g) + Slack(g.state) < LogTimeout /\ Ends(g) <= AgeCap
<1>1. /\ ServoTimeout \in Nat /\ ServoTimeout > 0 /\ ShiftTimeout \in Nat
      /\ ShiftTimeout > 0 /\ AgeCap \in Nat
      /\ ServoTimeout <= AgeCap /\ ShiftTimeout <= AgeCap
      /\ \A pulse \in Pulses : PulseMs[pulse] \in 1 .. (ShiftTimeout - 1)
      /\ LogTimeout \in Nat /\ LogTimeout >= ServoTimeout + ShiftTimeout
  BY TimingAssumption, LimitAssumption
<1>2. ASSUME NEW g \in Machines, g.state \in Shifting,
             g.state \in PulseStates => g.pulse # "none"
      PROVE  /\ Ends(g) \in Nat /\ Ends(g) > 0 /\ Slack(g.state) \in Nat
             /\ Ends(g) + Slack(g.state) < LogTimeout /\ Ends(g) <= AgeCap
  <2>1. CASE g.state = GB_DOWNSHIFT_CLUTCH_ENGAGING
    <3>1. g.state # GB_DOWNSHIFT_SHIFTING
      BY <2>1, GearsAssumption DEF GB_DOWNSHIFT_CLUTCH_ENGAGING, GB_DOWNSHIFT_SHIFTING
    <3>2. Ends(g) = ServoTimeout /\ Slack(g.state) = 0
      BY <2>1, <3>1 DEF Ends, Slack
    <3> QED
      BY <1>1, <3>2
  <2>2. CASE g.state # GB_DOWNSHIFT_CLUTCH_ENGAGING
    <3>1. g.pulse \in Pulses
      BY <1>2, <2>2 DEF Shifting, Machines
    <3>2. Ends(g) \in 1 .. (ShiftTimeout - 1) /\ Slack(g.state) \in {0, ServoTimeout}
      BY <1>1, <2>2, <3>1 DEF Ends, Slack
    <3> QED
      BY <1>1, <3>2
  <2> QED
    BY <2>1, <2>2
<1> QED
  BY <1>1, <1>2

LEMMA StartsTyped == ASSUME NEW g \in Machines PROVE Starts(g) \in Nat
<1>1. g.calls \in Seq(CallTypes) /\ ClutchCall("clutch_release") \in CallTypes
  BY CallsTyped DEF Machines, ClutchFns
<1> QED
  BY <1>1, StartsCounted DEF Starts

\* A shift's gears fit the log's.
LEMMA BytesTyped ==
  /\ \A n \in Int : Byte(n) \in Bytes
  /\ \A gear \in Gears : Byte(gear) = gear
BY GearsAssumption DEF Byte, Bytes, Gears

\* What the log does not hear and the machine's shift does not notice.
LEMMA SameInStep ==
  ASSUME NEW g, NEW h, NEW old, NEW new, Unheard(g, h),
         h.state = g.state, h.age = g.age, h.gear = g.gear, h.expected = g.expected,
         h.pulse = g.pulse, h.wasManual = g.wasManual
  PROVE  /\ InStep(g, old, new) => InStep(h, old, new)
         /\ Early(g) => Early(h)
BY DEF InStep, Unheard, Timed, Early, Watched, Ends, Slack

LEMMA StackInStep ==
  ASSUME NEW g \in Machines, NEW old, NEW new
  PROVE  /\ InStep(g, old, new) =>
              InStep(ClearStack(g), old, new) /\ InStep(PushStack(g), old, new)
         /\ Early(g) => Early(ClearStack(g)) /\ Early(PushStack(g))
<1>1. /\ PushStack(g).state = g.state /\ PushStack(g).age = g.age
      /\ PushStack(g).gear = g.gear /\ PushStack(g).expected = g.expected
      /\ PushStack(g).pulse = g.pulse /\ PushStack(g).wasManual = g.wasManual
  BY DEF Machines, PushStack, Say
<1>2. /\ ClearStack(g).state = g.state /\ ClearStack(g).age = g.age
      /\ ClearStack(g).gear = g.gear /\ ClearStack(g).expected = g.expected
      /\ ClearStack(g).pulse = g.pulse /\ ClearStack(g).wasManual = g.wasManual
  BY ClearStackKeeps
<1> QED
  BY <1>1, <1>2, StackUnheard, SameInStep

\* _transitionTo: a state that runs a shift begins with its start, and the pulse of a
\* downshift with the wait for the clutch behind it.
LEMMA TransitionInStep ==
  ASSUME NEW g \in Machines, NEW next \in States, NEW old, NEW new,
         Kept(LogOf(g), Starts(g), old, new),
         next \in Shifting => Timed(g, LogOf(g)),
         next = GB_DOWNSHIFT_SHIFTING => g.state \in {next, GB_DOWNSHIFT_CLUTCH_ENGAGING}
  PROVE  InStep(TransitionTo(g, next), old, new)
<1> DEFINE h == TransitionTo(g, next)
           expected == ExpectedFrom(next, g.gear)
<1>1. /\ h \in Machines /\ h.state = next /\ h.gear = g.gear /\ h.wasManual = g.wasManual
      /\ g.gear \in Gears /\ g.gear \in Int /\ expected \in Int
      /\ g.age \in Nat /\ Starts(g) \in Nat
  BY TransitionToType, TransitionSays, StartsTyped, NumbersTyped DEF Machines
<1>2. next # g.state =>
        /\ h.age = 0
        /\ next \in PulseStates => h.pulse # "none"
        /\ next \in Shifting => h.expected = expected
  BY TransitionToEffect, TransitionToHeard
<1>3. /\ next # g.state /\ next \in Opening =>
           HearsStart(g, h, Byte(g.gear), Byte(expected))
      /\ next = g.state \/ next \notin Opening => Unheard(g, h)
  BY TransitionToHeard
<1>4. next = g.state => h = g
  BY DEF TransitionTo
<1> HIDE DEF h, expected
<1>5. ASSUME Unheard(g, h) PROVE Kept(LogOf(h), Starts(h), old, new)
  BY <1>5 DEF Unheard
<1>6. ASSUME next \in Opening, next # g.state PROVE InStep(h, old, new)
  <2>1. Byte(g.gear) = g.gear /\ Byte(g.gear) \in Bytes /\ Byte(expected) \in Bytes
    BY <1>1, BytesTyped
  <2>2. /\ Kept(LogOf(h), Starts(h), old, new)
        /\ LogOf(h).active /\ LogOf(h).from = g.gear /\ LogOf(h).to = Byte(expected)
        /\ LogOf(h).age = 0
    <3> DEFINE l == LogOf(g)  n == Starts(g)  to == Byte(expected)
    <3>1. LogOf(h) = ShiftLogStart(l, g.gear, to) /\ Starts(h) = n + 1
      BY <1>3, <1>6, <2>1 DEF HearsStart
    <3>2. Kept(l, n, old, new) /\ n \in Nat /\ g.gear \in Bytes /\ to \in Bytes
      BY <1>1, <2>1
    <3> HIDE DEF l, n, to
    <3>3. /\ Kept(ShiftLogStart(l, g.gear, to), n + 1, old, new)
          /\ ShiftLogStart(l, g.gear, to).active /\ ShiftLogStart(l, g.gear, to).age = 0
          /\ ShiftLogStart(l, g.gear, to).from = g.gear
          /\ ShiftLogStart(l, g.gear, to).to = to
      BY <3>2, StartKept
    <3> QED
      BY <3>1, <3>3 DEF to
  <2>3. next \in Shifting /\ h.age = 0 /\ h.expected = expected
    BY <1>2, <1>6 DEF Opening
  <2>4. Ends(h) \in Nat /\ Slack(next) \in Nat
    BY <1>1, <1>2, <1>6, <2>3, Limits
  <2>5. Timed(h, LogOf(h))
    BY <1>1, <2>2, <2>3, <2>4 DEF Timed, expected
  <2> QED
    BY <2>2, <2>5 DEF InStep
<1>7. ASSUME next \notin Shifting PROVE InStep(h, old, new)
  <2>1. next \notin Opening
    BY <1>7 DEF Opening
  <2>2. Timed(h, LogOf(h))
    BY <1>1, <1>7 DEF Timed, Watched
  <2> QED
    BY <1>3, <1>5, <2>1, <2>2 DEF InStep
<1>8. ASSUME next = GB_DOWNSHIFT_SHIFTING, next # g.state PROVE InStep(h, old, new)
  <2>1. /\ next \notin Opening /\ next \in Shifting
        /\ g.state = GB_DOWNSHIFT_CLUTCH_ENGAGING /\ g.state \in Shifting
    BY <1>8 DEF Opening, Shifting, PulseStates
  <2>2. Unheard(g, h) /\ h.age = 0 /\ h.expected = expected
    BY <1>2, <1>3, <1>8, <2>1
  <2>3. /\ ExpectedFrom(g.state, g.gear) = expected
        /\ Ends(g) = ServoTimeout /\ Slack(g.state) = 0 /\ Slack(next) = ServoTimeout
    BY <1>8, <2>1, GearsAssumption DEF ExpectedFrom, expected, Ends, Slack,
       GB_DOWNSHIFT_CLUTCH_ENGAGING, GB_DOWNSHIFT_SHIFTING, GB_NEUTRAL_DOWN_SHIFTING,
       GB_NEUTRAL_UP_SHIFTING, GB_UPSHIFTING
  <2>4. Ends(h) \in Nat /\ ServoTimeout \in Nat
    BY <1>1, <1>2, <1>8, <2>1, Limits
  <2>5. LogOf(h) = LogOf(g) /\ LogOf(g).age \in Nat
    BY <2>2 DEF Unheard, Kept, Logs
  <2>6. ASSUME Watched(h)
        PROVE  /\ LogOf(h).active /\ LogOf(h).from = h.gear /\ LogOf(h).to = Byte(h.expected)
               /\ h.expected = ExpectedFrom(h.state, h.gear)
               /\ LogOf(h).age <= h.age + Slack(h.state) /\ h.age <= Ends(h)
    <3>1. Watched(g)
      BY <1>1, <2>1, <2>6 DEF Watched
    <3>2. /\ LogOf(g).active /\ LogOf(g).from = g.gear /\ LogOf(g).to = Byte(g.expected)
          /\ g.expected = expected
          /\ LogOf(g).age <= g.age /\ g.age <= ServoTimeout
      BY <1>1, <2>1, <2>3, <3>1 DEF Timed
    <3> QED
      BY <1>1, <2>2, <2>3, <2>4, <2>5, <3>2 DEF expected
  <2> QED
    BY <1>5, <2>2, <2>6 DEF InStep, Timed
<1>9. ASSUME next = g.state, next \in Shifting PROVE InStep(h, old, new)
  BY <1>4, <1>9 DEF InStep
<1> QED
  BY <1>6, <1>7, <1>8, <1>9 DEF Opening, h

LEMMA TransitionEarly ==
  ASSUME NEW g \in Machines, NEW next \in States, next # g.state \/ Early(g)
  PROVE  Early(TransitionTo(g, next))
<1> DEFINE h == TransitionTo(g, next)
<1>1. CASE next = g.state
  BY <1>1 DEF TransitionTo
<1>2. CASE next # g.state
  <2>1. h \in Machines /\ h.state = next /\ h.age = 0 /\ (next \in PulseStates => h.pulse # "none")
    BY <1>2, TransitionToType, TransitionToEffect
  <2> HIDE DEF h
  <2>2. next \in Shifting => Ends(h) > 0
    BY <2>1, Limits
  <2>3. Early(h)
    BY <2>1, <2>2 DEF Early, Watched
  <2> QED
    BY <2>3 DEF h
<1> QED
  BY <1>1, <1>2

\* No idle state, no abort, no wait and no hold at the bite point runs a shift.
LEMMA NotShifting ==
  ASSUME NEW s \in States,
         \/ IsIdle(s) \/ IsWaiting(s)
         \/ s \in {GB_DOWNSHIFT_TO_BITE_POINT, GB_ERROR_SHIFT_TIMEOUT}
  PROVE  s \notin Shifting /\ s # GB_DOWNSHIFT_SHIFTING
BY KindsDisjoint DEF Shifting, PulseStates

LEMMA HomeNotShifting ==
  ASSUME NEW gear \in Int
  PROVE  /\ IdleFor(gear) \in States /\ IdleFor(gear) \notin Shifting
         /\ IdleFor(gear) # GB_DOWNSHIFT_SHIFTING
BY HomeIsIdle, NotShifting

\* The way home.
LEMMA GoHomeInStep ==
  ASSUME NEW g \in Machines, NEW old, NEW new, Kept(LogOf(g), Starts(g), old, new),
         NEW gear \in Int
  PROVE  InStep(TransitionTo(g, IdleFor(gear)), old, new)
BY HomeNotShifting, TransitionInStep

----------------------------------------------------------------------------
(* Events and reports, for the log.                                        *)

\* The pulse of a downshift only follows the wait for its clutch.
LEMMA DownshiftRow ==
  ASSUME NEW row \in Table, row.to = GB_DOWNSHIFT_SHIFTING
  PROVE  row.from = GB_DOWNSHIFT_CLUTCH_ENGAGING
BY GearsAssumption DEF Table, Row, GB_IDLE_NEUTRAL, GB_NEUTRAL_DOWN_SHIFTING,
   GB_NEUTRAL_UP_SHIFTING, GB_UPSHIFTING, GB_DOWNSHIFT_CLUTCH_ENGAGING,
   GB_DOWNSHIFT_SHIFTING, GB_WAITING_FOR_CLUTCH_SHIFT_DOWN, GB_WAITING_FOR_CLUTCH_SHIFT_UP

LEMMA FollowInStep ==
  ASSUME NEW g \in Machines, NEW event, NEW old, NEW new
  PROVE  /\ InStep(g, old, new) => InStep(Follow(g, event), old, new)
         /\ Early(g) => Early(Follow(g, event))
<1>1. ASSUME NEW row \in Table, row.from = g.state, InStep(g, old, new)
      PROVE  InStep(TransitionTo(g, row.to), old, new)
  <2>1. row.to \in States /\ (row.to = GB_DOWNSHIFT_SHIFTING => g.state = GB_DOWNSHIFT_CLUTCH_ENGAGING)
    BY <1>1, TableTyped, DownshiftRow
  <2> QED
    BY <1>1, <2>1, TransitionInStep DEF InStep
<1>2. ASSUME NEW row \in Table, Early(g) PROVE Early(TransitionTo(g, row.to))
  BY <1>2, TableTyped, TransitionEarly
<1> QED
  BY <1>1, <1>2, FollowsARow

\* _processEvent.
LEMMA EventInStep ==
  ASSUME NEW g \in Machines, NEW event, NEW old, NEW new
  PROVE  /\ InStep(g, old, new) => InStep(ProcessEvent(g, event), old, new)
         /\ Early(g) => Early(ProcessEvent(g, event))
<1>1. ClearStack(g) \in Machines
  BY ClearStackType
<1>2. ASSUME InStep(g, old, new) PROVE InStep(ProcessEvent(g, event), old, new)
  <2>1. /\ InStep(Follow(g, event), old, new) /\ InStep(PushStack(g), old, new)
        /\ InStep(Follow(ClearStack(g), event), old, new)
    BY <1>1, <1>2, FollowInStep, StackInStep
  <2>2. InStep(TransitionTo(g, IdleFor(g.gear)), old, new)
    BY <1>2, NumbersTyped, GoHomeInStep DEF InStep
  <2> QED
    BY <2>1, <2>2 DEF ProcessEvent
<1>3. ASSUME Early(g) PROVE Early(ProcessEvent(g, event))
  <2>1. /\ Early(Follow(g, event)) /\ Early(PushStack(g))
        /\ Early(Follow(ClearStack(g), event))
    BY <1>1, <1>3, FollowInStep, StackInStep
  <2>2. Early(TransitionTo(g, IdleFor(g.gear)))
    BY <1>3, NumbersTyped, HomeNotShifting, TransitionEarly
  <2> QED
    BY <2>1, <2>2 DEF ProcessEvent
<1> QED
  BY <1>2, <1>3

\* The stack after a report.
LEMMA NextStackedInStep ==
  ASSUME NEW g \in Machines, NEW old, NEW new, InStep(g, old, new)
  PROVE  InStep(NextStacked(g), old, new) /\ NextStacked(g).gear = g.gear
<1>1. /\ GB_DOWNSHIFT_CLUTCH_ENGAGING \in States
      /\ GB_DOWNSHIFT_CLUTCH_ENGAGING # GB_DOWNSHIFT_SHIFTING
  BY StatesTyped, GearsAssumption DEF GB_DOWNSHIFT_CLUTCH_ENGAGING, GB_DOWNSHIFT_SHIFTING
<1>2. /\ InStep(TransitionTo(g, GB_DOWNSHIFT_CLUTCH_ENGAGING), old, new)
      /\ TransitionTo(g, GB_DOWNSHIFT_CLUTCH_ENGAGING).gear = g.gear
  BY <1>1, TransitionInStep, TransitionSays DEF InStep
<1>3. /\ InStep(ProcessEvent(g, "EV_SHIFT_DOWN_PRESSED"), old, new)
      /\ ProcessEvent(g, "EV_SHIFT_DOWN_PRESSED").gear = g.gear
  BY EventInStep, EventSays
<1>4. InStep(ClearStack(g), old, new) /\ ClearStack(g).gear = g.gear
  BY StackInStep, ClearStackKeeps
<1> QED
  BY <1>2, <1>3, <1>4 DEF NextStacked

\* _setGear: the log hears of the gear when the machine is idle, and of the next shift,
\* if the stack fires one, after it.
LEMMA SetGearInStep ==
  ASSUME NEW g \in Machines, NEW gear, log \in Logs, InStep(g, g.gear, g.gear)
  PROVE  LET h == SetGear(g, gear)
         IN h.gear \in {g.gear, gear} /\ InStep(h, g.gear, h.gear)
<1>1. CASE gear \notin Gears \/ gear = g.gear
  BY <1>1 DEF SetGear
<1>2. CASE gear \in Gears /\ gear # g.gear
  <2> DEFINE k    == [g EXCEPT !.gear = gear]
             home == ProcessEvent(k, "EV_GEAR_CHANGED")
             call == LogChanged(g.gear, gear)
             said == Say(home, call)
  <2>1. /\ k \in Machines /\ k.gear = gear /\ k.calls = g.calls /\ g.gear \in Gears
        /\ gear \in Int
    <3>1. gear \in Gears
      BY <1>2
    <3>2. k \in Machines
      BY <3>1 DEF Machines
    <3>3. k.gear = gear /\ k.calls = g.calls /\ g.gear \in Gears
      BY DEF Machines
    <3>4. gear \in Int
      BY <3>1, GearsAssumption DEF Gears
    <3> HIDE DEF k
    <3> QED
      BY <3>2, <3>3, <3>4
  <2>2. SetGear(g, gear) = NextStacked(said)
    BY <1>2 DEF SetGear
  <2>3. /\ call \in CallTypes /\ call.fn = "shift_log_gear_changed"
        /\ call.from = g.gear /\ call.gear = gear
    BY <1>2, <2>1, CallsTyped DEF LogChanged, Plain, Call
  <2> HIDE DEF k, call
  <2>4. Kept(LogOf(k), Starts(k), g.gear, g.gear)
    BY <2>1, SameHeard DEF InStep, Unheard
  <2>5. home = TransitionTo(k, IdleFor(gear))
    BY <2>1 DEF ProcessEvent
  <2>6. /\ home \in Machines /\ InStep(home, g.gear, g.gear) /\ home.gear = gear
        /\ home.state \notin Shifting
    <3>1. IdleFor(gear) \in States /\ IdleFor(gear) \notin Shifting
      BY <2>1, HomeNotShifting
    <3> QED
      BY <2>1, <2>4, <2>5, <3>1, GoHomeInStep, TransitionToType, TransitionSays
  <2> HIDE DEF home
  <2>7. /\ said \in Machines /\ said.gear = gear /\ said.state \notin Shifting
        /\ LogOf(said) = ShiftLogGearChanged(LogOf(home), g.gear, gear)
        /\ Starts(said) = Starts(home) /\ Starts(home) \in Nat
    BY <2>3, <2>6, SayType, SayKeeps, SayHeard, StartsTyped
  <2> HIDE DEF said
  <2>8. Kept(LogOf(said), Starts(said), g.gear, gear)
    <3>1. g.gear \in Bytes /\ gear \in Bytes
      BY <1>2, <2>1, GearsAssumption DEF Gears, Bytes
    <3> QED
      BY <1>2, <2>6, <2>7, <3>1, GearChangedKept DEF InStep
  <2>9. InStep(said, g.gear, gear)
    BY <2>7, <2>8 DEF InStep, Timed, Watched
  <2> QED
    BY <2>2, <2>7, <2>9, NextStackedInStep
<1> QED
  BY <1>1, <1>2

----------------------------------------------------------------------------
(* The tick, for the log.                                                  *)

LEMMA LeaveManualInStep ==
  ASSUME NEW g \in Machines, NEW old, NEW new, InStep(g, old, new)
  PROVE  InStep(LeaveManual(g), old, new)
<1>1. CASE ~g.wasManual
  BY <1>1 DEF LeaveManual
<1>2. CASE g.wasManual
  <2> DEFINE k1 == [g EXCEPT !.wasManual = FALSE]
             k2 == EndPulse(k1)
             k3 == ClearStack(k2)
  <2>1. k1 \in Machines /\ k1.calls = g.calls
    BY DEF Machines
  <2>2. LeaveManual(g) = TransitionTo(k3, IdleFor(g.gear))
    BY <1>2 DEF LeaveManual
  <2> HIDE DEF k1
  <2>3. k2 \in Machines /\ Unheard(g, k2)
    BY <2>1, EndPulseType, PulseUnheard, SameHeard, UnheardJoin
  <2> HIDE DEF k2
  <2>4. k3 \in Machines /\ Unheard(g, k3)
    BY <2>3, ClearStackType, StackUnheard, UnheardJoin
  <2> HIDE DEF k3
  <2>5. Kept(LogOf(k3), Starts(k3), old, new)
    BY <2>4 DEF InStep, Unheard
  <2> QED
    BY <2>2, <2>4, <2>5, NumbersTyped, GoHomeInStep
<1> QED
  BY <1>1, <1>2

LEMMA UpdateShiftTimingInStep ==
  ASSUME NEW g \in Machines, NEW old, NEW new, InStep(g, old, new)
  PROVE  InStep(UpdateShiftTiming(g), old, new)
<1> DEFINE k == EndPulse(g)
<1>1. /\ k \in Machines /\ Kept(LogOf(k), Starts(k), old, new)
      /\ g.expected \in Int
  BY EndPulseType, PulseUnheard, NumbersTyped DEF InStep, Unheard
<1>2. /\ GB_DOWNSHIFT_TO_BITE_POINT \in States /\ GB_DOWNSHIFT_TO_BITE_POINT \notin Shifting
      /\ GB_DOWNSHIFT_TO_BITE_POINT # GB_DOWNSHIFT_SHIFTING
  BY StatesTyped, NotShifting
<1> HIDE DEF k
<1>3. /\ InStep(TransitionTo(k, GB_DOWNSHIFT_TO_BITE_POINT), old, new)
      /\ InStep(TransitionTo(k, IdleFor(g.expected)), old, new)
  BY <1>1, <1>2, TransitionInStep, GoHomeInStep
<1> QED
  BY <1>3 DEF UpdateShiftTiming, k

\* An abort ends the shift.
LEMMA AbortInStep ==
  ASSUME NEW g \in Machines, NEW old, NEW new
  PROVE  /\ InStep(g, old, new) => InStep(TransitionTo(g, GB_ERROR_SHIFT_TIMEOUT), old, new)
         /\ g.state # GB_ERROR_SHIFT_TIMEOUT => Early(TransitionTo(g, GB_ERROR_SHIFT_TIMEOUT))
<1>1. /\ GB_ERROR_SHIFT_TIMEOUT \in States /\ GB_ERROR_SHIFT_TIMEOUT \notin Shifting
      /\ GB_ERROR_SHIFT_TIMEOUT # GB_DOWNSHIFT_SHIFTING
  BY StatesTyped, NotShifting
<1> QED
  BY <1>1, TransitionInStep, TransitionEarly DEF InStep

LEMMA UpdateStateInStep ==
  ASSUME NEW g \in Machines, NEW held, NEW old, NEW new, InStep(g, old, new)
  PROVE  InStep(UpdateState(g, held), old, new)
<1>1. /\ InStep(ProcessEvent(g, "EV_CLUTCH_PULLED"), old, new)
      /\ InStep(ProcessEvent(ClearStack(g), "EV_TIMEOUT"), old, new)
  BY EventInStep, StackInStep, ClearStackType
<1>2. InStep(TransitionTo(g, GB_ERROR_SHIFT_TIMEOUT), old, new)
  BY AbortInStep
<1>3. /\ InStep(TransitionTo(g, IdleFor(g.gear)), old, new)
      /\ InStep(TransitionTo(g, IdleFor(g.expected)), old, new)
  BY NumbersTyped, GoHomeInStep DEF InStep
<1> QED
  BY <1>1, <1>2, <1>3
     DEF UpdateState, UpdateDownshiftClutchWait, UpdateToBitePoint, UpdateWaiting

\* After _updateState a shift has time left: the wait for the clutch ends with the clutch or
\* with an abort, and a pulse that is not over was left by the timer.
LEMMA UpdateStateEarly ==
  ASSUME NEW g \in Machines, NEW held, Tracks(g), ~PulseOver(g)
  PROVE  Early(UpdateState(g, held))
<1>1. CASE g.state = GB_DOWNSHIFT_CLUTCH_ENGAGING
  <2> DEFINE wanted == Row(GB_DOWNSHIFT_CLUTCH_ENGAGING, "EV_CLUTCH_PULLED", GB_DOWNSHIFT_SHIFTING)
             row    == CHOOSE r \in RowsFor(g.state, "EV_CLUTCH_PULLED") : TRUE
  <2>1. wanted \in RowsFor(g.state, "EV_CLUTCH_PULLED")
    BY <1>1 DEF RowsFor, Table, Row
  <2>2. /\ row \in Table /\ row.from = g.state
        /\ Follow(g, "EV_CLUTCH_PULLED") = TransitionTo(g, row.to)
    BY <2>1 DEF RowsFor, Follow
  <2> HIDE DEF wanted, row
  <2>3. row.to \in States /\ row.to # g.state
    <3>1. row.to # GB_DOWNSHIFT_CLUTCH_ENGAGING \/ row.from # GB_DOWNSHIFT_CLUTCH_ENGAGING
      BY <2>2, GearsAssumption DEF Table, Row, GB_IDLE_NEUTRAL, GB_NEUTRAL_DOWN_SHIFTING,
         GB_NEUTRAL_UP_SHIFTING, GB_UPSHIFTING, GB_DOWNSHIFT_CLUTCH_ENGAGING,
         GB_DOWNSHIFT_SHIFTING, GB_WAITING_FOR_CLUTCH_SHIFT_DOWN,
         GB_WAITING_FOR_CLUTCH_SHIFT_UP
    <3> QED
      BY <1>1, <2>2, <3>1, TableTyped
  <2>4. Early(ProcessEvent(g, "EV_CLUTCH_PULLED"))
    BY <2>2, <2>3, TransitionEarly DEF ProcessEvent
  <2>5. Early(TransitionTo(g, GB_ERROR_SHIFT_TIMEOUT))
    <3>1. g.state # GB_ERROR_SHIFT_TIMEOUT
      BY <1>1, GearsAssumption DEF GB_DOWNSHIFT_CLUTCH_ENGAGING, GB_ERROR_SHIFT_TIMEOUT
    <3> QED
      BY <3>1, AbortInStep
  <2>6. g.age \in Nat /\ ServoTimeout \in Nat
    BY Timing, Limits DEF Machines
  <2>7. ~(g.age >= ServoTimeout) => Early(g)
    BY <1>1, <2>6 DEF Early, Ends
  <2>8. Early(UpdateDownshiftClutchWait(g, held))
    BY <2>4, <2>5, <2>7 DEF UpdateDownshiftClutchWait
  <2>9. UpdateState(g, held) = UpdateDownshiftClutchWait(g, held)
    <3>1. /\ g.state # GB_DOWNSHIFT_TO_BITE_POINT /\ g.state # GB_ERROR_SHIFT_TIMEOUT
          /\ ~IsWaiting(g.state)
      BY <1>1, KindsDisjoint DEF Machines
    <3> QED
      BY <1>1, <3>1 DEF UpdateState
  <2> QED
    BY <2>8, <2>9
<1>2. CASE g.state # GB_DOWNSHIFT_CLUTCH_ENGAGING
  <2>1. Early(g)
    <3>1. SUFFICES ASSUME g.state \in Shifting PROVE g.age < Ends(g)
      BY DEF Early, Watched
    <3>2. g.pulse # "none" /\ g.shiftAge = g.age /\ g.pulse \in Pulses /\ g.age \in Nat
      BY <1>2, <3>1, Timing DEF Shifting, Tracks, Machines
    <3> QED
      BY <1>2, <3>2, Timing DEF PulseOver, Ends
  <2>2. /\ Early(ProcessEvent(g, "EV_CLUTCH_PULLED"))
        /\ Early(ProcessEvent(ClearStack(g), "EV_TIMEOUT"))
    BY <2>1, EventInStep, StackInStep, ClearStackType
  <2>3. Early(TransitionTo(g, IdleFor(g.gear))) /\ Early(TransitionTo(g, IdleFor(g.expected)))
    BY <2>1, NumbersTyped, HomeNotShifting, TransitionEarly
  <2> QED
    BY <1>2, <2>1, <2>2, <2>3 DEF UpdateState, UpdateToBitePoint, UpdateWaiting
<1> QED
  BY <1>1, <1>2

\* gearbox_tick in auto mode.
LEMMA TickAutoInStep ==
  ASSUME NEW g \in Machines, NEW held, NEW old, NEW new,
         MachineInv(g, held), InStep(g, old, new)
  PROVE  InStep(TickAuto(g, held), old, new) /\ Early(TickAuto(g, held))
<1> DEFINE back  == LeaveManual(g)
           timed == UpdateShiftTiming(back)
<1>1. back \in Machines /\ MachineInv(back, held) /\ InStep(back, old, new)
  BY LeaveManualType, LeaveManualInv, LeaveManualInStep
<1> HIDE DEF back
<1>2. /\ timed \in Machines /\ MachineInv(timed, held) /\ ~PulseOver(timed)
      /\ InStep(timed, old, new)
  BY <1>1, UpdateShiftTimingType, UpdateShiftTimingInv, UpdateShiftTimingInStep
<1> HIDE DEF timed
<1>3. CheckTimeouts(timed) = timed
  BY <1>2, NoTimeout
<1>4. TickAuto(g, held) = UpdateState(timed, held)
  BY <1>3 DEF TickAuto, timed, back
<1> QED
  BY <1>2, <1>4, UpdateStateInStep, UpdateStateEarly DEF MachineInv

\* gearbox_tick in manual mode watches no shift.
LEMMA TickManualInStep ==
  ASSUME NEW g \in Machines, NEW old, NEW new, InStep(g, old, new)
  PROVE  /\ InStep(TickManual(g), old, new) /\ Early(TickManual(g))
         /\ TickManual(g).gear = g.gear
<1> DEFINE h == TickManual(g)
<1>1. h.wasManual /\ h.calls = g.calls /\ h.gear = g.gear
  BY DEF Machines, TickManual
<1> HIDE DEF h
<1>2. Unheard(g, h) /\ ~Watched(h)
  BY <1>1, SameHeard DEF Watched
<1> QED
  BY <1>1, <1>2 DEF InStep, Unheard, Timed, Early, h

----------------------------------------------------------------------------
(* The steps.                                                              *)

\* The inductive invariant: with a loop that keeps up, the shift that runs is the one
\* being timed and is no older than the state and its slack; between the loop's pass and
\* the clock's next unit it has time left, and no shift being timed is at the limit.
LogInv ==
  /\ log \in Logs /\ RecordedOnce
  /\ Timed(gb, log) /\ (ticked => Early(gb))
  /\ prompt => log.age <= LogTimeout
  /\ ticked /\ log.active => log.age < LogTimeout

\* A step begins with nothing told and no line written.
LEMMA SilentInStep ==
  ASSUME TypeOK, log \in Logs, Timed(gb, log)
  PROVE  /\ InStep(Silent(gb), gb.gear, gb.gear)
         /\ Early(gb) => Early(Silent(gb))
         /\ Unwritten \in Logs /\ Unwritten.lines = << >>
         /\ Unwritten.active = log.active /\ Unwritten.age = log.age
         /\ Unwritten.from = log.from /\ Unwritten.to = log.to
         /\ LogOf(Silent(gb)) = Unwritten
<1> DEFINE k == Silent(gb)
<1>1. /\ k.state = gb.state /\ k.age = gb.age /\ k.gear = gb.gear
      /\ k.expected = gb.expected /\ k.pulse = gb.pulse /\ k.wasManual = gb.wasManual
      /\ k.calls = << >>
  BY DEF TypeOK, Machines, Silent
<1> HIDE DEF k
<1>2. /\ Unwritten \in Logs /\ Unwritten.lines = << >> /\ Unwritten.active = log.active
      /\ Unwritten.age = log.age /\ Unwritten.from = log.from /\ Unwritten.to = log.to
  <2>1. << >> \in Seq(Lines)
    OBVIOUS
  <2> QED
    BY <2>1 DEF Unwritten, Logs
<1>3. LogOf(k) = Unwritten /\ Starts(k) = 0
  <2>1. StartsIn(<< >>) = {}
    BY DEF StartsIn
  <2> QED
    BY <1>1, <2>1, AfterNoCalls, FS_EmptySet DEF LogOf, Starts
<1>4. Kept(Unwritten, 0, gb.gear, gb.gear)
  <2>1. Running(Unwritten) = Running(log) /\ Len(<< >>) = 0 /\ GoodLines(Unwritten) = {}
    BY <1>2 DEF Running, GoodLines
  <2>2. Running(log) \in Nat
    BY DEF Running
  <2> QED
    BY <1>2, <2>1, <2>2 DEF Kept
<1>5. Timed(k, Unwritten)
  BY <1>1, <1>2 DEF Timed, Watched, Ends, Slack
<1>6. Early(gb) => Early(k)
  BY <1>1 DEF Early, Watched, Ends, Slack
<1> QED
  BY <1>2, <1>3, <1>4, <1>5, <1>6 DEF InStep, k

\* A press keeps the gear, and so writes no good line.
LEMMA RiderInStep ==
  ASSUME TypeOK, log \in Logs, Timed(gb, log), Rider
  PROVE  /\ InStep(gb', gb.gear, gb.gear) /\ gb'.gear = gb.gear
         /\ Early(gb) => Early(gb')
         /\ ticked' = ticked
<1> DEFINE k == Silent(gb)
           Goal == /\ InStep(gb', gb.gear, gb.gear) /\ gb'.gear = gb.gear
                   /\ Early(gb) => Early(gb')
<1>1. /\ gb \in Machines /\ k \in Machines /\ k.gear = gb.gear
      /\ InStep(k, gb.gear, gb.gear) /\ (Early(gb) => Early(k))
  BY SilentType, SilentInStep DEF TypeOK, Silent, Machines
<1> HIDE DEF k
<1>2. gb' = k => Goal
  BY <1>1
<1>3. \A event : gb' = ProcessEvent(k, event) => Goal
  BY <1>1, EventInStep, EventSays
<1>4. CASE UpPressed \/ DownPressed \/ NeutralPressed \/ SwitchManual
  <2>1. ticked' = ticked
    BY <1>4 DEF UpPressed, DownPressed, NeutralPressed, SwitchManual
  <2>2. gb' = k \/ \E event : gb' = ProcessEvent(k, event)
    BY <1>4 DEF UpPressed, DownPressed, NeutralPressed, SwitchManual, k
  <2> QED
    BY <1>2, <1>3, <2>1, <2>2
<1>5. ASSUME NEW up \in BOOLEAN, ManualShift(up) PROVE Goal /\ ticked' = ticked
  <2> DEFINE started == [k EXCEPT !.manualActive = TRUE, !.manualAge = 0]
             call    == ManualCall(up)
  <2>1. /\ started \in Machines /\ started.calls = k.calls
        /\ started.state = k.state /\ started.age = k.age /\ started.gear = k.gear
        /\ started.expected = k.expected /\ started.pulse = k.pulse
        /\ started.wasManual = k.wasManual
    BY <1>1, NumbersTyped DEF Machines
  <2>2. call \in CallTypes /\ call.fn \notin LogFns
    BY CallsTyped, NotHeard
  <2>3. (gb' = k \/ gb' = Say(started, call)) /\ ticked' = ticked
    BY <1>5 DEF ManualShift, k
  <2> HIDE DEF started, call
  <2>4. Unheard(k, started) /\ Unheard(started, Say(started, call))
    BY <2>1, <2>2, SameHeard, SayHeard
  <2>5. /\ InStep(Say(started, call), gb.gear, gb.gear)
        /\ Early(gb) => Early(Say(started, call))
        /\ Say(started, call).gear = gb.gear
    <3> DEFINE h == Say(started, call)
    <3>1. /\ Unheard(k, h) /\ h.state = k.state /\ h.age = k.age /\ h.gear = k.gear
          /\ h.expected = k.expected /\ h.pulse = k.pulse /\ h.wasManual = k.wasManual
      BY <2>1, <2>4, UnheardJoin, SayKeeps
    <3> HIDE DEF h
    <3>2. InStep(h, gb.gear, gb.gear) /\ (Early(gb) => Early(h))
      BY <1>1, <3>1, SameInStep
    <3> QED
      BY <1>1, <3>1, <3>2 DEF h
  <2> QED
    BY <1>2, <2>3, <2>5
<1> QED
  BY <1>4, <1>5 DEF Rider

\* The tick takes a new gear from can_gear() alone, and leaves every shift time.
LEMMA TickInStep ==
  ASSUME GearboxInv, log \in Logs, Timed(gb, log), Tick
  PROVE  /\ InStep(gb', gb.gear, gb'.gear) /\ Early(gb')
         /\ gb'.gear # gb.gear => canGear = gb'.gear
         /\ gb' \in Machines /\ Tracks(gb')
<1> DEFINE k == Silent(gb)
           s == SyncGear(k, canGear)
<1>1. /\ gb \in Machines /\ k \in Machines /\ k.gear = gb.gear
      /\ InStep(k, gb.gear, gb.gear) /\ MachineInv(k, clutchIs)
  BY SilentType, SilentInStep, SilentInv DEF GearboxInv, TypeOK, Silent, Machines
<1> HIDE DEF k
<1>2. /\ s \in Machines /\ MachineInv(s, clutchIs)
      /\ InStep(s, gb.gear, s.gear) /\ s.gear \in {gb.gear, canGear}
  <2>1. /\ SetGear(k, canGear) \in Machines /\ MachineInv(SetGear(k, canGear), clutchIs)
        /\ InStep(SetGear(k, canGear), gb.gear, SetGear(k, canGear).gear)
        /\ SetGear(k, canGear).gear \in {gb.gear, canGear}
    BY <1>1, SetGearType, SetGearInv, SetGearInStep
  <2> QED
    BY <1>1, <2>1 DEF SyncGear
<1>3. /\ gb' = IF manualMode THEN TickManual(s) ELSE TickAuto(s, clutchIs)
      /\ Said(s, ShiftFns) = {}
  BY <1>1, SyncSays DEF Tick, k
<1> HIDE DEF s
<1>4. /\ TickManual(s) \in Machines /\ MachineInv(TickManual(s), clutchIs)
      /\ InStep(TickManual(s), gb.gear, s.gear) /\ Early(TickManual(s))
      /\ TickManual(s).gear = s.gear
  BY <1>2, TickManualType, TickManualInv, TickManualInStep
<1>5. /\ TickAuto(s, clutchIs) \in Machines /\ MachineInv(TickAuto(s, clutchIs), clutchIs)
      /\ InStep(TickAuto(s, clutchIs), gb.gear, s.gear) /\ Early(TickAuto(s, clutchIs))
      /\ TickAuto(s, clutchIs).gear = s.gear
  <2>1. TickAuto(s, clutchIs) \in Machines
    BY <1>2, LeaveManualType, UpdateShiftTimingType, CheckTimeoutsType, UpdateStateType
       DEF TickAuto
  <2>2. TickAuto(s, clutchIs).gear = s.gear
    BY <1>2, <1>3, TickAutoSays
  <2> QED
    BY <1>2, <2>1, <2>2, TickAutoInv, TickAutoInStep
<1> QED
  BY <1>2, <1>3, <1>4, <1>5 DEF MachineInv

\* shift_log_tick cuts no shift that runs.
LEMMA LogTickKept ==
  ASSUME NEW g \in Machines, NEW old, NEW new, InStep(g, old, new), Early(g), Tracks(g)
  PROVE  LET l == ShiftLogTick(LogOf(g))
         IN /\ Kept(l, Starts(g), old, new) /\ Timed(g, l)
            /\ l.active => l.age < LogTimeout
<1> DEFINE l == LogOf(g)
           n == Starts(g)
<1>1. /\ Kept(l, n, old, new) /\ Timed(g, l) /\ n \in Nat /\ l \in Logs /\ l.age \in Nat
      /\ LogTimeout \in Nat
  BY StartsTyped, LimitAssumption DEF InStep, Kept, Logs
<1>2. ShiftLogTick(l) = IF l.active /\ l.age >= LogTimeout THEN Finish(l, FALSE, LogTimeout) ELSE l
  BY DEF ShiftLogTick
<1> HIDE DEF l, n
<1>3. CASE l.active /\ l.age >= LogTimeout
  <2>1. Kept(Finish(l, FALSE, LogTimeout), n, old, new) /\ ~Finish(l, FALSE, LogTimeout).active
    BY <1>1, <1>3, FailureKept, FinishWrites
  <2>2. ~Watched(g)
    <3>1. SUFFICES ASSUME Watched(g) PROVE FALSE
      OBVIOUS
    <3>2. /\ l.age <= g.age + Slack(g.state) /\ g.age < Ends(g) /\ g.age \in Nat
          /\ g.state \in Shifting /\ (g.state \in PulseStates => g.pulse # "none")
      BY <1>1, <3>1, Timing DEF Timed, Early, Watched, Tracks, Machines
    <3>3. /\ Ends(g) \in Nat /\ Slack(g.state) \in Nat /\ Ends(g) + Slack(g.state) < LogTimeout
      BY <3>2, Limits
    <3> QED
      BY <1>1, <1>3, <3>2, <3>3
  <2> QED
    BY <1>2, <1>3, <2>1, <2>2 DEF Timed, l, n
<1>4. CASE ~(l.active /\ l.age >= LogTimeout)
  <2>1. ShiftLogTick(l) = l
    BY <1>2, <1>4, Zenon
  <2>2. l.active => l.age < LogTimeout
    BY <1>1, <1>4
  <2>3. /\ Kept(ShiftLogTick(l), n, old, new) /\ Timed(g, ShiftLogTick(l))
        /\ ShiftLogTick(l).active => ShiftLogTick(l).age < LogTimeout
    BY <1>1, <2>1, <2>2, Zenon
  <2> QED
    BY <2>3 DEF l, n
<1> QED
  BY <1>3, <1>4

\* What a press or a pass of the loop makes of the log keeps the invariant.
LEMMA HeardInv ==
  ASSUME LogInv, NEW l, NEW old, NEW new, Kept(l, Starts(gb'), old, new), Timed(gb', l),
         log' = l, Counted, prompt' = prompt, Starts(gb') \in Nat,
         ticked' => Early(gb'),
         ticked' /\ l.active /\ l.age # 0 => l.age < LogTimeout
  PROVE  LogInv'
<1>1. /\ l \in Logs /\ Running(l) + Len(l.lines) = Running(log) + Starts(gb')
      /\ l.age \in {0, log.age} /\ log.age \in Nat /\ Len(l.lines) \in Nat
      /\ LogTimeout \in Nat /\ LogTimeout > 0
  <2>1. LogTimeout \in Nat /\ LogTimeout > 0
    BY Limits, LimitAssumption, TimingAssumption
  <2> QED
    BY <2>1 DEF Kept, Logs, LogInv
<1>2. unrecorded' = Running(l)
  <2>1. unrecorded = Running(log)
    BY DEF LogInv, RecordedOnce, Running
  <2>2. unrecorded' = unrecorded + Starts(gb') - Len(l.lines)
    BY DEF Counted, Starts
  <2>3. Running(l) \in Nat /\ Running(log) \in Nat
    BY DEF Running
  <2> QED
    BY <1>1, <2>1, <2>2, <2>3
<1>3. RecordedOnce'
  BY <1>2 DEF RecordedOnce, Running
<1>4. Timed(gb, log)' /\ (ticked => Early(gb))'
  BY DEF Timed, Early, Watched
<1>5. (prompt => log.age <= LogTimeout)'
  BY <1>1 DEF LogInv
<1>6. (ticked /\ log.active => log.age < LogTimeout)'
  BY <1>1
<1> QED
  BY <1>1, <1>3, <1>4, <1>5, <1>6 DEF LogInv

\* What a press tells the log.
LEMMA PressInv ==
  ASSUME GearboxInv, GearboxInv', LogInv, Press
  PROVE  LogInv' /\ Kept(log', Starts(gb'), gb.gear, gb.gear)
<1> DEFINE l == AfterCalls(Unwritten, gb'.calls)
<1>1. /\ InStep(gb', gb.gear, gb.gear)
      /\ Early(gb) => Early(gb')
      /\ ticked' = ticked
  BY RiderInStep DEF GearboxInv, LogInv, Press
<1>2. Kept(l, Starts(gb'), gb.gear, gb.gear) /\ Timed(gb', l)
  BY <1>1 DEF InStep, LogOf
<1>3. log' = l /\ Counted /\ prompt' = prompt
  BY DEF Press
<1> HIDE DEF l
<1>4. Starts(gb') \in Nat
  BY StartsTyped DEF GearboxInv, TypeOK
<1>5. ticked' => Early(gb')
  BY <1>1 DEF LogInv
<1>6. ticked' /\ l.active /\ l.age # 0 => l.age < LogTimeout
  BY <1>1, <1>2 DEF LogInv, Kept
<1>7. LogInv'
  BY <1>2, <1>3, <1>4, <1>5, <1>6, HeardInv
<1> QED
  BY <1>2, <1>3, <1>7

\* What a pass of the loop tells the log.
LEMMA LoopInv ==
  ASSUME GearboxInv, GearboxInv', LogInv, Loop
  PROVE  /\ LogInv' /\ Kept(log', Starts(gb'), gb.gear, gb'.gear)
         /\ gb'.gear # gb.gear => canGear = gb'.gear
<1> DEFINE l == ShiftLogTick(AfterCalls(Unwritten, gb'.calls))
<1>1. /\ InStep(gb', gb.gear, gb'.gear) /\ Early(gb') /\ Tracks(gb')
      /\ gb' \in Machines /\ (gb'.gear # gb.gear => canGear = gb'.gear)
  BY TickInStep DEF LogInv, Loop
<1>2. /\ Kept(l, Starts(gb'), gb.gear, gb'.gear) /\ Timed(gb', l)
      /\ l.active => l.age < LogTimeout
  <2> DEFINE g == gb'
  <2>1. LogOf(g) = AfterCalls(Unwritten, g.calls)
    BY DEF LogOf
  <2>2. g \in Machines /\ InStep(g, gb.gear, g.gear) /\ Early(g) /\ Tracks(g)
    BY <1>1
  <2> HIDE DEF g
  <2>3. /\ Kept(ShiftLogTick(LogOf(g)), Starts(g), gb.gear, g.gear)
        /\ Timed(g, ShiftLogTick(LogOf(g)))
        /\ ShiftLogTick(LogOf(g)).active => ShiftLogTick(LogOf(g)).age < LogTimeout
    BY <2>2, LogTickKept
  <2> QED
    BY <2>1, <2>3 DEF g
<1>3. log' = l /\ Counted /\ prompt' = prompt
  BY DEF Loop
<1> HIDE DEF l
<1>4. Starts(gb') \in Nat
  BY <1>1, StartsTyped
<1>5. LogInv'
  BY <1>1, <1>2, <1>3, <1>4, HeardInv
<1> QED
  BY <1>1, <1>2, <1>3, <1>5

\* A report or the clutch's feedback tells the log nothing.
LEMMA HearInv ==
  ASSUME GearboxInv, LogInv, Hear
  PROVE  LogInv' /\ log'.lines = << >>
<1>1. /\ gb' = Silent(gb) /\ ticked' = ticked /\ log' = Unwritten
      /\ unrecorded' = unrecorded /\ prompt' = prompt
  BY DEF Hear, GearReported, ClutchMoved
<1>2. /\ Timed(gb', Unwritten) /\ (Early(gb) => Early(gb'))
      /\ Unwritten \in Logs /\ Unwritten.lines = << >>
      /\ Unwritten.active = log.active /\ Unwritten.age = log.age
  BY <1>1, SilentInStep DEF GearboxInv, LogInv, InStep
<1>3. Timed(gb, log)' /\ (ticked => Early(gb))'
  BY <1>1, <1>2 DEF Timed, Early, Watched, LogInv
<1>4. RecordedOnce'
  BY <1>1, <1>2 DEF LogInv, RecordedOnce
<1> QED
  BY <1>1, <1>2, <1>3, <1>4 DEF LogInv

\* A unit of time: with a loop that keeps up, the shift and its state age together and
\* stay within their ends.
LEMMA ClockInv ==
  ASSUME GearboxInv, LogInv, Clock
  PROVE  LogInv' /\ log'.lines = << >>
<1> DEFINE k == Silent(gb)
           older == IF log.active /\ log.age <= LogTimeout THEN log.age + 1 ELSE log.age
<1>1. /\ gb \in Machines /\ gb.age \in Nat /\ log \in Logs /\ log.age \in Nat
      /\ LogTimeout \in Nat
  BY Timing, LimitAssumption DEF GearboxInv, TypeOK, LogInv, Machines, Logs
<1>2. /\ gb'.state = gb.state /\ gb'.gear = gb.gear /\ gb'.expected = gb.expected
      /\ gb'.pulse = gb.pulse /\ gb'.wasManual = gb.wasManual
      /\ gb'.age = IF Aging(gb.state) THEN Older(gb.age) ELSE gb.age
  BY <1>1 DEF Clock, Time, Silent, Machines
<1>3. /\ log' \in Logs /\ log'.lines = << >> /\ log'.active = log.active
      /\ log'.from = log.from /\ log'.to = log.to /\ log'.age = older
  <2>1. /\ Unwritten \in Logs /\ Unwritten.lines = << >> /\ Unwritten.active = log.active
        /\ Unwritten.from = log.from /\ Unwritten.to = log.to /\ Unwritten.age = log.age
    BY SilentInStep DEF GearboxInv, LogInv
  <2>2. log' = [Unwritten EXCEPT !.age = older] /\ older \in Nat
    BY <1>1, <2>1 DEF Clock
  <2> HIDE DEF older
  <2> QED
    BY <2>1, <2>2 DEF Logs
<1>4. unrecorded' = unrecorded /\ prompt' = prompt /\ (prompt => ticked) /\ ~ticked'
  BY DEF Clock, Time
<1>5. ASSUME Watched(gb)
      PROVE  gb.age < Ends(gb) /\ gb'.age = gb.age + 1 /\ Ends(gb) \in Nat
             /\ Slack(gb.state) \in Nat /\ log.age <= gb.age + Slack(gb.state)
             /\ log.age < LogTimeout /\ older = log.age + 1
  <2>1. /\ prompt /\ ticked /\ gb.state \in Shifting /\ gb.age < Ends(gb)
        /\ log.active /\ log.age <= gb.age + Slack(gb.state) /\ log.age < LogTimeout
    BY <1>4, <1>5 DEF Watched, LogInv, Timed, Early
  <2>2. /\ Ends(gb) \in Nat /\ Slack(gb.state) \in Nat /\ Ends(gb) <= AgeCap
    BY <1>1, <2>1, Limits DEF GearboxInv, MachineInv, Tracks
  <2>3. Aging(gb.state)
    BY <1>1, <2>1, KindsDisjoint DEF Aging, Shifting, Machines
  <2>4. gb'.age = gb.age + 1
    BY <1>1, <1>2, <2>1, <2>2, <2>3, Timing DEF Older
  <2> QED
    BY <1>1, <2>1, <2>2, <2>4
<1>6. Watched(gb)' = Watched(gb) /\ Ends(gb') = Ends(gb) /\ Slack(gb'.state) = Slack(gb.state)
  BY <1>2, <1>4 DEF Watched, Ends, Slack
<1>7. Timed(gb, log)'
  <2>1. ASSUME Watched(gb)
        PROVE  /\ log'.active /\ log'.from = gb'.gear /\ log'.to = Byte(gb'.expected)
               /\ gb'.expected = ExpectedFrom(gb'.state, gb'.gear)
               /\ log'.age <= gb'.age + Slack(gb'.state) /\ gb'.age <= Ends(gb')
    <3>1. /\ log.active /\ log.from = gb.gear /\ log.to = Byte(gb.expected)
          /\ gb.expected = ExpectedFrom(gb.state, gb.gear)
      BY <2>1 DEF LogInv, Timed
    <3>2. log'.age <= gb'.age + Slack(gb'.state) /\ gb'.age <= Ends(gb')
      <4> HIDE DEF older
      <4> QED
        BY <1>1, <1>3, <1>5, <1>6, <2>1
    <3> QED
      BY <1>2, <1>3, <3>1, <3>2
  <2> HIDE DEF older
  <2> QED
    BY <1>6, <2>1 DEF Timed
<1>8. prompt => older <= LogTimeout
  BY <1>1, <1>4 DEF LogInv
<1>9. RecordedOnce'
  BY <1>3, <1>4 DEF LogInv, RecordedOnce
<1> HIDE DEF older
<1> QED
  BY <1>3, <1>4, <1>7, <1>8, <1>9 DEF LogInv

\* A stuttering step of the node and its log.
LEMMA StutterInv ==
  ASSUME LogInv, UNCHANGED logVars
  PROVE  LogInv'
<1>1. /\ gb' = gb /\ log' = log /\ unrecorded' = unrecorded /\ prompt' = prompt
      /\ ticked' = ticked
  BY DEF logVars, vars
<1>2. Timed(gb, log)' /\ (ticked => Early(gb))'
  BY <1>1 DEF LogInv, Timed, Early, Watched
<1>3. RecordedOnce'
  BY <1>1 DEF LogInv, RecordedOnce
<1> QED
  BY <1>1, <1>2, <1>3 DEF LogInv

\* The node under its log is the node: shift_log.cpp only listens.
THEOREM LogOnlyListens == LogSafety => Safety
<1>1. LogInit => Init
  BY DEF LogInit
<1>2. [LogNext]_logVars => [Next]_vars
  BY DEF LogNext, Press, Loop, Hear, Clock, Next, Buses, logVars, vars
<1> QED
  BY <1>1, <1>2, PTL DEF LogSafety, Safety

\* The inductive invariant of the log under the machine.
THEOREM LogInvariantHolds == LogSafety => []LogInv
<1>1. LogInit => LogInv
  <2> SUFFICES ASSUME LogInit PROVE LogInv
    OBVIOUS
  <2>1. /\ log = [active |-> FALSE, from |-> 0, to |-> 0, age |-> 0, lines |-> << >>]
        /\ unrecorded = 0 /\ ~ticked /\ gb.state = 0
    BY DEF LogInit, Init, GB_IDLE_NEUTRAL
  <2>2. log \in Logs
    <3>1. << >> \in Seq(Lines)
      OBVIOUS
    <3> QED
      BY <2>1, <3>1 DEF Logs, Bytes
  <2>3. 0 \notin Shifting
    <3>1. 0 \in States /\ IsIdle(0)
      BY GearsAssumption DEF States, IsIdle, Gears, GB_ERROR_SHIFT_TIMEOUT
    <3> QED
      BY <3>1, NotShifting
  <2>4. Timed(gb, log)
    BY <2>1, <2>3 DEF Timed, Watched
  <2> QED
    BY <2>1, <2>2, <2>4, LimitAssumption DEF LogInv, RecordedOnce
<1>2. GearboxInv /\ GearboxInv' /\ LogInv /\ [LogNext]_logVars => LogInv'
  BY PressInv, LoopInv, HearInv, ClockInv, StutterInv DEF LogNext
<1>3. LogSafety => []GearboxInv
  BY LogOnlyListens, InvariantHolds, PTL
<1> QED
  BY <1>1, <1>2, <1>3, PTL DEF LogSafety

\* Every shift that starts is written down once, or is the one being timed, across early
\* confirmations, stacked downshifts, aborts and mode switches (shift_log_start closes an
\* unfinished shift before it opens the next).
THEOREM ShiftsAreRecordedOnce == LogSafety => []RecordedOnce
<1>1. LogInv => RecordedOnce
  BY DEF LogInv
<1> QED
  BY <1>1, LogInvariantHolds, PTL

\* With a loop that keeps up, shift_log_tick never cuts off a shift that is running: the
\* limit is longer than any wait for the clutch and the pulse behind it.
THEOREM RunningShiftsAreTimed == LogSafety => []TimedWhileShifting
<1>1. LogInv => TimedWhileShifting
  BY DEF LogInv, Timed, Watched, TimedWhileShifting
<1> QED
  BY <1>1, LogInvariantHolds, PTL

\* shift_log_gear_changed writes a shift down as good only when the rear node has just
\* confirmed the gear it aimed at from the gear it began in, once for a report.
THEOREM GoodShiftsWereConfirmed == LogSafety => GoodWasReported
<1> DEFINE Good ==
             \A i \in DOMAIN log'.lines :
               LET line == log'.lines[i]
               IN line.ok =>
                    /\ line.from = gb.gear /\ line.to = gb'.gear /\ gb.gear # gb'.gear
                    /\ canGear = gb'.gear
                    /\ prompt => line.time <= LogTimeout
                    /\ \A j \in DOMAIN log'.lines : log'.lines[j].ok => i = j
<1>1. ASSUME GearboxInv, GearboxInv', LogInv, LogNext PROVE Good
  <2>1. ASSUME Kept(log', Starts(gb'), gb.gear, gb'.gear),
               gb'.gear # gb.gear => canGear = gb'.gear
        PROVE  Good
    <3> DEFINE l == log'
    <3>1. Kept(l, Starts(gb'), gb.gear, gb'.gear) /\ l \in Logs
      BY <2>1 DEF Kept
    <3>2. /\ \A i \in GoodLines(l) : /\ l.lines[i].from = gb.gear
                                     /\ l.lines[i].to = gb'.gear /\ gb.gear # gb'.gear
                                     /\ l.lines[i].time <= log.age
          /\ \A i, j \in GoodLines(l) : i = j
      BY <3>1 DEF Kept
    <3>3. \A i \in DOMAIN l.lines : l.lines[i].ok => i \in GoodLines(l)
      BY DEF GoodLines
    <3>4. \A i \in GoodLines(l) : prompt => l.lines[i].time <= LogTimeout
      <4>1. \A i \in GoodLines(l) : l.lines[i].time \in Nat
        <5>1. l.lines \in Seq(Lines)
          BY <3>1 DEF Logs
        <5>2. \A i \in DOMAIN l.lines : l.lines[i] \in Lines
          BY <5>1
        <5> QED
          BY <5>2 DEF Lines, GoodLines
      <4>2. log.age \in Nat /\ LogTimeout \in Nat /\ (prompt => log.age <= LogTimeout)
        BY <1>1, LimitAssumption DEF LogInv, Logs
      <4> QED
        BY <3>2, <4>1, <4>2
    <3> HIDE DEF l
    <3>5. \A i \in DOMAIN l.lines :
            l.lines[i].ok =>
              /\ l.lines[i].from = gb.gear /\ l.lines[i].to = gb'.gear /\ gb.gear # gb'.gear
              /\ canGear = gb'.gear
              /\ prompt => l.lines[i].time <= LogTimeout
              /\ \A j \in DOMAIN l.lines : l.lines[j].ok => i = j
      BY <2>1, <3>2, <3>3, <3>4
    <3> QED
      BY <3>5 DEF l
  <2>2. ASSUME log'.lines = << >> PROVE Good
    <3>1. DOMAIN << >> = {}
      OBVIOUS
    <3> QED
      BY <2>2, <3>1
  <2>3. CASE Press
    <3>1. Kept(log', Starts(gb'), gb.gear, gb.gear) /\ gb'.gear = gb.gear
      BY <1>1, <2>3, PressInv, RiderInStep DEF GearboxInv, LogInv, Press
    <3> QED
      BY <2>1, <3>1
  <2>4. CASE Loop
    BY <1>1, <2>1, <2>4, LoopInv
  <2>5. CASE Hear
    BY <1>1, <2>2, <2>5, HearInv
  <2>6. CASE Clock
    BY <1>1, <2>2, <2>6, ClockInv
  <2> QED
    BY <1>1, <2>3, <2>4, <2>5, <2>6 DEF LogNext
<1>2. GearboxInv /\ GearboxInv' /\ LogInv /\ [LogNext]_logVars => [Good]_logVars
  BY <1>1
<1>3. LogSafety => []GearboxInv
  BY LogOnlyListens, InvariantHolds, PTL
<1>4. GoodWasReported <=> [][Good]_logVars
  BY DEF GoodWasReported
<1> HIDE DEF Good
<1> QED
  BY <1>2, <1>3, <1>4, LogInvariantHolds, PTL DEF LogSafety
=============================================================================
