-------------------------- MODULE CalPaddleProofs --------------------------
(***************************************************************************)
(* The calibration store, for any calibrations and any number of flash     *)
(* words: what is reported saved is there, and working copy and sector are *)
(* a register that a failed or interrupted write can only empty.  Then     *)
(* what the paddles make of the calibration there is, for any numbers that *)
(* _validate accepts and any reading: the way from two hall readings to    *)
(* the clutch's counts is followed backwards, from the arithmetic of its   *)
(* quotients and fractions to the curves, the counts and the halls.        *)
(***************************************************************************)
EXTENDS CalPaddle, TLAPS

\* While a write programs, a word is erased, spoilt or the working copy's: nothing of an
\* older calibration has survived the erase.
OnlyNew ==
  pc \in {"program", "verify"} =>
    \A w \in 1 .. Words : sector.words[w] \in {Erased, Wrong, ram}

\* What was reported saved is there and no write is on its way.
SavedAndIdle == reported # None => pc = "idle" /\ sector.words = Whole(reported)

StoreInv == TypeOK /\ OnlyNew /\ SavedAndIdle

Sectors == [header : Headers, words : [1 .. Words -> Cals \cup {Erased, Wrong}]]

\* The sectors that are named are sectors.
LEMMA SectorTypes ==
  /\ Blank \in Sectors /\ Ruined \in Sectors
  /\ \A cal \in Cals : Holding(cal) \in Sectors
BY DEF Blank, Ruined, Holding, Sectors, Headers, Whole

\* Neither an empty sector nor a ruined one can be loaded.
LEMMA NothingLoads == Loadable(Blank) = {} /\ Loadable(Ruined) = {}
BY DEF Loadable, Blank, Ruined, Holding

\* A sector holds one calibration at most.
LEMMA LoadsOne ==
  ASSUME NEW s, NEW c \in Loadable(s), NEW d \in Loadable(s)
  PROVE  c = d
<1>1. Holding(c) = Holding(d)
  BY DEF Loadable
<1>2. Whole(c) = Whole(d)
  BY <1>1 DEF Holding
<1>3. Whole(c)[1] = c /\ Whole(d)[1] = d
  BY CalAssumption DEF Whole
<1> QED
  BY <1>2, <1>3

\* What a sector is found to store.
StoredIn(s) == IF Loadable(s) = {} THEN None ELSE CHOOSE cal \in Loadable(s) : TRUE

\* What is stored is what a boot takes over, or nothing is.
LEMMA StoredIsLoadable ==
  ASSUME NEW s
  PROVE  /\ Loadable(s) = {} => StoredIn(s) = None
         /\ \A cal \in Loadable(s) : StoredIn(s) = cal
<1> SUFFICES ASSUME NEW cal \in Loadable(s) PROVE StoredIn(s) = cal
  BY DEF StoredIn
<1> QED
  BY LoadsOne DEF StoredIn

\* A boot takes over what is stored, or the factory values.
LEMMA BootTakesStored == ASSUME NEW s PROVE Booted(s) = {R!Boot(StoredIn(s))}
<1>1. CASE Loadable(s) = {}
  BY <1>1, StoredIsLoadable DEF Booted, R!Boot
<1>2. ASSUME NEW cal \in Loadable(s) PROVE Booted(s) = {R!Boot(StoredIn(s))}
  <2>1. StoredIn(s) = cal
    BY <1>2, StoredIsLoadable
  <2>2. cal # None
    BY CalAssumption DEF Loadable
  <2>3. Loadable(s) = {cal}
    BY LoadsOne
  <2> QED
    BY <2>1, <2>2, <2>3 DEF Booted, R!Boot
<1> QED
  BY <1>1, <1>2

\* It is a function of the sector, before a step and after it.
LEMMA StoredBothWays == Stored = StoredIn(sector) /\ Stored' = StoredIn(sector')
BY DEF Stored, StoredIn, Loadable

\* Programming a word leaves a sector whose words are still new.
LEMMA ProgrammedTypes ==
  ASSUME TypeOK, OnlyNew, pc = "program", NEW s \in Programmed
  PROVE  /\ s \in Sectors
         /\ \A w \in 1 .. Words : s.words[w] \in {Erased, Wrong, ram}
<1>1. PICK header \in Headers, value \in {Erased, Wrong, ram} :
        s = [header |-> IF word = 1 THEN header ELSE sector.header,
             words  |-> [sector.words EXCEPT ![word] = value]]
  BY DEF Programmed
<1>2. s.header \in Headers
  BY <1>1 DEF TypeOK
<1>3. s.words = [sector.words EXCEPT ![word] = value]
  BY <1>1
<1>4. s.words \in [1 .. Words -> Cals \cup {Erased, Wrong}]
  BY <1>3 DEF TypeOK
<1>5. \A w \in 1 .. Words : s.words[w] \in {Erased, Wrong, ram}
  BY <1>3 DEF TypeOK, OnlyNew
<1>6. s = [header |-> s.header, words |-> s.words]
  BY <1>1
<1> QED
  BY <1>2, <1>4, <1>5, <1>6 DEF Sectors

\* A sector of new words only loads as the working copy, if at all.
LEMMA NewLoadsRam ==
  ASSUME NEW s, \A w \in 1 .. Words : s.words[w] \in {Erased, Wrong, ram}
  PROVE  Loadable(s) \subseteq {ram}
<1> SUFFICES ASSUME NEW cal \in Loadable(s) PROVE cal = ram
  OBVIOUS
<1>1. s.words = Whole(cal) /\ cal \in Cals
  BY DEF Loadable, Holding
<1>2. s.words[1] = cal
  BY <1>1, CalAssumption DEF Whole
<1> QED
  BY <1>1, <1>2, CalAssumption

\* A boot takes over a calibration.
LEMMA BootedTypes == ASSUME NEW s PROVE Booted(s) \subseteq Cals
BY CalAssumption DEF Booted, Loadable

\* The initial states satisfy the invariant.
LEMMA InitInv == Init => StoreInv
<1> SUFFICES ASSUME Init PROVE StoreInv
  OBVIOUS
<1>1. sector \in Sectors
  BY SectorTypes DEF Init
<1>2. ram \in Cals
  BY BootedTypes DEF Init
<1>3. pc = "idle" /\ word \in 1 .. Words /\ savePending \in BOOLEAN
      /\ engineRunning \in BOOLEAN /\ reported = None
  <2>1. 1 \in 1 .. Words
    BY CalAssumption
  <2> QED
    BY <2>1, Zenon DEF Init
<1>4. TypeOK
  BY <1>1, <1>2, <1>3 DEF TypeOK, Sectors
<1> QED
  BY <1>3, <1>4 DEF StoreInv, OnlyNew, SavedAndIdle

\* Every step keeps the invariant.
LEMMA NextInv == StoreInv /\ [Next]_vars => StoreInv'
<1> SUFFICES ASSUME StoreInv, [Next]_vars PROVE StoreInv'
  OBVIOUS
<1> USE DEF StoreInv
<1>1. CASE Edit
  BY <1>1 DEF Edit, TypeOK, OnlyNew, SavedAndIdle, console
<1>2. CASE CalDefaults
  BY <1>2, CalAssumption DEF CalDefaults, TypeOK, OnlyNew, SavedAndIdle, console
<1>3. CASE CalLoad
  BY <1>3 DEF CalLoad, Loadable, TypeOK, OnlyNew, SavedAndIdle, console
<1>4. CASE CalSave
  <2>1. CASE SaveNow
    BY <2>1 DEF SaveNow, TypeOK, OnlyNew, SavedAndIdle
  <2>2. CASE UNCHANGED <<ram, sector, pc, word, engineRunning, reported>> /\ savePending' = TRUE
    BY <2>2 DEF TypeOK, OnlyNew, SavedAndIdle
  <2> QED
    BY <1>4, <2>1, <2>2 DEF CalSave
<1>5. CASE SaveDeferred
  BY <1>5 DEF SaveDeferred, SaveNow, TypeOK, OnlyNew, SavedAndIdle
<1>6. CASE Erase
  <2>1. sector' \in Sectors
    BY <1>6, SectorTypes DEF Erase, ErasedBadly, TypeOK, Sectors
  <2>2. reported = None
    BY <1>6 DEF Erase, SavedAndIdle
  <2>3. OnlyNew'
    <3>1. pc' # "idle" => pc' = "program" /\ sector' = Blank
      BY <1>6 DEF Erase
    <3>2. \A w \in 1 .. Words : Blank.words[w] = Erased
      BY DEF Blank, Whole
    <3>3. CASE pc' = "idle"
      BY <3>3 DEF OnlyNew
    <3> QED
      BY <3>1, <3>2, <3>3 DEF OnlyNew
  <2> QED
    BY <1>6, <2>1, <2>2, <2>3, CalAssumption
    DEF Erase, TypeOK, SavedAndIdle, console, Sectors
<1>7. CASE Program
  <2>1. sector' \in Sectors /\ \A w \in 1 .. Words : sector'.words[w] \in {Erased, Wrong, ram}
    BY <1>7, ProgrammedTypes DEF Program
  <2>2. reported = None
    BY <1>7 DEF Program, SavedAndIdle
  <2>3. word' \in 1 .. Words
    BY <1>7, CalAssumption DEF Program, TypeOK
  <2> QED
    BY <1>7, <2>1, <2>2, <2>3
    DEF Program, TypeOK, OnlyNew, SavedAndIdle, console, Sectors
<1>8. CASE Verify
  BY <1>8 DEF Verify, TypeOK, OnlyNew, SavedAndIdle, console
<1>9. CASE Reset
  <2>1. sector' \in Sectors
    <3>1. CASE pc = "erase"
      BY <1>9, <3>1, SectorTypes DEF Reset, ErasedBadly, TypeOK, Sectors
    <3>2. CASE pc = "program"
      BY <1>9, <3>2, ProgrammedTypes DEF Reset
    <3>3. CASE pc \in {"idle", "verify"}
      BY <1>9, <3>3 DEF Reset, TypeOK, Sectors
    <3> QED
      BY <3>1, <3>2, <3>3 DEF TypeOK
  <2>2. ram' \in Cals
    BY <1>9, BootedTypes DEF Reset
  <2>3. SavedAndIdle'
    BY <1>9 DEF Reset, SavedAndIdle
  <2> QED
    <3>1. pc' = "idle" /\ word' \in 1 .. Words /\ savePending' \in BOOLEAN
          /\ UNCHANGED <<engineRunning, reported>>
      <4>1. 1 \in 1 .. Words
        BY CalAssumption
      <4> QED
        BY <1>9, <4>1, Zenon DEF Reset
    <3>2. TypeOK'
      BY <2>1, <2>2, <3>1 DEF TypeOK, Sectors
    <3> QED
      BY <2>3, <3>1, <3>2 DEF OnlyNew
<1>10. CASE Engine
  BY <1>10 DEF Engine, TypeOK, OnlyNew, SavedAndIdle
<1>11. CASE UNCHANGED vars
  BY <1>11 DEF vars, console, TypeOK, OnlyNew, SavedAndIdle
<1> QED
  BY <1>1, <1>2, <1>3, <1>4, <1>5, <1>6, <1>7, <1>8, <1>9, <1>10, <1>11
  DEF Next, CalStoreWrite

\* The working copy is always a calibration, and the sector what a sector may be.
THEOREM TypeCorrect == Spec => []TypeOK
<1> QED
  BY InitInv, NextInv, PTL DEF Spec, Safety, StoreInv

\* What the console was told is saved stays in the flash until the next write begins.
THEOREM SavedStays == Spec => []SavedIsThere
<1>1. StoreInv => SavedIsThere
  BY DEF StoreInv, SavedAndIdle, SavedIsThere
<1> QED
  BY <1>1, InitInv, NextInv, PTL DEF Spec, Safety

----------------------------------------------------------------------------
(* The store implements the register of CalRegister.                       *)

\* What is stored depends on the sector alone.
LEMMA StoredFollowsSector == ASSUME sector' = sector PROVE Stored' = Stored
BY DEF Stored, Loadable

\* A step of a write, or a reset in it, leaves what was there, nothing, or the working copy.
LEMMA WriteStores ==
  ASSUME StoreInv,
         \/ pc = "erase" /\ sector' \in ErasedBadly(sector)
         \/ pc = "program" /\ sector' \in Programmed
  PROVE  Stored' \in {Stored, None, ram}
<1>1. CASE sector' = sector
  BY <1>1, StoredFollowsSector
<1>2. CASE sector' \in {Blank, Ruined}
  BY <1>2, NothingLoads, StoredBothWays, StoredIsLoadable
<1>3. CASE pc = "program" /\ sector' \in Programmed
  <2>1. Loadable(sector') \subseteq {ram}
    BY <1>3, ProgrammedTypes, NewLoadsRam DEF StoreInv
  <2> QED
    BY <2>1, StoredBothWays, StoredIsLoadable
<1> QED
  BY <1>1, <1>2, <1>3 DEF ErasedBadly

\* The initial states are the register's.
LEMMA InitRefines == Init => R!Init
<1> SUFFICES ASSUME Init PROVE R!Init
  OBVIOUS
<1>1. Stored \in Cals \cup {None}
  BY StoredBothWays, StoredIsLoadable DEF Loadable
<1>2. ram = R!Boot(Stored)
  BY BootTakesStored, StoredBothWays DEF Init
<1> QED
  BY <1>1, <1>2 DEF Init, R!Init

\* Every step is a step of the register, or none.
LEMMA StepRefines ==
  StoreInv /\ [Next]_vars => [R!Next]_<<ram, Stored, pc # "idle", engineRunning>>
<1> SUFFICES ASSUME StoreInv, [Next]_vars
             PROVE  [R!Next]_<<ram, Stored, pc # "idle", engineRunning>>
  OBVIOUS
<1>1. CASE Edit \/ CalDefaults
  <2>1. ram' \in Cals /\ pc = "idle" /\ UNCHANGED <<sector, pc, engineRunning>>
    BY <1>1, CalAssumption DEF Edit, CalDefaults, console
  <2>2. R!Edit
    BY <2>1, StoredFollowsSector DEF R!Edit
  <2> QED
    BY <2>2 DEF R!Next
<1>2. CASE CalLoad
  <2>1. pc = "idle" /\ ram' = Stored /\ Stored # None /\ UNCHANGED <<sector, pc, engineRunning>>
    BY <1>2, StoredBothWays, StoredIsLoadable, CalAssumption DEF CalLoad, Loadable, console
  <2>2. R!Load
    BY <2>1, StoredFollowsSector DEF R!Load
  <2> QED
    BY <2>2 DEF R!Next
<1>3. CASE (CalSave \/ SaveDeferred) /\ SaveNow /\ ~engineRunning
  <2>1. pc = "idle" /\ pc' = "erase" /\ UNCHANGED <<ram, sector, engineRunning>>
    BY <1>3 DEF CalSave, SaveDeferred, SaveNow
  <2>2. R!Begin
    BY <1>3, <2>1, StoredFollowsSector DEF R!Begin
  <2> QED
    BY <2>2 DEF R!Next
<1>4. CASE CalStoreWrite
  <2>1. pc # "idle" /\ UNCHANGED <<ram, engineRunning>>
    BY <1>4 DEF CalStoreWrite, Erase, Program, Verify, console
  <2>2. Stored' \in {Stored, None, ram}
    <3>1. CASE Erase
      BY <3>1, WriteStores DEF Erase, ErasedBadly
    <3>2. CASE Program
      BY <3>2, WriteStores DEF Program
    <3>3. CASE Verify
      BY <3>3, StoredFollowsSector DEF Verify
    <3> QED
      BY <1>4, <3>1, <3>2, <3>3 DEF CalStoreWrite
  <2>3. R!Write
    BY <2>1, <2>2 DEF R!Write
  <2> QED
    BY <2>3 DEF R!Next
<1>5. CASE Reset
  <2>1. Stored' \in {Stored} \cup (IF pc # "idle" THEN {None, ram} ELSE {})
    <3>1. CASE pc \in {"erase", "program"}
      BY <1>5, <3>1, WriteStores DEF Reset
    <3>2. CASE pc \in {"idle", "verify"}
      BY <1>5, <3>2, StoredFollowsSector DEF Reset
    <3> QED
      BY <3>1, <3>2 DEF StoreInv, TypeOK
  <2>2. ram' = R!Boot(Stored)'
    <3>1. ram' \in {R!Boot(StoredIn(sector'))}
      BY <1>5, BootTakesStored DEF Reset
    <3> QED
      BY <3>1, StoredBothWays DEF R!Boot
  <2>3. R!Reset
    BY <1>5, <2>1, <2>2 DEF Reset, R!Reset, R!Boot
  <2> QED
    BY <2>3 DEF R!Next
<1>6. CASE Engine
  <2>1. R!Engine
    BY <1>6, StoredFollowsSector DEF Engine, R!Engine
  <2> QED
    BY <2>1 DEF R!Next
<1>7. CASE UNCHANGED <<ram, sector, pc, engineRunning>>
  BY <1>7, StoredFollowsSector
<1>8. CalSave => (SaveNow /\ ~engineRunning) \/ UNCHANGED <<ram, sector, pc, engineRunning>>
  BY DEF CalSave
<1>9. SaveDeferred => SaveNow /\ ~engineRunning
  BY DEF SaveDeferred
<1>10. UNCHANGED vars => UNCHANGED <<ram, sector, pc, engineRunning>>
  BY DEF vars, console
<1> QED
  BY <1>1, <1>2, <1>3, <1>4, <1>5, <1>6, <1>7, <1>8, <1>9, <1>10 DEF Next

\* Whatever fails and whenever the power is cut, the next boot finds what was there, what
\* was being written, or nothing; and no write begins with the engine running.
THEOREM ImplementsRegister == Spec => RefinesRegister
<1> QED
  BY InitInv, NextInv, InitRefines, StepRefines, PTL
  DEF Spec, Safety, RefinesRegister, R!Spec

----------------------------------------------------------------------------
(* Arithmetic.                                                             *)

\* A quotient, between two multiples of its divisor.
LEMMA DivBounds ==
  ASSUME NEW a \in Int, NEW b \in Int, b > 0
  PROVE  /\ a \div b \in Int
         /\ b * (a \div b) <= a /\ a < b * (a \div b) + b
OBVIOUS

LEMMA Product == ASSUME NEW a \in Int, NEW b \in Int, a >= 0, b >= 0 PROVE a * b >= 0
OBVIOUS

LEMMA PositiveProduct ==
  ASSUME NEW a \in Int, NEW b \in Int, a > 0, b > 0 PROVE a * b > 0 /\ a * b \in Int
OBVIOUS

LEMMA Scale ==
  ASSUME NEW a \in Int, NEW b \in Int, NEW k \in Int, a <= b, k >= 0
  PROVE  a * k <= b * k
<1>1. (b - a) * k >= 0
  BY Product
<1> QED
  BY <1>1

LEMMA Unscale ==
  ASSUME NEW a \in Int, NEW b \in Int, NEW k \in Int, a * k <= b * k, k > 0
  PROVE  a <= b
<1> SUFFICES ASSUME a >= b + 1 PROVE FALSE
  OBVIOUS
<1>1. (b + 1) * k <= a * k
  BY Scale
<1> QED
  BY <1>1

\* A greater fraction has no smaller quotient.
LEMMA DivRises ==
  ASSUME NEW a \in Int, NEW b \in Int, b > 0, NEW p \in Int, NEW q \in Int, q > 0,
         a * q <= p * b
  PROVE  a \div b <= p \div q
<1> DEFINE m == a \div b
           n == p \div q
<1>1. m \in Int /\ b * m <= a
  BY DivBounds
<1>2. n \in Int /\ p < q * n + q
  BY DivBounds
<1> HIDE DEF m, n
<1> SUFFICES ASSUME m >= n + 1 PROVE FALSE
  BY <1>1, <1>2 DEF m, n
<1>3. b * m * q <= a * q
  BY <1>1, Scale
<1>4. (p + 1) * b <= (q * n + q) * b
  BY <1>2, Scale
<1>5. (n + 1) * (b * q) <= m * (b * q)
  <2>1. b * q \in Int /\ b * q >= 0
    BY Product
  <2> HIDE DEF m, n
  <2> QED
    BY <1>1, <1>2, <2>1, Scale
<1> QED
  BY <1>1, <1>2, <1>3, <1>4, <1>5

LEMMA MaxOfThree ==
  ASSUME NEW a \in Int, NEW b \in Int
  PROVE  /\ Max({0, a, b}) \in {0, a, b}
         /\ Max({0, a, b}) >= 0 /\ Max({0, a, b}) >= a /\ Max({0, a, b}) >= b
<1>1. \E x \in {0, a, b} : \A y \in {0, a, b} : x >= y
  OBVIOUS
<1> QED
  BY <1>1 DEF Max

LEMMA MaxOfTwo ==
  ASSUME NEW a \in Int, NEW b \in Int PROVE Max({a, b}) = IF a >= b THEN a ELSE b
BY DEF Max

LEMMA MinOfTwo ==
  ASSUME NEW a \in Int, NEW b \in Int PROVE Min({a, b}) = IF a <= b THEN a ELSE b
BY DEF Min

LEMMA MinOfThree ==
  ASSUME NEW a \in Int, NEW b \in Int, NEW c \in Int
  PROVE  LET m == Min({a, b, c}) IN m \in {a, b, c} /\ m <= a /\ m <= b /\ m <= c
<1>1. \E x \in {a, b, c} : \A y \in {a, b, c} : x <= y
  OBVIOUS
<1> QED
  BY <1>1 DEF Min

----------------------------------------------------------------------------
(* Heights: fractions with a positive denominator.                         *)

Fractions == Int \X (Nat \ {0})
Leq(p, q) == p[1] * q[2] <= q[1] * p[2]

LEMMA LeqTransitive ==
  ASSUME NEW p \in Fractions, NEW q \in Fractions, NEW r \in Fractions, Leq(p, q), Leq(q, r)
  PROVE  Leq(p, r)
<1> DEFINE a == p[1]  b == p[2]  c == q[1]  d == q[2]  e == r[1]  f == r[2]
<1>1. /\ a \in Int /\ b \in Int /\ c \in Int /\ d \in Int /\ e \in Int /\ f \in Int
      /\ b > 0 /\ d > 0 /\ f > 0 /\ a * d <= c * b /\ c * f <= e * d
  BY DEF Fractions, Leq
<1> SUFFICES a * f <= e * b
  BY DEF Leq
<1> HIDE DEF a, b, c, d, e, f
<1>2. (a * d) * f <= (c * b) * f
  BY <1>1, Scale
<1>3. (c * f) * b <= (e * d) * b
  BY <1>1, Scale
<1>4. (a * f) * d <= (e * b) * d
  BY <1>1, <1>2, <1>3
<1> QED
  BY <1>1, <1>4, Unscale

\* _clampTravel keeps the order.
LEMMA ClampRises ==
  ASSUME NEW h \in Fractions, NEW k \in Fractions, Leq(h, k), PaddleFull \in Nat \ {0}
  PROVE  /\ ClampTravel(h) \in Fractions
         /\ Leq(ClampTravel(h), ClampTravel(k))
<1> DEFINE a == h[1]  b == h[2]  c == k[1]  d == k[2]
           F == PaddleFull
           low  == ClampTravel(h)[1]
           high == ClampTravel(k)[1]
<1>1. /\ a \in Int /\ b \in Int /\ c \in Int /\ d \in Int /\ F \in Int
      /\ b > 0 /\ d > 0 /\ F > 0 /\ a * d <= c * b
  BY DEF Fractions, Leq
<1>2. F * b > 0 /\ F * d > 0 /\ F * b \in Int /\ F * d \in Int
  BY <1>1, PositiveProduct
<1>3. /\ low = IF a <= 0 THEN 0 ELSE IF a <= F * b THEN a ELSE F * b
      /\ high = IF c <= 0 THEN 0 ELSE IF c <= F * d THEN c ELSE F * d
      /\ ClampTravel(h)[2] = b /\ ClampTravel(k)[2] = d
      /\ ClampTravel(h) = <<low, b>>
  BY <1>1, <1>2, MaxOfTwo, MinOfTwo DEF ClampTravel
<1> HIDE DEF a, b, c, d, low, high, F
<1>4. low * d <= high * b
  <2>1. CASE a <= 0
    BY <1>1, <1>2, <1>3, <2>1, Product
  <2>2. CASE a > 0 /\ c > F * d
    <3>1. low <= F * b /\ high = F * d /\ low \in Int
      BY <1>1, <1>2, <1>3, <2>2
    <3>2. low * d <= (F * b) * d
      BY <1>1, <1>2, <3>1, Scale
    <3> QED
      BY <1>1, <3>1, <3>2
  <2>3. CASE a > 0 /\ c <= F * d
    <3>1. a * d > 0
      BY <1>1, <2>3, PositiveProduct
    <3>2. c > 0
      <4>1. c <= 0 => c * b <= 0 * b
        BY <1>1, Scale
      <4> QED
        BY <1>1, <3>1, <4>1
    <3>3. low <= a /\ high = c /\ low \in Int
      BY <1>1, <1>2, <1>3, <2>3, <3>2
    <3>4. low * d <= a * d
      BY <1>1, <3>3, Scale
    <3>5. high * b = c * b /\ low * d \in Int /\ a * d \in Int /\ c * b \in Int
      BY <1>1, <3>3
    <3> QED
      BY <1>1, <3>4, <3>5
  <2> QED
    BY <1>1, <1>2, <2>1, <2>2, <2>3
<1>5. ClampTravel(h) \in Fractions
  BY <1>1, <1>2, <1>3 DEF Fractions
<1>6. ClampTravel(h)[1] = low /\ ClampTravel(k)[1] = high
  BY DEF low, high
<1> QED
  BY <1>3, <1>4, <1>5, <1>6 DEF Leq

----------------------------------------------------------------------------
(* The smooth curve.                                                       *)

\* The numerator of a smooth height, whose denominator is 300 F F.
Bent(s, x) == 300 * (PaddleFull * PaddleFull) * x
              + s * (x * x * (3 * PaddleFull - 2 * x) - PaddleFull * PaddleFull * x)

\* Where the curve has come up from the clamp, in its lower part, it rises.
LEMMA SmoothRisesLow ==
  ASSUME NEW s \in Nat, NEW x \in Nat, PaddleFull \in Nat \ {0},
         4 * x + 2 <= 3 * PaddleFull, Bent(s, x) > 0
  PROVE  Bent(s, x) <= Bent(s, x + 1)
<1> DEFINE F == PaddleFull
           g == (F - 2 * x) * (F - x)
           d == 300 * (F * F)
<1>1. F \in Int /\ x \in Int /\ s \in Int /\ g \in Int /\ d \in Int
  OBVIOUS
<1>2. Bent(s, x) = (d - s * g) * x
  BY <1>1 DEF Bent
<1>3. Bent(s, x + 1) - Bent(s, x) = (d - s * g) + s * ((x + 1) * (3 * F - (4 * x + 2)))
  BY <1>1 DEF Bent
<1>4. d - s * g > 0
  <2>1. d - s * g <= 0 => (d - s * g) * x <= 0 * x
    <3> DEFINE e == d - s * g
    <3>1. e \in Int
      BY <1>1
    <3> HIDE DEF e
    <3>2. e <= 0 => e * x <= 0 * x
      BY <3>1, Scale
    <3> QED
      BY <3>2 DEF e
  <2> HIDE DEF g, d
  <2> QED
    BY <1>1, <1>2, <2>1
<1>5. s * ((x + 1) * (3 * F - (4 * x + 2))) >= 0
  <2> DEFINE u == 3 * F - (4 * x + 2)
  <2>1. u \in Int /\ u >= 0
    OBVIOUS
  <2> HIDE DEF u
  <2>2. (x + 1) * u \in Int /\ (x + 1) * u >= 0
    BY <2>1, Product
  <2> DEFINE v == (x + 1) * u
  <2> HIDE DEF v
  <2>3. s * v >= 0
    BY <2>2, Product DEF v
  <2> QED
    BY <2>3 DEF u, v
<1>6. Bent(s, x) \in Int /\ Bent(s, x + 1) \in Int /\ s * ((x + 1) * (3 * F - (4 * x + 2))) \in Int
  BY <1>1 DEF Bent
<1> QED
  <2> DEFINE p == Bent(s, x)  q == Bent(s, x + 1)
             e == d - s * g   t == s * ((x + 1) * (3 * F - (4 * x + 2)))
  <2>1. p \in Int /\ q \in Int /\ e \in Int /\ t \in Int /\ e > 0 /\ t >= 0 /\ q - p = e + t
    BY <1>1, <1>3, <1>4, <1>5, <1>6
  <2> HIDE DEF p, q, e, t
  <2>2. p <= q
    BY <2>1
  <2> QED
    BY <2>2 DEF p, q

\* The curve's upper part is the lower part turned round.
LEMMA SmoothTurned ==
  ASSUME NEW s \in Nat, NEW x \in 0 .. PaddleFull, PaddleFull \in Nat \ {0}
  PROVE  Bent(s, x) = PaddleFull * (300 * (PaddleFull * PaddleFull)) - Bent(s, PaddleFull - x)
BY DEF Bent

\* Between the clamps the curve rises.
LEMMA SmoothRises ==
  ASSUME NEW s \in Nat, NEW x \in 0 .. PaddleFull - 1, PaddleFull \in Nat \ {0},
         Bent(s, x) > 0, Bent(s, x + 1) < PaddleFull * (300 * (PaddleFull * PaddleFull))
  PROVE  Bent(s, x) <= Bent(s, x + 1)
<1>1. CASE 4 * x + 2 <= 3 * PaddleFull
  BY <1>1, SmoothRisesLow
<1>2. CASE 4 * x + 2 > 3 * PaddleFull
  <2> DEFINE y == PaddleFull - x - 1
             top == PaddleFull * (300 * (PaddleFull * PaddleFull))
  <2>1. y \in Nat /\ 4 * y + 2 <= 3 * PaddleFull /\ PaddleFull - (x + 1) = y /\ PaddleFull - x = y + 1
    BY <1>2
  <2>2. Bent(s, x) = top - Bent(s, y + 1) /\ Bent(s, x + 1) = top - Bent(s, y)
    BY <2>1, SmoothTurned
  <2>3. top \in Int /\ Bent(s, y) \in Int /\ Bent(s, y + 1) \in Int
    BY <2>1 DEF Bent
  <2> HIDE DEF y, top
  <2>4. Bent(s, y) > 0
    BY <2>2, <2>3 DEF top
  <2>5. Bent(s, y) <= Bent(s, y + 1)
    BY <2>1, <2>4, SmoothRisesLow
  <2> QED
    BY <2>2, <2>3, <2>5
<1> QED
  BY <1>1, <1>2

----------------------------------------------------------------------------
(* The piecewise map: three lines and two rounded corners.                 *)

\* A line that does not fall.
LEMMA LineRises ==
  ASSUME NEW x \in Int, NEW x1 \in Int, NEW x2 \in Int, x1 < x2,
         NEW y1 \in Int, NEW y2 \in Int, y1 <= y2
  PROVE  /\ OnLine(x, x1, x2, y1, y2) \in Fractions
         /\ Leq(OnLine(x, x1, x2, y1, y2), OnLine(x + 1, x1, x2, y1, y2))
<1> DEFINE d == x2 - x1
           a == y1 * (x2 - x1) + (x - x1) * (y2 - y1)
           b == y1 * (x2 - x1) + (x + 1 - x1) * (y2 - y1)
<1>1. OnLine(x, x1, x2, y1, y2) = <<a, d>> /\ OnLine(x + 1, x1, x2, y1, y2) = <<b, d>>
  BY DEF OnLine
<1>2. d \in Nat \ {0} /\ a \in Int /\ b \in Int /\ b = a + (y2 - y1)
  OBVIOUS
<1> HIDE DEF a, b, d
<1>3. a <= b
  BY <1>2
<1>4. a * d <= b * d
  BY <1>2, <1>3, Scale
<1> QED
  BY <1>1, <1>2, <1>4 DEF Fractions, Leq

Slopes == Nat \X (Nat \ {0})

\* A corner between two slopes that do not fall: it is a height, it rises, and it begins
\* and ends on the lines.
LEMMA CornerTyped ==
  ASSUME NEW x \in Int, NEW w \in Nat \ {0}, NEW xc \in Int, NEW yc \in Int,
         NEW m1 \in Slopes, NEW m2 \in Slopes
  PROVE  OnCorner(x, w, xc, yc, m1, m2) \in Fractions
<1>1. m1[1] \in Nat /\ m1[2] \in Nat \ {0} /\ m2[1] \in Nat /\ m2[2] \in Nat \ {0}
  BY DEF Slopes
<1>2. 4 * w * m1[2] > 0 /\ 4 * w * m1[2] \in Int
  BY <1>1, PositiveProduct
<1>3. 4 * w * m1[2] * m2[2] > 0 /\ 4 * w * m1[2] * m2[2] \in Int
  BY <1>1, <1>2, PositiveProduct
<1> QED
  BY <1>1, <1>3 DEF OnCorner, Fractions

LEMMA CornerRises ==
  ASSUME NEW x \in Int, NEW w \in Nat \ {0}, NEW xc \in Int, NEW yc \in Int,
         NEW m1 \in Slopes, NEW m2 \in Slopes, xc - w <= x, x + 1 <= xc + w
  PROVE  Leq(OnCorner(x, w, xc, yc, m1, m2), OnCorner(x + 1, w, xc, yc, m1, m2))
<1> DEFINE a == m1[1]  b == m1[2]  c == m2[1]  d == m2[2]
           u == x - xc + w
           v == xc + w - x - 1
           at(z) == 4 * w * yc * b * d + c * b * (z - xc + w) * (z - xc + w)
                                       - a * d * (xc + w - z) * (xc + w - z)
           k == 4 * w * b * d
<1>1. /\ a \in Int /\ b \in Int /\ c \in Int /\ d \in Int /\ u \in Int /\ v \in Int
      /\ a >= 0 /\ b > 0 /\ c >= 0 /\ d > 0 /\ u >= 0 /\ v >= 0
  BY DEF Slopes
<1>2. /\ OnCorner(x, w, xc, yc, m1, m2) = <<at(x), k>>
      /\ OnCorner(x + 1, w, xc, yc, m1, m2) = <<at(x + 1), k>>
  BY DEF OnCorner
<1> HIDE DEF a, b, c, d
<1>3. at(x + 1) - at(x) = (c * b) * (2 * u + 1) + (a * d) * (2 * v + 1)
  BY <1>1
<1>4. at(x) \in Int /\ at(x + 1) \in Int /\ k \in Int
  BY <1>1
<1>5. c * b >= 0 /\ a * d >= 0 /\ c * b \in Int /\ a * d \in Int
  BY <1>1, Product
<1>6. (c * b) * (2 * u + 1) >= 0 /\ (a * d) * (2 * v + 1) >= 0
      /\ (c * b) * (2 * u + 1) \in Int /\ (a * d) * (2 * v + 1) \in Int
  <2>1. 2 * u + 1 \in Int /\ 2 * u + 1 >= 0 /\ 2 * v + 1 \in Int /\ 2 * v + 1 >= 0
    BY <1>1
  <2> QED
    BY <1>5, <2>1, Product
<1>7. k > 0
  <2>1. 4 * w * b > 0 /\ 4 * w * b \in Int
    BY <1>1, PositiveProduct
  <2> QED
    BY <1>1, <2>1, PositiveProduct
<1> DEFINE p == at(x)  q == at(x + 1)
<1>8. p <= q
  BY <1>3, <1>4, <1>6
<1>9. p \in Int /\ q \in Int
  BY <1>4
<1>10. p * k <= q * k
  <2> HIDE DEF p, q, k
  <2> QED
    BY <1>4, <1>7, <1>8, <1>9, Scale
<1>11. OnCorner(x, w, xc, yc, m1, m2) = <<p, k>> /\ OnCorner(x + 1, w, xc, yc, m1, m2) = <<q, k>>
  BY <1>2
<1> HIDE DEF p, q, k
<1> QED
  BY <1>10, <1>11 DEF Leq

LEMMA CornerEnds ==
  ASSUME NEW w \in Nat \ {0}, NEW xc \in Int, NEW yc \in Int,
         NEW m1 \in Slopes, NEW m2 \in Slopes
  PROVE  LET before == <<yc * m1[2] - w * m1[1], m1[2]>>
             after  == <<yc * m2[2] + w * m2[1], m2[2]>>
         IN /\ before \in Fractions /\ after \in Fractions
            /\ Leq(before, OnCorner(xc - w, w, xc, yc, m1, m2))
            /\ Leq(OnCorner(xc + w, w, xc, yc, m1, m2), after)
<1> DEFINE a == m1[1]  b == m1[2]  c == m2[1]  d == m2[2]
           first == 4 * w * yc * b * d + c * b * 0 * 0 - a * d * (2 * w) * (2 * w)
           last  == 4 * w * yc * b * d + c * b * (2 * w) * (2 * w) - a * d * 0 * 0
           k == 4 * w * b * d
<1>1. /\ a \in Int /\ b \in Int /\ c \in Int /\ d \in Int /\ b > 0 /\ d > 0
  BY DEF Slopes
<1>2. /\ OnCorner(xc - w, w, xc, yc, m1, m2) = <<first, k>>
      /\ OnCorner(xc + w, w, xc, yc, m1, m2) = <<last, k>>
  <2>1. /\ xc - w - xc + w = 0 /\ xc + w - (xc - w) = 2 * w
        /\ xc + w - xc + w = 2 * w /\ xc + w - (xc + w) = 0
    OBVIOUS
  <2> QED
    BY <2>1 DEF OnCorner
<1>3. <<yc * b - w * a, b>> \in Fractions /\ <<yc * d + w * c, d>> \in Fractions
  BY <1>1 DEF Fractions
<1> HIDE DEF a, b, c, d
<1>4. (yc * b - w * a) * k = first * b /\ last * d = (yc * d + w * c) * k
  BY <1>1
<1>5. first \in Int /\ last \in Int /\ k \in Int
  BY <1>1
<1> HIDE DEF first, last, k
<1> QED
  BY <1>1, <1>2, <1>3, <1>4, <1>5 DEF Leq, a, b, c, d

\* The response's pieces.
WidthS(r) == CornerWidth(r.blend, r.paddleStart, r.paddleEnd - r.paddleStart)
WidthE(r) == CornerWidth(r.blend, PaddleFull - r.paddleEnd, r.paddleEnd - r.paddleStart)
Middle(r) == <<r.clutchEnd - r.clutchStart, r.paddleEnd - r.paddleStart>>

Below(r, x)  == OnLine(x, 0, r.paddleStart, 0, r.clutchStart)
Within(r, x) == OnLine(x, r.paddleStart, r.paddleEnd, r.clutchStart, r.clutchEnd)
Above(r, x)  == OnLine(x, r.paddleEnd, PaddleFull, r.clutchEnd, PaddleFull)
CornerS(r, x) == OnCorner(x, WidthS(r), r.paddleStart, r.clutchStart,
                          <<r.clutchStart, r.paddleStart>>, Middle(r))
CornerE(r, x) == OnCorner(x, WidthE(r), r.paddleEnd, r.clutchEnd, Middle(r),
                          <<PaddleFull - r.clutchEnd, PaddleFull - r.paddleEnd>>)

\* What _validate makes sure of, and the widths of the corners.
LEMMA Zones ==
  ASSUME NEW r \in PaddleResponses, ResponseValid(r)
  PROVE  /\ PaddleFull \in Nat \ {0}
         /\ r.paddleStart \in Nat /\ r.paddleEnd \in Nat /\ r.blend \in Nat
         /\ r.clutchStart \in Nat /\ r.clutchEnd \in Nat
         /\ r.paddleStart < r.paddleEnd /\ r.paddleEnd <= PaddleFull
         /\ r.clutchStart <= r.clutchEnd /\ r.clutchEnd <= PaddleFull
         /\ WidthS(r) \in Nat /\ WidthS(r) <= r.paddleStart
         /\ WidthE(r) \in Nat /\ WidthE(r) <= PaddleFull - r.paddleEnd
         /\ 2 * WidthS(r) <= r.paddleEnd - r.paddleStart
         /\ 2 * WidthE(r) <= r.paddleEnd - r.paddleStart
<1>1. /\ PaddleFull \in Nat \ {0}
      /\ r.paddleStart \in Nat /\ r.paddleEnd \in Nat /\ r.blend \in Nat
      /\ r.clutchStart \in Nat /\ r.clutchEnd \in Nat
      /\ r.paddleStart < r.paddleEnd /\ r.paddleEnd <= PaddleFull
      /\ r.clutchStart <= r.clutchEnd /\ r.clutchEnd <= PaddleFull
  BY CalibrationAssumption DEF PaddleResponses, ResponseValid
<1>2. ASSUME NEW outer \in Nat
      PROVE  LET w == CornerWidth(r.blend, outer, r.paddleEnd - r.paddleStart)
             IN w \in Nat /\ w <= outer /\ 2 * w <= r.paddleEnd - r.paddleStart
  <2> DEFINE m == r.paddleEnd - r.paddleStart
             h == m \div 2
             w == CornerWidth(r.blend, outer, m)
  <2>1. m \in Nat /\ h \in Nat /\ 2 * h <= m
    BY <1>1
  <2>2. w = Min({r.blend, outer, h})
    BY DEF CornerWidth
  <2> HIDE DEF h, w
  <2>3. r.blend \in Int /\ outer \in Int /\ h \in Int
    BY <1>1, <2>1
  <2>4. w \in {r.blend, outer, h} /\ w <= outer /\ w <= h
    BY <2>2, <2>3, MinOfThree
  <2>5. w \in Nat /\ w <= outer /\ 2 * w <= m
    BY <1>1, <2>1, <2>4
  <2> QED
    BY <2>5 DEF w
<1>3. PaddleFull - r.paddleEnd \in Nat
  BY <1>1
<1> QED
  BY <1>1, <1>2, <1>3 DEF WidthS, WidthE

\* Which piece holds at a position.
LEMMA PieceAt ==
  ASSUME NEW r \in PaddleResponses, ResponseValid(r), NEW x \in 0 .. PaddleFull
  PROVE  /\ x <= r.paddleStart - WidthS(r) => Piecewise(r, x) = Below(r, x)
         /\ r.paddleStart - WidthS(r) < x /\ x < r.paddleStart + WidthS(r) =>
              Piecewise(r, x) = CornerS(r, x)
         /\ r.paddleStart + WidthS(r) <= x /\ x <= r.paddleEnd - WidthE(r) /\
            r.paddleStart < x => Piecewise(r, x) = Within(r, x)
         /\ r.paddleEnd - WidthE(r) < x /\ x < r.paddleEnd + WidthE(r) =>
              Piecewise(r, x) = CornerE(r, x)
         /\ r.paddleEnd + WidthE(r) <= x /\ r.paddleEnd < x => Piecewise(r, x) = Above(r, x)
<1> DEFINE xS == r.paddleStart  xE == r.paddleEnd  wS == WidthS(r)  wE == WidthE(r)
<1>1. /\ xS \in Nat /\ xE \in Nat /\ wS \in Nat /\ wE \in Nat /\ x \in Nat /\ xS < xE
      /\ wS <= xS /\ 2 * wS <= xE - xS /\ 2 * wE <= xE - xS
  BY Zones
<1>2. Piecewise(r, x) =
        CASE Size(x - xS) < wS -> CornerS(r, x)
          [] Size(x - xS) >= wS /\ Size(x - xE) < wE -> CornerE(r, x)
          [] OTHER -> IF x <= xS THEN Below(r, x)
                      ELSE IF x <= xE THEN Within(r, x) ELSE Above(r, x)
  BY DEF Piecewise, WidthS, WidthE, Middle, Below, Within, Above, CornerS, CornerE
<1> HIDE DEF xS, xE, wS, wE
<1>3. Size(x - xS) < wS <=> xS - wS < x /\ x < xS + wS
  BY <1>1 DEF Size
<1>4. Size(x - xE) < wE <=> xE - wE < x /\ x < xE + wE
  BY <1>1 DEF Size
<1>5. Size(x - xS) >= wS <=> ~ (Size(x - xS) < wS)
  BY <1>1 DEF Size
<1>6. ASSUME x <= xS - wS PROVE Piecewise(r, x) = Below(r, x)
  <2>1. /\ ~ (Size(x - xS) < wS) /\ ~ (Size(x - xE) < wE) /\ x <= xS
    BY <1>1, <1>3, <1>4, <1>5, <1>6
  <2> QED
    BY <1>2, <2>1
<1>7. ASSUME xS - wS < x, x < xS + wS PROVE Piecewise(r, x) = CornerS(r, x)
  <2>1. Size(x - xS) < wS /\ ~ (Size(x - xS) >= wS)
    BY <1>1, <1>3, <1>4, <1>5, <1>7
  <2> QED
    BY <1>2, <2>1
<1>8. ASSUME xS + wS <= x, x <= xE - wE, xS < x PROVE Piecewise(r, x) = Within(r, x)
  <2>1. /\ ~ (Size(x - xS) < wS) /\ ~ (Size(x - xE) < wE) /\ ~ (x <= xS) /\ x <= xE
    BY <1>1, <1>3, <1>4, <1>5, <1>8
  <2> QED
    BY <1>2, <2>1
<1>9. ASSUME xE - wE < x, x < xE + wE PROVE Piecewise(r, x) = CornerE(r, x)
  <2>1. ~ (Size(x - xS) < wS) /\ Size(x - xS) >= wS /\ Size(x - xE) < wE
    BY <1>1, <1>3, <1>4, <1>5, <1>9
  <2> QED
    BY <1>2, <2>1
<1>10. ASSUME xE + wE <= x, xE < x PROVE Piecewise(r, x) = Above(r, x)
  <2>1. /\ ~ (Size(x - xS) < wS) /\ ~ (Size(x - xE) < wE) /\ ~ (x <= xS) /\ ~ (x <= xE)
    BY <1>1, <1>3, <1>4, <1>5, <1>10
  <2> QED
    BY <1>2, <2>1
<1> QED
  BY <1>6, <1>7, <1>8, <1>9, <1>10 DEF xS, xE, wS, wE

\* Each piece is a height where it holds.
LEMMA PieceTyped ==
  ASSUME NEW r \in PaddleResponses, ResponseValid(r), NEW x \in 0 .. PaddleFull
  PROVE  Piecewise(r, x) \in Fractions
<1> DEFINE xS == r.paddleStart  xE == r.paddleEnd  wS == WidthS(r)  wE == WidthE(r)
<1>1. /\ xS \in Nat /\ xE \in Nat /\ wS \in Nat /\ wE \in Nat /\ x \in Nat /\ xS < xE
      /\ wS <= xS /\ 2 * wS <= xE - xS /\ 2 * wE <= xE - xS /\ wE <= PaddleFull - xE
      /\ r.clutchStart \in Nat /\ r.clutchEnd \in Nat /\ r.clutchStart <= r.clutchEnd
      /\ r.clutchEnd <= PaddleFull /\ PaddleFull \in Nat
  BY Zones
<1>2. ASSUME NEW x1 \in Int, NEW x2 \in Int, x1 < x2,
             NEW y1 \in Int, NEW y2 \in Int, y1 <= y2
      PROVE  OnLine(x, x1, x2, y1, y2) \in Fractions
  <2>1. x \in Int
    OBVIOUS
  <2> QED
    BY <1>2, <2>1, LineRises, Zenon
<1>3. Middle(r) \in Slopes
  BY <1>1 DEF Middle, Slopes
<1>4. CASE x <= xS - wS
  <2>1. Piecewise(r, x) = Below(r, x)
    BY <1>4, PieceAt
  <2>2. xS = 0 => Below(r, x) = <<0, 1>>
    BY DEF Below, OnLine
  <2>3. ASSUME xS > 0 PROVE Below(r, x) \in Fractions
    <3>1. /\ 0 \in Int /\ xS \in Int /\ 0 < xS /\ r.clutchStart \in Int
          /\ 0 <= r.clutchStart
      BY <1>1, <2>3
    <3>2. OnLine(x, 0, xS, 0, r.clutchStart) \in Fractions
      BY <1>2, <3>1, Zenon
    <3> QED
      BY <3>2 DEF Below
  <2>4. <<0, 1>> \in Fractions
    BY DEF Fractions
  <2> QED
    BY <1>1, <2>1, <2>2, <2>3, <2>4
<1>5. CASE xS - wS < x /\ x < xS + wS
  <2>1. Piecewise(r, x) = CornerS(r, x)
    BY <1>5, PieceAt
  <2>2. wS \in Nat \ {0} /\ <<r.clutchStart, xS>> \in Slopes
    BY <1>1, <1>5 DEF Slopes
  <2> QED
    BY <1>1, <1>3, <2>1, <2>2, CornerTyped DEF CornerS
<1>6. CASE xS + wS <= x /\ x <= xE - wE /\ xS < x
  <2>1. Piecewise(r, x) = Within(r, x)
    BY <1>6, PieceAt
  <2>2. OnLine(x, xS, xE, r.clutchStart, r.clutchEnd) \in Fractions
    <3>1. xS \in Int /\ xE \in Int /\ r.clutchStart \in Int /\ r.clutchEnd \in Int
      BY <1>1
    <3> QED
      BY <1>1, <1>2, <3>1, Zenon
  <2> QED
    BY <2>1, <2>2 DEF Within
<1>7. CASE xE - wE < x /\ x < xE + wE
  <2>1. Piecewise(r, x) = CornerE(r, x)
    BY <1>7, PieceAt
  <2> DEFINE slope == <<PaddleFull - r.clutchEnd, PaddleFull - xE>>
  <2>2. wE \in Nat \ {0} /\ slope \in Slopes /\ x \in Int /\ xE \in Int /\ r.clutchEnd \in Int
    BY <1>1, <1>7 DEF Slopes
  <2>3. CornerE(r, x) = OnCorner(x, wE, xE, r.clutchEnd, Middle(r), slope)
    BY DEF CornerE
  <2> HIDE DEF slope, wE, xE
  <2>4. CornerE(r, x) \in Fractions
    BY <1>3, <2>2, <2>3, CornerTyped
  <2> QED
    BY <2>1, <2>4
<1>8. CASE xE + wE <= x /\ xE < x
  <2>1. Piecewise(r, x) = Above(r, x)
    BY <1>8, PieceAt
  <2>2. OnLine(x, xE, PaddleFull, r.clutchEnd, PaddleFull) \in Fractions
    <3>1. /\ xE \in Int /\ PaddleFull \in Int /\ xE < PaddleFull
          /\ r.clutchEnd \in Int /\ r.clutchEnd <= PaddleFull
      BY <1>1, <1>8
    <3> QED
      BY <1>2, <3>1, Zenon
  <2> QED
    BY <2>1, <2>2 DEF Above
<1>9. \/ x <= xS - wS
      \/ xS - wS < x /\ x < xS + wS
      \/ xS + wS <= x /\ x <= xE - wE /\ xS < x
      \/ xE - wE < x /\ x < xE + wE
      \/ xE + wE <= x /\ xE < x
  <2> HIDE DEF xS, xE, wS, wE
  <2> QED
    BY <1>1
<1> QED
  BY <1>4, <1>5, <1>6, <1>7, <1>8, <1>9

\* The first corner joins the first two lines, and the second corner the last two.
LEMMA CornersJoin ==
  ASSUME NEW r \in PaddleResponses, ResponseValid(r)
  PROVE  /\ WidthS(r) > 0 =>
              /\ Leq(Below(r, r.paddleStart - WidthS(r)), CornerS(r, r.paddleStart - WidthS(r)))
              /\ Leq(CornerS(r, r.paddleStart + WidthS(r)), Within(r, r.paddleStart + WidthS(r)))
              /\ CornerS(r, r.paddleStart - WidthS(r)) \in Fractions
              /\ CornerS(r, r.paddleStart + WidthS(r)) \in Fractions
         /\ WidthE(r) > 0 =>
              /\ Leq(Within(r, r.paddleEnd - WidthE(r)), CornerE(r, r.paddleEnd - WidthE(r)))
              /\ Leq(CornerE(r, r.paddleEnd + WidthE(r)), Above(r, r.paddleEnd + WidthE(r)))
              /\ CornerE(r, r.paddleEnd - WidthE(r)) \in Fractions
              /\ CornerE(r, r.paddleEnd + WidthE(r)) \in Fractions
<1> DEFINE xS == r.paddleStart  xE == r.paddleEnd  wS == WidthS(r)  wE == WidthE(r)
           yS == r.clutchStart  yE == r.clutchEnd  F == PaddleFull
<1>1. /\ xS \in Nat /\ xE \in Nat /\ wS \in Nat /\ wE \in Nat /\ xS < xE
      /\ wS <= xS /\ 2 * wS <= xE - xS /\ 2 * wE <= xE - xS /\ wE <= F - xE
      /\ yS \in Nat /\ yE \in Nat /\ yS <= yE /\ yE <= F /\ F \in Nat
  BY Zones
<1>2. Middle(r) = <<yE - yS, xE - xS>> /\ Middle(r) \in Slopes
  BY <1>1 DEF Middle, Slopes
<1>3. /\ \A x : Below(r, x) = OnLine(x, 0, xS, 0, yS)
      /\ \A x : Within(r, x) = OnLine(x, xS, xE, yS, yE)
      /\ \A x : Above(r, x) = OnLine(x, xE, F, yE, F)
      /\ \A x : CornerS(r, x) = OnCorner(x, wS, xS, yS, <<yS, xS>>, Middle(r))
      /\ \A x : CornerE(r, x) = OnCorner(x, wE, xE, yE, Middle(r), <<F - yE, F - xE>>)
  BY DEF Below, Within, Above, CornerS, CornerE
<1> HIDE DEF xS, xE, wS, wE, yS, yE, F
<1>4. ASSUME wS > 0
      PROVE  /\ Leq(Below(r, xS - wS), CornerS(r, xS - wS))
             /\ Leq(CornerS(r, xS + wS), Within(r, xS + wS))
             /\ CornerS(r, xS - wS) \in Fractions /\ CornerS(r, xS + wS) \in Fractions
  <2> DEFINE m == <<yS, xS>>
  <2>1. /\ m \in Slopes /\ wS \in Nat \ {0} /\ xS \in Int /\ yS \in Int
        /\ xS - wS \in Int /\ xS + wS \in Int
    BY <1>1, <1>4 DEF Slopes
  <2>2. Below(r, xS - wS) = <<yS * xS - wS * yS, xS>>
    <3>1. 0 * (xS - 0) + (xS - wS - 0) * (yS - 0) = yS * xS - wS * yS /\ xS - 0 = xS /\ 0 # xS
      BY <1>1, <1>4
    <3> QED
      BY <1>3, <3>1 DEF OnLine
  <2>3. Within(r, xS + wS) = <<yS * (xE - xS) + wS * (yE - yS), xE - xS>>
    <3>1. /\ yS * (xE - xS) + (xS + wS - xS) * (yE - yS)
               = yS * (xE - xS) + wS * (yE - yS)
          /\ xS # xE
      BY <1>1
    <3>2. OnLine(xS + wS, xS, xE, yS, yE)
            = <<yS * (xE - xS) + wS * (yE - yS), xE - xS>>
      BY <1>1, <3>1 DEF OnLine
    <3> QED
      BY <1>3, <3>2
  <2>4. /\ Leq(<<yS * m[2] - wS * m[1], m[2]>>, OnCorner(xS - wS, wS, xS, yS, m, Middle(r)))
        /\ Leq(OnCorner(xS + wS, wS, xS, yS, m, Middle(r)),
               <<yS * Middle(r)[2] + wS * Middle(r)[1], Middle(r)[2]>>)
    <3> HIDE DEF m
    <3> QED
      BY <1>2, <2>1, CornerEnds
  <2>5. /\ OnCorner(xS - wS, wS, xS, yS, m, Middle(r)) \in Fractions
        /\ OnCorner(xS + wS, wS, xS, yS, m, Middle(r)) \in Fractions
    <3> HIDE DEF m
    <3> QED
      BY <1>2, <2>1, CornerTyped
  <2> QED
    BY <1>2, <1>3, <2>2, <2>3, <2>4, <2>5
<1>5. ASSUME wE > 0
      PROVE  /\ Leq(Within(r, xE - wE), CornerE(r, xE - wE))
             /\ Leq(CornerE(r, xE + wE), Above(r, xE + wE))
             /\ CornerE(r, xE - wE) \in Fractions /\ CornerE(r, xE + wE) \in Fractions
  <2> DEFINE m == <<F - yE, F - xE>>
  <2>1. /\ m \in Slopes /\ wE \in Nat \ {0} /\ xE \in Int /\ yE \in Int
        /\ xE - wE \in Int /\ xE + wE \in Int
    BY <1>1, <1>5 DEF Slopes
  <2>2. Within(r, xE - wE) = <<yE * (xE - xS) - wE * (yE - yS), xE - xS>>
    <3>1. yS * (xE - xS) + (xE - wE - xS) * (yE - yS) = yE * (xE - xS) - wE * (yE - yS)
          /\ xS # xE
      BY <1>1
    <3> QED
      BY <1>3, <3>1 DEF OnLine
  <2>3. Above(r, xE + wE) = <<yE * (F - xE) + wE * (F - yE), F - xE>>
    <3>1. /\ yE * (F - xE) + (xE + wE - xE) * (F - yE)
               = yE * (F - xE) + wE * (F - yE)
          /\ xE # F
      BY <1>1, <1>5
    <3>2. OnLine(xE + wE, xE, F, yE, F)
            = <<yE * (F - xE) + wE * (F - yE), F - xE>>
      BY <1>1, <3>1 DEF OnLine
    <3> QED
      BY <1>3, <3>2
  <2>4. /\ Leq(<<yE * Middle(r)[2] - wE * Middle(r)[1], Middle(r)[2]>>,
               OnCorner(xE - wE, wE, xE, yE, Middle(r), m))
        /\ Leq(OnCorner(xE + wE, wE, xE, yE, Middle(r), m), <<yE * m[2] + wE * m[1], m[2]>>)
    <3> HIDE DEF m
    <3> QED
      BY <1>2, <2>1, CornerEnds
  <2>5. /\ OnCorner(xE - wE, wE, xE, yE, Middle(r), m) \in Fractions
        /\ OnCorner(xE + wE, wE, xE, yE, Middle(r), m) \in Fractions
    <3> HIDE DEF m
    <3> QED
      BY <1>2, <2>1, CornerTyped
  <2> QED
    BY <1>2, <1>3, <2>2, <2>3, <2>4, <2>5
<1> QED
  BY <1>4, <1>5 DEF xS, xE, wS, wE

\* The map rises from every position to the next: both lie on one piece or at its ends.
LEMMA PiecewiseRises ==
  ASSUME NEW r \in PaddleResponses, ResponseValid(r), NEW x \in 0 .. PaddleFull - 1
  PROVE  Leq(Piecewise(r, x), Piecewise(r, x + 1))
<1> DEFINE xS == r.paddleStart  xE == r.paddleEnd  wS == WidthS(r)  wE == WidthE(r)
           yS == r.clutchStart  yE == r.clutchEnd  F == PaddleFull
           here == Piecewise(r, x)
           there == Piecewise(r, x + 1)
<1>1. /\ xS \in Nat /\ xE \in Nat /\ wS \in Nat /\ wE \in Nat /\ xS < xE
      /\ wS <= xS /\ 2 * wS <= xE - xS /\ 2 * wE <= xE - xS /\ wE <= F - xE
      /\ yS \in Nat /\ yE \in Nat /\ yS <= yE /\ yE <= F /\ F \in Nat
  BY Zones
<1>2. /\ x \in Int /\ x >= 0 /\ x + 1 \in Int /\ x + 1 <= F
      /\ x \in 0 .. F /\ x + 1 \in 0 .. F
  BY <1>1
<1>3. here \in Fractions /\ there \in Fractions
  BY <1>2, PieceTyped
<1>4. \A p \in Fractions : Leq(p, p)
  BY DEF Leq, Fractions
<1>5. ASSUME NEW p \in Fractions, NEW q \in Fractions, Leq(here, p), Leq(p, q), Leq(q, there)
      PROVE  Leq(here, there)
  <2>1. Leq(here, q)
    BY <1>3, <1>5, LeqTransitive
  <2> QED
    BY <1>3, <1>5, <2>1, LeqTransitive
<1>6. /\ \A z \in Int : Middle(r) \in Slopes
      /\ \A z : Below(r, z) = OnLine(z, 0, xS, 0, yS)
      /\ \A z : Within(r, z) = OnLine(z, xS, xE, yS, yE)
      /\ \A z : Above(r, z) = OnLine(z, xE, F, yE, F)
      /\ \A z : CornerS(r, z) = OnCorner(z, wS, xS, yS, <<yS, xS>>, Middle(r))
      /\ \A z : CornerE(r, z) = OnCorner(z, wE, xE, yE, Middle(r), <<F - yE, F - xE>>)
  BY <1>1 DEF Below, Within, Above, CornerS, CornerE, Middle, Slopes
<1>7. /\ \A z \in 0 .. F : z <= xS - wS => Piecewise(r, z) = Below(r, z)
      /\ \A z \in 0 .. F : xS - wS < z /\ z < xS + wS => Piecewise(r, z) = CornerS(r, z)
      /\ \A z \in 0 .. F : xS + wS <= z /\ z <= xE - wE /\ xS < z => Piecewise(r, z) = Within(r, z)
      /\ \A z \in 0 .. F : xE - wE < z /\ z < xE + wE => Piecewise(r, z) = CornerE(r, z)
      /\ \A z \in 0 .. F : xE + wE <= z /\ xE < z => Piecewise(r, z) = Above(r, z)
  BY PieceAt
<1>8. /\ wS > 0 => /\ Leq(Below(r, xS - wS), CornerS(r, xS - wS))
                   /\ Leq(CornerS(r, xS + wS), Within(r, xS + wS))
      /\ wE > 0 => /\ Leq(Within(r, xE - wE), CornerE(r, xE - wE))
                   /\ Leq(CornerE(r, xE + wE), Above(r, xE + wE))
  BY CornersJoin
<1> HIDE DEF xS, xE, wS, wE, yS, yE, F, here, there
<1>9. CASE x + 1 <= xS - wS
  <2>1. here = Below(r, x) /\ there = Below(r, x + 1)
    BY <1>1, <1>2, <1>7, <1>9 DEF here, there
  <2>2. 0 < xS /\ 0 \in Int /\ xS \in Int /\ yS \in Int /\ 0 <= yS
    BY <1>1, <1>2, <1>9
  <2>3. Leq(OnLine(x, 0, xS, 0, yS), OnLine(x + 1, 0, xS, 0, yS))
    BY <1>2, <2>2, LineRises, Zenon
  <2>4. /\ Below(r, x) = OnLine(x, 0, xS, 0, yS)
        /\ Below(r, x + 1) = OnLine(x + 1, 0, xS, 0, yS)
    BY <1>6, Zenon
  <2> QED
    BY <2>1, <2>3, <2>4, Zenon DEF here, there
<1>10. CASE xS - wS <= x /\ x + 1 <= xS + wS
  <2>1. wS > 0 /\ wS \in Nat \ {0} /\ xS \in Int /\ yS \in Int /\ <<yS, xS>> \in Slopes
    BY <1>1, <1>2, <1>10 DEF Slopes
  <2>2. /\ CornerS(r, x) \in Fractions /\ CornerS(r, x + 1) \in Fractions
        /\ Leq(CornerS(r, x), CornerS(r, x + 1))
    <3> DEFINE m == <<yS, xS>>
    <3>1. Middle(r) \in Slopes
      BY <1>2, <1>6
    <3>2. /\ CornerS(r, x) = OnCorner(x, wS, xS, yS, m, Middle(r))
          /\ CornerS(r, x + 1) = OnCorner(x + 1, wS, xS, yS, m, Middle(r))
      BY <1>6
    <3>3. m \in Slopes
      BY <2>1
    <3> HIDE DEF m
    <3> QED
      BY <1>2, <1>10, <2>1, <3>1, <3>2, <3>3, CornerTyped, CornerRises
  <2>3. Leq(here, CornerS(r, x))
    <3>1. CASE x = xS - wS
      BY <1>1, <1>2, <1>7, <1>8, <2>1, <3>1 DEF here
    <3>2. CASE x > xS - wS
      BY <1>1, <1>2, <1>4, <1>7, <1>10, <2>2, <3>2 DEF here
    <3> QED
      BY <1>1, <1>2, <1>10, <3>1, <3>2
  <2>4. Leq(CornerS(r, x + 1), there)
    <3>1. CASE x + 1 = xS + wS
      <4>1. there = Within(r, xS + wS)
        BY <1>1, <1>2, <1>7, <2>1, <3>1 DEF there
      <4> QED
        BY <1>8, <2>1, <3>1, <4>1
    <3>2. CASE x + 1 < xS + wS
      BY <1>1, <1>2, <1>4, <1>7, <1>10, <2>2, <3>2 DEF there
    <3> QED
      BY <1>1, <1>2, <1>10, <3>1, <3>2
  <2> QED
    BY <1>5, <2>2, <2>3, <2>4 DEF here, there
<1>11. CASE xS + wS <= x /\ x + 1 <= xE - wE
  <2>1. there = Within(r, x + 1)
    BY <1>1, <1>2, <1>7, <1>11 DEF there
  <2>2. xS \in Int /\ xE \in Int /\ yS \in Int /\ yE \in Int
    BY <1>1
  <2>3. Within(r, x) \in Fractions /\ Leq(Within(r, x), Within(r, x + 1))
    <3>1. /\ OnLine(x, xS, xE, yS, yE) \in Fractions
          /\ Leq(OnLine(x, xS, xE, yS, yE), OnLine(x + 1, xS, xE, yS, yE))
      BY <1>1, <1>2, <2>2, LineRises, Zenon
    <3> QED
      BY <1>6, <3>1
  <2>4. CASE xS < x
    <3>1. here = Within(r, x)
      BY <1>1, <1>2, <1>7, <1>11, <2>4 DEF here
    <3> QED
      BY <2>1, <2>3, <3>1 DEF here, there
  <2>5. CASE xS = x
    <3>1. here = Below(r, x) /\ wS = 0
      BY <1>1, <1>2, <1>7, <1>11, <2>5 DEF here
    <3>2. Within(r, x) = <<yS * (xE - xS), xE - xS>>
      <4>1. yS * (xE - xS) + (x - xS) * (yE - yS) = yS * (xE - xS) /\ xS # xE
        BY <1>1, <2>5
      <4> QED
        BY <1>6, <4>1 DEF OnLine
    <3>3. Below(r, x) = IF xS = 0 THEN <<0, 1>> ELSE <<xS * yS, xS>>
      <4>1. xS # 0 => 0 * (xS - 0) + (x - 0) * (yS - 0) = xS * yS /\ xS - 0 = xS
        BY <1>1, <2>5
      <4> QED
        BY <1>6, <4>1 DEF OnLine
    <3>4. Leq(Below(r, x), Within(r, x))
      <4>1. CASE xS = 0
        <5>1. yS * (xE - xS) \in Int /\ yS * (xE - xS) >= 0
          BY <1>1, Product
        <5> QED
          BY <1>1, <3>2, <3>3, <4>1, <5>1 DEF Leq
      <4>2. CASE xS # 0
        BY <1>1, <3>2, <3>3, <4>2 DEF Leq
      <4> QED
        BY <4>1, <4>2
    <3>5. Leq(here, Within(r, x)) /\ Leq(Within(r, x), there) /\ Leq(there, there)
      BY <1>3, <1>4, <2>1, <2>3, <3>1, <3>4
    <3> QED
      BY <1>3, <1>5, <2>3, <3>5 DEF here, there
  <2> QED
    BY <1>1, <1>2, <1>11, <2>4, <2>5
<1>12. CASE xE - wE <= x /\ x + 1 <= xE + wE
  <2> DEFINE m == <<F - yE, F - xE>>
  <2>1. wE > 0 /\ wE \in Nat \ {0} /\ xE \in Int /\ yE \in Int /\ m \in Slopes
    BY <1>1, <1>2, <1>12 DEF Slopes
  <2>2. /\ CornerE(r, x) \in Fractions /\ CornerE(r, x + 1) \in Fractions
        /\ Leq(CornerE(r, x), CornerE(r, x + 1))
    <3>1. Middle(r) \in Slopes
      BY <1>2, <1>6
    <3>2. /\ CornerE(r, x) = OnCorner(x, wE, xE, yE, Middle(r), m)
          /\ CornerE(r, x + 1) = OnCorner(x + 1, wE, xE, yE, Middle(r), m)
      BY <1>6
    <3> HIDE DEF m
    <3> QED
      BY <1>2, <1>12, <2>1, <3>1, <3>2, CornerTyped, CornerRises
  <2>3. Leq(here, CornerE(r, x))
    <3>1. CASE x = xE - wE
      <4>1. here = Within(r, xE - wE)
        BY <1>1, <1>2, <1>7, <2>1, <3>1 DEF here
      <4> QED
        BY <1>8, <2>1, <3>1, <4>1
    <3>2. CASE x > xE - wE
      BY <1>1, <1>2, <1>4, <1>7, <1>12, <2>2, <3>2 DEF here
    <3> QED
      BY <1>1, <1>2, <1>12, <3>1, <3>2
  <2>4. Leq(CornerE(r, x + 1), there)
    <3>1. CASE x + 1 = xE + wE
      <4>1. there = Above(r, xE + wE)
        BY <1>1, <1>2, <1>7, <2>1, <3>1 DEF there
      <4> QED
        BY <1>8, <2>1, <3>1, <4>1
    <3>2. CASE x + 1 < xE + wE
      BY <1>1, <1>2, <1>4, <1>7, <1>12, <2>2, <3>2 DEF there
    <3> QED
      BY <1>1, <1>2, <1>12, <3>1, <3>2
  <2> QED
    BY <1>5, <2>2, <2>3, <2>4 DEF here, there
<1>13. CASE xE + wE <= x
  <2>1. there = Above(r, x + 1)
    BY <1>1, <1>2, <1>7, <1>13 DEF there
  <2>2. xE \in Int /\ F \in Int /\ yE \in Int /\ xE < F /\ yE <= F
    BY <1>1, <1>2, <1>13
  <2>3. Above(r, x) \in Fractions /\ Leq(Above(r, x), Above(r, x + 1))
    <3>1. /\ OnLine(x, xE, F, yE, F) \in Fractions
          /\ Leq(OnLine(x, xE, F, yE, F), OnLine(x + 1, xE, F, yE, F))
      BY <1>2, <2>2, LineRises, Zenon
    <3> QED
      BY <1>6, <3>1
  <2>4. CASE xE < x
    <3>1. here = Above(r, x)
      BY <1>1, <1>2, <1>7, <1>13, <2>4 DEF here
    <3> QED
      BY <2>1, <2>3, <3>1 DEF here, there
  <2>5. CASE xE = x
    <3>1. here = Within(r, x) /\ wE = 0
      <4>1. xS + wS <= x /\ x <= xE - wE /\ xS < x
        BY <1>1, <1>2, <1>13, <2>5
      <4> QED
        BY <1>1, <1>2, <1>7, <1>13, <2>5, <4>1 DEF here
    <3>2. Within(r, x) = <<yE * (xE - xS), xE - xS>>
      <4>1. yS * (xE - xS) + (x - xS) * (yE - yS) = yE * (xE - xS) /\ xS # xE
        BY <1>1, <2>5
      <4> QED
        BY <1>6, <4>1 DEF OnLine
    <3>3. Above(r, x) = <<yE * (F - xE), F - xE>>
      <4>1. yE * (F - xE) + (x - xE) * (F - yE) = yE * (F - xE) /\ xE # F
        BY <1>1, <2>2, <2>5
      <4> QED
        BY <1>6, <4>1 DEF OnLine
    <3>4. Leq(Within(r, x), Above(r, x))
      BY <1>1, <2>2, <3>2, <3>3 DEF Leq
    <3>5. Leq(here, Above(r, x)) /\ Leq(Above(r, x), there) /\ Leq(there, there)
      BY <1>3, <1>4, <2>1, <2>3, <3>1, <3>4
    <3> QED
      BY <1>3, <1>5, <2>3, <3>5 DEF here, there
  <2> QED
    BY <1>1, <1>2, <1>13, <2>4, <2>5
<1>14. \/ x + 1 <= xS - wS
       \/ xS - wS <= x /\ x + 1 <= xS + wS
       \/ xS + wS <= x /\ x + 1 <= xE - wE
       \/ xE - wE <= x /\ x + 1 <= xE + wE
       \/ xE + wE <= x
  BY <1>1, <1>2
<1> QED
  BY <1>9, <1>10, <1>11, <1>12, <1>13, <1>14

----------------------------------------------------------------------------
(* The other curves, and the way to counts.                                *)

\* Every curve is a height at every position.
LEMMA HeightTyped ==
  ASSUME NEW r \in PaddleResponses, ResponseValid(r), NEW x \in 0 .. PaddleFull
  PROVE  Height(r, x) \in Fractions
<1>1. r.curve \in Curves /\ PaddleFull \in Nat \ {0} /\ r.strength \in Int
  BY CalibrationAssumption DEF ResponseValid, PaddleResponses
<1>2. CASE r.curve = "linear"
  BY <1>1, <1>2 DEF Height, Fractions
<1>3. CASE r.curve = "smooth"
  <2> DEFINE d == 300 * (PaddleFull * PaddleFull)
  <2>1. d \in Int /\ d > 0
    <3>1. PaddleFull * PaddleFull > 0 /\ PaddleFull * PaddleFull \in Int
      BY <1>1, PositiveProduct
    <3> QED
      BY <3>1
  <2>2. Height(r, x) = <<Bent(r.strength, x), d>> /\ Bent(r.strength, x) \in Int
    BY <1>1, <1>3 DEF Height, Smooth, Bent
  <2> HIDE DEF d
  <2> QED
    BY <2>1, <2>2 DEF Fractions
<1>4. CASE r.curve = "piecewise"
  <2>1. Height(r, x) = Piecewise(r, x)
    BY <1>4 DEF Height
  <2> QED
    BY <2>1, PieceTyped
<1>5. CASE r.curve \in {"log", "exp", "power"}
  <2>1. Height(r, x) = <<Shapes[r.curve][x], 1>> /\ Shapes[r.curve][x] \in 0 .. PaddleFull
    BY <1>5, ShapesAssumption DEF Height
  <2> QED
    BY <1>1, <2>1 DEF Fractions
<1> QED
  BY <1>1, <1>2, <1>3, <1>4, <1>5 DEF Curves

\* No curve falls once it is clamped to the travel.
LEMMA HeightRises ==
  ASSUME NEW r \in PaddleResponses, ResponseValid(r), NEW x \in 0 .. PaddleFull - 1
  PROVE  Leq(ClampTravel(Height(r, x)), ClampTravel(Height(r, x + 1)))
<1>1. /\ r.curve \in Curves /\ PaddleFull \in Nat \ {0} /\ r.strength \in Nat
      /\ x \in 0 .. PaddleFull /\ x + 1 \in 0 .. PaddleFull
  BY CalibrationAssumption DEF ResponseValid, PaddleResponses
<1>2. Height(r, x) \in Fractions /\ Height(r, x + 1) \in Fractions
  BY <1>1, HeightTyped
<1>3. SUFFICES ASSUME ~ Leq(Height(r, x), Height(r, x + 1))
               PROVE  Leq(ClampTravel(Height(r, x)), ClampTravel(Height(r, x + 1)))
  BY <1>1, <1>2, ClampRises
<1>4. CASE r.curve = "linear"
  <2>1. Height(r, x) = <<x, 1>> /\ Height(r, x + 1) = <<x + 1, 1>>
    BY <1>4 DEF Height
  <2> QED
    BY <1>3, <2>1 DEF Leq
<1>5. CASE r.curve = "smooth"
  <2> DEFINE d == 300 * (PaddleFull * PaddleFull)
             a == Bent(r.strength, x)
             b == Bent(r.strength, x + 1)
             top == PaddleFull * d
  <2>1. /\ Height(r, x) = <<a, d>> /\ Height(r, x + 1) = <<b, d>>
        /\ a \in Int /\ b \in Int
    BY <1>1, <1>5 DEF Height, Smooth, Bent
  <2>2. d \in Int /\ d > 0 /\ top \in Int /\ top > 0
    <3>1. PaddleFull * PaddleFull > 0 /\ PaddleFull * PaddleFull \in Int
      BY <1>1, PositiveProduct
    <3>2. d \in Int /\ d > 0
      BY <3>1
    <3> HIDE DEF d
    <3> QED
      BY <1>1, <3>2, PositiveProduct
  <2>3. a > 0 /\ b < top => a <= b
    BY <1>1, SmoothRises
  <2>4. a <= b => a * d <= b * d
    <3> HIDE DEF a, b, d
    <3> QED
      BY <2>1, <2>2, Scale
  <2>5. ~ (a * d <= b * d)
    BY <1>3, <2>1 DEF Leq
  <2>6. /\ ClampTravel(Height(r, x)) = <<Max({0, Min({a, top})}), d>>
        /\ ClampTravel(Height(r, x + 1)) = <<Max({0, Min({b, top})}), d>>
    <3>1. \A n, e : ClampTravel(<<n, e>>) = <<Max({0, Min({n, PaddleFull * e})}), e>>
      BY DEF ClampTravel
    <3> HIDE DEF a, b, d
    <3> QED
      BY <2>1, <3>1
  <2> HIDE DEF a, b, d, top
  <2>7. a <= 0 \/ b >= top
    BY <2>1, <2>2, <2>3, <2>4, <2>5
  <2>8. \A n \in Int : LET m == Max({0, Min({n, top})})
                       IN /\ m \in Int /\ 0 <= m /\ m <= top
                          /\ n <= 0 => m = 0
                          /\ n >= top => m = top
    BY <2>2, MaxOfTwo, MinOfTwo
  <2>9. /\ Max({0, Min({a, top})}) <= Max({0, Min({b, top})})
        /\ Max({0, Min({a, top})}) \in Int /\ Max({0, Min({b, top})}) \in Int
    BY <2>1, <2>7, <2>8
  <2>10. Max({0, Min({a, top})}) * d <= Max({0, Min({b, top})}) * d
    BY <2>2, <2>9, Scale
  <2> QED
    BY <2>6, <2>10 DEF Leq
<1>6. CASE r.curve = "piecewise"
  <2>1. Height(r, x) = Piecewise(r, x) /\ Height(r, x + 1) = Piecewise(r, x + 1)
    BY <1>6 DEF Height
  <2> QED
    BY <1>3, <2>1, PiecewiseRises
<1>7. CASE r.curve \in {"log", "exp", "power"}
  <2>1. /\ Height(r, x) = <<Shapes[r.curve][x], 1>>
        /\ Height(r, x + 1) = <<Shapes[r.curve][x + 1], 1>>
        /\ Shapes[r.curve][x] \in 0 .. PaddleFull /\ Shapes[r.curve][x + 1] \in 0 .. PaddleFull
    BY <1>1, <1>7, ShapesAssumption DEF Height
  <2>2. \A y \in 1 .. PaddleFull : Shapes[r.curve][y - 1] <= Shapes[r.curve][y]
    BY <1>7, ShapesAssumption
  <2>3. x + 1 \in 1 .. PaddleFull /\ x + 1 - 1 = x
    BY <1>1
  <2>4. Shapes[r.curve][x] <= Shapes[r.curve][x + 1]
    BY <2>2, <2>3
  <2> QED
    BY <1>3, <2>1, <2>4 DEF Leq
<1> QED
  BY <1>1, <1>4, <1>5, <1>6, <1>7 DEF Curves

\* A clamped height is in the travel.
LEMMA ClampStays ==
  ASSUME NEW h \in Fractions
  PROVE  LET k == ClampTravel(h)
         IN /\ k \in Fractions /\ k[2] = h[2]
            /\ 0 <= k[1] /\ k[1] <= PaddleFull * k[2]
            /\ h[1] = 0 => k[1] = 0
            /\ h[1] = PaddleFull * h[2] => k[1] = PaddleFull * k[2]
<1> DEFINE top == PaddleFull * h[2]
<1>1. h[1] \in Int /\ h[2] \in Int /\ h[2] > 0 /\ PaddleFull \in Int /\ PaddleFull > 0
  BY CalibrationAssumption DEF Fractions
<1>2. top \in Int /\ top > 0
  BY <1>1, PositiveProduct
<1>3. ClampTravel(h) = <<Max({0, Min({h[1], top})}), h[2]>>
  BY DEF ClampTravel
<1> HIDE DEF top
<1>4. LET m == Max({0, Min({h[1], top})})
      IN /\ m \in Int /\ 0 <= m /\ m <= top
         /\ h[1] = 0 => m = 0
         /\ h[1] = top => m = top
  BY <1>1, <1>2, MaxOfTwo, MinOfTwo
<1> QED
  BY <1>1, <1>3, <1>4 DEF Fractions, top

\* The ends of every curve: no height at rest, and the whole travel at a full pull, but
\* for a zone that ends short.
LEMMA HeightEnds ==
  ASSUME NEW r \in PaddleResponses, ResponseValid(r)
  PROVE  /\ Height(r, 0)[1] = 0
         /\ ~EndsShort(r) => Height(r, PaddleFull)[1] = PaddleFull * Height(r, PaddleFull)[2]
<1> DEFINE F == PaddleFull
<1>1. /\ r.curve \in Curves /\ F \in Nat \ {0} /\ r.strength \in Nat
      /\ 0 \in 0 .. F /\ F \in 0 .. F
  BY CalibrationAssumption DEF ResponseValid, PaddleResponses
<1>2. CASE r.curve = "linear"
  BY <1>1, <1>2 DEF Height
<1>3. CASE r.curve = "smooth"
  <2>1. \A x : Height(r, x) = Smooth(r.strength, x)
    BY <1>3 DEF Height
  <2>2. Smooth(r.strength, 0)[1] = 0
    BY <1>1 DEF Smooth
  <2>3. Smooth(r.strength, F)[1] = F * Smooth(r.strength, F)[2]
    BY <1>1 DEF Smooth
  <2> QED
    BY <2>1, <2>2, <2>3
<1>4. CASE r.curve = "piecewise"
  <2> DEFINE xS == r.paddleStart  xE == r.paddleEnd  wS == WidthS(r)  wE == WidthE(r)
             yS == r.clutchStart  yE == r.clutchEnd
  <2>1. /\ xS \in Nat /\ xE \in Nat /\ wS \in Nat /\ wE \in Nat /\ xS < xE /\ xE <= F
        /\ wS <= xS /\ 2 * wS <= xE - xS /\ 2 * wE <= xE - xS /\ wE <= F - xE
        /\ yS \in Nat /\ yE \in Nat /\ yS <= yE /\ yE <= F
    BY Zones
  <2>2. \A x : Height(r, x) = Piecewise(r, x)
    BY <1>4 DEF Height
  <2>3. Piecewise(r, 0)[1] = 0
    <3>1. Piecewise(r, 0) = Below(r, 0)
      BY <1>1, <2>1, PieceAt
    <3>2. Below(r, 0) = OnLine(0, 0, xS, 0, yS)
      BY DEF Below
    <3>3. 0 * (xS - 0) + (0 - 0) * (yS - 0) = 0
      BY <2>1
    <3> QED
      BY <3>1, <3>2, <3>3 DEF OnLine
  <2>4. ASSUME xE < F PROVE Piecewise(r, F)[1] = F * Piecewise(r, F)[2]
    <3>1. Piecewise(r, F) = Above(r, F)
      BY <1>1, <2>1, <2>4, PieceAt
    <3>2. Above(r, F) = OnLine(F, xE, F, yE, F)
      BY DEF Above
    <3>3. yE * (F - xE) + (F - xE) * (F - yE) = F * (F - xE) /\ xE # F
      BY <1>1, <2>1, <2>4
    <3> QED
      BY <1>1, <2>1, <3>1, <3>2, <3>3 DEF OnLine
  <2>5. ASSUME xE = F, yE = F PROVE Piecewise(r, F)[1] = F * Piecewise(r, F)[2]
    <3>1. Piecewise(r, F) = Within(r, F)
      BY <1>1, <2>1, <2>5, PieceAt
    <3>2. Within(r, F) = OnLine(F, xS, F, yS, F)
      BY <2>5 DEF Within
    <3>3. yS * (F - xS) + (F - xS) * (F - yS) = F * (F - xS) /\ xS # F
      BY <1>1, <2>1, <2>5
    <3> QED
      BY <1>1, <2>1, <3>1, <3>2, <3>3 DEF OnLine
  <2>6. ~EndsShort(r) => xE < F \/ (xE = F /\ yE = F)
    BY <1>1, <1>4, <2>1 DEF EndsShort
  <2> QED
    BY <2>2, <2>3, <2>4, <2>5, <2>6
<1>5. CASE r.curve \in {"log", "exp", "power"}
  <2>1. /\ \A x : Height(r, x) = <<Shapes[r.curve][x], 1>>
        /\ Shapes[r.curve][0] = 0 /\ Shapes[r.curve][F] = F
    BY <1>5, ShapesAssumption DEF Height
  <2> QED
    BY <1>1, <2>1
<1> QED
  BY <1>1, <1>2, <1>3, <1>4, <1>5 DEF Curves

----------------------------------------------------------------------------
(* Counts.                                                                 *)

\* What _validate makes sure of, of a travel.
LEMMA Travels ==
  ASSUME NEW c \in ClutchCals, Valid(c)
  PROVE  /\ c.engaged \in Nat /\ c.disengaged \in Nat /\ c.trigger \in Nat /\ c.bite \in Nat
         /\ c.engaged # c.disengaged
         /\ InTravel(c, c.trigger) /\ InTravel(c, c.bite) /\ PastToward(c, c.trigger, c.bite)
         /\ c.response \in PaddleResponses /\ ResponseValid(c.response)
BY DEF ClutchCals, Valid, TravelValid

\* A higher clamped height is a count further on the way toward disengaged.
LEMMA CountsFollow ==
  ASSUME NEW c \in ClutchCals, Valid(c), NEW h \in Fractions, NEW k \in Fractions, Leq(h, k)
  PROVE  PastToward(c, Counts(c, k), Counts(c, h))
<1> DEFINE F == PaddleFull  e == c.engaged  D == c.disengaged - c.engaged
           n == h[1]  d == h[2]  m == k[1]  f == k[2]
           a == 2 * (e * (F * d) + D * n) + F * d
           b == 2 * (F * d)
           p == 2 * (e * (F * f) + D * m) + F * f
           q == 2 * (F * f)
<1>1. /\ F \in Int /\ F > 0 /\ e \in Int /\ D \in Int /\ n \in Int /\ d \in Int /\ d > 0
      /\ m \in Int /\ f \in Int /\ f > 0 /\ n * f <= m * d
  BY Travels, CalibrationAssumption DEF Fractions, Leq
<1>2. Counts(c, h) = a \div b /\ Counts(c, k) = p \div q
  BY DEF Counts
<1> HIDE DEF F, e, n, d, m, f
<1>3. F * d \in Int /\ F * d > 0 /\ F * f \in Int /\ F * f > 0
  BY <1>1, PositiveProduct
<1>4. a \in Int /\ b \in Int /\ b > 0 /\ p \in Int /\ q \in Int /\ q > 0
  BY <1>1, <1>3
<1>5. p * b - a * q = (4 * F) * ((D * m) * d - (D * n) * f)
  BY <1>1
<1>6. 4 * F \in Int /\ 4 * F > 0
  BY <1>1
<1>7. ASSUME D >= 0 PROVE a * q <= p * b
  <2>1. (n * f) * D <= (m * d) * D
    BY <1>1, <1>7, Scale
  <2>2. (D * m) * d - (D * n) * f >= 0
    BY <1>1, <2>1
  <2> DEFINE u == (D * m) * d - (D * n) * f  v == 4 * F
  <2>3. u \in Int
    BY <1>1
  <2>4. v * u >= 0
    <3> HIDE DEF u, v
    <3> QED
      BY <1>6, <2>2, <2>3, Product DEF u, v
  <2>5. p * b \in Int /\ a * q \in Int
    BY <1>4
  <2> QED
    <3> DEFINE s == p * b  t == a * q
    <3> HIDE DEF u, v, s, t
    <3>1. s - t = v * u /\ v * u >= 0 /\ s \in Int /\ t \in Int
      BY <1>5, <2>4, <2>5 DEF s, t, u, v
    <3>2. t <= s
      BY <3>1
    <3> QED
      BY <3>2 DEF s, t
<1>8. ASSUME D <= 0 PROVE p * b <= a * q
  <2>1. (n * f) * (0 - D) <= (m * d) * (0 - D)
    BY <1>1, <1>8, Scale
  <2>2. (D * n) * f - (D * m) * d >= 0
    BY <1>1, <2>1
  <2> DEFINE u == (D * n) * f - (D * m) * d  v == 4 * F
  <2>3. u \in Int /\ a * q - p * b = v * u
    BY <1>1
  <2>4. v * u >= 0
    <3> HIDE DEF u, v
    <3> QED
      BY <1>6, <2>2, <2>3, Product DEF u, v
  <2>5. p * b \in Int /\ a * q \in Int
    BY <1>4
  <2> QED
    <3> DEFINE s == p * b  t == a * q
    <3> HIDE DEF u, v, s, t
    <3>1. t - s = v * u /\ v * u >= 0 /\ s \in Int /\ t \in Int
      BY <2>3, <2>4, <2>5 DEF s, t, u, v
    <3>2. s <= t
      BY <3>1
    <3> QED
      BY <3>2 DEF s, t
<1> HIDE DEF a, b, p, q
<1>9. /\ D >= 0 => a \div b <= p \div q
      /\ D <= 0 => p \div q <= a \div b
      /\ a \div b \in Int /\ p \div q \in Int
  BY <1>4, <1>7, <1>8, DivRises, DivBounds
<1>10. Rises(c) <=> D >= 0
  BY Travels DEF Rises
<1> DEFINE low == Counts(c, h)  high == Counts(c, k)
<1>11. low \in Int /\ high \in Int /\ (D >= 0 => low <= high) /\ (D <= 0 => high <= low)
  BY <1>2, <1>9
<1>12. c.engaged \in Int
  BY Travels
<1> HIDE DEF D, low, high
<1>13. D \in Int
  BY <1>1
<1> QED
  BY <1>10, <1>11, <1>12, <1>13 DEF PastToward, Outward, low, high

\* The count at either end of the travel, and between them.
LEMMA CountsEnds ==
  ASSUME NEW c \in ClutchCals, Valid(c), NEW h \in Fractions
  PROVE  /\ h[1] = 0 => Counts(c, h) = c.engaged
         /\ h[1] = PaddleFull * h[2] => Counts(c, h) = c.disengaged
         /\ 0 <= h[1] /\ h[1] <= PaddleFull * h[2] => InTravel(c, Counts(c, h))
<1> DEFINE d == h[2]  u == PaddleFull * d  e == c.engaged  o == c.disengaged
<1>1. /\ h[1] \in Int /\ d \in Int /\ d > 0 /\ e \in Int /\ o \in Int /\ e # o
      /\ PaddleFull \in Int /\ PaddleFull > 0
  BY Travels, CalibrationAssumption DEF Fractions
<1>2. u \in Int /\ u > 0
  BY <1>1, PositiveProduct
<1>3. Counts(c, h) = (2 * (e * u + (o - e) * h[1]) + u) \div (2 * u)
  BY DEF Counts
<1> HIDE DEF u
<1>4. \A n \in Int : (2 * (n * u) + u) \div (2 * u) = n
  <2> TAKE n \in Int
  <2> DEFINE a == 2 * (n * u) + u  b == 2 * u  z == a \div b
  <2>1. a \in Int /\ b \in Int /\ b > 0
    BY <1>2
  <2>2. z \in Int /\ b * z <= a /\ a < b * z + b
    <3> HIDE DEF a, b
    <3> QED
      BY <2>1, DivBounds DEF z
  <2> HIDE DEF z
  <2>3. (2 * z) * u <= (2 * n + 1) * u /\ (2 * n + 1) * u <= (2 * z + 2) * u
    BY <1>2, <2>2
  <2>4. 2 * z <= 2 * n + 1 /\ 2 * n + 1 <= 2 * z + 2
    BY <1>2, <2>2, <2>3, Unscale
  <2>5. z = n
    BY <2>2, <2>4
  <2> QED
    BY <2>5 DEF z
<1>5. h[1] = 0 => Counts(c, h) = e
  <2>1. h[1] = 0 => e * u + (o - e) * h[1] = e * u
    BY <1>1, <1>2
  <2> QED
    BY <1>1, <1>3, <1>4, <2>1
<1>6. h[1] = u => Counts(c, h) = o
  <2>1. h[1] = u => e * u + (o - e) * h[1] = o * u
    BY <1>1, <1>2
  <2> QED
    BY <1>1, <1>3, <1>4, <2>1
<1>7. ASSUME 0 <= h[1], h[1] <= u PROVE InTravel(c, Counts(c, h))
  <2> DEFINE rest == <<0, d>>  full == <<u, d>>
  <2>1. rest \in Fractions /\ full \in Fractions
    BY <1>1, <1>2 DEF Fractions
  <2>2. Leq(rest, h)
    BY <1>1, <1>7, Scale DEF Leq
  <2>3. Leq(h, full)
    BY <1>1, <1>2, <1>7, Scale DEF Leq
  <2>4. Counts(c, rest) = e
    <3>1. Counts(c, rest) = (2 * (e * u + (o - e) * 0) + u) \div (2 * u)
      BY DEF Counts, u
    <3>2. e * u + (o - e) * 0 = e * u
      BY <1>1, <1>2
    <3> QED
      BY <1>1, <1>4, <3>1, <3>2
  <2>5. Counts(c, full) = o
    <3>1. Counts(c, full) = (2 * (e * u + (o - e) * u) + u) \div (2 * u)
      BY DEF Counts, u
    <3>2. e * u + (o - e) * u = o * u
      BY <1>1, <1>2
    <3> QED
      BY <1>1, <1>4, <3>1, <3>2
  <2> HIDE DEF rest, full
  <2>6. /\ PastToward(c, Counts(c, h), e) /\ PastToward(c, o, Counts(c, h))
    BY <2>1, <2>2, <2>3, <2>4, <2>5, CountsFollow
  <2>7. Counts(c, h) \in Int
    <3>1. 2 * (e * u + (o - e) * h[1]) + u \in Int /\ 2 * u \in Int /\ 2 * u > 0
      BY <1>1, <1>2
    <3> QED
      BY <1>3, <3>1, DivBounds
  <2> QED
    BY <1>1, <2>6, <2>7 DEF PastToward, InTravel, Outward, Rises, Span, Size
<1> QED
  BY <1>5, <1>6, <1>7 DEF u

\* What the console may make of a calibration.
LEMMA Responded ==
  ASSUME NEW cal \in Cals, NEW c \in Responding(cal)
  PROVE  c \in ClutchCals /\ Valid(c)
<1>1. cal \in ClutchCals /\ Responses \subseteq PaddleResponses
  BY CalPaddleAssumption
<1>2. PICK r \in Responses \cup {cal.response} : c = [cal EXCEPT !.response = r]
  BY DEF Responding
<1>3. r \in PaddleResponses
  BY <1>1, <1>2 DEF ClutchCals
<1> QED
  BY <1>1, <1>2, <1>3 DEF ClutchCals, Responding

\* Both maps: the curve's and the straight one of manual mode.
LEMMA Targets ==
  ASSUME NEW c \in ClutchCals, Valid(c), NEW x \in 0 .. PaddleFull
  PROVE  LET h == ClampTravel(Height(c.response, x))
             k == ClampTravel(<<x, 1>>)
         IN /\ h \in Fractions /\ k \in Fractions
            /\ 0 <= h[1] /\ h[1] <= PaddleFull * h[2]
            /\ 0 <= k[1] /\ k[1] <= PaddleFull * k[2]
            /\ ToCounts(c, x) = Counts(c, h) /\ ToCountsDirect(c, x) = Counts(c, k)
<1>1. Height(c.response, x) \in Fractions
  BY Travels, HeightTyped
<1>2. <<x, 1>> \in Fractions
  BY DEF Fractions
<1> QED
  BY <1>1, <1>2, ClampStays DEF ToCounts, ToCountsDirect

LEMMA CurvesFollow ==
  ASSUME NEW c \in ClutchCals, Valid(c)
  PROVE  TargetsFollow(c)
<1> SUFFICES ASSUME NEW x \in Positions \ {PaddleFull}
             PROVE  /\ PastToward(c, ToCounts(c, x + 1), ToCounts(c, x))
                    /\ PastToward(c, ToCountsDirect(c, x + 1), ToCountsDirect(c, x))
  BY DEF TargetsFollow
<1>1. /\ PaddleFull \in Nat \ {0} /\ x \in 0 .. PaddleFull - 1
      /\ x \in 0 .. PaddleFull /\ x + 1 \in 0 .. PaddleFull
  BY CalibrationAssumption DEF Positions
<1>2. c.response \in PaddleResponses /\ ResponseValid(c.response)
  BY Travels
<1> DEFINE h == ClampTravel(Height(c.response, x))
           i == ClampTravel(Height(c.response, x + 1))
           k == ClampTravel(<<x, 1>>)
           l == ClampTravel(<<x + 1, 1>>)
<1>3. /\ h \in Fractions /\ i \in Fractions /\ k \in Fractions /\ l \in Fractions
      /\ ToCounts(c, x) = Counts(c, h) /\ ToCounts(c, x + 1) = Counts(c, i)
      /\ ToCountsDirect(c, x) = Counts(c, k) /\ ToCountsDirect(c, x + 1) = Counts(c, l)
  BY <1>1, Targets
<1>4. Leq(h, i)
  BY <1>1, <1>2, HeightRises
<1>5. Leq(k, l)
  <2>1. /\ <<x, 1>> \in Fractions /\ <<x + 1, 1>> \in Fractions
        /\ Leq(<<x, 1>>, <<x + 1, 1>>)
    BY <1>1 DEF Fractions, Leq
  <2> QED
    BY <1>1, <2>1, ClampRises
<1> HIDE DEF h, i, k, l
<1> QED
  BY <1>3, <1>4, <1>5, CountsFollow

LEMMA CurvesStart ==
  ASSUME NEW c \in ClutchCals, Valid(c)
  PROVE  ToCounts(c, 0) = Release(c) /\ ToCountsDirect(c, 0) = Release(c)
<1>1. 0 \in 0 .. PaddleFull
  BY CalibrationAssumption
<1>2. Release(c) = c.engaged
  BY Travels DEF Release, CommandCounts, InTravel, Outward, Span, Size, Rises
<1>3. Height(c.response, 0) \in Fractions /\ Height(c.response, 0)[1] = 0
  BY <1>1, Travels, HeightTyped, HeightEnds
<1>4. <<0, 1>> \in Fractions /\ <<0, 1>>[1] = 0
  BY DEF Fractions
<1> QED
  BY <1>2, <1>3, <1>4, ClampStays, CountsEnds DEF ToCounts, ToCountsDirect

\* The travel's own predicates and commands.
LEMMA CommandsReach ==
  ASSUME NEW c \in ClutchCals, Valid(c)
  PROVE  /\ ClutchDisengaged(c, c.disengaged) /\ ClutchDisengaged(c, CommandPull(c))
         /\ ClutchAtBite(c, CommandBite(c)) /\ ClutchAtBite(c, Release(c))
<1>1. /\ c.engaged \in Int /\ c.disengaged \in Int /\ c.trigger \in Int /\ c.bite \in Int
      /\ InTravel(c, c.trigger) /\ InTravel(c, c.bite)
  BY Travels
<1>2. Span(c) \in Nat /\ Span(c) \div 100 \in Nat
  BY <1>1 DEF Span, Size
<1>3. Outward(c, c.disengaged) = Span(c) /\ Outward(c, c.engaged) = 0
  BY <1>1 DEF Outward, Span, Size, Rises
<1>4. InTravel(c, c.disengaged) /\ InTravel(c, c.engaged)
  BY <1>2, <1>3 DEF InTravel
<1>5. /\ CommandPull(c) = c.disengaged /\ CommandBite(c) = c.bite /\ Release(c) = c.engaged
  BY <1>1, <1>4 DEF CommandPull, CommandBite, Release, CommandCounts
<1>6. Outward(c, c.trigger) \in 0 .. Span(c) /\ Outward(c, c.bite) \in 0 .. Span(c)
  BY <1>1 DEF InTravel
<1> QED
  BY <1>2, <1>3, <1>5, <1>6 DEF ClutchDisengaged, ClutchAtBite, PastToward

LEMMA CurvesReach ==
  ASSUME NEW c \in ClutchCals, Valid(c)
  PROVE  /\ \A x \in Positions : InTravel(c, ToCounts(c, x)) /\ InTravel(c, ToCountsDirect(c, x))
         /\ ClutchDisengaged(c, ToCountsDirect(c, PaddleFull))
         /\ ~EndsShort(c.response) => ClutchDisengaged(c, ToCounts(c, PaddleFull))
<1>1. \A x \in Positions : InTravel(c, ToCounts(c, x)) /\ InTravel(c, ToCountsDirect(c, x))
  BY Targets, CountsEnds DEF Positions
<1>2. PaddleFull \in 0 .. PaddleFull /\ PaddleFull \in Nat
  BY CalibrationAssumption
<1>3. /\ <<PaddleFull, 1>> \in Fractions
      /\ <<PaddleFull, 1>>[1] = PaddleFull * <<PaddleFull, 1>>[2]
  BY <1>2 DEF Fractions
<1>4. ToCountsDirect(c, PaddleFull) = c.disengaged
  BY <1>3, ClampStays, CountsEnds DEF ToCountsDirect
<1>5. ASSUME ~EndsShort(c.response) PROVE ToCounts(c, PaddleFull) = c.disengaged
  <2> DEFINE h == Height(c.response, PaddleFull)
  <2>1. h \in Fractions /\ h[1] = PaddleFull * h[2]
    BY <1>2, <1>5, Travels, HeightTyped, HeightEnds
  <2>2. ToCounts(c, PaddleFull) = Counts(c, ClampTravel(h))
    BY DEF ToCounts
  <2> HIDE DEF h
  <2> QED
    BY <2>1, <2>2, ClampStays, CountsEnds
<1> QED
  BY <1>1, <1>4, <1>5, CommandsReach

----------------------------------------------------------------------------
(* The halls.                                                              *)

\* What _validate makes sure of, of a paddle that is not switched off.
PaddleValid(paddle) ==
  /\ paddle \in Paddles
  /\ Off(paddle) \/ Size(paddle.pulled - paddle.idle) > 2 * Deadband

LEMMA PaddlesValid ==
  ASSUME NEW c \in ClutchCals, Valid(c)
  PROVE  PaddleValid(c.left) /\ PaddleValid(c.right)
BY DEF ClutchCals, Valid, HallsValid, PaddleValid

\* The position of a paddle in use whose reading is in range.
LEMMA Pulled ==
  ASSUME NEW paddle, PaddleValid(paddle), NEW raw \in Nat
  PROVE  /\ Along(raw, paddle) \in Int
         /\ Normalise(raw, paddle) \in Broken .. PaddleFull
         /\ ~OutOfRange(raw, paddle) => Normalise(raw, paddle) >= 0
         /\ OutOfRange(raw, paddle) /\ ~Off(paddle) => Normalise(raw, paddle) = Broken
         /\ Off(paddle) => Normalise(raw, paddle) = 0
         /\ Along(raw, paddle) <= Deadband => Normalise(raw, paddle) <= 0
         /\ raw = paddle.pulled /\ ~Off(paddle) => Normalise(raw, paddle) = PaddleFull
<1> DEFINE along == Along(raw, paddle)
           reach == Reach(paddle)
           past  == Max({0, along - Deadband})
           top   == past * PaddleFull
           unit  == reach - Deadband
<1>1. /\ paddle.idle \in Nat /\ paddle.pulled \in Nat /\ raw \in Int
      /\ Deadband \in Nat \ {0} /\ PaddleFull \in Nat \ {0}
  BY CalibrationAssumption DEF PaddleValid, Paddles
<1>2. along \in Int /\ reach \in Int
  BY <1>1 DEF Along, Reach, Size
<1>3. CASE Off(paddle)
  BY <1>1, <1>2, <1>3 DEF Normalise, Broken
<1>4. CASE ~Off(paddle)
  <2>1. reach > 2 * Deadband /\ unit \in Int /\ unit > 0
    BY <1>1, <1>2, <1>4 DEF PaddleValid, Reach
  <2>2. past \in Int /\ past >= 0 /\ (along <= Deadband => past = 0)
        /\ (along >= Deadband => past = along - Deadband)
    BY <1>1, <1>2, MaxOfTwo
  <2>3. Normalise(raw, paddle) = IF OutOfRange(raw, paddle) THEN Broken
                                 ELSE Min({PaddleFull, top \div unit})
    BY <1>4 DEF Normalise
  <2> HIDE DEF along, reach, past, unit
  <2>4. top \in Int /\ top >= 0
    BY <1>1, <2>2, Product
  <2>5. top \div unit \in Int /\ 0 <= top \div unit
    <3>1. 0 * unit <= top * 1 /\ 1 > 0 /\ 1 \in Int /\ 0 \in Int
      BY <2>1, <2>4
    <3>2. 0 \div 1 <= top \div unit
      BY <2>1, <2>4, <3>1, DivRises
    <3> QED
      BY <2>1, <2>4, <3>2, DivBounds
  <2>6. past = 0 => top \div unit = 0
    <3>1. past = 0 => top * 1 <= 0 * unit
      BY <1>1, <2>1
    <3>2. past = 0 => top \div unit <= 0 \div 1
      BY <2>1, <2>4, <3>1, DivRises
    <3> QED
      BY <2>5, <3>2
  <2> DEFINE quotient == top \div unit
             at == Min({PaddleFull, quotient})
  <2>7. quotient \in Int /\ 0 <= quotient /\ (past = 0 => quotient = 0)
    BY <2>5, <2>6
  <2>8. at = IF PaddleFull <= quotient THEN PaddleFull ELSE quotient
    <3> HIDE DEF quotient
    <3> QED
      BY <1>1, <2>7, MinOfTwo
  <2>9. raw = paddle.pulled => ~OutOfRange(raw, paddle) /\ quotient = PaddleFull
    <3>1. raw = paddle.pulled => along = reach
      BY <1>1 DEF Along, Reach, Size, along, reach
    <3>2. OutOfRange(raw, paddle) <=> along \notin -(reach \div 10) .. reach + reach \div 10
      BY DEF OutOfRange, along, reach
    <3>3. reach \div 10 \in Nat
      BY <1>1, <1>2, <2>1
    <3>4. along = reach => past = unit
      BY <1>1, <1>2, <2>1, <2>2 DEF unit
    <3>5. past = unit => quotient = PaddleFull
      <4>1. ASSUME past = unit PROVE quotient = PaddleFull
        <5>1. top = unit * PaddleFull
          BY <1>1, <2>1, <4>1
        <5>2. unit * quotient <= top /\ top < unit * quotient + unit
          BY <2>1, <2>4, DivBounds
        <5> HIDE DEF top, quotient
        <5>3. quotient * unit <= PaddleFull * unit /\ PaddleFull * unit <= (quotient + 1) * unit
          BY <1>1, <2>1, <2>7, <5>1, <5>2
        <5>4. quotient <= PaddleFull
          BY <1>1, <2>1, <2>7, <5>3, Unscale
        <5>5. quotient # PaddleFull - 1 /\ PaddleFull <= quotient + 1
          <6>1. PaddleFull <= quotient + 1
            BY <1>1, <2>1, <2>7, <5>3, Unscale
          <6>2. quotient = PaddleFull - 1 => unit * quotient + unit = unit * PaddleFull
            BY <1>1, <2>1
          <6> QED
            BY <1>1, <2>1, <5>1, <5>2, <6>1, <6>2
        <5> QED
          BY <1>1, <2>7, <5>4, <5>5
      <4> QED
        BY <4>1
    <3> QED
      BY <1>2, <2>1, <3>1, <3>2, <3>3, <3>4, <3>5
  <2> HIDE DEF top, quotient, at
  <2>10. Normalise(raw, paddle) = IF OutOfRange(raw, paddle) THEN Broken ELSE at
    BY <2>3 DEF at, quotient
  <2>11. along <= Deadband => at = 0
    BY <1>1, <2>2, <2>7, <2>8
  <2>12. at \in 0 .. PaddleFull /\ (quotient = PaddleFull => at = PaddleFull)
    BY <1>1, <2>7, <2>8
  <2>13. Along(raw, paddle) = along
    BY DEF along
  <2> QED
    BY <1>1, <1>2, <1>4, <2>9, <2>10, <2>11, <2>12, <2>13 DEF Broken
<1> QED
  BY <1>3, <1>4

\* Pulling a paddle further does not make its position fall.
LEMMA NormaliseRises ==
  ASSUME NEW paddle, PaddleValid(paddle), NEW raw \in Nat, NEW further \in Nat,
         Along(raw, paddle) <= Along(further, paddle), ~OutOfRange(further, paddle)
  PROVE  Normalise(raw, paddle) <= Normalise(further, paddle)
<1>1. /\ Normalise(raw, paddle) \in Int /\ Normalise(further, paddle) \in Int
      /\ Along(raw, paddle) \in Int /\ Along(further, paddle) \in Int
      /\ Normalise(further, paddle) >= 0 /\ PaddleFull \in Int /\ Deadband \in Nat
      /\ PaddleFull > 0
  BY Pulled, CalibrationAssumption DEF Broken
<1>2. CASE Off(paddle)
  BY <1>1, <1>2, Pulled
<1>3. CASE ~Off(paddle) /\ OutOfRange(raw, paddle)
  BY <1>1, <1>3, Pulled DEF Broken
<1>4. CASE ~Off(paddle) /\ ~OutOfRange(raw, paddle)
  <2> DEFINE unit == Reach(paddle) - Deadband
             a == Max({0, Along(raw, paddle) - Deadband})
             b == Max({0, Along(further, paddle) - Deadband})
             p == (a * PaddleFull) \div unit
             q == (b * PaddleFull) \div unit
  <2>1. /\ Normalise(raw, paddle) = Min({PaddleFull, p})
        /\ Normalise(further, paddle) = Min({PaddleFull, q})
    BY <1>4 DEF Normalise
  <2>2. unit \in Int /\ unit > 0
    <3>1. Reach(paddle) > 2 * Deadband /\ Reach(paddle) \in Int
      BY <1>4 DEF PaddleValid, Reach, Size, Paddles
    <3> QED
      BY <1>1, <3>1
  <2>3. a \in Int /\ b \in Int /\ a <= b
    BY <1>1, MaxOfTwo
  <2> HIDE DEF a, b, unit
  <2>4. a * PaddleFull <= b * PaddleFull
    BY <1>1, <2>3, Scale
  <2>5. a * PaddleFull \in Int /\ b * PaddleFull \in Int
    BY <1>1, <2>3
  <2> DEFINE s == a * PaddleFull  t == b * PaddleFull
  <2>6. p <= q /\ p \in Int /\ q \in Int
    <3>1. s \in Int /\ t \in Int /\ s <= t
      BY <2>4, <2>5
    <3> HIDE DEF s, t
    <3>2. s * unit <= t * unit
      BY <2>2, <3>1, Scale
    <3>3. s \div unit <= t \div unit /\ s \div unit \in Int /\ t \div unit \in Int
      BY <2>2, <3>1, <3>2, DivRises, DivBounds
    <3> QED
      BY <3>3 DEF s, t
  <2> HIDE DEF p, q
  <2> QED
    BY <1>1, <2>1, <2>6, MinOfTwo
<1> QED
  BY <1>2, <1>3, <1>4

\* The further-pulled paddle wins.
LEMMA HallsTogether ==
  ASSUME NEW c \in ClutchCals, Valid(c), NEW left \in Nat, NEW right \in Nat
  PROVE  /\ FromHalls(c, left, right) \in {0, Normalise(left, c.left), Normalise(right, c.right)}
         /\ FromHalls(c, left, right) \in 0 .. PaddleFull
         /\ FromHalls(c, left, right) >= Normalise(left, c.left)
         /\ FromHalls(c, left, right) >= Normalise(right, c.right)
         /\ Normalise(left, c.left) \in Int /\ Normalise(right, c.right) \in Int
<1> DEFINE l == Normalise(left, c.left)
           r == Normalise(right, c.right)
<1>1. /\ l \in Broken .. PaddleFull /\ r \in Broken .. PaddleFull
      /\ PaddleFull \in Nat
  BY PaddlesValid, Pulled, CalibrationAssumption
<1>2. FromHalls(c, left, right) = Max({0, l, r})
  BY DEF FromHalls
<1> HIDE DEF l, r
<1>3. l \in Int /\ r \in Int
  BY <1>1 DEF Broken
<1>4. /\ Max({0, l, r}) \in {0, l, r}
      /\ Max({0, l, r}) >= 0 /\ Max({0, l, r}) >= l /\ Max({0, l, r}) >= r
  BY <1>3, MaxOfThree, Zenon
<1>5. Max({0, l, r}) \in 0 .. PaddleFull
  BY <1>1, <1>4 DEF Broken
<1> QED
  BY <1>2, <1>3, <1>4, <1>5, Zenon DEF l, r

LEMMA PositionsFollow == ASSUME NEW cal \in Cals PROVE HallsFollow(cal)
<1>1. cal \in ClutchCals /\ Valid(cal) /\ Readings \subseteq Nat
  BY CalPaddleAssumption
<1>2. PaddleValid(cal.left) /\ PaddleValid(cal.right)
  BY <1>1, PaddlesValid
<1>3. ASSUME NEW raw \in Readings, NEW further \in Readings, NEW other \in Readings
      PROVE  /\ Along(raw, cal.left) <= Along(further, cal.left) /\ ~OutOfRange(further, cal.left)
                  => FromHalls(cal, raw, other) <= FromHalls(cal, further, other)
             /\ Along(raw, cal.right) <= Along(further, cal.right) /\ ~OutOfRange(further, cal.right)
                  => FromHalls(cal, other, raw) <= FromHalls(cal, other, further)
  <2>1. raw \in Nat /\ further \in Nat /\ other \in Nat
    BY <1>1
  <2>2. /\ Along(raw, cal.left) <= Along(further, cal.left) /\ ~OutOfRange(further, cal.left)
             => Normalise(raw, cal.left) <= Normalise(further, cal.left)
        /\ Along(raw, cal.right) <= Along(further, cal.right) /\ ~OutOfRange(further, cal.right)
             => Normalise(raw, cal.right) <= Normalise(further, cal.right)
    BY <1>2, <2>1, NormaliseRises
  <2>3. \A left, right \in {raw, further, other} :
          /\ FromHalls(cal, left, right)
               \in {0, Normalise(left, cal.left), Normalise(right, cal.right)}
          /\ FromHalls(cal, left, right) \in 0 .. PaddleFull
          /\ FromHalls(cal, left, right) >= Normalise(left, cal.left)
          /\ FromHalls(cal, left, right) >= Normalise(right, cal.right)
          /\ Normalise(left, cal.left) \in Int /\ Normalise(right, cal.right) \in Int
    BY <1>1, <2>1, HallsTogether
  <2>4. Normalise(raw, cal.left) <= Normalise(further, cal.left) =>
          FromHalls(cal, raw, other) <= FromHalls(cal, further, other)
    BY <2>3
  <2>5. Normalise(raw, cal.right) <= Normalise(further, cal.right) =>
          FromHalls(cal, other, raw) <= FromHalls(cal, other, further)
    BY <2>3
  <2> QED
    BY <2>2, <2>4, <2>5
<1> QED
  BY <1>3 DEF HallsFollow

LEMMA IdlesDoNotPull == ASSUME NEW cal \in Cals PROVE IdleIsNoPull(cal)
<1>1. cal \in ClutchCals /\ Valid(cal) /\ Readings \subseteq Nat
  BY CalPaddleAssumption
<1>2. PaddleValid(cal.left) /\ PaddleValid(cal.right)
  BY <1>1, PaddlesValid
<1>3. ASSUME NEW paddle, PaddleValid(paddle), NEW raw \in Nat, Idle(raw, paddle)
      PROVE  Normalise(raw, paddle) <= 0
  BY <1>3, Pulled DEF Idle, Broken
<1>4. ASSUME NEW left \in Readings, NEW right \in Readings,
             Idle(left, cal.left), Idle(right, cal.right)
      PROVE  FromHalls(cal, left, right) = 0
  <2>1. left \in Nat /\ right \in Nat
    BY <1>1
  <2>2. Normalise(left, cal.left) <= 0 /\ Normalise(right, cal.right) <= 0
    BY <1>2, <1>3, <1>4, <2>1
  <2>3. /\ FromHalls(cal, left, right)
             \in {0, Normalise(left, cal.left), Normalise(right, cal.right)}
        /\ FromHalls(cal, left, right) \in 0 .. PaddleFull
    BY <1>1, <2>1, HallsTogether
  <2> QED
    BY <2>2, <2>3
<1> QED
  BY <1>4 DEF IdleIsNoPull

LEMMA PullsAreFull == ASSUME NEW cal \in Cals PROVE FullPull(cal)
<1>1. cal \in ClutchCals /\ Valid(cal) /\ Readings \subseteq Nat
  BY CalPaddleAssumption
<1>2. PaddleValid(cal.left) /\ PaddleValid(cal.right) /\ PaddleFull \in Nat
  BY <1>1, PaddlesValid, CalibrationAssumption
<1>3. ASSUME NEW left \in Readings, NEW right \in Readings,
             (~Off(cal.left) /\ left = cal.left.pulled) \/ (~Off(cal.right) /\ right = cal.right.pulled)
      PROVE  FromHalls(cal, left, right) = PaddleFull
  <2>1. left \in Nat /\ right \in Nat
    BY <1>1
  <2>2. \/ Normalise(left, cal.left) = PaddleFull
        \/ Normalise(right, cal.right) = PaddleFull
    BY <1>2, <1>3, <2>1, Pulled
  <2>3. /\ FromHalls(cal, left, right) \in 0 .. PaddleFull
        /\ FromHalls(cal, left, right) >= Normalise(left, cal.left)
        /\ FromHalls(cal, left, right) >= Normalise(right, cal.right)
    BY <1>1, <2>1, HallsTogether
  <2> QED
    BY <1>2, <2>2, <2>3
<1> QED
  BY <1>3 DEF FullPull

LEMMA AllFollow == Cals \subseteq NeverReversing
BY Responded, PositionsFollow, CurvesFollow DEF NeverReversing

LEMMA AllIdle == Cals \subseteq OnlyPulled
BY Responded, IdlesDoNotPull, CurvesStart DEF OnlyPulled

LEMMA AllReach == Cals \subseteq Reaching
BY Responded, PullsAreFull, CurvesReach, CommandsReach DEF Reaching

\* Pulling a paddle further never lets the clutch in: whatever the working copy has become
\* and whichever response the console sets, neither the halls' normalisation nor the curve,
\* its corners, the clamp, the rounding or falling counts reverse it.
THEOREM PullNeverReverses == Safety => []PaddleNeverReverses
<1>1. StoreInv => PaddleNeverReverses
  BY AllFollow DEF StoreInv, TypeOK, PaddleNeverReverses
<1> QED
  BY <1>1, InitInv, NextInv, PTL DEF Safety

\* Noise at rest, a broken sensor or one switched off leave the clutch engaged, in auto and
\* in manual mode.
THEOREM NoisePullsNothing == Safety => []OnlyPaddlesPull
<1>1. StoreInv => OnlyPaddlesPull
  BY AllIdle DEF StoreInv, TypeOK, OnlyPaddlesPull
<1> QED
  BY <1>1, InitInv, NextInv, PTL DEF Safety

\* The commands and a full pull of either paddle take the clutch to where clutch_disengaged
\* and clutch_at_bite say yes, and no target leaves the travel.
THEOREM FullPullsDisengage == Safety => []PullsReachTheirEnds
<1>1. StoreInv => PullsReachTheirEnds
  BY AllReach DEF StoreInv, TypeOK, PullsReachTheirEnds
<1> QED
  BY <1>1, InitInv, NextInv, PTL DEF Safety
=============================================================================
