------------------------------ MODULE CalStore ------------------------------
(***************************************************************************)
(* The calibration: the working copy of clutch.cpp, its one flash sector   *)
(* (cal_store.cpp) and the console's save, deferred while the engine runs  *)
(* (serial_cli.cpp).  A write stalls the whole node, so that only a reset  *)
(* comes between its steps; each step may fail, or claim to have worked.   *)
(* A calibration is a value, valid as every edit leaves it; a flash word   *)
(* of the sector holds that calibration's part, nothing, or anything else. *)
(* The sector's first word also holds the header.                          *)
(***************************************************************************)
EXTENDS Naturals

CONSTANTS
  Cals,         \* the calibrations _validate accepts
  Defaults,     \* clutch_cal_defaults
  Words,        \* flash words of a sealed blob
  None,         \* no calibration
  Erased, Wrong \* what a flash word holds that is part of no calibration

ASSUME CalAssumption ==
  /\ Defaults \in Cals
  /\ {None, Erased, Wrong} \cap Cals = {}
  /\ Words \in Nat \ {0}

VARIABLES
  ram,            \* _cal
  sector,         \* the flash sector: header, and the payload of each word
  pc, word,       \* where cal_store_write is, and the word it programs
  savePending,    \* _savePending
  engineRunning,  \* StatusInfo.engineRunning, from the engine's speed
  reported        \* history: what was last reported saved, None once a write begins

console == <<savePending, engineRunning>>
vars    == <<ram, sector, pc, word, console, reported>>

Headers   == {"erased", "right", "wrong"}
Whole(x)  == [w \in 1 .. Words |-> x]
Blank     == [header |-> "erased", words |-> Whole(Erased)]
Ruined    == [header |-> "wrong", words |-> Whole(Wrong)]
Holding(cal) == [header |-> "right", words |-> Whole(cal)]

\* cal_store_read wants the header, _sealed_ok the whole of one blob.
Loadable(s) == { cal \in Cals : s = Holding(cal) }

Stored == IF Loadable(sector) = {} THEN None ELSE CHOOSE cal \in Loadable(sector) : TRUE

\* clutch_init: the factory values, then the flash if it holds a calibration.
Booted(s) == IF Loadable(s) = {} THEN {Defaults} ELSE Loadable(s)

Init ==
  /\ sector \in {Blank} \cup { Holding(cal) : cal \in Cals } /\ ram \in Booted(sector)
  /\ pc = "idle" /\ word = 1 /\ savePending = FALSE /\ reported = None
  /\ engineRunning \in BOOLEAN

----------------------------------------------------------------------------
(* The console.                                                            *)

\* clutch_cal_set and clutch_cal_capture: the whole result is valid, or nothing changes.
Edit ==
  /\ pc = "idle" /\ ram' \in Cals
  /\ UNCHANGED <<sector, pc, word, console, reported>>

CalDefaults ==
  /\ pc = "idle" /\ ram' = Defaults
  /\ UNCHANGED <<sector, pc, word, console, reported>>

CalLoad ==
  /\ pc = "idle" /\ ram' \in Loadable(sector)
  /\ UNCHANGED <<sector, pc, word, console, reported>>

\* _save_now up to cal_store_write: the copy to be saved is the one of now.
SaveNow ==
  /\ savePending' = FALSE /\ pc' = "erase" /\ reported' = None
  /\ UNCHANGED <<ram, sector, word, engineRunning>>

\* Mutant: the save is not deferred.
CalSaveAtOnce == pc = "idle" /\ SaveNow

CalSave ==
  /\ pc = "idle"
  /\ \/ ~engineRunning /\ SaveNow
     \/ /\ engineRunning /\ savePending' = TRUE
        /\ UNCHANGED <<ram, sector, pc, word, engineRunning, reported>>

\* Mutant: the deferred save waits for the engine to run.
SaveDeferredInverted == pc = "idle" /\ savePending /\ engineRunning /\ SaveNow

SaveDeferred == pc = "idle" /\ savePending /\ ~engineRunning /\ SaveNow

----------------------------------------------------------------------------
(* cal_store_write.                                                        *)

\* What an erase that did not end well leaves.
ErasedBadly(s) == {s, Blank, Ruined}

\* What programming the next word leaves, whatever it answers.
Programmed ==
  { [header |-> IF word = 1 THEN header ELSE sector.header,
     words  |-> [sector.words EXCEPT ![word] = value]] :
      header \in Headers, value \in {Erased, Wrong, ram} }

Erase ==
  /\ pc = "erase" /\ word' = 1
  /\ \/ sector' = Blank /\ pc' = "program"
     \/ sector' \in ErasedBadly(sector) /\ pc' = "idle"
  /\ UNCHANGED <<ram, console, reported>>

\* The first error ends the write.
Program ==
  /\ pc = "program" /\ sector' \in Programmed
  /\ \/ pc' = "idle" /\ word' = 1
     \/ word < Words /\ pc' = pc /\ word' = word + 1
     \/ word = Words /\ pc' = "verify" /\ word' = 1
  /\ UNCHANGED <<ram, console, reported>>

\* Mutant: success is claimed without the read-back.
VerifyUnread ==
  /\ pc = "verify" /\ pc' = "idle"
  /\ reported' = ram
  /\ UNCHANGED <<ram, sector, word, console>>

\* The payload is read back, the header is not.
Verify ==
  /\ pc = "verify" /\ pc' = "idle"
  /\ reported' = IF sector.words = Whole(ram) THEN ram ELSE None
  /\ UNCHANGED <<ram, sector, word, console>>

CalStoreWrite == Erase \/ Program \/ Verify

----------------------------------------------------------------------------
(* The world.                                                              *)

\* The power is cut, at any moment of a write too, and setup runs again.
Reset ==
  /\ sector' \in CASE pc = "erase"   -> ErasedBadly(sector)
                   [] pc = "program" -> Programmed
                   [] OTHER          -> {sector}
  /\ ram' \in Booted(sector')
  /\ pc' = "idle" /\ word' = 1 /\ savePending' = FALSE
  /\ UNCHANGED <<engineRunning, reported>>

Engine ==
  /\ engineRunning' = ~engineRunning
  /\ UNCHANGED <<ram, sector, pc, word, savePending, reported>>

Next == Edit \/ CalDefaults \/ CalLoad \/ CalSave \/ SaveDeferred \/ CalStoreWrite
          \/ Reset \/ Engine

Safety   == Init /\ [][Next]_vars

\* loop() runs for ever, and a write ends.
Fairness == WF_vars(SaveDeferred) /\ WF_vars(CalStoreWrite)
Spec     == Safety /\ Fairness

----------------------------------------------------------------------------
(* Properties.                                                             *)

\* The values of the variables.
TypeOK ==
  /\ ram \in Cals /\ reported \in Cals \cup {None}
  /\ sector \in [header : Headers, words : [1 .. Words -> Cals \cup {Erased, Wrong}]]
  /\ pc \in {"idle", "erase", "program", "verify"} /\ word \in 1 .. Words
  /\ savePending \in BOOLEAN /\ engineRunning \in BOOLEAN

\* A calibration reported as saved is in the flash, whole, through edits, loads, queued
\* saves and resets, until the next write begins.  (Its header may still be wrong.)
SavedIsThere == reported # None => sector.words = Whole(reported)

R == INSTANCE CalRegister WITH stored <- Stored, writing <- (pc # "idle")

\* However a write fails or is cut off, the next boot finds the working copy that was
\* being written, what was there before, or nothing - never a mixture - and no write
\* begins while the engine runs.
RefinesRegister == R!Spec

\* A queued save is written once the engine stays off, unless a reset forgets it.
QueuedSaveIsWritten ==
  <>[](~engineRunning) => (savePending ~> ~savePending)
=============================================================================
