---------------------------- MODULE CalRegister ----------------------------
(***************************************************************************)
(* What the calibration store promises (cal_store.h, README): one value    *)
(* beside the working copy.  It changes only in a write, which begins only *)
(* with the engine stopped, and only to the working copy or to nothing;    *)
(* a boot takes it over whole, or the factory values if there is none.     *)
(***************************************************************************)
CONSTANTS Cals, Defaults, None

VARIABLES ram, stored, writing, engineRunning

Boot(value) == IF value = None THEN Defaults ELSE value

Init ==
  /\ stored \in Cals \cup {None} /\ ram = Boot(stored)
  /\ writing = FALSE /\ engineRunning \in BOOLEAN

Edit ==
  /\ ~writing /\ ram' \in Cals
  /\ UNCHANGED <<stored, writing, engineRunning>>

Load ==
  /\ ~writing /\ stored # None /\ ram' = stored
  /\ UNCHANGED <<stored, writing, engineRunning>>

Begin ==
  /\ ~writing /\ ~engineRunning /\ writing' = TRUE
  /\ UNCHANGED <<ram, stored, engineRunning>>

Write ==
  /\ writing /\ writing' \in BOOLEAN
  /\ stored' \in {stored, None, ram}
  /\ UNCHANGED <<ram, engineRunning>>

Reset ==
  /\ stored' \in {stored} \cup (IF writing THEN {None, ram} ELSE {})
  /\ ram' = Boot(stored') /\ writing' = FALSE
  /\ UNCHANGED engineRunning

Engine == engineRunning' = ~engineRunning /\ UNCHANGED <<ram, stored, writing>>

Next == Edit \/ Load \/ Begin \/ Write \/ Reset \/ Engine

Spec == Init /\ [][Next]_<<ram, stored, writing, engineRunning>>
=============================================================================
