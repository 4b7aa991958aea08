---------------------------- MODULE ProgramStore ----------------------------
(***************************************************************************)
(* What the startup program promises: the flash holds no program or one    *)
(* that was in the queue as a whole when it was saved, and the next boot   *)
(* runs what the flash holds.                                              *)
(***************************************************************************)
CONSTANTS Programs, None

VARIABLES
  stored,   \* the program in flash, or None
  commands, \* the program in the queue
  ran       \* the program the last boot ran

storeVars == <<stored, commands, ran>>

StoreInit ==
  /\ stored = None
  /\ commands = <<>>
  /\ ran = None

ChangeQueue ==
  /\ commands' \in Programs
  /\ UNCHANGED <<stored, ran>>

Forget ==
  /\ stored' = None
  /\ UNCHANGED <<commands, ran>>

Publish ==
  /\ stored = None
  /\ stored' = commands
  /\ UNCHANGED <<commands, ran>>

(* The queue is lost; the program in flash survives, unless it was being   *)
(* erased.                                                                 *)
Lose ==
  /\ commands' = <<>>
  /\ stored' \in {stored, None}
  /\ UNCHANGED ran

Run ==
  /\ ran' \in {stored, None}
  /\ UNCHANGED <<stored, commands>>

StoreNext == ChangeQueue \/ Forget \/ Publish \/ Lose \/ Run

StoreSpec == StoreInit /\ [][StoreNext]_storeVars
=============================================================================
