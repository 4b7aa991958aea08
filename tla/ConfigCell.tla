----------------------------- MODULE ConfigCell -----------------------------
(***************************************************************************)
(* What the stored configuration promises: the configuration in use is the *)
(* default or the whole result of a command.  A change is not atomic, but  *)
(* what is lost with the power is the configuration as a whole, and the    *)
(* default takes its place.                                                *)
(***************************************************************************)
CONSTANTS Default, None, Results(_)

VARIABLES
  view,    \* the configuration config_get() returns
  pending, \* the configuration being written, or None
  seen     \* the configuration the firmware got last

cellVars == <<view, pending, seen>>

CellInit ==
  /\ view = Default
  /\ pending = None
  /\ seen = None

(* A command changes the configuration, or the default is written anew.    *)
Request ==
  /\ pending = None
  /\ pending' \in Results(view) \cup {Default}
  /\ UNCHANGED <<view, seen>>

Drop ==
  /\ pending /= None
  /\ view' = Default
  /\ UNCHANGED <<pending, seen>>

Publish ==
  /\ view = Default
  /\ view' = pending
  /\ UNCHANGED <<pending, seen>>

(* The change is complete, and may be read at once.                        *)
Complete ==
  /\ pending = view
  /\ pending' = None
  /\ seen' \in {seen, view}
  /\ UNCHANGED view

Read ==
  /\ seen' = view
  /\ UNCHANGED <<view, pending>>

Lose ==
  /\ view' \in {view, Default}
  /\ pending' = None
  /\ UNCHANGED seen

CellNext == Request \/ Drop \/ Publish \/ Complete \/ Read \/ Lose

CellSpec == CellInit /\ [][CellNext]_cellVars
=============================================================================
