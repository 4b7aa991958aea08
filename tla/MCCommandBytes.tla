--------------------------- MODULE MCCommandBytes ---------------------------
(* Bounds for CommandBytes.  Payloads are scaled down to words: a register *)
(* and a wait command carry one, a pin and a parallel command two.  Their  *)
(* bytes range over values that look like headers.                         *)
EXTENDS CommandBytes

CONSTANTS PlainQueued, \* the plain command types the run queues
          Bytes        \* payload byte values

MCSizeof == [t \in 0 .. 8 |->
  CASE t \in {1, 4, 8} -> 1 [] t \in {2, 7} -> 2 [] OTHER -> 0]

MCPayload == [t \in 0 .. 8 |->
  IF t = 1 \/ t \in PlainQueued
  THEN [1 .. MCSizeof[t] -> Bytes]
  ELSE IF t = 6 THEN {<<>>} ELSE {}]
=============================================================================
