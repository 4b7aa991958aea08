--------------------------- MODULE MCStartupStore ---------------------------
(* Bounds for StartupStore.  5 is a command without payload, 1 one with a  *)
(* byte of payload, which may look erased (255).  The CRC word has two     *)
(* bytes, and the longest program leaves a byte of the sector unused.      *)
EXTENDS StartupStore, Bitwise

MCAnd(v, w) == v & w
MCPrograms == {<<>>, <<5>>, <<1, 6>>, <<1, 255>>, <<5, 1, 6>>}
=============================================================================
