---------------------------- MODULE MCConfigStore ----------------------------
(* Bounds for ConfigStore.  Addresses have two bytes.  Bytes may look      *)
(* erased (255), and a number may be larger than a byte (256 is stored     *)
(* as 0).  A malformed address has one number.  The CRC word has two bytes.*)
EXTENDS ConfigStore, Bitwise

MCAnd(v, w) == v & w
MCDefault == <<7, 1, 255, 0, 7, 2>>
MCAddresses == {<<255, 256>>, <<9>>}
MCWellFormed == {<<7, 3>>, <<255, 256>>}
=============================================================================
