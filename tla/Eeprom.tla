------------------------------- MODULE Eeprom -------------------------------
(***************************************************************************)
(* A flash sector used as EEPROM (eeprom.c): a CRC word followed by data.  *)
(* Erasing sets every byte to 255, programming can only clear bits.  The   *)
(* CRC unit is external and taken to tell all contents apart: the bytes of *)
(* crc(d) are copies of d.  (The CRC of erased data is not the erased CRC  *)
(* word: 0xaa53a5fa for the program sector, 0xae006622 for the             *)
(* configuration.)                                                         *)
(***************************************************************************)
EXTENDS Integers, Sequences

CONSTANTS
  CrcBytes,  \* bytes of the CRC word
  DataBytes, \* bytes the CRC is computed over
  BitAnd(_, _)  \* bitwise and of two bytes

Byte == 0 .. 255
Erased == 255
Data == [1 .. DataBytes -> Byte]

ASSUME EepromAssumption ==
  /\ CrcBytes \in Nat \ {0}
  /\ DataBytes \in Nat \ {0}
  /\ \A v \in Byte : BitAnd(Erased, v) = v
  /\ \A v, w \in Byte : BitAnd(v, w) \in Byte

(* A byte of the CRC word: erased, of the CRC of some data, or garbage.    *)
NoCrc == <<>>
Mixed == <<256>>
CrcByte == Data \cup {NoCrc, Mixed}

Sectors == [crc : [1 .. CrcBytes -> CrcByte], data : Data]

Blank == [crc |-> [n \in 1 .. CrcBytes |-> NoCrc],
          data |-> [n \in 1 .. DataBytes |-> Erased]]

(* FLASH_ProgramByte() on a byte of the data and of the CRC word.          *)
ProgramData(s, n, v) ==
  [crc |-> s.crc, data |-> [s.data EXCEPT ![n] = BitAnd(@, v)]]

ProgramCrc(s, n, d) ==
  [crc |-> [s.crc EXCEPT ![n] = IF @ \in {NoCrc, d} THEN d ELSE Mixed],
   data |-> s.data]

(* Power loss during FLASH_EraseSector(): the bytes C of the CRC word and  *)
(* D of the data are erased.                                               *)
PartlyErased(s, C, D) ==
  [crc |-> [n \in 1 .. CrcBytes |-> IF n \in C THEN NoCrc ELSE s.crc[n]],
   data |-> [n \in 1 .. DataBytes |-> IF n \in D THEN Erased
                                                 ELSE s.data[n]]]

(* The CRC check of startup_command_execute() and config_get().            *)
Valid(s) == \A n \in 1 .. CrcBytes : s.crc[n] = s.data

-----------------------------------------------------------------------------
(* Where a sector has a CRC, its data is what the CRC was computed from or *)
(* erased: such a sector can lose its validity by erasing, never gain it.  *)
Covered(s) ==
  \A k \in 1 .. CrcBytes :
    \/ s.crc[k] = NoCrc
    \/ /\ s.crc[k] \in Data
       /\ \A j \in 1 .. DataBytes : s.data[j] \in {s.crc[k][j], Erased}
=============================================================================
