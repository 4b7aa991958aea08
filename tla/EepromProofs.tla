---------------------------- MODULE EepromProofs ----------------------------
(***************************************************************************)
(* Facts about a flash sector, for every size of its CRC word and data.    *)
(***************************************************************************)
EXTENDS Eeprom, TLAPS

(* The CRC word of d written up to byte k.                                 *)
CrcUpTo(d, k) == [j \in 1 .. CrcBytes |-> IF j < k THEN d ELSE NoCrc]

(* Data with the same bytes is the same.                                   *)
LEMMA SameData ==
  ASSUME NEW d \in Data, NEW e \in Data,
         \A j \in 1 .. DataBytes : d[j] = e[j]
  PROVE  d = e
  <1> DEFINE J == 1 .. DataBytes
  <1>1. d \in [J -> Byte] /\ e \in [J -> Byte] /\ \A j \in J : d[j] = e[j]
    BY DEF Data
  <1> HIDE DEF J
  <1> QED
    BY <1>1

(* No byte of the CRC of some data is erased or garbage.                   *)
LEMMA NoCrcIsNoData == \A d \in Data : d /= NoCrc /\ d /= Mixed
  <1> SUFFICES ASSUME NEW d \in Data PROVE d /= NoCrc /\ d /= Mixed
    OBVIOUS
  <1>1. 1 \in 1 .. DataBytes
    BY EepromAssumption
  <1>2. DOMAIN d = 1 .. DataBytes /\ d[1] \in Byte
    BY <1>1 DEF Data
  <1>3. DOMAIN NoCrc = {}
    BY DEF NoCrc
  <1>4. Mixed[1] = 256 /\ 256 \notin Byte
    BY DEF Mixed, Byte
  <1>5. ASSUME d = NoCrc PROVE FALSE
    <2>1. DOMAIN d = {}
      BY <1>3, <1>5, Zenon
    <2> QED
      BY <1>1, <1>2, <2>1, Zenon
  <1>6. ASSUME d = Mixed PROVE FALSE
    <2>1. d[1] = 256
      BY <1>4, <1>6, Zenon
    <2> QED
      BY <1>2, <1>4, <2>1, Zenon
  <1> QED
    BY <1>5, <1>6

(* A sector without CRC is never valid.                                    *)
LEMMA BlankFacts ==
  /\ Blank \in Sectors
  /\ Covered(Blank)
  /\ \A s : s.data \in Data /\ s.crc = Blank.crc => ~Valid(s) /\ Covered(s)
  <1>1. Blank.data \in Data /\ Blank.crc \in [1 .. CrcBytes -> CrcByte]
    BY DEF Blank, Data, Byte, Erased, CrcByte
  <1>2. \A k \in 1 .. CrcBytes : Blank.crc[k] = NoCrc
    BY DEF Blank
  <1>3. 1 \in 1 .. CrcBytes
    BY EepromAssumption
  <1>4. ASSUME NEW s, s.data \in Data, s.crc = Blank.crc
        PROVE  ~Valid(s) /\ Covered(s)
    BY <1>2, <1>3, <1>4, NoCrcIsNoData DEF Valid, Covered
  <1> QED
    BY <1>1, <1>4, Zenon DEF Blank, Sectors

(* An interrupted erase does not make a sector valid, nor change one that  *)
(* is still valid.                                                         *)
LEMMA EraseKeepsCovered ==
  ASSUME NEW s \in Sectors, Covered(s), NEW C, NEW D,
         NEW t, t = PartlyErased(s, C, D)
  PROVE  t \in Sectors /\ Covered(t) /\ (Valid(t) => t = s)
  <1> DEFINE sc == s.crc
             sd == s.data
             tc == [k \in 1 .. CrcBytes |-> IF k \in C THEN NoCrc ELSE sc[k]]
             td == [j \in 1 .. DataBytes |-> IF j \in D THEN Erased ELSE sd[j]]
  <1>1. t = [crc |-> tc, data |-> td]
    BY Zenon DEF PartlyErased
  <1>2. /\ s = [crc |-> sc, data |-> sd]
        /\ sc \in [1 .. CrcBytes -> CrcByte] /\ sd \in [1 .. DataBytes -> Byte]
    BY DEF Sectors, Data
  <1> HIDE DEF sc, sd
  <1>3. /\ \A k \in 1 .. CrcBytes : tc[k] = IF k \in C THEN NoCrc ELSE sc[k]
        /\ \A j \in 1 .. DataBytes : td[j] = IF j \in D THEN Erased ELSE sd[j]
    OBVIOUS
  <1>4. Erased \in Byte /\ NoCrc \in CrcByte
    BY DEF Erased, Byte, CrcByte
  <1>5. tc \in [1 .. CrcBytes -> CrcByte] /\ td \in [1 .. DataBytes -> Byte]
    BY <1>2, <1>4
  <1> HIDE DEF tc, td
  <1>6. t \in Sectors
    BY <1>1, <1>5 DEF Sectors, Data
  <1>7. Covered(t)
    BY <1>1, <1>2, <1>3 DEF Covered
  <1>8. ASSUME Valid(t) PROVE t = s
    <2>1. 1 \in 1 .. CrcBytes
      BY EepromAssumption
    <2>2. \A k \in 1 .. CrcBytes : tc[k] = td /\ tc[k] /= NoCrc
      BY <1>1, <1>5, <1>8, NoCrcIsNoData DEF Valid, Data
    <2>3. \A k \in 1 .. CrcBytes : tc[k] = sc[k]
      BY <1>3, <2>2
    <2>4. \A j \in 1 .. DataBytes : sd[j] \in {sc[1][j], Erased}
      BY <1>2, <2>1, <2>2, <2>3 DEF Covered
    <2>5. \A j \in 1 .. DataBytes : td[j] = sd[j]
      BY <1>3, <2>1, <2>2, <2>3, <2>4
    <2> DEFINE K == 1 .. CrcBytes
               J == 1 .. DataBytes
    <2>6. /\ tc \in [K -> CrcByte] /\ sc \in [K -> CrcByte]
          /\ \A k \in K : tc[k] = sc[k]
          /\ td \in [J -> Byte] /\ sd \in [J -> Byte]
          /\ \A j \in J : td[j] = sd[j]
      BY <1>2, <1>5, <2>3, <2>5
    <2> HIDE DEF K, J
    <2>7. tc = sc /\ td = sd
      BY <2>6
    <2> QED
      BY <1>1, <1>2, <2>7
  <1> QED
    BY <1>6, <1>7, <1>8

(* A write to an erased byte stores the byte.                              *)
LEMMA ProgramErased ==
  ASSUME NEW c, NEW d \in Data, NEW k \in 1 .. DataBytes, d[k] = Erased,
         NEW v \in Byte
  PROVE  ProgramData([crc |-> c, data |-> d], k, v)
           = [crc |-> c, data |-> [d EXCEPT ![k] = v]]
  <1>1. BitAnd(d[k], v) = v
    BY EepromAssumption
  <1>2. [d EXCEPT ![k] = BitAnd(@, v)] = [d EXCEPT ![k] = v]
    BY <1>1
  <1> QED
    BY <1>2 DEF ProgramData

(* While the CRC word of d is written and the data is that of d or erased, *)
(* the sector is not valid unless the CRC is complete and the data is d.   *)
LEMMA WritingFacts ==
  ASSUME NEW d \in Data, NEW x \in Data, NEW k \in 1 .. CrcBytes + 1,
         \A j \in 1 .. DataBytes : x[j] \in {d[j], Erased},
         NEW s, s = [crc |-> CrcUpTo(d, k), data |-> x]
  PROVE  /\ s \in Sectors /\ Covered(s) /\ s.data = x
         /\ k <= CrcBytes => ~Valid(s)
         /\ Valid(s) => x = d
         /\ k = CrcBytes + 1 /\ x = d => Valid(s)
  <1> DEFINE c == CrcUpTo(d, k)
  <1>1. NoCrc \in CrcByte /\ d \in CrcByte /\ x /= NoCrc
    BY NoCrcIsNoData DEF CrcByte
  <1>2. c \in [1 .. CrcBytes -> CrcByte]
    BY <1>1 DEF CrcUpTo
  <1>3. \A j \in 1 .. CrcBytes : c[j] = IF j < k THEN d ELSE NoCrc
    BY DEF CrcUpTo
  <1>4. k <= CrcBytes => c[k] = NoCrc /\ k \in 1 .. CrcBytes
    BY EepromAssumption DEF CrcUpTo
  <1>5. 1 \in 1 .. CrcBytes
    BY EepromAssumption
  <1> HIDE DEF c
  <1>6. s = [crc |-> c, data |-> x]
    BY DEF c
  <1>7. s \in Sectors /\ s.data = x
    BY <1>2, <1>6 DEF Sectors
  <1>8. Covered(s)
    BY <1>3, <1>6 DEF Covered
  <1>9. k <= CrcBytes => ~Valid(s)
    BY <1>1, <1>4, <1>6 DEF Valid
  <1>10. Valid(s) => x = d
    BY <1>1, <1>3, <1>5, <1>6 DEF Valid
  <1>11. k = CrcBytes + 1 /\ x = d => Valid(s)
    BY <1>3, <1>6, EepromAssumption DEF Valid
  <1> QED
    BY <1>7, <1>8, <1>9, <1>10, <1>11

(* A byte of the CRC word is written.                                      *)
LEMMA ProgramCrcByte ==
  ASSUME NEW d, NEW x, NEW k \in 1 .. CrcBytes
  PROVE  ProgramCrc([crc |-> CrcUpTo(d, k), data |-> x], k, d)
           = [crc |-> CrcUpTo(d, k + 1), data |-> x]
  <1> DEFINE c == CrcUpTo(d, k)
             e == CrcUpTo(d, k + 1)
  <1>1. c[k] = NoCrc
    BY DEF CrcUpTo
  <1>2. [c EXCEPT ![k] = d] = e
    <2> DEFINE f == [c EXCEPT ![k] = d]
               K == 1 .. CrcBytes
               T == {d, NoCrc}
    <2>1. \A j \in 1 .. CrcBytes : f[j] = e[j]
      BY EepromAssumption DEF CrcUpTo
    <2>2. /\ f \in [K -> T] /\ e \in [K -> T]
          /\ \A j \in K : f[j] = e[j]
      BY <2>1, Zenon DEF CrcUpTo
    <2> HIDE DEF f, e, K, T
    <2>3. f = e
      BY <2>2
    <2> QED
      BY <2>3 DEF f
  <1> HIDE DEF c, e
  <1>3. [c EXCEPT ![k] = IF @ \in {NoCrc, d} THEN d ELSE Mixed]
          = [c EXCEPT ![k] = d]
    BY <1>1
  <1>4. ProgramCrc([crc |-> c, data |-> x], k, d) = [crc |-> e, data |-> x]
    BY <1>2, <1>3 DEF ProgramCrc
  <1> QED
    BY <1>4 DEF c, e

(* The CRC word before its first byte is written is erased.                *)
LEMMA CrcStart == ASSUME NEW d PROVE CrcUpTo(d, 1) = Blank.crc
  BY DEF CrcUpTo, Blank
=============================================================================
