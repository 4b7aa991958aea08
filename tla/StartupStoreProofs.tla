------------------------- MODULE StartupStoreProofs -------------------------
(***************************************************************************)
(* With working flash, for every sector size and all programs: the startup *)
(* program is stored atomically, whenever the power is lost.               *)
(***************************************************************************)
EXTENDS StartupStore, EepromProofs, SequenceTheorems

(* The data of a sector into which k bytes of the program have been        *)
(* written, and the sector behind a completed save.                        *)
Image(p, k) ==
  [j \in 1 .. DataBytes |->
     IF j = 1 THEN Len(p) ELSE IF j - 1 <= k THEN p[j - 1] ELSE Erased]

Partial(p, k) == [crc |-> Blank.crc, data |-> Image(p, k)]

Summed(p, k) ==
  [crc |-> CrcUpTo(Image(p, Len(p)), k), data |-> Image(p, Len(p))]

Full(p) == [crc |-> [j \in 1 .. CrcBytes |-> Image(p, Len(p))],
            data |-> Image(p, Len(p))]

(* How far a save has come.                                                *)
AtLen ==
  stage = "len" => \/ n = 1 /\ sector = Blank
                   \/ n = 2 /\ sector = Partial(commands, 0)

AtBody ==
  stage = "body" => /\ n \in 1 .. Len(commands) + 1
                    /\ sector = Partial(commands, n - 1)

AtCrc ==
  stage = "crc" => /\ n \in 1 .. CrcBytes + 1
                   /\ sector = Summed(commands, n)

SavedFull ==
  saved /= None => stage \in {"off", "idle"} /\ sector = Full(saved)

ValidFull == Valid(sector) => \E p \in Programs : sector = Full(p)

StoreInv ==
  /\ TypeOK
  /\ CrcCovers
  /\ AtLen
  /\ AtBody
  /\ AtCrc
  /\ SavedFull
  /\ ValidFull
  /\ RunsWholeCommands

-----------------------------------------------------------------------------
(* The image of a program fits into the sector.                            *)
LEMMA ImageFacts ==
  ASSUME NEW p \in Programs, NEW k \in Nat, k <= Len(p)
  PROVE  /\ Image(p, k) \in Data
         /\ Image(p, k)[1] = Len(p)
         /\ Len(p) \in Byte /\ Len(p) \in Nat /\ Len(p) + 1 <= DataBytes
         /\ \A j \in 1 .. Len(p) : p[j] \in Byte
  <1>1. p \in Seq(Byte) /\ Len(p) \in Nat /\ Len(p) < DataBytes /\ Len(p) < 255
    BY StartupAssumption DEF Erased
  <1>2. Len(p) \in Byte /\ Erased \in Byte
    <2> DEFINE l == Len(p)
    <2>1. l \in Nat /\ l < 255
      BY <1>1
    <2> HIDE DEF l
    <2>2. l \in Byte
      BY <2>1 DEF Byte
    <2> QED
      BY <2>2 DEF l, Byte, Erased
  <1>3. \A j \in 1 .. Len(p) : p[j] \in Byte
    BY <1>1
  <1>4. ASSUME NEW j \in 1 .. DataBytes, j /= 1, j - 1 <= k
        PROVE  p[j - 1] \in Byte
    <2>1. j - 1 \in 1 .. Len(p)
      BY <1>1, <1>4, EepromAssumption
    <2> QED
      BY <1>3, <2>1
  <1>5. Image(p, k) \in Data
    BY <1>2, <1>4 DEF Image, Data
  <1>6. 1 \in 1 .. DataBytes
    BY EepromAssumption
  <1> QED
    BY <1>1, <1>2, <1>3, <1>5, <1>6, EepromAssumption DEF Image

(* The boot finds the program that was saved.                              *)
LEMMA DecodeFull ==
  ASSUME NEW p \in Programs
  PROVE  Valid(Full(p)) /\ Decoded(Full(p)) = p /\ Full(p) \in Sectors
         /\ Covered(Full(p))
  <1> DEFINE d == Image(p, Len(p))
             l == Len(p)
  <1>1. /\ d \in Data /\ d[1] = l /\ l \in Nat /\ l + 1 <= DataBytes
        /\ l < 255 /\ p \in Seq(Byte)
    BY ImageFacts, StartupAssumption DEF Erased
  <1>2. \A j \in 1 .. l : d[j + 1] = p[j]
    BY <1>1, EepromAssumption DEF Image
  <1>3. Valid(Full(p)) /\ Full(p) \in Sectors /\ Covered(Full(p))
    BY <1>1 DEF Full, Valid, Sectors, CrcByte, Covered
  <1> HIDE DEF d
  <1>4. Decoded(Full(p)) = SubSeq(d, 2, l + 1)
    BY <1>1 DEF Decoded, Full, Erased, d
  <1>5. d \in Seq(Byte) /\ Len(d) = DataBytes
    BY <1>1, EepromAssumption DEF Data
  <1>6. SubSeq(d, 2, l + 1) = p
    <2>1. /\ SubSeq(d, 2, l + 1) \in Seq(Byte)
          /\ Len(SubSeq(d, 2, l + 1)) = l
          /\ \A j \in 1 .. l : SubSeq(d, 2, l + 1)[j] = d[j + 1]
      BY <1>1, <1>5, EepromAssumption
    <2> QED
      BY <1>1, <1>2, <2>1, SeqEqual
  <1> QED
    BY <1>3, <1>4, <1>6

(* The sectors a save goes through: none is valid before the last.         *)
LEMMA PartialFacts ==
  ASSUME NEW p \in Programs, NEW k \in Nat, k <= Len(p)
  PROVE  Partial(p, k) \in Sectors /\ ~Valid(Partial(p, k))
         /\ Covered(Partial(p, k))
  <1>1. Image(p, k) \in Data
    BY ImageFacts
  <1>2. Blank.crc \in [1 .. CrcBytes -> CrcByte]
    BY BlankFacts DEF Sectors
  <1> QED
    BY <1>1, <1>2, BlankFacts DEF Partial, Sectors

(* The sector while the CRC is written: invalid until the last byte, then  *)
(* the image of the program.                                               *)
LEMMA SummedFacts ==
  ASSUME NEW p \in Programs, NEW k \in 1 .. CrcBytes + 1
  PROVE  /\ Summed(p, k) \in Sectors /\ Covered(Summed(p, k))
         /\ k <= CrcBytes => ~Valid(Summed(p, k))
         /\ Summed(p, CrcBytes + 1) = Full(p)
         /\ Summed(p, 1) = Partial(p, Len(p))
  <1> DEFINE d == Image(p, Len(p))
  <1>1. d \in Data
    BY ImageFacts, StartupAssumption
  <1>2. Summed(p, k) = [crc |-> CrcUpTo(d, k), data |-> d]
    BY DEF Summed
  <1> HIDE DEF d
  <1>3. /\ Summed(p, k) \in Sectors /\ Covered(Summed(p, k))
        /\ k <= CrcBytes => ~Valid(Summed(p, k))
    BY <1>1, <1>2, WritingFacts
  <1>4. Summed(p, CrcBytes + 1) = Full(p)
    BY EepromAssumption DEF Summed, Full, CrcUpTo
  <1>5. Summed(p, 1) = Partial(p, Len(p))
    BY CrcStart DEF Summed, Partial
  <1> QED
    BY <1>3, <1>4, <1>5

(* FLASH_ProgramByte() takes the sector from one of them to the next.      *)
LEMMA ProgramLength ==
  ASSUME NEW p \in Programs
  PROVE  ProgramData(Blank, 1, Len(p)) = Partial(p, 0)
  <1>1. 1 \in 1 .. DataBytes /\ Len(p) \in Byte
    BY EepromAssumption, ImageFacts
  <1>2. /\ Blank = [crc |-> Blank.crc, data |-> Blank.data]
        /\ Blank.data = [j \in 1 .. DataBytes |-> Erased]
    BY DEF Blank
  <1>3. Blank.data \in Data /\ Blank.data[1] = Erased
    BY <1>1, <1>2, BlankFacts, Zenon DEF Sectors
  <1>4. ProgramData(Blank, 1, Len(p))
          = [crc |-> Blank.crc, data |-> [Blank.data EXCEPT ![1] = Len(p)]]
    <2> DEFINE c == Blank.crc
               d == Blank.data
    <2>1. Blank = [crc |-> c, data |-> d] /\ d \in Data /\ d[1] = Erased
      BY <1>2, <1>3
    <2> HIDE DEF c, d
    <2>2. ProgramData([crc |-> c, data |-> d], 1, Len(p))
            = [crc |-> c, data |-> [d EXCEPT ![1] = Len(p)]]
      BY <1>1, <2>1, ProgramErased
    <2> QED
      BY <2>1, <2>2 DEF c, d
  <1>5. [Blank.data EXCEPT ![1] = Len(p)] = Image(p, 0)
    BY <1>2, EepromAssumption DEF Image
  <1> QED
    BY <1>4, <1>5 DEF Partial

(* The next byte of the program is written.                                *)
LEMMA ProgramBody ==
  ASSUME NEW p \in Programs, NEW k \in 1 .. Len(p)
  PROVE  ProgramData(Partial(p, k - 1), k + 1, p[k]) = Partial(p, k)
  <1> DEFINE d == Image(p, k - 1)
  <1>1. /\ Len(p) \in Nat /\ Len(p) + 1 <= DataBytes
        /\ p[k] \in Byte /\ d \in Data
    BY ImageFacts, StartupAssumption
  <1>2. k + 1 \in 1 .. DataBytes
    BY <1>1, EepromAssumption
  <1>3. d[k + 1] = Erased
    BY <1>2 DEF Image
  <1>4. ProgramData(Partial(p, k - 1), k + 1, p[k])
          = [crc |-> Blank.crc, data |-> [d EXCEPT ![k + 1] = p[k]]]
    BY <1>1, <1>2, <1>3, ProgramErased DEF Partial
  <1> DEFINE e == [d EXCEPT ![k + 1] = p[k]]
  <1>5. e = Image(p, k)
    <2>1. e \in Data /\ Image(p, k) \in Data
      BY <1>1, <1>2, ImageFacts DEF Data
    <2>2. \A j \in 1 .. DataBytes : e[j] = Image(p, k)[j]
      BY <1>1, <1>2 DEF Image
    <2> QED
      BY <2>1, <2>2, SameData, Zenon
  <1> QED
    BY <1>4, <1>5 DEF Partial

(* The next byte of the CRC is written.                                    *)
LEMMA ProgramSum ==
  ASSUME NEW p \in Programs, NEW k \in 1 .. CrcBytes
  PROVE  ProgramCrc(Summed(p, k), k, Summed(p, k).data) = Summed(p, k + 1)
  <1> DEFINE d == Image(p, Len(p))
  <1>1. ProgramCrc([crc |-> CrcUpTo(d, k), data |-> d], k, d)
          = [crc |-> CrcUpTo(d, k + 1), data |-> d]
    BY ProgramCrcByte
  <1> QED
    BY <1>1 DEF Summed

-----------------------------------------------------------------------------
(* A new device holds no program.                                          *)
LEMMA InitEstablishes == Init => StoreInv
  <1> SUFFICES ASSUME Init PROVE StoreInv
    OBVIOUS
  <1>1. sector = Blank /\ stage = "off" /\ saved = None /\ ran = None
    BY DEF Init
  <1>2. TypeOK
    BY BlankFacts, StartupAssumption, Zenon DEF Init, TypeOK
  <1>3. CrcCovers /\ ValidFull
    BY <1>1, <1>2, BlankFacts DEF CrcCovers, ValidFull, TypeOK, Sectors
  <1> QED
    BY <1>1, <1>2, <1>3
    DEF StoreInv, AtLen, AtBody, AtCrc, SavedFull, RunsWholeCommands

(* A program that is in the flash as a whole is the one a boot runs.       *)
LEMMA StoredProgram ==
  ASSUME StoreInv
  PROVE  /\ Stored \in Programs \cup {None}
         /\ \A p \in Programs : sector = Full(p) => Stored = p
         /\ ~Valid(sector) => Stored = None
  BY DecodeFull DEF StoreInv, ValidFull, Stored

(* The progress of eeprom_write() through the three writes.                *)
LEMMA ProgramByteKeeps ==
  ASSUME StoreInv, ProgramByte
  PROVE  StoreInv' /\ ~Valid(sector)
         /\ (Valid(sector') => sector' = Full(commands))
  <1>1. /\ commands \in Programs /\ commands' = commands /\ stage' = stage
        /\ saving' = saving /\ ran' = ran /\ saved' = saved /\ n' = n + 1
        /\ n \in Nat /\ stage \in Writes
    BY DEF StoreInv, TypeOK, ProgramByte
  <1>2. Len(commands) \in Nat
    BY <1>1, StartupAssumption
  <1>3. saved = None
    BY <1>1 DEF StoreInv, SavedFull, Writes
  <1>4. /\ sector' \in Sectors /\ Covered(sector') /\ ~Valid(sector)
        /\ AtLen' /\ AtBody' /\ AtCrc'
        /\ (Valid(sector') => sector' = Full(commands))
    <2>1. CASE stage = "len"
      <3>1. n <= 1
        BY <2>1 DEF ProgramByte, WriteLength
      <3>2. n = 1 /\ sector = Blank
        BY <2>1, <3>1 DEF StoreInv, AtLen
      <3>3. sector' = Partial(commands, 0)
        BY <1>1, <2>1, <3>2, ProgramLength DEF ProgramByte
      <3>4. sector' \in Sectors /\ Covered(sector') /\ ~Valid(sector')
        BY <1>1, <1>2, <3>3, PartialFacts
      <3>5. ~Valid(sector)
        BY <3>2, BlankFacts DEF Sectors
      <3>6. AtLen' /\ AtBody' /\ AtCrc'
        BY <1>1, <2>1, <3>2, <3>3 DEF AtLen, AtBody, AtCrc
      <3> QED
        BY <3>4, <3>5, <3>6
    <2>2. CASE stage = "body"
      <3>1. n <= Len(commands)
        BY <2>2 DEF ProgramByte, WriteLength
      <3>2. n \in 1 .. Len(commands) /\ sector = Partial(commands, n - 1)
        BY <1>2, <2>2, <3>1 DEF StoreInv, AtBody
      <3>3. sector' = Partial(commands, n)
        <4>1. sector' = ProgramData(sector, n + 1, commands[n])
          BY <2>2 DEF ProgramByte
        <4> QED
          BY <1>1, <3>2, <4>1, ProgramBody
      <3>4. sector' \in Sectors /\ Covered(sector') /\ ~Valid(sector')
        BY <1>1, <3>1, <3>3, PartialFacts
      <3>5. ~Valid(sector)
        BY <1>1, <1>2, <3>2, PartialFacts
      <3>6. AtLen' /\ AtCrc'
        BY <1>1, <2>2 DEF AtLen, AtCrc
      <3>7. AtBody'
        BY <1>1, <1>2, <3>2, <3>3 DEF AtBody
      <3> QED
        BY <3>4, <3>5, <3>6, <3>7
    <2>3. CASE stage = "crc"
      <3>1. n <= CrcBytes
        BY <2>3 DEF ProgramByte, WriteLength
      <3>2. n \in 1 .. CrcBytes /\ sector = Summed(commands, n)
        BY <2>3, <3>1, EepromAssumption DEF StoreInv, AtCrc
      <3>3. sector' = Summed(commands, n + 1)
        <4>1. sector' = ProgramCrc(sector, n, sector.data)
          BY <2>3 DEF ProgramByte
        <4> QED
          BY <1>1, <3>2, <4>1, ProgramSum
      <3>4. n + 1 \in 1 .. CrcBytes + 1 /\ n \in 1 .. CrcBytes + 1
        BY <3>2, EepromAssumption
      <3>5. sector' \in Sectors /\ Covered(sector')
        BY <1>1, <3>3, <3>4, SummedFacts
      <3>6. ~Valid(sector)
        BY <1>1, <3>1, <3>2, <3>4, SummedFacts
      <3>7. Valid(sector') => sector' = Full(commands)
        <4>1. n + 1 <= CrcBytes \/ n + 1 = CrcBytes + 1
          BY <3>2, EepromAssumption
        <4> QED
          BY <1>1, <3>3, <3>4, <4>1, SummedFacts
      <3>8. AtLen' /\ AtBody' /\ AtCrc'
        BY <1>1, <2>3, <3>3, <3>4 DEF AtLen, AtBody, AtCrc
      <3> QED
        BY <3>5, <3>6, <3>7, <3>8
    <2> QED
      BY <1>1, <2>1, <2>2, <2>3 DEF Writes
  <1>5. TypeOK'
    BY <1>1, <1>4 DEF StoreInv, TypeOK
  <1>6. CrcCovers' /\ SavedFull' /\ ValidFull' /\ RunsWholeCommands'
    BY <1>1, <1>3, <1>4
    DEF StoreInv, CrcCovers, SavedFull, ValidFull, RunsWholeCommands
  <1> QED
    BY <1>4, <1>5, <1>6 DEF StoreInv

(* A write that returns is complete, and the next one starts where it      *)
(* ends.                                                                   *)
LEMMA WriteReturnsKeeps ==
  ASSUME ~Failures, StoreInv, WriteReturns
  PROVE  StoreInv'
  <1>1. /\ commands \in Programs /\ commands' = commands /\ sector' = sector
        /\ saving' = saving /\ ran' = ran /\ n' = 1
        /\ n \in Nat /\ stage \in Writes /\ n > WriteLength
    BY DEF StoreInv, TypeOK, WriteReturns
  <1>2. Len(commands) \in Nat
    BY <1>1, StartupAssumption
  <1>3. saved = None
    BY <1>1 DEF StoreInv, SavedFull, Writes
  <1>4. /\ stage' \in {"body", "crc", "idle"} /\ saved' \in Programs \cup {None}
        /\ AtLen' /\ AtBody' /\ AtCrc' /\ SavedFull'
    <2>1. CASE stage = "len"
      <3>1. stage' = "body" /\ saved' = None /\ n > 1
        BY <1>1, <1>3, <2>1 DEF WriteReturns, WriteLength
      <3>2. sector = Partial(commands, 0)
        BY <2>1, <3>1 DEF StoreInv, AtLen
      <3> QED
        BY <1>1, <1>2, <3>1, <3>2 DEF AtLen, AtBody, AtCrc, SavedFull
    <2>2. CASE stage = "body"
      <3>1. stage' = "crc" /\ saved' = None /\ n > Len(commands)
        BY <1>1, <1>3, <2>2 DEF WriteReturns, WriteLength
      <3>2. n - 1 = Len(commands) /\ sector = Partial(commands, n - 1)
        BY <1>2, <2>2, <3>1 DEF StoreInv, AtBody
      <3>3. 1 \in 1 .. CrcBytes + 1
        BY EepromAssumption
      <3>4. sector = Summed(commands, 1)
        BY <1>1, <3>2, <3>3, SummedFacts
      <3> QED
        BY <1>1, <3>1, <3>3, <3>4 DEF AtLen, AtBody, AtCrc, SavedFull
    <2>3. CASE stage = "crc"
      <3>1. stage' = "idle" /\ saved' = commands /\ n > CrcBytes
        BY <1>1, <2>3 DEF WriteReturns, WriteLength
      <3>2. n = CrcBytes + 1 /\ sector = Summed(commands, n)
        BY <2>3, <3>1, EepromAssumption DEF StoreInv, AtCrc
      <3>3. CrcBytes + 1 \in 1 .. CrcBytes + 1
        BY EepromAssumption
      <3>4. sector = Full(commands)
        BY <1>1, <3>2, <3>3, SummedFacts
      <3> QED
        BY <1>1, <3>1, <3>4 DEF AtLen, AtBody, AtCrc, SavedFull
    <2> QED
      BY <1>1, <2>1, <2>2, <2>3 DEF Writes
  <1>5. TypeOK'
    BY <1>1, <1>4 DEF StoreInv, TypeOK, Writes
  <1>6. CrcCovers' /\ ValidFull' /\ RunsWholeCommands'
    BY <1>1 DEF StoreInv, CrcCovers, ValidFull, RunsWholeCommands
  <1> QED
    BY <1>4, <1>5, <1>6 DEF StoreInv

(* Power loss keeps the program in the flash or leaves an invalid sector.  *)
LEMMA PowerLossKeeps ==
  ASSUME StoreInv, PowerLoss
  PROVE  StoreInv' /\ (Valid(sector') => sector' = sector)
  <1>1. /\ stage' = "off" /\ commands' = <<>> /\ n' = n /\ saving' = saving
        /\ ran' = ran /\ saved' = saved
    BY DEF PowerLoss
  <1>2. /\ sector' \in Sectors /\ Covered(sector')
        /\ (Valid(sector') => sector' = sector)
        /\ stage /= "erase" => sector' = sector
    <2>1. sector \in Sectors /\ Covered(sector)
      BY DEF StoreInv, TypeOK, CrcCovers
    <2>2. CASE stage /= "erase"
      BY <2>1, <2>2 DEF PowerLoss
    <2>3. CASE stage = "erase"
      <3>1. PICK C, D : sector' = PartlyErased(sector, C, D)
        BY <2>3 DEF PowerLoss
      <3> QED
        BY <2>1, <2>3, <3>1, EraseKeepsCovered
    <2> QED
      BY <2>2, <2>3
  <1>3. TypeOK'
    BY <1>1, <1>2, StartupAssumption DEF StoreInv, TypeOK
  <1>4. SavedFull'
    BY <1>1, <1>2 DEF StoreInv, SavedFull
  <1>5. ValidFull'
    BY <1>2 DEF StoreInv, ValidFull
  <1> QED
    BY <1>1, <1>2, <1>3, <1>4, <1>5
    DEF StoreInv, CrcCovers, AtLen, AtBody, AtCrc, RunsWholeCommands

(* Every step keeps the invariant.                                         *)
LEMMA NextKeeps ==
  ASSUME ~Failures, StoreInv, [Next]_vars
  PROVE  StoreInv'
  <1> USE DEF StoreInv, CrcCovers, AtLen, AtBody, AtCrc, SavedFull, ValidFull,
              RunsWholeCommands
  <1>1. ASSUME NEW p \in Programs, SetCommands(p) PROVE StoreInv'
    BY <1>1 DEF SetCommands, TypeOK
  <1>2. CASE startup_command_clear
    BY <1>2, Zenon DEF startup_command_clear, TypeOK
  <1>3. CASE startup_command_save
    BY <1>3 DEF startup_command_save, TypeOK
  <1>4. CASE eeprom_erase
    <2>1. /\ sector' = Blank /\ n' = 1 /\ commands' = commands
          /\ saving' = saving /\ ran' = ran /\ saved' = saved
          /\ stage' \in {"len", "idle"} /\ stage = "erase"
      BY <1>4 DEF eeprom_erase
    <2>2. saved = None
      BY <2>1
    <2>3. Blank \in Sectors /\ Covered(Blank) /\ ~Valid(Blank)
      BY BlankFacts DEF Sectors
    <2>4. TypeOK'
      BY <2>1, <2>3 DEF TypeOK, Writes
    <2> QED
      BY <2>1, <2>2, <2>3, <2>4
  <1>5. CASE ProgramByte
    BY <1>5, ProgramByteKeeps
  <1>6. CASE WriteReturns
    BY <1>6, WriteReturnsKeeps
  <1>7. CASE PowerLoss
    BY <1>7, PowerLossKeeps
  <1>8. CASE Boot
    <2>1. /\ sector' = sector /\ n' = n /\ commands' = commands
          /\ saving' = saving /\ saved' = saved /\ stage' = "idle"
          /\ stage = "off" /\ ran' = Stored
      BY <1>8 DEF Boot
    <2>2. Stored \in Programs \cup {None}
      BY StoredProgram
    <2>3. TypeOK'
      BY <2>1, <2>2, StartupAssumption DEF TypeOK
    <2> QED
      BY <2>1, <2>2, <2>3
  <1>9. CASE BootCleared
    BY <1>9, Zenon DEF BootCleared, TypeOK
  <1>10. CASE UNCHANGED vars
    BY <1>10 DEF vars, TypeOK
  <1> QED
    BY <1>1, <1>2, <1>3, <1>4, <1>5, <1>6, <1>7, <1>8, <1>9, <1>10 DEF Next

(* With working flash, whatever the sector size and the programs: a saved  *)
(* program boots as it was saved, no boot runs a part of one, and no       *)
(* interrupted erase makes a stale CRC match (startup_command_save() and   *)
(* startup_command_execute()).                                             *)
LEMMA StartupSafety ==
  ASSUME ~Failures
  PROVE  Spec => [](TypeOK /\ SavedBoots /\ RunsWholeCommands /\ CrcCovers)
  <1>1. StoreInv /\ [Next]_vars => StoreInv'
    BY NextKeeps
  <1>2. StoreInv => TypeOK /\ SavedBoots /\ RunsWholeCommands /\ CrcCovers
    <2> SUFFICES ASSUME StoreInv PROVE SavedBoots
      BY DEF StoreInv
    <2>1. saved \in Programs \cup {None} /\ (saved /= None => sector = Full(saved))
      BY DEF StoreInv, TypeOK, SavedFull
    <2> QED
      BY <2>1, StoredProgram DEF SavedBoots
  <1> QED
    BY <1>1, <1>2, InitEstablishes, PTL DEF Spec

(* The sector, the queue and the progress of a save keep their types.      *)
THEOREM StartupTypes ==
  ASSUME ~Failures
  PROVE  Spec => []TypeOK
  BY StartupSafety, PTL

(* A program startup_command_save has saved is what the next boot runs.    *)
THEOREM SavedProgramBoots ==
  ASSUME ~Failures
  PROVE  Spec => []SavedBoots
  BY StartupSafety, PTL

(* startup_command_execute runs whole programs only, whenever the power    *)
(* was lost.                                                               *)
THEOREM BootRunsWholePrograms ==
  ASSUME ~Failures
  PROVE  Spec => []RunsWholeCommands
  BY StartupSafety, PTL

(* No interrupted erase or write leaves a CRC that matches other data.     *)
THEOREM StartupCrcCovers ==
  ASSUME ~Failures
  PROVE  Spec => []CrcCovers
  BY StartupSafety, PTL

(* Saving is atomic: the flash goes from no program to the whole queue in  *)
(* one step, the write of the last byte of the CRC, and a power loss keeps *)
(* or drops the program it finds as a whole.                               *)
THEOREM StartupIsAtomic ==
  ASSUME ~Failures
  PROVE  Spec => ImplementsStore
  <1>1. Init => Store!StoreInit
    <2> SUFFICES ASSUME Init PROVE Store!StoreInit
      OBVIOUS
    <2>1. ~Valid(sector)
      BY BlankFacts DEF Init, Sectors
    <2> QED
      BY <2>1 DEF Init, Store!StoreInit, Stored
  <1>2. StoreInv /\ StoreInv' /\ [Next]_vars
          => [Store!StoreNext]_(Store!storeVars)
    <2> SUFFICES ASSUME StoreInv, StoreInv', [Next]_vars
                 PROVE  Store!StoreNext \/ UNCHANGED Store!storeVars
      OBVIOUS
    <2>0. sector' = sector => Stored' = Stored
      BY DEF Stored, Valid, Decoded
    <2>1. /\ Stored \in Programs \cup {None}
          /\ \A p \in Programs : sector' = Full(p) => Stored' = p
          /\ ~Valid(sector) => Stored = None
          /\ ~Valid(sector') => Stored' = None
      BY StoredProgram, DecodeFull DEF StoreInv, Stored, Valid, Decoded
    <2>2. ASSUME NEW p \in Programs, SetCommands(p) PROVE Store!ChangeQueue
      BY <2>0, <2>2 DEF SetCommands, Store!ChangeQueue
    <2>3. CASE startup_command_clear
      BY <2>0, <2>3 DEF startup_command_clear, Store!storeVars
    <2>4. CASE startup_command_save
      BY <2>0, <2>4 DEF startup_command_save, Store!storeVars
    <2>5. CASE eeprom_erase
      <3>1. sector' = Blank
        BY <2>5 DEF eeprom_erase
      <3>2. ~Valid(sector')
        BY <3>1, BlankFacts DEF Sectors
      <3> QED
        BY <2>1, <2>5, <3>2 DEF eeprom_erase, Store!StoreNext, Store!Forget
    <2>6. CASE ProgramByte
      <3>1. /\ Stored = None /\ commands \in Programs
            /\ Stored' = None \/ Stored' = commands
        BY <2>1, <2>6, ProgramByteKeeps DEF StoreInv, TypeOK
      <3> QED
        BY <2>6, <3>1
        DEF ProgramByte, Store!StoreNext, Store!Publish, Store!storeVars
    <2>7. CASE WriteReturns
      BY <2>0, <2>7 DEF WriteReturns, Store!storeVars
    <2>8. CASE PowerLoss
      <3>1. Stored' = Stored \/ Stored' = None
        BY <2>0, <2>1, <2>8, PowerLossKeeps
      <3> QED
        BY <2>8, <3>1 DEF PowerLoss, Store!StoreNext, Store!Lose
    <2>9. CASE Boot
      BY <2>0, <2>9 DEF Boot, Store!StoreNext, Store!Run
    <2>10. CASE BootCleared
      BY <2>0, <2>10 DEF BootCleared, Store!StoreNext, Store!Run
    <2>11. CASE UNCHANGED vars
      BY <2>0, <2>11 DEF vars, Store!storeVars
    <2> QED
      BY <2>2, <2>3, <2>4, <2>5, <2>6, <2>7, <2>8, <2>9, <2>10, <2>11
      DEF Next, Store!StoreNext
  <1>3. StoreInv /\ [Next]_vars => StoreInv'
    BY NextKeeps
  <1> QED
    BY <1>1, <1>2, <1>3, InitEstablishes, PTL
    DEF Spec, ImplementsStore, Store!StoreSpec
=============================================================================
