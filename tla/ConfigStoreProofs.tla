------------------------- MODULE ConfigStoreProofs -------------------------
(***************************************************************************)
(* With working flash, for every configuration layout and all addresses:   *)
(* the configuration in use is the default or a whole one.                 *)
(***************************************************************************)
EXTENDS ConfigStore, EepromProofs

(* The data of a configuration written up to byte k.                       *)
DataUpTo(d, k) ==
  [j \in 1 .. DataBytes |-> IF j < k THEN d[j] ELSE Erased]

(* How far config_write() has come.                                        *)
AtCrc ==
  stage = "crc" =>
    /\ n \in 1 .. CrcBytes + 1
    /\ sector = [crc |-> CrcUpTo(conf, n), data |-> Blank.data]

AtData ==
  stage = "data" =>
    /\ n \in 1 .. DataBytes + 1
    /\ sector = [crc |-> CrcUpTo(conf, CrcBytes + 1),
                 data |-> DataUpTo(conf, n)]

(* A change under way is unacknowledged; config_get() rewrites only for    *)
(* its first caller, at boot.                                              *)
Underway ==
  stage \in {"erase"} \cup Writes =>
    acked = None /\ (todo = None \/ (todo = Use /\ conf = Default))

ConfigInv ==
  /\ TypeOK
  /\ CrcCovers
  /\ AtCrc
  /\ AtData
  /\ Underway
  /\ Durable
  /\ ValidWhenIdle

-----------------------------------------------------------------------------
(* Setting a field gives a configuration.                                  *)
LEMMA WithData ==
  ASSUME NEW d \in Data, NEW f \in NetworkCommands, NEW v \in Addresses
  PROVE  With(d, f, v) \in Data
  <1>1. DOMAIN d = 1 .. DataBytes /\ \A j \in 1 .. DataBytes : d[j] \in Byte
    BY DEF Data
  <1>2. Offset(f) \in Nat
    BY ConfigAssumption DEF Offset, NetworkCommands
  <1>3. \A j \in 1 .. DataBytes :
          j - Offset(f) \in DOMAIN v => v[j - Offset(f)] % 256 \in Byte
    <2> SUFFICES ASSUME NEW i \in DOMAIN v PROVE v[i] % 256 \in Byte
      OBVIOUS
    <2>1. v[i] \in Nat
      BY ConfigAssumption
    <2> DEFINE x == v[i]
    <2>2. x \in Nat
      BY <2>1
    <2> HIDE DEF x
    <2>3. x % 256 \in 0 .. 255
      BY <2>2
    <2> QED
      BY <2>3 DEF x, Byte
  <1> QED
    BY <1>1, <1>3 DEF With, Data

(* Each byte that is written is the configuration's or still erased.       *)
LEMMA DataUpToFacts ==
  ASSUME NEW d \in Data, NEW k \in 1 .. DataBytes + 1
  PROVE  /\ DataUpTo(d, k) \in Data
         /\ \A j \in 1 .. DataBytes : DataUpTo(d, k)[j] \in {d[j], Erased}
         /\ DataUpTo(d, 1) = Blank.data
         /\ DataUpTo(d, DataBytes + 1) = d
  <1>1. \A m : DataUpTo(d, m) \in Data
    <2> SUFFICES ASSUME NEW m PROVE DataUpTo(d, m) \in Data
      OBVIOUS
    <2>1. Erased \in Byte
      BY DEF Erased, Byte
    <2>2. \A j \in 1 .. DataBytes : d[j] \in Byte
      BY DEF Data
    <2> QED
      BY <2>1, <2>2 DEF DataUpTo, Data
  <1>2. \A j \in 1 .. DataBytes : DataUpTo(d, k)[j] \in {d[j], Erased}
    BY DEF DataUpTo
  <1>3. DataUpTo(d, 1) = Blank.data
    BY DEF DataUpTo, Blank
  <1>4. DataUpTo(d, DataBytes + 1) = d
    <2>1. DataUpTo(d, DataBytes + 1) \in Data
      BY <1>1
    <2>2. \A j \in 1 .. DataBytes : DataUpTo(d, DataBytes + 1)[j] = d[j]
      BY EepromAssumption DEF DataUpTo
    <2> QED
      BY <2>1, <2>2, SameData
  <1> QED
    BY <1>1, <1>2, <1>3, <1>4

(* The next byte of the configuration is written.                          *)
LEMMA ProgramDataByte ==
  ASSUME NEW c, NEW d \in Data, NEW k \in 1 .. DataBytes
  PROVE  ProgramData([crc |-> c, data |-> DataUpTo(d, k)], k, d[k])
           = [crc |-> c, data |-> DataUpTo(d, k + 1)]
  <1> DEFINE x == DataUpTo(d, k)
             y == DataUpTo(d, k + 1)
             e == [x EXCEPT ![k] = d[k]]
  <1>1. k \in 1 .. DataBytes + 1 /\ k + 1 \in 1 .. DataBytes + 1
    BY EepromAssumption
  <1>2. x \in Data /\ y \in Data /\ d[k] \in Byte
    BY <1>1, DataUpToFacts DEF Data
  <1>3. x[k] = Erased
    BY DEF DataUpTo
  <1>4. e = y
    <2>1. e \in Data
      BY <1>2 DEF Data
    <2>2. \A j \in 1 .. DataBytes : e[j] = y[j]
      BY EepromAssumption DEF DataUpTo
    <2> QED
      BY <1>2, <2>1, <2>2, SameData, Zenon
  <1> HIDE DEF x, y
  <1>5. ProgramData([crc |-> c, data |-> x], k, d[k]) = [crc |-> c, data |-> e]
    BY <1>2, <1>3, ProgramErased
  <1> QED
    BY <1>4, <1>5, Zenon DEF x, y

-----------------------------------------------------------------------------
(* A new device holds no configuration.                                    *)
LEMMA InitEstablishes == Init => ConfigInv
  <1> SUFFICES ASSUME Init PROVE ConfigInv
    OBVIOUS
  <1>1. TypeOK
    BY BlankFacts, ConfigAssumption DEF Init, TypeOK
  <1>2. CrcCovers
    BY BlankFacts DEF Init, CrcCovers
  <1> QED
    BY <1>1, <1>2
    DEF Init, ConfigInv, AtCrc, AtData, Underway, Durable, ValidWhenIdle, Writes

(* eeprom_write() goes on by a byte; the sector can only turn from invalid *)
(* to valid, and then holds the whole configuration.                       *)
LEMMA ProgramByteKeeps ==
  ASSUME ConfigInv, ProgramByte
  PROVE  /\ ConfigInv'
         /\ Valid(sector) => Valid(sector') /\ sector.data = conf
         /\ Valid(sector') => sector'.data = conf
  <1>1. /\ conf \in Data /\ conf' = conf /\ stage' = stage /\ todo' = todo
        /\ seen' = seen /\ asked' = asked /\ acked' = acked /\ n' = n + 1
        /\ n \in Nat /\ stage \in Writes
    BY DEF ConfigInv, TypeOK, ProgramByte
  <1>2. acked = None
    BY <1>1 DEF ConfigInv, Underway
  <1>3. Blank.data \in Data /\ \A j \in 1 .. DataBytes : Blank.data[j] = Erased
    BY BlankFacts DEF Sectors, Blank
  <1>4. /\ sector' \in Sectors /\ Covered(sector') /\ AtCrc' /\ AtData'
        /\ Valid(sector) => Valid(sector') /\ sector.data = conf
        /\ Valid(sector') => sector'.data = conf
    <2>1. CASE stage = "crc"
      <3>1. n <= CrcBytes
        BY <2>1 DEF ProgramByte, WriteLength
      <3>2. /\ n \in 1 .. CrcBytes
            /\ sector = [crc |-> CrcUpTo(conf, n), data |-> Blank.data]
        BY <2>1, <3>1, EepromAssumption DEF ConfigInv, AtCrc
      <3>3. sector' = [crc |-> CrcUpTo(conf, n + 1), data |-> Blank.data]
        <4>1. sector' = ProgramCrc(sector, n, conf)
          BY <2>1 DEF ProgramByte
        <4> QED
          BY <3>2, <4>1, ProgramCrcByte
      <3>4. n \in 1 .. CrcBytes + 1 /\ n + 1 \in 1 .. CrcBytes + 1
        BY <3>2, EepromAssumption
      <3>5. ~Valid(sector)
        BY <1>1, <1>3, <3>1, <3>2, <3>4, WritingFacts
      <3>6. /\ sector' \in Sectors /\ Covered(sector')
            /\ Valid(sector') => sector'.data = conf
        BY <1>1, <1>3, <3>3, <3>4, WritingFacts
      <3>7. AtCrc' /\ AtData'
        BY <1>1, <2>1, <3>3, <3>4 DEF AtCrc, AtData
      <3> QED
        BY <3>5, <3>6, <3>7
    <2>2. CASE stage = "data"
      <3> DEFINE x == DataUpTo(conf, n)
                 y == DataUpTo(conf, n + 1)
                 K == CrcBytes + 1
      <3>1. n <= DataBytes
        BY <2>2 DEF ProgramByte, WriteLength
      <3>2. /\ n \in 1 .. DataBytes /\ K \in 1 .. CrcBytes + 1
            /\ sector = [crc |-> CrcUpTo(conf, K), data |-> x]
        BY <2>2, <3>1, EepromAssumption DEF ConfigInv, AtData
      <3>3. sector' = [crc |-> CrcUpTo(conf, K), data |-> y]
        <4>1. sector' = ProgramData(sector, n, conf[n])
          BY <2>2 DEF ProgramByte
        <4> QED
          BY <1>1, <3>2, <4>1, ProgramDataByte
      <3>4. n \in 1 .. DataBytes + 1 /\ n + 1 \in 1 .. DataBytes + 1
        BY <3>2, EepromAssumption
      <3>5. /\ x \in Data /\ y \in Data
            /\ \A j \in 1 .. DataBytes : x[j] \in {conf[j], Erased}
            /\ \A j \in 1 .. DataBytes : y[j] \in {conf[j], Erased}
        BY <1>1, <3>4, DataUpToFacts
      <3>6. \A j \in 1 .. DataBytes : x[j] = conf[j] => y[j] = conf[j]
        BY <3>2 DEF DataUpTo
      <3>7. AtCrc' /\ AtData'
        BY <1>1, <2>2, <3>3, <3>4 DEF AtCrc, AtData
      <3>8. x = conf => y = conf
        BY <1>1, <3>5, <3>6, SameData
      <3> HIDE DEF x, y, K
      <3>9. /\ Valid(sector) => x = conf
            /\ sector.data = x
        BY <1>1, <3>2, <3>5, WritingFacts
      <3>10. /\ sector' \in Sectors /\ Covered(sector') /\ sector'.data = y
             /\ Valid(sector') => y = conf
             /\ y = conf => Valid(sector')
        BY <1>1, <3>2, <3>3, <3>5, WritingFacts DEF K
      <3> QED
        BY <3>7, <3>8, <3>9, <3>10
    <2> QED
      BY <1>1, <2>1, <2>2 DEF Writes
  <1>5. TypeOK'
    BY <1>1, <1>4 DEF ConfigInv, TypeOK
  <1>6. Underway' /\ Durable' /\ ValidWhenIdle' /\ CrcCovers'
    BY <1>1, <1>2, <1>4
    DEF ConfigInv, Underway, Durable, ValidWhenIdle, CrcCovers, Writes
  <1> QED
    BY <1>4, <1>5, <1>6 DEF ConfigInv

(* A completed write leaves the whole configuration in the flash.          *)
LEMMA DataComplete ==
  ASSUME ~Failures, ConfigInv, DataReturns
  PROVE  Valid(sector) /\ sector.data = conf
  <1> DEFINE K == CrcBytes + 1
  <1>1. /\ stage = "data" /\ n > DataBytes /\ conf \in Data
    BY DEF DataReturns, WriteLength, ConfigInv, TypeOK
  <1>2. /\ n \in 1 .. DataBytes + 1
        /\ sector = [crc |-> CrcUpTo(conf, K), data |-> DataUpTo(conf, n)]
    BY <1>1 DEF ConfigInv, AtData
  <1>3. n = DataBytes + 1 /\ K \in 1 .. CrcBytes + 1
    BY <1>1, <1>2, EepromAssumption
  <1>4. DataUpTo(conf, n) = conf
    BY <1>1, <1>2, <1>3, DataUpToFacts
  <1>5. sector = [crc |-> CrcUpTo(conf, K), data |-> conf]
    BY <1>2, <1>4
  <1>6. K = CrcBytes + 1
    OBVIOUS
  <1> HIDE DEF K
  <1> QED
    BY <1>1, <1>3, <1>5, <1>6, WritingFacts

(* Power loss keeps the configuration or leaves an invalid sector.         *)
LEMMA PowerLossKeeps ==
  ASSUME ConfigInv, PowerLoss
  PROVE  ConfigInv' /\ (Valid(sector') => sector' = sector)
  <1>1. /\ stage' = "off" /\ todo' = None /\ n' = n /\ conf' = conf
        /\ seen' = seen /\ asked' = asked /\ acked' = acked
    BY DEF PowerLoss
  <1>2. /\ sector' \in Sectors /\ Covered(sector')
        /\ (Valid(sector') => sector' = sector)
        /\ stage /= "erase" => sector' = sector
    <2>1. sector \in Sectors /\ Covered(sector)
      BY DEF ConfigInv, TypeOK, CrcCovers
    <2>2. CASE stage /= "erase"
      BY <2>1, <2>2 DEF PowerLoss
    <2>3. CASE stage = "erase"
      <3>1. PICK C, D : sector' = PartlyErased(sector, C, D)
        BY <2>3 DEF PowerLoss
      <3> QED
        BY <2>1, <2>3, <3>1, EraseKeepsCovered
    <2> QED
      BY <2>2, <2>3
  <1>3. TypeOK'
    BY <1>1, <1>2 DEF ConfigInv, TypeOK
  <1>4. Durable'
    BY <1>1, <1>2 DEF ConfigInv, Durable, Underway
  <1> QED
    BY <1>1, <1>2, <1>3, <1>4
    DEF ConfigInv, CrcCovers, AtCrc, AtData, Underway, ValidWhenIdle, Writes

(* A valid configuration is used, or changed by a command.                 *)
LEMMA ReturnKeeps ==
  ASSUME ConfigInv, Valid(sector), NEW t \in Calls, Return(t), todo' = None,
         sector' = sector, n' \in Nat
  PROVE  ConfigInv'
  <1>1. sector \in Sectors /\ Covered(sector) /\ sector.data \in Data
    BY DEF ConfigInv, TypeOK, CrcCovers, Sectors
  <1>2. CASE t = Use
    <2>1. /\ stage' = "idle" /\ seen' = sector.data
          /\ conf' = conf /\ asked' = asked /\ acked' = acked
      BY <1>2 DEF Return
    <2>2. TypeOK'
      BY <1>1, <2>1 DEF ConfigInv, TypeOK
    <2> QED
      BY <1>1, <2>1, <2>2
      DEF ConfigInv, CrcCovers, AtCrc, AtData, Underway, Durable,
          ValidWhenIdle, Writes
  <1>3. CASE t /= Use
    <2>1. /\ stage' = "erase" /\ acked' = None /\ seen' = seen
          /\ conf' = With(sector.data, Target(t[1]), t[2])
          /\ asked' = Meant(sector.data, t[1], t[2])
      BY <1>3 DEF Return
    <2>2. /\ t[1] \in NetworkCommands /\ Target(t[1]) \in NetworkCommands
          /\ t[2] \in Addresses
      BY <1>3, ConfigAssumption, Zenon DEF Calls, Target, NetworkCommands
    <2>3. conf' \in Data /\ asked' \in Data
      BY <1>1, <2>1, <2>2, WithData DEF Meant
    <2>4. TypeOK'
      BY <1>1, <2>1, <2>3 DEF ConfigInv, TypeOK
    <2> QED
      BY <1>1, <2>1, <2>4
      DEF ConfigInv, CrcCovers, AtCrc, AtData, Underway, Durable,
          ValidWhenIdle, Writes
  <1> QED
    BY <1>2, <1>3

(* Every step keeps the invariant.                                         *)
LEMMA NextKeeps ==
  ASSUME ~Failures, ConfigInv, [Next]_vars
  PROVE  ConfigInv'
  <1>1. ASSUME NEW t \in Calls, Call(t) PROVE ConfigInv'
    <2>1. Valid(sector) /\ sector' = sector /\ n' = n /\ n \in Nat
      BY <1>1 DEF Call, ConfigInv, ValidWhenIdle, TypeOK
    <2>2. Return(t) /\ todo' = None
      BY <1>1, <2>1 DEF Call, config_get
    <2> QED
      BY <2>1, <2>2, ReturnKeeps
  <1>2. CASE Boot
    <2>1. sector' = sector /\ n' = n /\ n \in Nat /\ stage = "off" /\ Use \in Calls
      BY <1>2 DEF Boot, ConfigInv, TypeOK, Calls
    <2>2. CASE Valid(sector)
      <3>1. Return(Use) /\ todo' = None
        BY <1>2, <2>2 DEF Boot, config_get
      <3> QED
        BY <2>1, <2>2, <3>1, ReturnKeeps
    <2>3. CASE ~Valid(sector)
      <3>1. /\ stage' = "erase" /\ conf' = Default /\ todo' = Use
            /\ acked' = None /\ seen' = seen /\ asked' = asked
        BY <1>2, <2>3 DEF Boot, config_get
      <3>2. TypeOK'
        BY <2>1, <3>1, ConfigAssumption DEF ConfigInv, TypeOK
      <3>3. CrcCovers'
        BY <2>1 DEF ConfigInv, CrcCovers
      <3> QED
        BY <3>1, <3>2, <3>3
        DEF ConfigInv, AtCrc, AtData, Underway, Durable, ValidWhenIdle
    <2> QED
      BY <2>2, <2>3
  <1>3. CASE eeprom_erase
    <2>1. /\ sector' = Blank /\ n' = 1 /\ conf' = conf /\ todo' = todo
          /\ seen' = seen /\ asked' = asked /\ acked' = acked
          /\ stage' = "crc" /\ stage = "erase"
      BY <1>3 DEF eeprom_erase
    <2>2. TypeOK'
      BY <2>1, BlankFacts DEF ConfigInv, TypeOK, Writes
    <2>3. CrcCovers'
      BY <2>1, BlankFacts DEF CrcCovers
    <2>4. AtCrc'
      <3>1. Blank = [crc |-> CrcUpTo(conf, 1), data |-> Blank.data]
        BY CrcStart, Zenon DEF Blank
      <3>2. 1 \in 1 .. CrcBytes + 1
        BY EepromAssumption
      <3> QED
        BY <2>1, <3>1, <3>2 DEF AtCrc
    <2> QED
      BY <2>1, <2>2, <2>3, <2>4
      DEF ConfigInv, AtData, Underway, Durable, ValidWhenIdle, Writes
  <1>4. CASE ProgramByte
    BY <1>4, ProgramByteKeeps
  <1>5. CASE CrcReturns
    <2>1. /\ sector' = sector /\ n' = 1 /\ conf' = conf /\ todo' = todo
          /\ seen' = seen /\ asked' = asked /\ acked' = acked
          /\ stage' = "data" /\ stage = "crc" /\ n > CrcBytes
      BY <1>5 DEF CrcReturns, WriteLength
    <2>2. TypeOK'
      BY <2>1 DEF ConfigInv, TypeOK, Writes
    <2>3. AtData'
      <3>1. /\ n \in 1 .. CrcBytes + 1 /\ conf \in Data
            /\ sector = [crc |-> CrcUpTo(conf, n), data |-> Blank.data]
        BY <2>1 DEF ConfigInv, AtCrc, TypeOK
      <3>2. n = CrcBytes + 1 /\ 1 \in 1 .. DataBytes + 1
        BY <2>1, <3>1, EepromAssumption
      <3>3. DataUpTo(conf, 1) = Blank.data
        BY <3>1, <3>2, DataUpToFacts
      <3> QED
        BY <2>1, <3>1, <3>2, <3>3 DEF AtData
    <2> QED
      BY <2>1, <2>2, <2>3
      DEF ConfigInv, CrcCovers, AtCrc, Underway, Durable, ValidWhenIdle, Writes
  <1>6. CASE DataReturns
    <2>1. Valid(sector) /\ sector.data = conf
      BY <1>6, DataComplete
    <2>2. /\ sector' = sector /\ n' = 1 /\ todo' = None /\ stage = "data"
          /\ todo \in {None, Use} /\ None /= Use /\ Use \in Calls
      BY <1>6, ConfigAssumption
      DEF DataReturns, ConfigInv, Underway, Writes, Calls, Use
    <2>3. CASE todo = Use
      <3>1. Return(Use)
        BY <1>6, <2>2, <2>3 DEF DataReturns
      <3> QED
        BY <2>1, <2>2, <3>1, ReturnKeeps
    <2>4. CASE todo = None
      <3>1. /\ stage' = "idle" /\ acked' = conf /\ conf' = conf
            /\ seen' = seen /\ asked' = asked
        BY <1>6, <2>4 DEF DataReturns
      <3>2. TypeOK'
        BY <2>2, <3>1 DEF ConfigInv, TypeOK
      <3> QED
        BY <2>1, <2>2, <3>1, <3>2
        DEF ConfigInv, CrcCovers, AtCrc, AtData, Underway, Durable,
            ValidWhenIdle, Writes
    <2> QED
      BY <2>2, <2>3, <2>4
  <1>7. CASE PowerLoss
    BY <1>7, PowerLossKeeps
  <1>8. CASE UNCHANGED vars
    BY <1>8
    DEF vars, ConfigInv, TypeOK, CrcCovers, AtCrc, AtData, Underway, Durable,
        ValidWhenIdle
  <1> QED
    BY <1>1, <1>2, <1>3, <1>4, <1>5, <1>6, <1>7, <1>8 DEF Next

(* With working flash, for all addresses: a completed command survives     *)
(* power loss, and whenever config_get() has returned the flash holds a    *)
(* valid configuration (config_get() and config_write()).                  *)
LEMMA ConfigSafety ==
  ASSUME ~Failures
  PROVE  Spec => [](TypeOK /\ Durable /\ ValidWhenIdle /\ CrcCovers)
  <1>1. ConfigInv /\ [Next]_vars => ConfigInv'
    BY NextKeeps
  <1>2. ConfigInv => TypeOK /\ Durable /\ ValidWhenIdle /\ CrcCovers
    BY DEF ConfigInv
  <1> QED
    BY <1>1, <1>2, InitEstablishes, PTL DEF Spec

(* The sector, config and the progress of a write keep their types.        *)
THEOREM ConfigTypes ==
  ASSUME ~Failures
  PROVE  Spec => []TypeOK
  BY ConfigSafety, PTL

(* A change whose command has returned survives a power loss (config_write).*)
THEOREM AcknowledgedIsDurable ==
  ASSUME ~Failures
  PROVE  Spec => []Durable
  BY ConfigSafety, PTL

(* config_get leaves a valid configuration behind.                         *)
THEOREM IdleIsValid ==
  ASSUME ~Failures
  PROVE  Spec => []ValidWhenIdle
  BY ConfigSafety, PTL

(* No interrupted erase or write leaves a CRC that matches other data.     *)
THEOREM ConfigCrcCovers ==
  ASSUME ~Failures
  PROVE  Spec => []CrcCovers
  BY ConfigSafety, PTL

(* With working flash, for all addresses and whenever the power goes, what *)
(* config_get() returns is the default or the whole result of commands.    *)
THEOREM ConfigImplementsCell ==
  ASSUME ~Failures
  PROVE  Spec => ImplementsCell
  <1> DEFINE view == IF Valid(sector) THEN sector.data ELSE Default
             pending == IF stage \in {"off", "idle"} THEN None ELSE conf
  <1>1. Init => Cell!CellInit
    <2> SUFFICES ASSUME Init PROVE Cell!CellInit
      OBVIOUS
    <2>1. ~Valid(sector)
      BY BlankFacts DEF Init, Sectors
    <2> QED
      BY <2>1 DEF Init, Cell!CellInit
  <1>2. ConfigInv /\ ConfigInv' /\ [Next]_vars
          => [Cell!CellNext]_(Cell!cellVars)
    <2> SUFFICES ASSUME ConfigInv, ConfigInv', [Next]_vars
                 PROVE  Cell!CellNext \/ UNCHANGED Cell!cellVars
      OBVIOUS
    <2>1. sector' = sector => view' = view
      BY DEF Valid
    <2>2. conf \in Data /\ None \notin Data /\ None /= Use /\ Use \in Calls
      BY ConfigAssumption DEF ConfigInv, TypeOK, Use, Calls
    <2>3. ASSUME NEW t \in Calls, Call(t) PROVE Cell!CellNext
      <3>1. /\ Valid(sector) /\ Return(t) /\ stage = "idle" /\ sector' = sector
            /\ view = sector.data
        BY <2>3 DEF Call, ConfigInv, ValidWhenIdle, config_get
      <3>2. CASE t = Use
        <4>1. Cell!Read
          BY <2>1, <3>1, <3>2 DEF Return, Cell!Read
        <4> QED
          BY <4>1 DEF Cell!CellNext
      <3>3. CASE t /= Use
        <4>1. /\ Target(t[1]) \in NetworkCommands /\ t[2] \in Addresses
          BY <3>3, ConfigAssumption, Zenon DEF Calls, Target, NetworkCommands
        <4>2. conf' \in Results(view)
          BY <3>1, <3>3, <4>1 DEF Return, Results
        <4>3. /\ pending = None /\ pending' = conf' /\ seen' = seen
          BY <3>1, <3>3 DEF Return
        <4>4. Cell!Request
          BY <2>1, <3>1, <4>2, <4>3 DEF Cell!Request
        <4> QED
          BY <4>4 DEF Cell!CellNext
      <3> QED
        BY <3>2, <3>3
    <2>4. CASE Boot
      <3>1. CASE Valid(sector)
        <4>1. Cell!Read
          BY <2>1, <2>4, <3>1 DEF Boot, config_get, Return, Cell!Read
        <4> QED
          BY <4>1 DEF Cell!CellNext
      <3>2. CASE ~Valid(sector)
        <4>1. Cell!Request
          BY <2>1, <2>4, <3>2 DEF Boot, config_get, Cell!Request
        <4> QED
          BY <4>1 DEF Cell!CellNext
      <3> QED
        BY <3>1, <3>2
    <2>5. CASE eeprom_erase
      <3>1. sector' = Blank
        BY <2>5 DEF eeprom_erase
      <3>2. ~Valid(sector')
        BY <3>1, BlankFacts DEF Sectors
      <3>3. Cell!Drop
        BY <2>2, <2>5, <3>2 DEF eeprom_erase, Cell!Drop
      <3> QED
        BY <3>3 DEF Cell!CellNext
    <2>6. CASE ProgramByte
      <3>1. /\ stage \in Writes /\ stage' = stage /\ conf' = conf
            /\ seen' = seen
        BY <2>6 DEF ProgramByte
      <3>2. pending = conf /\ pending' = pending
        BY <3>1 DEF Writes
      <3>3. /\ Valid(sector) => Valid(sector') /\ sector.data = conf
            /\ Valid(sector') => sector'.data = conf
        BY <2>6, ProgramByteKeeps
      <3>4. view' = view \/ (view = Default /\ view' = conf)
        BY <3>3
      <3> QED
        BY <3>1, <3>2, <3>4 DEF Cell!CellNext, Cell!Publish, Cell!cellVars
    <2>7. CASE CrcReturns
      BY <2>1, <2>7 DEF CrcReturns, Cell!cellVars
    <2>8. CASE DataReturns
      <3>1. /\ Valid(sector) /\ sector.data = conf /\ sector' = sector
            /\ stage = "data" /\ (todo = None \/ todo = Use)
        BY <2>8, DataComplete DEF DataReturns, ConfigInv, Underway, Writes
      <3>2. pending = view /\ view = conf
        BY <3>1
      <3>3. stage' = "idle" /\ (seen' = seen \/ seen' = view)
        BY <2>2, <2>8, <3>1 DEF DataReturns, Return
      <3>4. Cell!Complete
        BY <2>1, <3>1, <3>2, <3>3 DEF Cell!Complete
      <3> QED
        BY <3>4 DEF Cell!CellNext
    <2>9. CASE PowerLoss
      <3>1. view' = view \/ view' = Default
        BY <2>1, <2>9, PowerLossKeeps
      <3>2. Cell!Lose
        BY <2>9, <3>1 DEF PowerLoss, Cell!Lose
      <3> QED
        BY <3>2 DEF Cell!CellNext
    <2>10. CASE UNCHANGED vars
      BY <2>1, <2>10 DEF vars, Cell!cellVars
    <2> QED
      BY <2>3, <2>4, <2>5, <2>6, <2>7, <2>8, <2>9, <2>10 DEF Next
  <1>3. ConfigInv /\ [Next]_vars => ConfigInv'
    BY NextKeeps
  <1> QED
    BY <1>1, <1>2, <1>3, InitEstablishes, PTL
    DEF Spec, ImplementsCell, Cell!CellSpec
=============================================================================
