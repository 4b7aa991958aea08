---------------------------- MODULE StartupStore ----------------------------
(***************************************************************************)
(* STARTup:SAVe, STARTup:CLEAR and the startup program at boot             *)
(* (commands.c), with the flash programmed byte by byte and power loss at  *)
(* any moment.  The data of the sector is the length of the program (one   *)
(* byte here) and the bytes of the queue.                                  *)
(***************************************************************************)
EXTENDS Eeprom

CONSTANTS
  Programs, \* byte sequences the queue may hold
  None,     \* no program
  Failures  \* whether flash operations may fail

ASSUME StartupAssumption ==
  /\ <<>> \in Programs
  /\ \A p \in Programs : p \in Seq(Byte) /\ Len(p) < DataBytes
                                         /\ Len(p) < Erased
  /\ None \notin Seq(Byte)
  /\ Failures \in BOOLEAN

VARIABLES
  sector,   \* STARTUP_EEPROM
  commands, \* the queue in RAM
  stage,    \* "off", "idle", or what startup_command_save is at
  n,        \* the byte eeprom_write is at
  saving,   \* the erase belongs to startup_command_save
  ran,      \* the program the last boot ran
  saved     \* history: the program of the last completed save

vars == <<sector, commands, stage, n, saving, ran, saved>>

Writes == {"len", "body", "crc"}

TypeOK ==
  /\ sector \in Sectors
  /\ commands \in Programs
  /\ stage \in {"off", "idle", "erase"} \cup Writes
  /\ n \in Nat
  /\ saving \in BOOLEAN
  /\ ran \in Seq(Byte) \cup {None}
  /\ saved \in Programs \cup {None}

(* A new device: the sector is erased.                                     *)
Init ==
  /\ sector = Blank
  /\ commands = <<>>
  /\ stage = "off"
  /\ n = 1
  /\ saving = FALSE
  /\ ran = None
  /\ saved = None

(* The program between begin and end.  With an erased length end wraps     *)
(* around to a place before begin, and nothing is executed.                *)
Decoded(s) == IF s.data[1] = Erased THEN <<>>
                                    ELSE SubSeq(s.data, 2, s.data[1] + 1)

Stored == IF Valid(sector) THEN Decoded(sector) ELSE None

-----------------------------------------------------------------------------
(* The queue changes between SCPI commands (CommandList has the details).  *)
SetCommands(p) ==
  /\ stage = "idle"
  /\ commands' = p
  /\ UNCHANGED <<sector, stage, n, saving, ran, saved>>

startup_command_clear ==
  /\ stage = "idle"
  /\ stage' = "erase"
  /\ saving' = FALSE
  /\ saved' = None
  /\ UNCHANGED <<sector, commands, n, ran>>

(* Mutant of startup_command_save: the sector is not erased first.         *)
startup_command_save_over ==
  /\ stage = "idle"
  /\ stage' = "len"
  /\ saving' = TRUE
  /\ saved' = None
  /\ n' = 1
  /\ UNCHANGED <<sector, commands, ran>>

startup_command_save ==
  /\ stage = "idle"
  /\ stage' = "erase"
  /\ saving' = TRUE
  /\ saved' = None
  /\ UNCHANGED <<sector, commands, n, ran>>

(* eeprom_erase(); the callers ignore its result.                          *)
eeprom_erase ==
  /\ stage = "erase"
  /\ sector' = Blank \/ (Failures /\ sector' = sector)
  /\ stage' = IF saving THEN "len" ELSE "idle"
  /\ n' = 1
  /\ UNCHANGED <<commands, saving, ran, saved>>

(* The bytes of the three eeprom_write() calls of startup_command_save.    *)
WriteLength == CASE stage = "len" -> 1
                 [] stage = "body" -> Len(commands)
                 [] stage = "crc" -> CrcBytes

(* Mutant of ProgramByte: the program starts at the place of the length.   *)
ProgramByte_at_length ==
  /\ stage \in Writes
  /\ n <= WriteLength
  /\ sector' = CASE stage = "len" -> ProgramData(sector, 1, Len(commands))
                 [] stage = "body" -> ProgramData(sector, n, commands[n])
                 [] stage = "crc" -> ProgramCrc(sector, n, sector.data)
  /\ n' = n + 1
  /\ UNCHANGED <<commands, stage, saving, ran, saved>>

(* One turn of the loop of eeprom_write().  The CRC is that of the flash.  *)
ProgramByte ==
  /\ stage \in Writes
  /\ n <= WriteLength
  /\ sector' = CASE stage = "len" -> ProgramData(sector, 1, Len(commands))
                 [] stage = "body" -> ProgramData(sector, n + 1, commands[n])
                 [] stage = "crc" -> ProgramCrc(sector, n, sector.data)
  /\ n' = n + 1
  /\ UNCHANGED <<commands, stage, saving, ran, saved>>

(* Mutant of WriteReturns: the CRC is stored before the program.           *)
WriteReturns_crc_first ==
  /\ stage \in Writes
  /\ n > WriteLength \/ Failures
  /\ stage' = CASE stage = "len" -> "crc"
                [] stage = "crc" -> "body"
                [] stage = "body" -> "idle"
  /\ n' = 1
  /\ saved' = saved
  /\ UNCHANGED <<sector, commands, saving, ran>>

(* eeprom_write() returns, early if FLASH_ProgramByte() fails; the callers *)
(* ignore its result.                                                      *)
WriteReturns ==
  /\ stage \in Writes
  /\ n > WriteLength \/ Failures
  /\ stage' = CASE stage = "len" -> "body"
                [] stage = "body" -> "crc"
                [] stage = "crc" -> "idle"
  /\ n' = 1
  /\ saved' = IF stage = "crc" /\ n > WriteLength THEN commands ELSE saved
  /\ UNCHANGED <<sector, commands, saving, ran>>

PowerLoss ==
  /\ stage /= "off"
  /\ stage' = "off"
  /\ commands' = <<>>
  /\ \/ stage /= "erase" /\ UNCHANGED sector
     \/ /\ stage = "erase"
        /\ \E C \in SUBSET (1 .. CrcBytes), D \in SUBSET (1 .. DataBytes) :
             sector' = PartlyErased(sector, C, D)
  /\ UNCHANGED <<n, saving, ran, saved>>

(* Mutant of Boot: the CRC is not checked.                                 *)
Boot_unchecked ==
  /\ stage = "off"
  /\ stage' = "idle"
  /\ ran' = Decoded(sector)
  /\ UNCHANGED <<sector, commands, n, saving, saved>>

(* ad9910_init(): startup_command_execute().                               *)
Boot ==
  /\ stage = "off"
  /\ stage' = "idle"
  /\ ran' = Stored
  /\ UNCHANGED <<sector, commands, n, saving, saved>>

(* ad9910_init() with the red button pressed: startup_command_clear().     *)
BootCleared ==
  /\ stage = "off"
  /\ stage' = "erase"
  /\ ran' = None
  /\ saving' = FALSE
  /\ saved' = None
  /\ UNCHANGED <<sector, commands, n>>

Next ==
  \/ \E p \in Programs : SetCommands(p)
  \/ startup_command_clear
  \/ startup_command_save
  \/ eeprom_erase
  \/ ProgramByte
  \/ WriteReturns
  \/ PowerLoss
  \/ Boot
  \/ BootCleared

Spec == Init /\ [][Next]_vars

-----------------------------------------------------------------------------
(* A completed save is in the flash, through power loss and boots, until   *)
(* the next save or clear begins.                                          *)
SavedBoots == saved /= None => Stored = saved

(* What a boot executes is a program, never a part of one.                 *)
RunsWholeCommands == ran \in Programs \cup {None}

(* Erasing never turns a sector with a stale CRC into a valid one: where   *)
(* there is a CRC, the data is what it was computed from or erased.        *)
CrcCovers == Covered(sector)

Store == INSTANCE ProgramStore WITH stored <- Stored

(* Whenever the power goes, the next boot runs nothing or a program that   *)
(* was saved as a whole.                                                   *)
ImplementsStore == Store!StoreSpec
=============================================================================
