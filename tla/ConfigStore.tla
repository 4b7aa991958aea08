----------------------------- MODULE ConfigStore -----------------------------
(***************************************************************************)
(* The network configuration in flash (config.c) and the commands that     *)
(* change it (SYSTem:NETwork, scpi.c), with power loss at any moment.      *)
(* config_write() erases the sector, writes the CRC and then the data;     *)
(* config_get() checks the CRC and rewrites the default if it is wrong.    *)
(***************************************************************************)
EXTENDS Eeprom

CONSTANTS
  Default,   \* default_config
  Width,     \* bytes of an address
  Addresses, \* the numbers of an address a client sends, Width or fewer
  None,      \* no configuration
  Failures   \* whether flash operations may fail

NetworkCommands == {"address", "submask", "gateway"}

ASSUME ConfigAssumption ==
  /\ Default \in Data
  /\ Width \in Nat \ {0}
  /\ DataBytes = 3 * Width
  /\ \A v \in Addresses : \E k \in 0 .. Width : v \in [1 .. k -> Nat]
  /\ None \notin Data \cup {<<>>}
  /\ Failures \in BOOLEAN

VARIABLES
  sector, \* CONFIG_EEPROM
  stage,  \* "off", "idle", or what config_write is at
  n,      \* the byte eeprom_write is at
  conf,   \* the argument of config_write
  todo,   \* what follows when config_get has rewritten the default
  seen,   \* the configuration the network stack or a query got last
  asked,  \* history: the configuration the last command asks for
  acked   \* history: what the last command wrote, once it is complete

vars == <<sector, stage, n, conf, todo, seen, asked, acked>>

Writes == {"crc", "data"}

(* What is done with the result of config_get(): nothing more than using   *)
(* it, or setting a field to an address.                                   *)
Use == <<>>
Calls == {Use} \cup (NetworkCommands \X Addresses)

TypeOK ==
  /\ sector \in Sectors
  /\ stage \in {"off", "idle", "erase"} \cup Writes
  /\ n \in Nat
  /\ conf \in Data
  /\ todo \in Calls \cup {None}
  /\ seen \in Data \cup {None}
  /\ asked \in Data \cup {None}
  /\ acked \in Data \cup {None}

(* A new device: the sector is erased.                                     *)
Init ==
  /\ sector = Blank
  /\ stage = "off"
  /\ n = 1
  /\ conf = Default
  /\ todo = None
  /\ seen = None
  /\ asked = None
  /\ acked = None

-----------------------------------------------------------------------------
(* struct ethernet_config, and the field that each command parses into.    *)
Offset(f) == CASE f = "address" -> 0
               [] f = "submask" -> Width
               [] f = "gateway" -> 2 * Width

Target(f) == IF f = "gateway" THEN "submask" ELSE f

(* scpi_param_ip_address(): sscanf() stores the numbers it finds, modulo   *)
(* 256.  The callers do not see that there were too few: they test for 0,  *)
(* and SCPI_RES_ERR is -1.                                                 *)
With(d, f, v) ==
  [j \in DOMAIN d |->
     IF j - Offset(f) \in DOMAIN v THEN v[j - Offset(f)] % 256 ELSE d[j]]

(* What a command asks for: a malformed address is to change nothing.      *)
Meant(d, f, v) == IF DOMAIN v = 1 .. Width THEN With(d, f, v) ELSE d

(* Mutant of Return: a command changes a copy of the default.              *)
Return_default(t) ==
  \/ /\ t = Use
     /\ stage' = "idle"
     /\ seen' = sector.data
     /\ UNCHANGED <<conf, asked, acked>>
  \/ /\ t /= Use
     /\ stage' = "erase"
     /\ conf' = With(Default, Target(t[1]), t[2])
     /\ asked' = Meant(Default, t[1], t[2])
     /\ acked' = None
     /\ UNCHANGED seen

(* config_get() returns a pointer into the flash, to the network stack or  *)
(* a query, or to a command that changes a copy and calls config_write().  *)
Return(t) ==
  \/ /\ t = Use
     /\ stage' = "idle"
     /\ seen' = sector.data
     /\ UNCHANGED <<conf, asked, acked>>
  \/ /\ t /= Use
     /\ stage' = "erase"
     /\ conf' = With(sector.data, Target(t[1]), t[2])
     /\ asked' = Meant(sector.data, t[1], t[2])
     /\ acked' = None
     /\ UNCHANGED seen

(* Mutant of config_get: the default is not written.                       *)
config_get_no_write(t) ==
  /\ todo' = None
  /\ Return(t)

config_get(t) ==
  \/ /\ Valid(sector)
     /\ todo' = None
     /\ Return(t)
  \/ /\ ~Valid(sector)
     /\ stage' = "erase"
     /\ conf' = Default
     /\ todo' = t
     /\ acked' = None
     /\ UNCHANGED <<seen, asked>>

(* Link changes, queries and commands.                                     *)
Call(t) ==
  /\ stage = "idle"
  /\ config_get(t)
  /\ UNCHANGED <<sector, n>>

(* lwip_init reads the configuration before anything else does.            *)
Boot ==
  /\ stage = "off"
  /\ config_get(Use)
  /\ UNCHANGED <<sector, n>>

(* Mutant of eeprom_erase: the sector keeps its data.                      *)
eeprom_erase_crc_only ==
  /\ stage = "erase"
  /\ sector' = [Blank EXCEPT !.data = sector.data]
  /\ stage' = "crc"
  /\ n' = 1
  /\ UNCHANGED <<conf, todo, seen, asked, acked>>

eeprom_erase ==
  /\ stage = "erase"
  /\ sector' = Blank \/ (Failures /\ sector' = sector)
  /\ stage' = "crc"
  /\ n' = 1
  /\ UNCHANGED <<conf, todo, seen, asked, acked>>

WriteLength == IF stage = "crc" THEN CrcBytes ELSE DataBytes

(* One turn of the loop of eeprom_write(), in the order of config_write(). *)
ProgramByte ==
  /\ stage \in Writes
  /\ n <= WriteLength
  /\ sector' = IF stage = "crc" THEN ProgramCrc(sector, n, conf)
                                ELSE ProgramData(sector, n, conf[n])
  /\ n' = n + 1
  /\ UNCHANGED <<stage, conf, todo, seen, asked, acked>>

(* The write of the CRC returns, early if FLASH_ProgramByte() fails.       *)
CrcReturns ==
  /\ stage = "crc"
  /\ n > WriteLength \/ Failures
  /\ stage' = "data"
  /\ n' = 1
  /\ UNCHANGED <<sector, conf, todo, seen, asked, acked>>

(* Mutant of DataReturns: the last byte is not written.                    *)
DataReturns_early ==
  /\ stage = "data"
  /\ n >= WriteLength
  /\ n' = 1
  /\ todo' = None
  /\ \/ /\ todo = None
        /\ stage' = "idle"
        /\ acked' = conf
        /\ UNCHANGED <<conf, seen, asked>>
     \/ /\ todo /= None
        /\ Return(todo)
  /\ UNCHANGED sector

(* config_write() returns to a command, or to config_get() and its caller. *)
DataReturns ==
  /\ stage = "data"
  /\ n > WriteLength \/ Failures
  /\ n' = 1
  /\ todo' = None
  /\ \/ /\ todo = None
        /\ stage' = "idle"
        /\ acked' = conf
        /\ UNCHANGED <<conf, seen, asked>>
     \/ /\ todo /= None
        /\ Return(todo)
  /\ UNCHANGED sector

PowerLoss ==
  /\ stage /= "off"
  /\ stage' = "off"
  /\ todo' = None
  /\ \/ stage /= "erase" /\ UNCHANGED sector
     \/ /\ stage = "erase"
        /\ \E C \in SUBSET (1 .. CrcBytes), D \in SUBSET (1 .. DataBytes) :
             sector' = PartlyErased(sector, C, D)
  /\ UNCHANGED <<n, conf, seen, asked, acked>>

Next ==
  \/ \E t \in Calls : Call(t)
  \/ Boot
  \/ eeprom_erase
  \/ ProgramByte
  \/ CrcReturns
  \/ DataReturns
  \/ PowerLoss

Spec == Init /\ [][Next]_vars

-----------------------------------------------------------------------------
(* A command that has completed is in the flash, through power loss and    *)
(* boots, until another change begins.                                     *)
Durable == acked /= None => Valid(sector) /\ sector.data = acked

(* SYSTem:NETwork:ADDRess, :SUBmask and :GATEway change the field they     *)
(* name, and no other; a command that is answered with an error changes    *)
(* nothing (scpi-protocol.txt, scpi_callback_system_network_gateway).      *)
AsAsked == acked /= None => acked = asked

(* "if the crc check fails we reset the config": when config_get() has     *)
(* returned, the flash holds a valid configuration.                        *)
ValidWhenIdle == stage = "idle" => Valid(sector)

(* No interrupted erase or write makes a stale CRC match: where there is a *)
(* CRC, the data is what it was computed from or erased.                   *)
CrcCovers == Covered(sector)

Results(d) == {With(d, f, v) : f \in NetworkCommands, v \in Addresses}

Cell == INSTANCE ConfigCell WITH
  view <- IF Valid(sector) THEN sector.data ELSE Default,
  pending <- IF stage \in {"off", "idle"} THEN None ELSE conf

(* The configuration in use is the default or the whole result of commands,*)
(* whenever the power goes.                                                *)
ImplementsCell == Cell!CellSpec
=============================================================================
