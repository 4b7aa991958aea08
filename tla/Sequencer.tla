----------------------------- MODULE Sequencer -----------------------------
(***************************************************************************)
(* Setup mode and run mode: SCPI commands either act on the DDS at once    *)
(* (MODE NORMal) or are queued (MODE PROGram); MODE EXECute replays the    *)
(* queue.  Register changes of a program are collected in the driver's     *)
(* copy and sent by the spi_write command that command_queue_register puts *)
(* behind them; they become active with an update command or an external   *)
(* trigger.                                                                *)
(***************************************************************************)
EXTENDS CommandList, Ad9910

CONSTANTS
  ParallelEnable, \* the field ad9910_parallel_data_port_enable
  Pins,           \* the pins that command_pin may switch
  Startup         \* the programs SEQuence:STARTup:SAVE may have stored

ASSUME SequencerAssumption ==
  /\ ParallelEnable \in Fields /\ FieldReg[ParallelEnable] /= cfr3
  /\ Arg[command_type_register] \subseteq Fields \X Nat
  /\ \A a \in Arg[command_type_register] : FieldReg[a[1]] /= cfr3
  /\ Arg[command_type_pin] \subseteq Pins \X {0, 1}
  /\ \A t \in Types : t \in Plain /\ Sizeof[t] = 0 => Arg[t] \subseteq {NoArg}

(* The queue is not lost: waits are shorter than 28 hours and repeats of a *)
(* parallel command fewer than 10^8, so no payload of theirs ends in the   *)
(* byte 6 that find_last_command could take for a spi_write.  (A register  *)
(* command is the last one only in a full queue, where the spi_write put   *)
(* in place of such a byte is that byte.)                                  *)
ASSUME PayloadAssumption == \A t \in Types : Arg[t] \cap WriteLike = {}

(* A saved program is a list of whole commands, run once.                  *)
ASSUME StartupAssumption ==
  \A q \in Startup : q \in Queues /\ q.repeat = 0 /\ q.intact /\ Grouped(q)
                      /\ Len(q.list) <= q.end

VARIABLES
  dds,                  \* registers: shadow, buffered and active values
  update_registers,     \* addresses of registers changed but not yet sent
  pins,                 \* levels of the output pins
  current_mode,         \* scpi_mode
  command_execute_flag, \* MODE EXECute was received
  wait,                 \* stage of execute_command_trigger, "no" outside
  ext,                  \* level of the external signal on IO_UPDATE
  booting,              \* startup_command_execute runs the saved program
  truncated             \* history: a list that lost its last spi_write ran,
                        \* and no spi_write since

seqVars == <<dds, update_registers, pins, current_mode, command_execute_flag,
             wait, ext, booting, truncated>>
vars == <<listVars, seqVars>>

TypeOK ==
  /\ ListTypeOK
  /\ dds \in Dds
  /\ update_registers \in SUBSET {address(r) : r \in Registers}
  /\ pins \in [Pins -> {0, 1}]
  /\ current_mode \in {"normal", "program"}
  /\ command_execute_flag \in BOOLEAN
  /\ wait \in {"no", "high", "low"}
  /\ ext \in {0, 1}
  /\ booting \in BOOLEAN
  /\ truncated \in BOOLEAN

(* startup_command_execute() reads a queue of its own from the flash; it   *)
(* stands in `commands', which is empty and not used before ad9910_init    *)
(* returns.                                                                *)
startup_command_execute ==
  /\ booting = TRUE
  /\ commands \in Startup
  /\ pos = 1
  /\ pass = 0

(* The last lines of ad9910_init, on a chip that may not have been reset:  *)
(* a saved program starts, unless its checksum is wrong or the red button  *)
(* is pressed.                                                             *)
Init ==
  /\ \/ booting = FALSE /\ ListInit
     \/ startup_command_execute
  /\ \E left \in Leftover : dds = ad9910_init(left)
  /\ update_registers = {}
  /\ pins = [p \in Pins |-> 0]
  /\ current_mode = "normal"
  /\ command_execute_flag = FALSE
  /\ wait = "no"
  /\ ext = 0
  /\ truncated = FALSE

(* scpi_process runs, and nothing blocks it.                               *)
Ready == Idle /\ wait = "no"

-----------------------------------------------------------------------------
(* The state of the chip after a command that does not wait.               *)

(* ad9910_execute_parallel: ad9910_enable_parallel(1) sets and sends the   *)
(* enable bit; the samples go to the parallel port.                        *)
enable_parallel(d) ==
  ad9910_update_matching_reg(ad9910_set_value(d, ParallelEnable, 1),
                             ParallelEnable)

(* execute_command_register(): set and send at once.                       *)
execute_command_register(d, a) ==
  ad9910_update_matching_reg(ad9910_set_value(d, a[1], a[2]), a[1])

(* execute_command_pin, _wait, _update, _parallel, _parallel_frequency.    *)
Effect(t, a) ==
  /\ dds' = CASE t = command_type_update -> ad9910_io_update(dds)
              [] t = command_type_parallel -> enable_parallel(dds)
              [] OTHER -> dds
  /\ pins' = IF t = command_type_pin THEN [pins EXCEPT ![a[1]] = a[2]]
                                     ELSE pins

(* Mutant of OpenTrigger: a level that is high already has no effect.      *)
OpenTrigger_no_edge ==
  /\ wait' = "high"
  /\ dds' = dds

(* execute_command_trigger makes IO_UPDATE an input, so the chip sees the  *)
(* external level: a level that is high already is an edge for the chip.   *)
OpenTrigger ==
  /\ wait' = "high"
  /\ dds' = IF ext = 1 THEN Latch(dds) ELSE dds

-----------------------------------------------------------------------------
(* SCPI commands (DEFINE_PROCESS_COMMAND).                                 *)

mode(m) ==
  /\ Ready
  /\ current_mode' = IF m = "execute" THEN "normal" ELSE m
  /\ command_execute_flag' = (command_execute_flag \/ m = "execute")
  /\ UNCHANGED <<listVars, dds, update_registers, pins, wait, ext, booting,
                 truncated>>

ProgramPlain(t, a) ==
  /\ Ready
  /\ current_mode = "program"
  /\ QueuePlain(t, a)
  /\ UNCHANGED seqVars

ProgramRegister(a) ==
  /\ Ready
  /\ current_mode = "program"
  /\ QueueRegister(a)
  /\ UNCHANGED seqVars

NormalPlain(t, a) ==
  /\ Ready
  /\ current_mode = "normal"
  /\ t /= command_type_trigger
  /\ Effect(t, a)
  /\ UNCHANGED <<listVars, update_registers, current_mode,
                 command_execute_flag, wait, ext, booting, truncated>>

NormalTrigger ==
  /\ Ready
  /\ current_mode = "normal"
  /\ OpenTrigger
  /\ UNCHANGED <<listVars, update_registers, pins, current_mode,
                 command_execute_flag, ext, booting, truncated>>

NormalRegister(a) ==
  /\ Ready
  /\ current_mode = "normal"
  /\ dds' = execute_command_register(dds, a)
  /\ UNCHANGED <<listVars, update_registers, pins, current_mode,
                 command_execute_flag, wait, ext, booting, truncated>>

SequenceClear ==
  /\ Ready
  /\ Clear
  /\ UNCHANGED seqVars

SequenceNcycles(n) ==
  /\ Ready
  /\ SetRepeat(n)
  /\ UNCHANGED seqVars

-----------------------------------------------------------------------------
(* commands_execute, called by ethernet_loop when the flag is set.         *)
Execute ==
  /\ Ready
  /\ command_execute_flag
  /\ Start
  /\ UNCHANGED seqVars

Current == commands.list[pos]
Running(t) == pos \in 1 .. Len(commands.list) /\ Current.type = t

(* execute_command_register_only(): set, and mark for the next spi_write.  *)
ExecRegister ==
  /\ Running(command_type_register)
  /\ dds' = ad9910_set_value(dds, Current.arg[1], Current.arg[2])
  /\ update_registers' =
       update_registers \cup {address(FieldReg[Current.arg[1]])}
  /\ ExecNext
  /\ UNCHANGED <<pins, current_mode, command_execute_flag, wait, ext,
                 booting, truncated>>

(* Mutant of ExecSpiWrite: the marks stay.                                 *)
ExecSpiWrite_marks_stay ==
  /\ Running(command_type_spi_write)
  /\ dds' = ad9910_update_multiple_regs(dds, update_registers)
  /\ ExecNext
  /\ UNCHANGED <<update_registers, pins, current_mode, command_execute_flag,
                 wait, ext, booting, truncated>>

ExecSpiWrite ==
  /\ Running(command_type_spi_write)
  /\ dds' = ad9910_update_multiple_regs(dds, update_registers)
  /\ update_registers' = {}
  /\ truncated' = FALSE
  /\ ExecNext
  /\ UNCHANGED <<pins, current_mode, command_execute_flag, wait, ext,
                 booting>>

ExecPlain ==
  /\ \E t \in Plain \ {command_type_trigger} : Running(t)
  /\ Effect(Current.type, Current.arg)
  /\ ExecNext
  /\ UNCHANGED <<update_registers, current_mode, command_execute_flag, wait,
                 ext, booting, truncated>>

ExecTrigger ==
  /\ Running(command_type_trigger)
  /\ wait = "no"
  /\ OpenTrigger
  /\ UNCHANGED <<listVars, update_registers, pins, current_mode,
                 command_execute_flag, ext, booting, truncated>>

(* while (gpio_get(IO_UPDATE) == 0) and while (gpio_get(IO_UPDATE) == 1)   *)
SeeHigh ==
  /\ wait = "high"
  /\ ext = 1
  /\ wait' = "low"
  /\ UNCHANGED <<listVars, dds, update_registers, pins, current_mode,
                 command_execute_flag, ext, booting, truncated>>

SeeLow ==
  /\ wait = "low"
  /\ ext = 0
  /\ wait' = "no"
  /\ IF Idle THEN UNCHANGED listVars ELSE ExecNext
  /\ UNCHANGED <<dds, update_registers, pins, current_mode,
                 command_execute_flag, ext, booting, truncated>>

(* startup_command_execute returns, and the queue of the SCPI commands is  *)
(* the empty one.                                                          *)
EndStartup ==
  /\ pos = Len(commands.list) + 1
  /\ commands' = Empty(0)
  /\ pos' = 0
  /\ pass' = 0

(* The end of a pass, and `command_execute_flag = 0' after the last one.   *)
ExecEnd ==
  /\ IF booting THEN EndStartup ELSE EndPass
  /\ booting' = FALSE
  /\ command_execute_flag' = (pass < commands.repeat)
  /\ truncated' = (truncated \/ EndsIn(commands, command_type_register))
  /\ UNCHANGED <<dds, update_registers, pins, current_mode, wait, ext>>

(* The trigger source.  Its edges reach the chip while the pin is an input.*)
ExtRise ==
  /\ ext = 0
  /\ ext' = 1
  /\ dds' = IF wait = "no" THEN dds ELSE Latch(dds)
  /\ UNCHANGED <<listVars, update_registers, pins, current_mode,
                 command_execute_flag, wait, booting, truncated>>

ExtFall ==
  /\ ext = 1
  /\ ext' = 0
  /\ UNCHANGED <<listVars, dds, update_registers, pins, current_mode,
                 command_execute_flag, wait, booting, truncated>>

Exec ==
  \/ ExecRegister
  \/ ExecSpiWrite
  \/ ExecPlain
  \/ ExecTrigger
  \/ ExecEnd

Next ==
  \/ \E m \in {"normal", "program", "execute"} : mode(m)
  \/ \E t \in Plain : \E a \in Arg[t] : ProgramPlain(t, a) \/ NormalPlain(t, a)
  \/ \E a \in Arg[command_type_register] : ProgramRegister(a)
                                        \/ NormalRegister(a)
  \/ NormalTrigger
  \/ SequenceClear
  \/ \E n \in Repeats : SequenceNcycles(n)
  \/ Execute
  \/ Exec
  \/ SeeHigh
  \/ SeeLow
  \/ ExtRise
  \/ ExtFall

Spec == Init /\ [][Next]_vars

(* The processor runs, and the trigger source keeps sending pulses, some   *)
(* of them long enough for the polling loops of execute_command_trigger.   *)
Fairness ==
  /\ WF_vars(Exec)
  /\ SF_vars(SeeHigh \/ SeeLow)
  /\ WF_vars(ExtRise \/ ExtFall)

FairSpec == Spec /\ Fairness

-----------------------------------------------------------------------------
(* A field whose value in the driver's copy differs from the chip's is     *)
(* marked for the next spi_write: no change is ever forgotten.             *)
NoLostUpdate ==
  \A f \in Fields :
    dds.shadow[f] /= dds.buffered[f]
      => address(FieldReg[f]) \in update_registers

(* Changes wait for their spi_write only while the program is between the  *)
(* register command and the spi_write.  Those of a program that lost its   *)
(* last spi_write wait for the first spi_write executed after it.          *)
MarkedInGroup ==
  update_registers /= {} =>
    \/ truncated
    \/ pos > 1 /\ commands.list[pos - 1].type = command_type_register

(* Behind an update or a trigger command all changes programmed before it  *)
(* are active, together, but for those of a program that lost its last     *)
(* spi_write: they stay behind until the next one.                         *)
ActiveAfterUpdate ==
  /\ pos > 1
  /\ commands.list[pos - 1].type \in {command_type_update,
                                      command_type_trigger}
  /\ ~truncated
  => dds.active = dds.shadow

(* The processor leaves the trigger command only after the chip saw the    *)
(* edge, with everything that had been sent by then.                       *)
TriggerLatches == wait = "low" => dds.active = dds.buffered

(* Outside run mode every register is in the chip as in the driver's copy. *)
SentWhenIdle == Idle /\ ~truncated => dds.buffered = dds.shadow

(* The settings of the PLL are active from ad9910_init on, and no program  *)
(* and no trigger ever changes the clock the chip runs with.               *)
PllActive == \A f \in Fields : FieldReg[f] = cfr3 => dds.active[f] = Preset[f]

(* Run mode ends, however many triggers the program waits for.             *)
ExecutionEnds == ~Idle ~> Idle
=============================================================================
