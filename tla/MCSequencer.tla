---------------------------- MODULE MCSequencer ----------------------------
(* Bounds for Sequencer.  Payloads are one byte, so six bytes hold the     *)
(* programs that matter: a register group with an update or a trigger      *)
(* behind it and a second one that is cut short, a parallel command with   *)
(* a group behind it whose spi_write the next register command misses, and *)
(* the ones that fill the queue to the last byte.                          *)
EXTENDS Sequencer

CONSTANTS PlainQueued, \* the plain command types the run uses
          Programmed,  \* the fields it changes
          Values       \* their new values

MCSizeof == [t \in 0 .. 8 |->
  CASE t \in {1, 2, 4, 7, 8} -> 1 [] OTHER -> 0]

MCArg == [t \in 0 .. 8 |->
  CASE t = command_type_register -> Programmed \X Values
    [] t = command_type_spi_write -> {NoArg}
    [] t \in PlainQueued /\ t = command_type_pin -> Pins \X {0, 1}
    [] t \in PlainQueued -> {NoArg}
    [] OTHER -> {}]

(* Two saved programs, the second cut short by a full queue.               *)
Saved(l, size) == [list |-> l, end |-> size, repeat |-> 0, intact |-> TRUE]

MCStartup ==
  LET update == Command(command_type_update, NoArg)
      write == Command(command_type_spi_write, NoArg)
      change == Command(command_type_register, <<"profile_frequency", 1>>)
  IN  {Saved(<<change, write, update>>, 4),
       Saved(<<update, update, change, change>>, 6)}

MCFieldReg == [f \in Fields |->
  CASE f = "parallel_data_port_enable" -> cfr2
    [] f = "digital_ramp_enable" -> cfr2
    [] f = "profile_frequency" -> prof0
    [] f = "pll_divide" -> cfr3
    [] f = "ramp_upper_limit" -> ramp_limit]

MCPreset == [f \in Fields |-> IF f = "pll_divide" THEN 1 ELSE 0]

(* Every field differs from what ad9910_init gives it.                     *)
MCLeftover == {[f \in Fields |-> 1 - MCPreset[f]]}

MCFieldRange == [f \in Fields |->
  IF f \in {"profile_frequency", "ramp_upper_limit"} THEN 4 ELSE 2]
=============================================================================
