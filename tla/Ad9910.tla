------------------------------- MODULE Ad9910 -------------------------------
(***************************************************************************)
(* The AD9910 and its driver (ad9910.c, ad9910.h).  A register field has   *)
(* three values: the one in the driver's copy `ad9910_regs' (shadow), the  *)
(* one last sent over SPI (buffered) and the one the chip works with       *)
(* (active).  The operators map such a state of the chip to the next one.  *)
(***************************************************************************)
EXTENDS Integers

CONSTANTS
  Fields,     \* the bit fields in use (ad9910_register_bit)
  FieldReg,   \* the register of a field, by its position in ad9910_registers
  FieldRange, \* the number of values of a field, 2^bits
  Preset,     \* the values ad9910_init gives the fields
  Leftover    \* the fields of a chip that only the processor's reset hit

(* struct ad9910_registers is also used as an array; the chip's addresses  *)
(* 5 and 6 do not exist.                                                   *)
Registers == 0 .. 19
address(r) == IF r <= 4 THEN r ELSE r + 2

cfr1 == 0
cfr2 == 1
cfr3 == 2
ramp_limit == 9
prof0 == 12

FieldValues == [Fields -> Nat]

ASSUME FieldAssumption ==
  /\ FieldReg \in [Fields -> Registers]
  /\ FieldRange \in [Fields -> Nat \ {0}]
  /\ Preset \in FieldValues
  /\ Leftover \subseteq FieldValues

Dds == [shadow : FieldValues, buffered : FieldValues, active : FieldValues]

(* ad9910_set_value(): the value is cut to the width of the field, other   *)
(* fields of the register keep theirs.                                     *)
ad9910_set_value(d, f, v) ==
  [d EXCEPT !.shadow = [@ EXCEPT ![f] = v % FieldRange[f]]]

(* ad9910_update_reg() for every register of R: all fields are sent.       *)
Send(d, R) ==
  [d EXCEPT !.buffered =
     [f \in Fields |-> IF FieldReg[f] \in R THEN d.shadow[f] ELSE @[f]]]

ad9910_update_reg(d, r) == Send(d, {r})
ad9910_update_matching_reg(d, f) == ad9910_update_reg(d, FieldReg[f])

(* The bits of i << i, for i < 32: bit n is bit n - i of i.                *)
ShiftedBits(i) ==
  {n \in 0 .. 31 : \E b \in 0 .. 4 : n = i + b /\ (i \div 2 ^ b) % 2 = 1}

(* Mutant of Selected: bit n of the mask stands for the nth register.      *)
Selected_by_index(mask) == Registers \cap mask

(* The registers ad9910_update_multiple_regs() sends for a mask (a set of  *)
(* bit numbers): `mask & (i << i)'.  The loop counts to 31; positions past *)
(* the struct are not registers.                                           *)
Selected(mask) == {i \in Registers : ShiftedBits(i) \cap mask /= {}}

ad9910_update_multiple_regs(d, mask) == Send(d, Selected(mask))

(* Mutant of ad9910_io_update: no edge reaches the chip.                   *)
ad9910_io_update_no_edge(d) == d

(* What the chip does on a rising edge of IO_UPDATE, and the edge the      *)
(* driver generates.                                                       *)
Latch(d) == [d EXCEPT !.active = d.buffered]
ad9910_io_update(d) == Latch(d)

Reset(left) == [shadow |-> Preset, buffered |-> left, active |-> left]

(* Mutant of ad9910_init: no I/O update for the PLL.                       *)
ad9910_init_no_update(left) == Send(Reset(left), Registers)

(* ad9910_init(): the PLL settings in cfr3 are sent and made active, then  *)
(* every register is sent.  No I/O update follows, so the other fields     *)
(* keep their old active values until the first one.                       *)
ad9910_init(left) ==
  Send(ad9910_io_update(ad9910_update_reg(Reset(left), cfr3)), Registers)
=============================================================================
