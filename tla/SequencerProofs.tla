-------------------------- MODULE SequencerProofs --------------------------
(***************************************************************************)
(* For every capacity and every set of commands: the list is well typed,   *)
(* never longer than the queue, and its register commands are grouped.     *)
(*                                                                         *)
(* For every set of fields that ad9910_update_multiple_regs covers, every  *)
(* queue length and every program: what is programmed before an update or  *)
(* a trigger is active behind it.                                          *)
(***************************************************************************)
EXTENDS Sequencer, SequenceTheorems, TLAPS

-----------------------------------------------------------------------------
(* The command list.                                                       *)

USE DEF Header

(* The assumptions on the constants, in the form the proofs use.           *)
LEMMA Sizes ==
  /\ COMMAND_QUEUE_LENGTH \in Nat
  /\ \A t \in Types : Sizeof[t] \in Nat
  /\ Sizeof[command_type_spi_write] = 0
  /\ NoArg \in Arg[command_type_spi_write]
  /\ command_type_register \in Types
  /\ command_type_spi_write \in Types
  BY QueueAssumption DEF Types, command_type_register, command_type_spi_write

(* command_queue keeps the type and, if it appends, appends the command.   *)
LEMMA PutType ==
  ASSUME NEW q \in Queues, NEW t \in Types, NEW a \in Arg[t]
  PROVE  Put(q, t, a) \in Queues
  <1>1. Command(t, a) \in CommandSet
    BY DEF CommandSet
  <1>2. CASE Fits(q, t)
    <2>1. Append(q.list, Command(t, a)) \in Seq(CommandSet)
      BY <1>1 DEF Queues
    <2>2. q.end + Header + Sizeof[t] \in 0 .. COMMAND_QUEUE_LENGTH
      BY <1>2, Sizes DEF Fits, Queues
    <2> QED
      BY <1>2, <2>1, <2>2, Zenon DEF Put, Queues
  <1>3. CASE ~Fits(q, t)
    BY <1>3 DEF Put
  <1> QED
    BY <1>2, <1>3

(* What command_queue does to the list.                                    *)
LEMMA PutList ==
  ASSUME NEW q \in Queues, NEW t \in Types, NEW a \in Arg[t], Fits(q, t)
  PROVE  LET p == Put(q, t, a)
         IN  /\ Len(p.list) = Len(q.list) + 1
             /\ \A n \in 1 .. Len(q.list) : p.list[n] = q.list[n]
             /\ p.list[Len(q.list) + 1].type = t
             /\ p.end = q.end + Header + Sizeof[t]
             /\ p.repeat = q.repeat
             /\ p.intact = q.intact
  <1>1. q.list \in Seq(CommandSet) /\ Command(t, a).type = t
    BY DEF Queues, Command
  <1>2. /\ Put(q, t, a).list = Append(q.list, Command(t, a))
        /\ Put(q, t, a).end = q.end + Header + Sizeof[t]
        /\ Put(q, t, a).repeat = q.repeat
        /\ Put(q, t, a).intact = q.intact
    BY DEF Put, Queues
  <1> HIDE DEF Command
  <1>3. /\ Len(Append(q.list, Command(t, a))) = Len(q.list) + 1
        /\ \A n \in 1 .. Len(q.list) :
             Append(q.list, Command(t, a))[n] = q.list[n]
        /\ Append(q.list, Command(t, a))[Len(q.list) + 1] = Command(t, a)
    BY <1>1
  <1> QED
    BY <1>1, <1>2, <1>3

(* Every command takes at least its header: the strengthening that keeps   *)
(* `commands.end -= sizeof(command)' inside the buffer.                    *)
Counted(q) == Len(q.list) <= q.end

(* command_queue() adds at least a byte for each command.                  *)
LEMMA PutCounted ==
  ASSUME NEW q \in Queues, Counted(q), NEW t \in Types, NEW a \in Arg[t]
  PROVE  Counted(Put(q, t, a))
  <1>1. CASE Fits(q, t)
    <2>1. /\ Len(Put(q, t, a).list) = Len(q.list) + 1
          /\ Put(q, t, a).end = q.end + Header + Sizeof[t]
      BY <1>1, PutList
    <2>2. Len(q.list) \in Nat /\ q.end \in Nat /\ Sizeof[t] \in Nat
      BY Sizes DEF Queues
    <2> QED
      BY <2>1, <2>2 DEF Counted
  <1>2. CASE ~Fits(q, t)
    BY <1>2 DEF Put
  <1> QED
    BY <1>1, <1>2

(* Taking the last spi_write back.                                         *)
LEMMA DropList ==
  ASSUME NEW q \in Queues, Counted(q), EndsIn(q, command_type_spi_write)
  PROVE  LET d == DropSpiWrite(q)
         IN  /\ d \in Queues
             /\ Counted(d)
             /\ Len(d.list) = Len(q.list) - 1
             /\ \A n \in 1 .. Len(q.list) - 1 : d.list[n] = q.list[n]
             /\ d.end = q.end - Header
             /\ d.repeat = q.repeat
             /\ d.intact = q.intact
  <1> DEFINE l == q.list
             s == SubSeq(l, 1, Len(l) - 1)
             d == DropSpiWrite(q)
  <1>1. /\ l \in Seq(CommandSet) /\ Len(l) \in Nat /\ Len(l) >= 1
        /\ q.end \in 0 .. COMMAND_QUEUE_LENGTH /\ Len(l) <= q.end
    BY DEF EndsIn, Queues, Counted
  <1>2. /\ d.list = s /\ d.end = q.end - Header /\ d.repeat = q.repeat
        /\ d.intact = q.intact
        /\ d = [list |-> s, end |-> q.end - Header, repeat |-> q.repeat,
                intact |-> q.intact]
    BY Zenon DEF DropSpiWrite, Queues
  <1>3. /\ s \in Seq(CommandSet)
        /\ Len(s) = Len(l) - 1
        /\ \A n \in 1 .. Len(l) - 1 : s[n] = l[n]
    <2>1. \A i \in 1 .. Len(l) - 1 : l[i] \in CommandSet
      BY <1>1
    <2>2. /\ s \in Seq(CommandSet)
          /\ Len(s) = IF 1 <= Len(l) - 1 THEN Len(l) - 1 - 1 + 1 ELSE 0
          /\ \A i \in 1 .. Len(l) - 1 - 1 + 1 : s[i] = l[1 + i - 1]
      BY <1>1, <2>1, SubSeqProperties
    <2> HIDE DEF s
    <2>3. Len(s) = Len(l) - 1
      <3>1. \A k \in Nat : k >= 1 =>
              \A m : (m = IF 1 <= k - 1 THEN k - 1 - 1 + 1 ELSE 0)
                      => m = k - 1
        OBVIOUS
      <3> QED
        BY <1>1, <2>2, <3>1, Zenon
    <2>4. ASSUME NEW i \in 1 .. Len(l) - 1 PROVE s[i] = l[i]
      <3>1. i \in 1 .. Len(l) - 1 - 1 + 1 /\ 1 + i - 1 = i
        BY <1>1
      <3> QED
        BY <2>2, <3>1, Zenon
    <2> QED
      BY <2>2, <2>3, <2>4
  <1> HIDE DEF s
  <1>4. q.end - Header \in 0 .. COMMAND_QUEUE_LENGTH
    BY <1>1, Sizes
  <1>5. d \in Queues
    <2>1. q.repeat \in Repeats /\ q.intact \in BOOLEAN
      BY Zenon DEF Queues
    <2> QED
      BY <1>2, <1>3, <1>4, <2>1, Zenon DEF Queues
  <1>6. Counted(d)
    BY <1>1, <1>2, <1>3 DEF Counted
  <1> QED
    BY <1>2, <1>3, <1>5, <1>6

-----------------------------------------------------------------------------
(* Grouped without its condition on the end of the list.                   *)
Loose(q) ==
  \A n \in 1 .. Len(q.list) - 1 :
    /\ q.list[n].type = command_type_register
         => q.list[n + 1].type \in {command_type_register,
                                   command_type_spi_write}
    /\ q.list[n].type = command_type_spi_write
         => \/ q.list[n + 1].type /= command_type_spi_write
            \/ \E m \in 1 .. n : q.list[m].type \in Uncounted

(* The two parts of Grouped: inside the list and at its end.               *)
LEMMA GroupedIsLoose ==
  \A q : Grouped(q) <=>
        Loose(q) /\ (EndsIn(q, command_type_register)
                        => q.end = COMMAND_QUEUE_LENGTH)
  BY DEF Grouped, Loose

(* command_queue() keeps the groups, if the new command may follow the     *)
(* last one.                                                               *)
LEMMA PutLoose ==
  ASSUME NEW q \in Queues, Loose(q), NEW t \in Types, NEW a \in Arg[t],
         Fits(q, t),
         EndsIn(q, command_type_register)
           => t \in {command_type_register, command_type_spi_write},
         EndsIn(q, command_type_spi_write)
           => t /= command_type_spi_write \/ Blind(q)
  PROVE  /\ Loose(Put(q, t, a))
         /\ \A u : EndsIn(Put(q, t, a), u) <=> u = t
  <1> DEFINE p == Put(q, t, a)
  <1>1. /\ Len(p.list) = Len(q.list) + 1
        /\ \A n \in 1 .. Len(q.list) : p.list[n] = q.list[n]
        /\ p.list[Len(q.list) + 1].type = t
    BY PutList
  <1>2. q.list \in Seq(CommandSet) /\ Len(q.list) \in Nat
    BY DEF Queues
  <1>3. p.list \in Seq(CommandSet)
    BY PutType DEF Queues
  <1> HIDE DEF p
  <1>4. ASSUME NEW n \in 1 .. Len(p.list) - 1
        PROVE  /\ p.list[n].type = command_type_register
                    => p.list[n + 1].type \in {command_type_register,
                                              command_type_spi_write}
               /\ p.list[n].type = command_type_spi_write
                    => \/ p.list[n + 1].type /= command_type_spi_write
                       \/ \E m \in 1 .. n : p.list[m].type \in Uncounted
    <2>1. CASE n = Len(q.list)
      <3>1. EndsIn(q, p.list[n].type) /\ p.list[n + 1].type = t
        BY <1>1, <1>2, <2>1 DEF EndsIn
      <3>2. Blind(q) => \E m \in 1 .. n : p.list[m].type \in Uncounted
        BY <1>1, <2>1 DEF Blind
      <3> QED
        BY <3>1, <3>2
    <2>2. CASE n /= Len(q.list)
      <3>1. n \in 1 .. Len(q.list) - 1 /\ n \in 1 .. Len(q.list)
            /\ n + 1 \in 1 .. Len(q.list)
        BY <1>1, <1>2, <2>2
      <3>2. \A m \in 1 .. n : p.list[m] = q.list[m]
        BY <1>1, <1>2, <3>1
      <3>3. p.list[n].type = command_type_register
                 => p.list[n + 1].type \in {command_type_register,
                                           command_type_spi_write}
        BY <1>1, <3>1 DEF Loose
      <3>4. ASSUME p.list[n].type = command_type_spi_write,
                   p.list[n + 1].type = command_type_spi_write
            PROVE  \E m \in 1 .. n : p.list[m].type \in Uncounted
        <4>1. \E m \in 1 .. n : q.list[m].type \in Uncounted
          BY <1>1, <3>1, <3>4 DEF Loose
        <4> QED
          BY <3>2, <4>1
      <3> QED
        BY <3>3, <3>4
    <2> QED
      BY <2>1, <2>2
  <1>5. p.list /= <<>>
    BY <1>1, <1>2, <1>3
  <1>6. Loose(p)
    BY <1>4, Zenon DEF Loose
  <1>7. \A u : EndsIn(p, u) <=> u = t
    BY <1>1, <1>5 DEF EndsIn
  <1> QED
    BY <1>6, <1>7 DEF p

(* A command that changes no register keeps the list grouped.              *)
LEMMA PlainGrouped ==
  ASSUME NEW q \in Queues, Grouped(q), NEW t \in Plain, NEW a \in Arg[t]
  PROVE  Grouped(Put(q, t, a))
  <1>1. t \in Types /\ t /= command_type_register /\ t /= command_type_spi_write
    BY DEF Plain
  <1>2. CASE Fits(q, t)
    <2>1. ~EndsIn(q, command_type_register)
      <3>1. q.end \in Nat /\ Sizeof[t] \in Nat /\ COMMAND_QUEUE_LENGTH \in Nat
        BY <1>1, Sizes DEF Queues
      <3>2. q.end + 1 + Sizeof[t] <= COMMAND_QUEUE_LENGTH
        BY <1>2 DEF Fits
      <3>3. q.end /= COMMAND_QUEUE_LENGTH
        BY <3>1, <3>2
      <3> QED
        BY <3>3 DEF Grouped
    <2>2. Loose(q)
      BY GroupedIsLoose
    <2>3. Loose(Put(q, t, a)) /\ ~EndsIn(Put(q, t, a), command_type_register)
      BY <1>1, <1>2, <2>1, <2>2, PutLoose
    <2> QED
      BY <2>3, GroupedIsLoose
  <1>3. CASE ~Fits(q, t)
    BY <1>3 DEF Put
  <1> QED
    BY <1>2, <1>3

(* What command_queue_register leaves after giving up the spi_write.       *)
LEMMA DropLoose ==
  ASSUME NEW q \in Queues, Counted(q), Grouped(q)
  PROVE  /\ Loose(DropSpiWrite(q))
         /\ EndsIn(DropSpiWrite(q), command_type_spi_write)
              => Blind(DropSpiWrite(q))
  <1> DEFINE d == DropSpiWrite(q)
  <1>1. Loose(q)
    BY GroupedIsLoose
  <1>2. CASE EndsIn(q, command_type_spi_write)
    <2>1. /\ Len(d.list) = Len(q.list) - 1
          /\ \A n \in 1 .. Len(q.list) - 1 : d.list[n] = q.list[n]
      BY <1>2, DropList
    <2>2. /\ q.list \in Seq(CommandSet) /\ Len(q.list) \in Nat
          /\ Len(q.list) >= 1
          /\ q.list[Len(q.list)].type = command_type_spi_write
      BY <1>2 DEF Queues, EndsIn
    <2>3. d.list \in Seq(CommandSet)
      BY <1>2, DropList DEF Queues
    <2> HIDE DEF d
    <2>4. ASSUME NEW n \in 1 .. Len(d.list) - 1
          PROVE  /\ n \in 1 .. Len(q.list) - 1
                 /\ d.list[n] = q.list[n] /\ d.list[n + 1] = q.list[n + 1]
      <3>1. n \in 1 .. Len(q.list) - 1 /\ n + 1 \in 1 .. Len(q.list) - 1
        BY <2>1, <2>2
      <3> QED
        BY <2>1, <3>1
    <2>9. ASSUME NEW n \in 1 .. Len(d.list) - 1, NEW m \in 1 .. n
          PROVE  d.list[m] = q.list[m]
      BY <2>1, <2>2
    <2>5. Loose(d)
      <3> SUFFICES ASSUME NEW n \in 1 .. Len(d.list) - 1
                   PROVE  /\ d.list[n].type = command_type_register
                               => d.list[n + 1].type
                                    \in {command_type_register,
                                         command_type_spi_write}
                          /\ d.list[n].type = command_type_spi_write
                               => \/ d.list[n + 1].type
                                       /= command_type_spi_write
                                  \/ \E m \in 1 .. n :
                                       d.list[m].type \in Uncounted
        BY Zenon DEF Loose
      <3> QED
        BY <1>1, <2>4, <2>9, Zenon DEF Loose
    <2>6. EndsIn(d, command_type_spi_write) => Blind(d)
      <3> SUFFICES ASSUME d.list /= <<>>,
                          d.list[Len(d.list)].type = command_type_spi_write
                   PROVE  Blind(d)
        BY DEF EndsIn
      <3>1. Len(d.list) /= 0
        BY <2>3
      <3>2. /\ Len(q.list) - 1 \in 1 .. Len(q.list) - 1
            /\ Len(q.list) - 1 + 1 = Len(q.list)
        BY <2>1, <2>2, <3>1
      <3>3. q.list[Len(q.list) - 1].type = command_type_spi_write
        BY <2>1, <3>2
      <3>4. PICK m \in 1 .. Len(q.list) - 1 : q.list[m].type \in Uncounted
        BY <1>1, <2>2, <3>2, <3>3 DEF Loose
      <3> QED
        BY <2>1, <3>4 DEF Blind
    <2> QED
      BY <2>5, <2>6 DEF d
  <1>3. CASE ~EndsIn(q, command_type_spi_write)
    BY <1>1, <1>3 DEF DropSpiWrite
  <1> QED
    BY <1>2, <1>3

(* Queueing a register command and a spi_write keeps the list grouped,     *)
(* whether both, one or neither of them fit.                               *)
LEMMA WithGrouped ==
  ASSUME NEW d \in Queues, Counted(d), Loose(d),
         EndsIn(d, command_type_spi_write) => Blind(d),
         ~Fits(d, command_type_spi_write) => Grouped(d),
         NEW a \in Arg[command_type_register]
  PROVE  /\ WithRegister(d, a) \in Queues
         /\ Counted(WithRegister(d, a))
         /\ Grouped(WithRegister(d, a))
         /\ WithRegister(d, a).intact = d.intact
  <1> DEFINE p == Put(d, command_type_register, a)
             r == Put(p, command_type_spi_write, NoArg)
  <1>1. command_type_register /= command_type_spi_write
    BY DEF command_type_register, command_type_spi_write
  <1>2. p \in Queues /\ Counted(p) /\ p.intact = d.intact
    <2>1. p.intact = d.intact
      BY Sizes, PutList DEF Put
    <2> QED
      BY <2>1, Sizes, PutType, PutCounted
  <1>3. r \in Queues /\ Counted(r) /\ r.intact = p.intact
    <2> HIDE DEF p
    <2>1. r.intact = p.intact
      BY <1>2, Sizes, PutList DEF Put
    <2> QED
      BY <1>2, <2>1, Sizes, PutType, PutCounted
  <1>4. Grouped(r)
    <2>1. CASE Fits(d, command_type_register)
      <3>1. /\ Loose(p)
            /\ \A u : EndsIn(p, u) <=> u = command_type_register
        BY <1>1, <2>1, Sizes, PutLoose
      <3> HIDE DEF p
      <3>2. CASE Fits(p, command_type_spi_write)
        <4>1. /\ Loose(r)
              /\ \A u : EndsIn(r, u) <=> u = command_type_spi_write
          BY <1>1, <1>2, <3>1, <3>2, Sizes, PutLoose
        <4> QED
          BY <1>1, <4>1, GroupedIsLoose
      <3>3. CASE ~Fits(p, command_type_spi_write)
        <4>1. r = p
          BY <3>3 DEF Put
        <4>2. p.end = COMMAND_QUEUE_LENGTH
          <5>1. p.end \in 0 .. COMMAND_QUEUE_LENGTH
            BY <1>2 DEF Queues
          <5>2. ~(p.end + 1 + 0 <= COMMAND_QUEUE_LENGTH)
            BY <3>3, Sizes DEF Fits
          <5> QED
            BY <5>1, <5>2, Sizes
        <4> QED
          BY <3>1, <4>1, <4>2, GroupedIsLoose
      <3> QED
        BY <3>2, <3>3
    <2>2. CASE ~Fits(d, command_type_register)
      <3>1. p = d
        BY <2>2 DEF Put
      <3>2. CASE Fits(d, command_type_spi_write)
        <4>1. /\ Loose(r)
              /\ \A u : EndsIn(r, u) <=> u = command_type_spi_write
          BY <3>1, <3>2, Sizes, PutLoose
        <4> QED
          BY <1>1, <4>1, GroupedIsLoose
      <3>3. CASE ~Fits(d, command_type_spi_write)
        <4>1. r = d
          BY <3>1, <3>3 DEF Put
        <4> QED
          BY <3>3, <4>1
      <3> QED
        BY <3>2, <3>3
    <2> QED
      BY <2>1, <2>2
  <1> QED
    BY <1>2, <1>3, <1>4 DEF WithRegister

(* No payload that the sequencer queues is taken for a spi_write.          *)
LEMMA NotMistaken ==
  ASSUME NEW q \in Queues
  PROVE  ~Mistaken(q)
  <1> SUFFICES ASSUME Mistaken(q) PROVE FALSE
    OBVIOUS
  <1>1. /\ q.list \in Seq(CommandSet) /\ Len(q.list) \in 1 .. Len(q.list)
        /\ q.list[Len(q.list)].arg \in WriteLike
    BY DEF Mistaken, Blind, Queues
  <1>2. q.list[Len(q.list)] \in CommandSet
    BY <1>1
  <1>3. PICK t \in Types : \E a \in Arg[t] : q.list[Len(q.list)] = Command(t, a)
    BY <1>2 DEF CommandSet
  <1>4. q.list[Len(q.list)].arg \in Arg[t]
    BY <1>3 DEF Command
  <1> QED
    BY <1>1, <1>4, PayloadAssumption

(* command_queue_register keeps the list grouped, whatever its search for  *)
(* the last command finds.                                                 *)
LEMMA RegisterGrouped ==
  ASSUME NEW q \in Queues, Counted(q), Grouped(q),
         NEW a \in Arg[command_type_register], NEW r \in PutRegister(q, a)
  PROVE  r \in Queues /\ Counted(r) /\ Grouped(r) /\ r.intact = q.intact
  <1>1. ~Mistaken(q)
    BY NotMistaken
  <1>2. PICK d \in Searched(q) : r = WithRegister(d, a)
    BY <1>1 DEF PutRegister
  <1>3. CASE d = DropSpiWrite(q)
    <2>1. d \in Queues /\ Counted(d) /\ d.intact = q.intact
      <3>1. CASE EndsIn(q, command_type_spi_write)
        BY <1>3, <3>1, DropList
      <3>2. CASE ~EndsIn(q, command_type_spi_write)
        BY <1>3, <3>2 DEF DropSpiWrite
      <3> QED
        BY <3>1, <3>2
    <2>2. Loose(d) /\ (EndsIn(d, command_type_spi_write) => Blind(d))
      BY <1>3, DropLoose
    <2>3. ~Fits(d, command_type_spi_write) => Grouped(d)
      <3>1. CASE EndsIn(q, command_type_spi_write)
        <4>1. d.end = q.end - Header
          BY <1>3, <3>1, DropList
        <4>2. q.end \in 0 .. COMMAND_QUEUE_LENGTH
          BY DEF Queues
        <4> QED
          BY <4>1, <4>2, Sizes DEF Fits
      <3>2. CASE ~EndsIn(q, command_type_spi_write)
        BY <1>3, <3>2 DEF DropSpiWrite
      <3> QED
        BY <3>1, <3>2
    <2> QED
      BY <1>2, <2>1, <2>2, <2>3, WithGrouped
  <1>4. CASE d = q /\ Blind(q)
    BY <1>2, <1>4, WithGrouped, GroupedIsLoose
  <1> QED
    BY <1>3, <1>4 DEF Searched

-----------------------------------------------------------------------------
ListInv ==
  /\ ListTypeOK
  /\ commands.intact
  /\ Counted(commands)
  /\ Grouped(commands)

(* The empty list is grouped.                                              *)
LEMMA EmptyGrouped ==
  ASSUME NEW n \in Repeats
  PROVE  /\ Empty(n) \in Queues /\ Counted(Empty(n)) /\ Grouped(Empty(n))
         /\ Empty(n).intact /\ Empty(n).list = <<>>
  <1>1. /\ <<>> \in Seq(CommandSet) /\ 0 \in 0 .. COMMAND_QUEUE_LENGTH
        /\ Len(<<>>) = 0
    BY QueueAssumption
  <1>2. TRUE \in BOOLEAN
    OBVIOUS
  <1>3. Empty(n) \in Queues
    BY <1>1, <1>2, Zenon DEF Empty, Queues
  <1>4. /\ Empty(n).list = <<>> /\ Empty(n).end = 0 /\ Empty(n).intact
    BY DEF Empty
  <1> QED
    BY <1>3, <1>4 DEF Counted, Grouped, EndsIn

(* The empty list and a saved program satisfy the invariant.               *)
LEMMA ListInitInv == ListInit \/ startup_command_execute => ListInv
  <1>1. ASSUME ListInit PROVE ListInv
    BY <1>1, EmptyGrouped, QueueAssumption DEF ListInit, ListInv, ListTypeOK
  <1>2. ASSUME startup_command_execute PROVE ListInv
    <2>1. /\ commands \in Queues /\ commands.intact /\ Counted(commands)
          /\ Grouped(commands) /\ pos = 1 /\ pass = 0
      BY <1>2, StartupAssumption DEF startup_command_execute, Counted
    <2>2. Len(commands.list) \in Nat
      BY <2>1 DEF Queues
    <2> QED
      BY <2>1, <2>2 DEF ListInv, ListTypeOK
  <1> QED
    BY <1>1, <1>2

(* Every operation on the list keeps the invariant.                        *)
LEMMA ListNextInv ==
  ASSUME ListInv, [ListNext]_listVars
  PROVE  ListInv'
  <1> USE DEF ListInv
  <1>1. ASSUME NEW t \in Plain, NEW a \in Arg[t], QueuePlain(t, a)
        PROVE  ListInv'
    <2>1. t \in Types
      BY DEF Plain
    <2>2. /\ Put(commands, t, a) \in Queues
          /\ Counted(Put(commands, t, a))
          /\ Grouped(Put(commands, t, a))
      BY <2>1, PutType, PutCounted, PlainGrouped DEF ListTypeOK
    <2>3. /\ commands' = Put(commands, t, a) /\ pos = 0
          /\ UNCHANGED <<pos, pass>>
      BY <1>1 DEF QueuePlain, Idle
    <2>4. Len(commands'.list) \in Nat
      BY <2>2, <2>3 DEF Queues
    <2>5. Put(commands, t, a).intact = commands.intact
      BY <2>1, PutList, Zenon DEF Put, ListTypeOK
    <2> QED
      BY <2>2, <2>3, <2>4, <2>5 DEF ListTypeOK
  <1>2. ASSUME NEW a \in Arg[command_type_register], QueueRegister(a)
        PROVE  ListInv'
    <2>2. /\ commands' \in PutRegister(commands, a) /\ pos = 0
          /\ UNCHANGED <<pos, pass>>
      BY <1>2 DEF QueueRegister, Idle
    <2>1. /\ commands' \in Queues /\ Counted(commands') /\ Grouped(commands')
          /\ commands'.intact
      BY <2>2, RegisterGrouped DEF ListTypeOK
    <2>3. Len(commands'.list) \in Nat
      BY <2>1, <2>2 DEF Queues
    <2> QED
      BY <2>1, <2>2, <2>3 DEF ListTypeOK
  <1>3. CASE Clear
    <2>1. commands' = Empty(commands.repeat) /\ commands.repeat \in Repeats
      BY <1>3 DEF Clear, ListTypeOK, Queues
    <2> QED
      BY <1>3, <2>1, EmptyGrouped DEF Clear, Idle, ListTypeOK
  <1>4. ASSUME NEW n \in Repeats, SetRepeat(n)
        PROVE  ListInv'
    <2>1. /\ commands' \in Queues /\ commands'.intact = commands.intact
          /\ commands'.list = commands.list /\ commands'.end = commands.end
      BY <1>4, Zenon DEF SetRepeat, ListTypeOK, Queues
    <2> QED
      BY <1>4, <2>1 DEF SetRepeat, ListTypeOK, Counted, Grouped, EndsIn
  <1>5. CASE Start
    <2>1. Len(commands.list) \in Nat
      BY DEF ListTypeOK, Queues
    <2> QED
      BY <1>5, <2>1 DEF Start, ListTypeOK
  <1>6. CASE ExecNext
    <2>1. Len(commands.list) \in Nat
      BY DEF ListTypeOK, Queues
    <2> QED
      BY <1>6, <2>1 DEF ExecNext, ListTypeOK
  <1>7. CASE EndPass
    <2>1. Len(commands.list) \in Nat
      BY DEF ListTypeOK, Queues
    <2> QED
      BY <1>7, <2>1 DEF EndPass, ListTypeOK
  <1>8. CASE UNCHANGED listVars
    BY <1>8 DEF listVars, ListTypeOK
  <1>9. ~LostStep
    BY DEF LostStep
  <1> QED
    BY <1>1, <1>2, <1>3, <1>4, <1>5, <1>6, <1>7, <1>8, <1>9 DEF ListNext

-----------------------------------------------------------------------------
(* The sequencer.                                                          *)

(* The mask of a changed register selects that register.  This is what     *)
(* `mask & (i << i)' does for the fields of cfr2 and prof0, and not for    *)
(* the ramp registers.                                                     *)
Covers == \A f \in Fields : FieldReg[f] \in Selected({address(FieldReg[f])})

(* NoLostUpdate of a chip state and a set of marked addresses.             *)
Marked(d, u) ==
  \A f \in Fields :
    d.shadow[f] /= d.buffered[f] => address(FieldReg[f]) \in u

(* ad9910_set_value() changes the driver's copy of one field only.         *)
LEMMA SetValueFacts ==
  ASSUME NEW d \in Dds, NEW f \in Fields, NEW v \in Nat
  PROVE  LET e == ad9910_set_value(d, f, v)
         IN  /\ e \in Dds
             /\ e.buffered = d.buffered
             /\ e.active = d.active
             /\ \A g \in Fields : g /= f => e.shadow[g] = d.shadow[g]
  <1>1. v % FieldRange[f] \in Nat
    BY FieldAssumption
  <1>2. [d.shadow EXCEPT ![f] = v % FieldRange[f]] \in FieldValues
    BY <1>1 DEF Dds, FieldValues
  <1> QED
    BY <1>2 DEF ad9910_set_value, Dds, FieldValues

(* Sending registers changes what the chip has received, and nothing else. *)
LEMMA SendFacts ==
  ASSUME NEW d \in Dds, NEW R
  PROVE  LET e == Send(d, R)
         IN  /\ e \in Dds
             /\ e.shadow = d.shadow
             /\ e.active = d.active
             /\ \A g \in Fields : e.buffered[g] =
                  IF FieldReg[g] \in R THEN d.shadow[g] ELSE d.buffered[g]
  <1> DEFINE b == [f \in Fields |-> IF FieldReg[f] \in R THEN d.shadow[f]
                                                       ELSE d.buffered[f]]
  <1>1. b \in FieldValues
    BY DEF Dds, FieldValues
  <1>2. Send(d, R) = [shadow |-> d.shadow, buffered |-> b, active |-> d.active]
    BY DEF Send, Dds
  <1> QED
    BY <1>1, <1>2 DEF Dds

(* An I/O update activates what the chip has received.                     *)
LEMMA LatchFacts ==
  ASSUME NEW d \in Dds
  PROVE  /\ Latch(d) \in Dds
         /\ Latch(d).shadow = d.shadow
         /\ Latch(d).buffered = d.buffered
         /\ Latch(d).active = d.buffered
  BY DEF Latch, Dds

(* The PLL fields of the chip, and of the driver's copy, are as set.       *)
PllSet(d) ==
  \A f \in Fields : FieldReg[f] = cfr3 =>
    d.shadow[f] = Preset[f] /\ d.buffered[f] = Preset[f]
                            /\ d.active[f] = Preset[f]

(* Behind ad9910_init() every field has been sent and the PLL runs.        *)
LEMMA BootFacts ==
  ASSUME NEW left \in Leftover
  PROVE  LET e == ad9910_init(left)
         IN  e \in Dds /\ Marked(e, {}) /\ PllSet(e)
  <1> DEFINE a == Reset(left)
             b == ad9910_update_reg(a, cfr3)
             c == ad9910_io_update(b)
             e == Send(c, Registers)
  <1>1. a \in Dds /\ a.shadow = Preset
    BY FieldAssumption DEF Reset, Dds
  <1> HIDE DEF a
  <1>2. /\ b \in Dds /\ b.shadow = Preset
        /\ \A g \in Fields : FieldReg[g] = cfr3 => b.buffered[g] = Preset[g]
    BY <1>1, SendFacts DEF ad9910_update_reg
  <1> HIDE DEF b
  <1>3. c \in Dds /\ c.shadow = Preset /\ c.active = b.buffered
    BY <1>2, LatchFacts DEF ad9910_io_update
  <1> HIDE DEF c
  <1>4. /\ e \in Dds /\ e.shadow = Preset /\ e.active = c.active
        /\ \A g \in Fields : e.buffered[g] = Preset[g]
    BY <1>3, SendFacts, FieldAssumption
  <1> HIDE DEF e
  <1>5. e \in Dds /\ Marked(e, {}) /\ PllSet(e)
    BY <1>2, <1>3, <1>4 DEF Marked, PllSet
  <1> QED
    BY <1>5 DEF a, b, c, e, ad9910_init

(* Setting a field and sending its register leaves nothing to mark.        *)
LEMMA SetAndSend ==
  ASSUME NEW d \in Dds, NEW f \in Fields, NEW v \in Nat, NEW u, Marked(d, u)
  PROVE  LET e == ad9910_update_matching_reg(ad9910_set_value(d, f, v), f)
         IN  e \in Dds /\ Marked(e, u)
  <1> DEFINE s == ad9910_set_value(d, f, v)
             e == ad9910_update_matching_reg(s, f)
  <1>1. /\ s \in Dds /\ s.buffered = d.buffered
        /\ \A g \in Fields : g /= f => s.shadow[g] = d.shadow[g]
    BY SetValueFacts
  <1> HIDE DEF s
  <1>2. /\ e \in Dds /\ e.shadow = s.shadow
        /\ \A g \in Fields : e.buffered[g] =
             IF FieldReg[g] \in {FieldReg[f]} THEN s.shadow[g]
                                             ELSE s.buffered[g]
    BY <1>1, SendFacts DEF ad9910_update_matching_reg, ad9910_update_reg
  <1> HIDE DEF e
  <1>3. ASSUME NEW g \in Fields, e.shadow[g] /= e.buffered[g]
        PROVE  address(FieldReg[g]) \in u
    <2>1. FieldReg[g] /= FieldReg[f] /\ g /= f
      BY <1>2, <1>3
    <2>2. e.shadow[g] = d.shadow[g] /\ e.buffered[g] = d.buffered[g]
      BY <1>1, <1>2, <2>1
    <2> QED
      BY <1>3, <2>2 DEF Marked
  <1>4. Marked(e, u)
    BY <1>3 DEF Marked
  <1> QED
    BY <1>2, <1>4 DEF e, s

(* A spi_write sends everything that is marked.                            *)
LEMMA SpiWriteSends ==
  ASSUME Covers, NEW d \in Dds, NEW u, Marked(d, u)
  PROVE  LET e == ad9910_update_multiple_regs(d, u)
         IN  e \in Dds /\ Marked(e, {})
  <1> DEFINE e == ad9910_update_multiple_regs(d, u)
  <1>1. /\ e \in Dds /\ e.shadow = d.shadow
        /\ \A g \in Fields : e.buffered[g] =
             IF FieldReg[g] \in Selected(u) THEN d.shadow[g]
                                           ELSE d.buffered[g]
    BY SendFacts DEF ad9910_update_multiple_regs
  <1>2. ASSUME NEW a, a \in u, NEW r, r \in Selected({a})
        PROVE  r \in Selected(u)
    BY <1>2 DEF Selected
  <1> HIDE DEF e
  <1>3. ASSUME NEW g \in Fields PROVE e.shadow[g] = e.buffered[g]
    <2>1. CASE d.shadow[g] = d.buffered[g]
      BY <1>1, <2>1
    <2>2. CASE d.shadow[g] /= d.buffered[g]
      <3>1. address(FieldReg[g]) \in u
        BY <2>2 DEF Marked
      <3>2. FieldReg[g] \in Selected(u)
        BY <1>2, <3>1, Zenon DEF Covers
      <3> QED
        BY <1>1, <3>2
    <2> QED
      BY <2>1, <2>2
  <1>4. Marked(e, {})
    BY <1>3 DEF Marked
  <1> QED
    BY <1>1, <1>4 DEF e

-----------------------------------------------------------------------------
(* The processor polls IO_UPDATE only for a trigger command, ...           *)
WaitOK == wait /= "no" => Idle \/ Running(command_type_trigger)

(* ... and when it sees the level high, the chip has seen the edge.        *)
EdgeSeen == wait /= "no" /\ ext = 1 => dds.active = dds.buffered

SeqInv ==
  /\ TypeOK
  /\ ListInv
  /\ NoLostUpdate
  /\ MarkedInGroup
  /\ ActiveAfterUpdate
  /\ WaitOK
  /\ EdgeSeen
  /\ TriggerLatches

(* The end of the saved program leaves the empty list.                     *)
LEMMA EndStartupInv == EndStartup => ListInv'
  BY EmptyGrouped, QueueAssumption DEF EndStartup, ListInv, ListTypeOK

(* Every step is a step of the command list, none, or the end of the saved *)
(* program.                                                                *)
LEMMA ListStep == Next => [ListNext]_listVars \/ EndStartup
  <1> USE DEF listVars
  <1> SUFFICES ASSUME Next PROVE ListNext \/ UNCHANGED listVars \/ EndStartup
    OBVIOUS
  <1>1. ASSUME NEW m, mode(m) PROVE UNCHANGED listVars
    BY <1>1 DEF mode
  <1>2. ASSUME NEW t \in Plain, NEW a \in Arg[t],
               ProgramPlain(t, a) \/ NormalPlain(t, a)
        PROVE  ListNext \/ UNCHANGED listVars
    BY <1>2 DEF ProgramPlain, NormalPlain, ListNext
  <1>3. ASSUME NEW a \in Arg[command_type_register],
               ProgramRegister(a) \/ NormalRegister(a)
        PROVE  ListNext \/ UNCHANGED listVars
    BY <1>3 DEF ProgramRegister, NormalRegister, ListNext
  <1>4. CASE NormalTrigger \/ SeeHigh \/ ExtRise \/ ExtFall \/ ExecTrigger
    BY <1>4 DEF NormalTrigger, SeeHigh, ExtRise, ExtFall, ExecTrigger
  <1>5. CASE SequenceClear
    BY <1>5 DEF SequenceClear, ListNext
  <1>6. ASSUME NEW n \in Repeats, SequenceNcycles(n) PROVE ListNext
    BY <1>6 DEF SequenceNcycles, ListNext
  <1>7. CASE Execute
    BY <1>7 DEF Execute, ListNext
  <1>8. CASE ExecRegister \/ ExecSpiWrite \/ ExecPlain
    BY <1>8 DEF ExecRegister, ExecSpiWrite, ExecPlain, ListNext
  <1>9. CASE SeeLow
    BY <1>9 DEF SeeLow, ListNext
  <1>10. CASE ExecEnd
    BY <1>10, Zenon DEF ExecEnd, ListNext
  <1> QED
    BY <1>1, <1>2, <1>3, <1>4, <1>5, <1>6, <1>7, <1>8, <1>9, <1>10
       DEF Next, Exec

(* For every capacity and every set of commands, the list is typed and the *)
(* register commands of a program always come in groups, also behind a     *)
(* parallel command, where a spi_write may stay that should have gone.     *)
THEOREM ListGrouped == Spec => [](ListTypeOK /\ RegisterThenWrite)
  <1>1. Init => ListInv
    BY ListInitInv DEF Init
  <1>2. ListInv /\ [Next]_vars => ListInv'
    BY ListStep, ListNextInv, EndStartupInv DEF vars, listVars
  <1>3. ListInv => ListTypeOK /\ RegisterThenWrite
    BY DEF ListInv, RegisterThenWrite
  <1> QED
    BY <1>1, <1>2, <1>3, PTL DEF Spec

(* Where no register command precedes, everything has been sent.           *)
LEMMA AllSent ==
  ASSUME SeqInv, ~truncated,
         pos = 0 \/ \E t \in Plain : Running(t)
  PROVE  update_registers = {} /\ dds.buffered = dds.shadow
  <1>1. update_registers = {}
    <2> SUFFICES ASSUME update_registers /= {} PROVE FALSE
      OBVIOUS
    <2>1. pos > 1 /\ commands.list[pos - 1].type = command_type_register
      BY DEF SeqInv, MarkedInGroup
    <2>2. PICK t \in Plain : Running(t)
      BY <2>1
    <2>3. /\ pos \in 1 .. Len(commands.list) /\ Len(commands.list) \in Nat
          /\ commands.list[pos].type = t
      BY <2>2 DEF Running, Current, SeqInv, ListInv, ListTypeOK, Queues
    <2>4. pos - 1 \in 1 .. Len(commands.list) - 1 /\ pos - 1 + 1 = pos
      BY <2>1, <2>3
    <2>5. t \in {command_type_register, command_type_spi_write}
      BY <2>1, <2>3, <2>4 DEF SeqInv, ListInv, Grouped
    <2> QED
      BY <2>5 DEF Plain
  <1>2. dds.buffered \in [Fields -> Nat] /\ dds.shadow \in [Fields -> Nat]
    BY DEF SeqInv, TypeOK, Dds, FieldValues
  <1>3. \A f \in Fields : dds.buffered[f] = dds.shadow[f]
    BY <1>1 DEF SeqInv, NoLostUpdate
  <1> QED
    BY <1>1, <1>2, <1>3

(* The initial state satisfies the invariant.                              *)
LEMMA InitSeqInv == Init => SeqInv
  <1> SUFFICES ASSUME Init PROVE SeqInv
    OBVIOUS
  <1>1. ListInv
    BY ListInitInv DEF Init
  <1>2. dds \in Dds /\ Marked(dds, {})
    BY BootFacts DEF Init
  <1>4. booting \in BOOLEAN
    BY Zenon DEF Init, startup_command_execute
  <1>3. TypeOK
    BY <1>1, <1>2, <1>4, Zenon DEF Init, TypeOK, ListInv
  <1>5. pos \in {0, 1}
    BY DEF Init, ListInit, startup_command_execute
  <1> QED
    BY <1>1, <1>2, <1>3, <1>5 DEF Marked, Init, SeqInv, NoLostUpdate,
       MarkedInGroup, ActiveAfterUpdate, WaitOK, EdgeSeen, TriggerLatches

(* The command an execution stands on, and its arguments.                  *)
LEMMA RunningFacts ==
  ASSUME SeqInv, NEW t \in Types, Running(t)
  PROVE  /\ pos \in Nat /\ pos >= 1
         /\ Current.arg \in Arg[t]
  <1>1. /\ pos \in 1 .. Len(commands.list) /\ Current.type = t
        /\ commands.list \in Seq(CommandSet)
    BY DEF Running, SeqInv, ListInv, ListTypeOK, Queues
  <1>2. Current \in CommandSet
    BY <1>1 DEF Current
  <1>3. PICK u \in Types : \E a \in Arg[u] : Current = Command(u, a)
    BY <1>2 DEF CommandSet
  <1> QED
    BY <1>1, <1>3 DEF Command

(* Steps of setup mode: no execution runs before or behind them, and they  *)
(* leave the trigger alone.                                                *)
LEMMA SetupStep ==
  ASSUME SeqInv, ListInv', TypeOK', Idle, Idle', wait = "no", wait' = "no",
         Marked(dds', update_registers),
         UNCHANGED <<update_registers, truncated>>
  PROVE  SeqInv'
  BY DEF SeqInv, NoLostUpdate, Marked, MarkedInGroup, ActiveAfterUpdate,
         WaitOK, EdgeSeen, TriggerLatches, Idle

(* The commands of setup mode keep the invariant.                          *)
LEMMA SetupSteps ==
  ASSUME SeqInv, ListInv'
  PROVE  /\ \A m \in {"normal", "program", "execute"} : mode(m) => SeqInv'
         /\ \A t \in Plain : \A a \in Arg[t] :
              ProgramPlain(t, a) \/ NormalPlain(t, a) => SeqInv'
         /\ \A a \in Arg[command_type_register] :
              ProgramRegister(a) \/ NormalRegister(a) => SeqInv'
         /\ SequenceClear => SeqInv'
         /\ \A n \in Repeats : SequenceNcycles(n) => SeqInv'
  <1>1. dds \in Dds /\ Marked(dds, update_registers) /\ ListTypeOK'
    BY DEF SeqInv, TypeOK, NoLostUpdate, Marked, ListInv
  <1>2. ASSUME NEW m \in {"normal", "program", "execute"}, mode(m)
        PROVE  SeqInv'
    <2>1. TypeOK'
      BY <1>1, <1>2 DEF mode, SeqInv, TypeOK
    <2> QED
      BY <1>1, <1>2, <2>1, SetupStep DEF mode, Ready, Idle, listVars
  <1>3. ASSUME Ready, UNCHANGED seqVars, pos' = pos PROVE SeqInv'
    <2>1. TypeOK'
      BY <1>1, <1>3 DEF seqVars, SeqInv, TypeOK
    <2> QED
      BY <1>1, <1>3, <2>1, SetupStep DEF Ready, Idle, seqVars
  <1>4. ASSUME NEW t \in Plain, NEW a \in Arg[t], NormalPlain(t, a)
        PROVE  SeqInv'
    <2>1. dds' \in Dds /\ Marked(dds', update_registers)
      <3>1. CASE dds' = ad9910_io_update(dds)
        BY <1>1, <3>1, LatchFacts DEF ad9910_io_update, Marked
      <3>2. CASE dds' = enable_parallel(dds)
        BY <1>1, <3>2, SetAndSend, SequencerAssumption DEF enable_parallel
      <3>3. CASE dds' = dds
        BY <1>1, <3>3
      <3> QED
        BY <1>4, <3>1, <3>2, <3>3 DEF NormalPlain, Effect
    <2>2. pins' \in [Pins -> {0, 1}]
      <3>1. t = command_type_pin => a[1] \in Pins /\ a[2] \in {0, 1}
        BY SequencerAssumption
      <3> QED
        BY <1>4, <3>1 DEF NormalPlain, Effect, SeqInv, TypeOK
    <2>3. TypeOK'
      BY <1>1, <1>4, <2>1, <2>2 DEF NormalPlain, SeqInv, TypeOK
    <2> QED
      BY <1>4, <2>1, <2>3, SetupStep DEF NormalPlain, Ready, Idle, listVars
  <1>5. ASSUME NEW a \in Arg[command_type_register], NormalRegister(a)
        PROVE  SeqInv'
    <2>1. a[1] \in Fields /\ a[2] \in Nat
      BY SequencerAssumption
    <2>2. dds' \in Dds /\ Marked(dds', update_registers)
      BY <1>1, <1>5, <2>1, SetAndSend DEF NormalRegister,
                                          execute_command_register
    <2>3. TypeOK'
      BY <1>1, <1>5, <2>2 DEF NormalRegister, SeqInv, TypeOK
    <2> QED
      BY <1>5, <2>2, <2>3, SetupStep DEF NormalRegister, Ready, Idle, listVars
  <1>6. ASSUME NEW t \in Plain, NEW a \in Arg[t], ProgramPlain(t, a)
        PROVE  SeqInv'
    BY <1>3, <1>6 DEF ProgramPlain, QueuePlain
  <1>7. ASSUME NEW a \in Arg[command_type_register], ProgramRegister(a)
        PROVE  SeqInv'
    BY <1>3, <1>7 DEF ProgramRegister, QueueRegister
  <1>8. ASSUME SequenceClear PROVE SeqInv'
    BY <1>3, <1>8 DEF SequenceClear, Clear
  <1>9. ASSUME NEW n \in Repeats, SequenceNcycles(n) PROVE SeqInv'
    BY <1>3, <1>9 DEF SequenceNcycles, SetRepeat
  <1> QED
    BY <1>2, <1>4, <1>5, <1>6, <1>7, <1>8, <1>9, Zenon

(* One turn of the loop of execute_commands: what ExecNext does to the     *)
(* facts about the command before pos.                                     *)
LEMMA Advance ==
  ASSUME SeqInv, ExecNext
  PROVE  /\ pos \in 1 .. Len(commands.list) /\ pos \in Nat
         /\ pos' = pos + 1 /\ pos' > 1 /\ pos' - 1 = pos
         /\ commands' = commands
  BY DEF ExecNext, SeqInv, ListInv, ListTypeOK, Queues

(* execute_command_register_only() keeps the invariant.                    *)
LEMMA ExecRegisterInv ==
  ASSUME SeqInv, ListInv', ExecRegister
  PROVE  SeqInv'
  <1> DEFINE f == Current.arg[1]
             v == Current.arg[2]
  <1>1. f \in Fields /\ v \in Nat
    <2>1. Current.arg \in Arg[command_type_register]
      BY RunningFacts, Sizes DEF ExecRegister
    <2> QED
      BY <2>1, SequencerAssumption
  <1>2. dds \in Dds
    BY DEF SeqInv, TypeOK
  <1>3. dds' = ad9910_set_value(dds, f, v)
    BY DEF ExecRegister
  <1>4. update_registers' = update_registers \cup {address(FieldReg[f])}
    BY DEF ExecRegister
  <1> HIDE DEF f, v
  <1>5. /\ dds' \in Dds /\ dds'.buffered = dds.buffered
        /\ \A g \in Fields : g /= f => dds'.shadow[g] = dds.shadow[g]
    BY <1>1, <1>2, <1>3, SetValueFacts
  <1>6. TypeOK'
    <2>1. address(FieldReg[f]) \in {address(r) : r \in Registers}
      BY <1>1, FieldAssumption
    <2>2. update_registers' \in SUBSET {address(r) : r \in Registers}
      BY <1>4, <2>1 DEF SeqInv, TypeOK
    <2> QED
      BY <1>5, <2>2 DEF SeqInv, TypeOK, ListInv, ExecRegister
  <1>7. NoLostUpdate'
    <2> SUFFICES ASSUME NEW g \in Fields, dds'.shadow[g] /= dds'.buffered[g]
                 PROVE  address(FieldReg[g]) \in update_registers'
      BY DEF NoLostUpdate
    <2>1. CASE g = f
      BY <1>4, <2>1
    <2>2. CASE g /= f
      BY <1>4, <1>5, <2>2 DEF SeqInv, NoLostUpdate
    <2> QED
      BY <2>1, <2>2
  <1>8. /\ pos' > 1 /\ wait = "no" /\ wait' = "no"
        /\ commands'.list[pos' - 1].type = command_type_register
    <2>1. ExecNext /\ Running(command_type_register)
      BY DEF ExecRegister
    <2>2. wait = "no"
      BY <2>1 DEF SeqInv, WaitOK, TypeOK, Running, Idle,
                  command_type_register, command_type_trigger
    <2> QED
      BY <2>1, <2>2, Advance DEF Running, Current, ExecRegister
  <1>9. MarkedInGroup' /\ ActiveAfterUpdate'
    BY <1>8 DEF MarkedInGroup, ActiveAfterUpdate, command_type_register,
                command_type_update, command_type_trigger
  <1> QED
    BY <1>6, <1>7, <1>8, <1>9 DEF SeqInv, WaitOK, EdgeSeen, TriggerLatches

(* execute_command_spi_write() keeps the invariant, if the masks select    *)
(* the registers in use.                                                   *)
LEMMA ExecSpiWriteInv ==
  ASSUME Covers, SeqInv, ListInv', ExecSpiWrite
  PROVE  SeqInv'
  <1>1. dds \in Dds /\ Marked(dds, update_registers)
    BY DEF SeqInv, TypeOK, NoLostUpdate, Marked
  <1>2. /\ dds' = ad9910_update_multiple_regs(dds, update_registers)
        /\ update_registers' = {}
    BY DEF ExecSpiWrite
  <1>3. dds' \in Dds /\ Marked(dds', {})
    BY <1>1, <1>2, SpiWriteSends
  <1>4. TypeOK'
    <2>1. truncated' \in BOOLEAN
      BY Zenon DEF ExecSpiWrite
    <2> QED
      BY <1>2, <1>3, <2>1 DEF SeqInv, TypeOK, ListInv, ExecSpiWrite
  <1>5. NoLostUpdate'
    BY <1>2, <1>3 DEF NoLostUpdate, Marked
  <1>6. /\ pos' > 1 /\ wait = "no" /\ wait' = "no"
        /\ commands'.list[pos' - 1].type = command_type_spi_write
    <2>1. ExecNext /\ Running(command_type_spi_write)
      BY DEF ExecSpiWrite
    <2>2. wait = "no"
      BY <2>1 DEF SeqInv, WaitOK, TypeOK, Running, Idle,
                  command_type_spi_write, command_type_trigger
    <2> QED
      BY <2>1, <2>2, Advance DEF Running, Current, ExecSpiWrite
  <1>7. MarkedInGroup' /\ ActiveAfterUpdate'
    BY <1>2, <1>6 DEF MarkedInGroup, ActiveAfterUpdate,
       command_type_spi_write, command_type_update, command_type_trigger
  <1> QED
    BY <1>4, <1>5, <1>6, <1>7 DEF SeqInv, WaitOK, EdgeSeen, TriggerLatches

(* Executing a pin, wait, update or parallel command keeps the invariant.  *)
LEMMA ExecPlainInv ==
  ASSUME SeqInv, ListInv', ExecPlain
  PROVE  SeqInv'
  <1>1. PICK t \in Plain \ {command_type_trigger} : Running(t)
    BY DEF ExecPlain
  <1>2. t \in Types /\ Current.type = t /\ Effect(t, Current.arg)
    BY <1>1 DEF ExecPlain, Running, Plain
  <1>3. dds \in Dds /\ Marked(dds, update_registers)
    BY DEF SeqInv, TypeOK, NoLostUpdate, Marked
  <1>4. dds' \in Dds /\ Marked(dds', update_registers)
    <2>1. CASE dds' = ad9910_io_update(dds)
      BY <1>3, <2>1, LatchFacts DEF ad9910_io_update, Marked
    <2>2. CASE dds' = enable_parallel(dds)
      BY <1>3, <2>2, SetAndSend, SequencerAssumption DEF enable_parallel
    <2>3. CASE dds' = dds
      BY <1>3, <2>3
    <2> QED
      BY <1>2, <2>1, <2>2, <2>3 DEF Effect
  <1>5. pins' \in [Pins -> {0, 1}]
    <2>1. Current.arg \in Arg[t]
      BY <1>1, <1>2, RunningFacts
    <2>2. t = command_type_pin =>
            Current.arg[1] \in Pins /\ Current.arg[2] \in {0, 1}
      BY <2>1, SequencerAssumption
    <2> QED
      BY <1>2, <2>2 DEF Effect, SeqInv, TypeOK
  <1>6. TypeOK'
    BY <1>4, <1>5 DEF SeqInv, TypeOK, ListInv, ExecPlain
  <1>7. NoLostUpdate'
    BY <1>4 DEF NoLostUpdate, Marked, ExecPlain
  <1>8. /\ pos' > 1 /\ wait = "no" /\ wait' = "no"
        /\ commands'.list[pos' - 1].type = t
    <2>1. wait = "no"
      BY <1>1 DEF SeqInv, WaitOK, TypeOK, Running, Idle
    <2> QED
      BY <1>2, <2>1, Advance DEF Current, ExecPlain
  <1>9. ~truncated => update_registers = {} /\ dds.buffered = dds.shadow
    BY <1>1, AllSent
  <1>10. MarkedInGroup'
    BY <1>9 DEF MarkedInGroup, ExecPlain
  <1>11. ActiveAfterUpdate'
    <2> SUFFICES ASSUME t = command_type_update, ~truncated
                 PROVE  dds'.active = dds'.shadow
      BY <1>1, <1>8 DEF ActiveAfterUpdate, ExecPlain
    <2>1. dds' = Latch(dds)
      BY <1>2 DEF Effect, ad9910_io_update, command_type_update,
                  command_type_parallel
    <2> QED
      BY <1>3, <1>9, <2>1, LatchFacts
  <1> QED
    BY <1>6, <1>7, <1>8, <1>10, <1>11 DEF SeqInv, WaitOK, EdgeSeen,
                                          TriggerLatches

(* The trigger pin: opening it, and the edges while it is open.            *)
LEMMA OpenTriggerInv ==
  ASSUME SeqInv, ListInv', OpenTrigger, wait = "no",
         Idle \/ Running(command_type_trigger),
         UNCHANGED <<listVars, update_registers, pins, current_mode,
                     command_execute_flag, ext, booting, truncated>>
  PROVE  SeqInv'
  <1>1. dds \in Dds
    BY DEF SeqInv, TypeOK
  <1>2. /\ dds' \in Dds /\ dds'.shadow = dds.shadow
        /\ dds'.buffered = dds.buffered
        /\ ext = 1 => dds'.active = dds'.buffered
        /\ ext = 0 => dds' = dds
    BY <1>1, LatchFacts DEF OpenTrigger
  <1>3. TypeOK'
    BY <1>2 DEF SeqInv, TypeOK, ListInv, OpenTrigger
  <1>4. NoLostUpdate' /\ MarkedInGroup'
    BY <1>2 DEF SeqInv, NoLostUpdate, MarkedInGroup, listVars
  <1>5. WaitOK' /\ EdgeSeen' /\ TriggerLatches'
    BY <1>2 DEF WaitOK, EdgeSeen, TriggerLatches, OpenTrigger, Idle, Running,
                Current, listVars
  <1>6. ActiveAfterUpdate'
    <2> SUFFICES ASSUME ~truncated, pos > 1,
                        commands.list[pos - 1].type \in
                          {command_type_update, command_type_trigger}
                 PROVE  dds'.active = dds'.shadow
      BY DEF ActiveAfterUpdate, listVars
    <2>1. command_type_trigger \in Plain
      BY DEF Plain, Types, command_type_trigger, command_type_end,
             command_type_register, command_type_spi_write
    <2>2. dds.buffered = dds.shadow
      BY <2>1, AllSent DEF Idle
    <2>3. dds.active = dds.shadow
      BY DEF SeqInv, ActiveAfterUpdate
    <2>4. ext \in {0, 1}
      BY DEF SeqInv, TypeOK
    <2> QED
      BY <1>2, <2>2, <2>3, <2>4
  <1> QED
    BY <1>3, <1>4, <1>5, <1>6 DEF SeqInv

(* Changes of the external level, and seeing it high, keep the invariant.  *)
LEMMA EdgeInv ==
  ASSUME SeqInv, ListInv', ExtRise \/ ExtFall \/ SeeHigh
  PROVE  SeqInv'
  <1>1. dds \in Dds
    BY DEF SeqInv, TypeOK
  <1>2. /\ dds' \in Dds /\ dds'.shadow = dds.shadow
        /\ dds'.buffered = dds.buffered
        /\ dds' = dds \/ (wait /= "no" /\ dds'.active = dds.buffered)
        /\ UNCHANGED <<listVars, update_registers, pins, current_mode,
                       command_execute_flag, booting, truncated>>
    BY <1>1, LatchFacts DEF ExtRise, ExtFall, SeeHigh
  <1>3. TypeOK'
    BY <1>2 DEF SeqInv, TypeOK, ListInv, ExtRise, ExtFall, SeeHigh
  <1>4. NoLostUpdate' /\ MarkedInGroup'
    BY <1>2 DEF SeqInv, NoLostUpdate, MarkedInGroup, listVars
  <1>5. WaitOK'
    BY <1>2 DEF SeqInv, WaitOK, Idle, Running, Current, listVars, ExtRise,
                ExtFall, SeeHigh
  <1>6. EdgeSeen' /\ TriggerLatches'
    <2>1. CASE ExtRise
      BY <1>1, <2>1, LatchFacts DEF ExtRise, EdgeSeen, TriggerLatches
    <2>2. CASE ExtFall
      BY <2>2 DEF ExtFall, SeqInv, EdgeSeen, TriggerLatches
    <2>3. CASE SeeHigh
      BY <2>3 DEF SeeHigh, SeqInv, EdgeSeen, TriggerLatches
    <2> QED
      BY <2>1, <2>2, <2>3
  <1>7. ActiveAfterUpdate'
    <2> SUFFICES ASSUME ~truncated, pos > 1,
                        commands.list[pos - 1].type \in
                          {command_type_update, command_type_trigger}
                 PROVE  dds'.active = dds'.shadow
      BY <1>2 DEF ActiveAfterUpdate, listVars
    <2>1. command_type_trigger \in Plain
      BY DEF Plain, Types, command_type_trigger, command_type_end,
             command_type_register, command_type_spi_write
    <2>2. dds.active = dds.shadow
      BY DEF SeqInv, ActiveAfterUpdate
    <2>3. wait /= "no" => dds.buffered = dds.shadow
      BY <2>1, AllSent DEF SeqInv, WaitOK, Idle
    <2> QED
      BY <1>2, <2>2, <2>3
  <1> QED
    BY <1>3, <1>4, <1>5, <1>6, <1>7 DEF SeqInv

(* The end of execute_command_trigger() keeps the invariant.               *)
LEMMA SeeLowInv ==
  ASSUME SeqInv, ListInv', SeeLow
  PROVE  SeqInv'
  <1>1. /\ wait = "low" /\ wait' = "no" /\ ext = 0
        /\ UNCHANGED <<dds, update_registers, pins, current_mode,
                       command_execute_flag, ext, booting, truncated>>
    BY DEF SeeLow
  <1>2. TypeOK'
    BY <1>1 DEF SeqInv, TypeOK, ListInv
  <1>3. NoLostUpdate' /\ WaitOK' /\ EdgeSeen' /\ TriggerLatches'
    BY <1>1 DEF SeqInv, NoLostUpdate, WaitOK, EdgeSeen, TriggerLatches
  <1>4. MarkedInGroup' /\ ActiveAfterUpdate'
    <2>1. CASE Idle
      BY <1>1, <2>1 DEF SeeLow, Idle, listVars, SeqInv, MarkedInGroup,
                        ActiveAfterUpdate
    <2>2. CASE ~Idle
      <3>1. Running(command_type_trigger) /\ ExecNext
        BY <1>1, <2>2 DEF SeqInv, WaitOK, SeeLow
      <3>2. command_type_trigger \in Plain
        BY DEF Plain, Types, command_type_trigger, command_type_end,
               command_type_register, command_type_spi_write
      <3>3. ~truncated => update_registers = {} /\ dds.buffered = dds.shadow
        BY <3>1, <3>2, AllSent
      <3>4. dds.active = dds.buffered
        BY <1>1 DEF SeqInv, TriggerLatches
      <3> QED
        BY <1>1, <3>3, <3>4 DEF MarkedInGroup, ActiveAfterUpdate
    <2> QED
      BY <2>1, <2>2
  <1> QED
    BY <1>2, <1>3, <1>4 DEF SeqInv

(* The beginning of a run and the end of a pass.                           *)
LEMMA PassInv ==
  ASSUME SeqInv, ListInv', Execute \/ ExecEnd
  PROVE  SeqInv'
  <1>0. /\ Len(commands.list) \in Nat /\ pos \in Nat
        /\ commands.list \in Seq(CommandSet)
    BY DEF SeqInv, ListInv, ListTypeOK, Queues
  <1>1. /\ wait = "no" /\ wait' = "no" /\ pos' \in {0, 1}
        /\ UNCHANGED <<dds, update_registers, pins, current_mode, ext>>
    <2>1. CASE Execute
      BY <2>1 DEF Execute, Ready, Start, seqVars
    <2>2. CASE ExecEnd
      <3>1. pos = Len(commands.list) + 1 /\ pos' \in {0, 1}
        BY <2>2 DEF ExecEnd, EndPass, EndStartup
      <3>2. ~Idle /\ ~Running(command_type_trigger)
        BY <1>0, <3>1 DEF Idle, Running
      <3> QED
        BY <2>2, <3>1, <3>2 DEF ExecEnd, SeqInv, WaitOK
    <2> QED
      BY <2>1, <2>2
  <1>2. TypeOK'
    <2>1. /\ command_execute_flag' \in BOOLEAN /\ truncated' \in BOOLEAN
          /\ booting' \in BOOLEAN
      <3>1. CASE Execute
        BY <3>1 DEF Execute, seqVars, SeqInv, TypeOK
      <3>2. CASE ExecEnd
        <4>1. (pass < commands.repeat) \in BOOLEAN
          BY DEF SeqInv, ListInv, ListTypeOK, Queues
        <4>2. (truncated \/ EndsIn(commands, command_type_register))
                \in BOOLEAN
          BY Zenon
        <4> QED
          BY <3>2, <4>1, <4>2, Zenon DEF ExecEnd
      <3> QED
        BY <3>1, <3>2
    <2> QED
      BY <1>1, <2>1 DEF SeqInv, TypeOK, ListInv
  <1>3. NoLostUpdate' /\ ActiveAfterUpdate'
    BY <1>1 DEF SeqInv, NoLostUpdate, ActiveAfterUpdate
  <1>4. update_registers /= {} => truncated'
    <2> SUFFICES ASSUME update_registers /= {} PROVE truncated'
      OBVIOUS
    <2>1. CASE Execute
      BY <2>1 DEF Execute, Ready, Idle, seqVars, SeqInv, MarkedInGroup
    <2>2. CASE ExecEnd
      <3>1. pos = Len(commands.list) + 1
            /\ (truncated' <=> truncated \/ EndsIn(commands,
                                                 command_type_register))
        BY <2>2, Zenon DEF ExecEnd, EndPass, EndStartup
      <3>2. pos > 1 => commands.list /= <<>> /\ pos - 1 = Len(commands.list)
        BY <1>0, <3>1
      <3>3. truncated \/ (pos > 1 /\ commands.list[pos - 1].type
                                      = command_type_register)
        BY DEF SeqInv, MarkedInGroup
      <3> QED
        BY <3>1, <3>2, <3>3 DEF EndsIn
    <2> QED
      BY <2>1, <2>2
  <1>5. MarkedInGroup' /\ WaitOK' /\ EdgeSeen' /\ TriggerLatches'
    BY <1>1, <1>4 DEF MarkedInGroup, WaitOK, EdgeSeen, TriggerLatches
  <1> QED
    BY <1>2, <1>3, <1>5 DEF SeqInv

(* Every step keeps the invariant.                                         *)
LEMMA NextSeqInv ==
  ASSUME Covers, SeqInv, [Next]_vars
  PROVE  SeqInv'
  <1>1. [ListNext]_listVars \/ EndStartup
    BY ListStep DEF vars
  <1>2. ListInv'
    BY <1>1, ListNextInv, EndStartupInv DEF SeqInv
  <1>3. CASE NormalTrigger
    BY <1>2, <1>3, OpenTriggerInv DEF NormalTrigger, Ready
  <1>4. CASE ExecTrigger
    BY <1>2, <1>4, OpenTriggerInv DEF ExecTrigger
  <1>5. CASE UNCHANGED vars
    BY <1>2, <1>5 DEF vars, listVars, seqVars, SeqInv, TypeOK, ListInv,
       NoLostUpdate, MarkedInGroup, ActiveAfterUpdate, WaitOK, EdgeSeen,
       TriggerLatches, Idle, Running, Current
  <1> QED
    BY <1>2, <1>3, <1>4, <1>5, SetupSteps, ExecRegisterInv, ExecSpiWriteInv,
       ExecPlainInv, EdgeInv, SeeLowInv, PassInv DEF Next, Exec

(* The invariant holds in every reachable state.                           *)
LEMMA SeqInvAlways == Covers => (Spec => []SeqInv)
  <1> SUFFICES ASSUME Covers PROVE Spec => []SeqInv
    OBVIOUS
  <1>1. SeqInv /\ [Next]_vars => SeqInv'
    BY NextSeqInv
  <1> QED
    BY InitSeqInv, <1>1, PTL DEF Spec

-----------------------------------------------------------------------------
(* Setting and sending fields of other registers, and I/O updates, leave   *)
(* the PLL alone.                                                          *)
LEMMA PllKept ==
  ASSUME NEW d \in Dds, PllSet(d)
  PROVE  /\ \A f \in Fields : \A v \in Nat : FieldReg[f] /= cfr3 =>
              LET e == ad9910_set_value(d, f, v)
              IN  e \in Dds /\ PllSet(e)
         /\ \A R : PllSet(Send(d, R))
         /\ PllSet(Latch(d))
  <1>1. ASSUME NEW f \in Fields, NEW v \in Nat, FieldReg[f] /= cfr3
        PROVE  LET e == ad9910_set_value(d, f, v)
               IN  e \in Dds /\ PllSet(e)
    <2> DEFINE e == ad9910_set_value(d, f, v)
    <2>1. /\ e \in Dds /\ e.buffered = d.buffered /\ e.active = d.active
          /\ \A g \in Fields : g /= f => e.shadow[g] = d.shadow[g]
      BY SetValueFacts
    <2> HIDE DEF e
    <2>2. e \in Dds /\ PllSet(e)
      BY <1>1, <2>1 DEF PllSet
    <2> QED
      BY <2>2 DEF e
  <1>2. ASSUME NEW R PROVE PllSet(Send(d, R))
    <2> DEFINE e == Send(d, R)
    <2>1. /\ e.shadow = d.shadow /\ e.active = d.active
          /\ \A g \in Fields : e.buffered[g] =
               IF FieldReg[g] \in R THEN d.shadow[g] ELSE d.buffered[g]
      BY SendFacts
    <2> HIDE DEF e
    <2>2. PllSet(e)
      BY <2>1 DEF PllSet
    <2> QED
      BY <2>2 DEF e
  <1>3. PllSet(Latch(d))
    BY LatchFacts DEF PllSet
  <1> QED
    BY <1>1, <1>2, <1>3

(* No step touches the PLL.                                                *)
LEMMA NextPll ==
  ASSUME SeqInv, PllSet(dds), [Next]_vars
  PROVE  PllSet(dds')
  <1>1. dds \in Dds
    BY DEF SeqInv, TypeOK
  <1>2. CASE dds' = dds
    BY <1>2
  <1>3. CASE dds' = Latch(dds)
    BY <1>1, <1>3, PllKept
  <1>4. CASE dds' = ad9910_update_multiple_regs(dds, update_registers)
    BY <1>1, <1>4, PllKept DEF ad9910_update_multiple_regs
  <1>5. ASSUME NEW f \in Fields, NEW v \in Nat, FieldReg[f] /= cfr3,
               \/ dds' = ad9910_set_value(dds, f, v)
               \/ dds' = ad9910_update_matching_reg(
                           ad9910_set_value(dds, f, v), f)
        PROVE  PllSet(dds')
    <2> DEFINE e == ad9910_set_value(dds, f, v)
    <2>1. e \in Dds /\ PllSet(e)
      BY <1>1, <1>5, PllKept
    <2> HIDE DEF e
    <2>2. dds' = e \/ dds' = Send(e, {FieldReg[f]})
      BY <1>5 DEF e, ad9910_update_matching_reg, ad9910_update_reg
    <2> QED
      BY <2>1, <2>2, PllKept
  <1>6. CASE dds' = enable_parallel(dds)
    BY <1>5, <1>6, SequencerAssumption DEF enable_parallel
  <1>7. ASSUME NEW a \in Arg[command_type_register],
               \/ dds' = ad9910_set_value(dds, a[1], a[2])
               \/ dds' = execute_command_register(dds, a)
        PROVE  PllSet(dds')
    <2>1. a[1] \in Fields /\ a[2] \in Nat /\ FieldReg[a[1]] /= cfr3
      BY SequencerAssumption
    <2> QED
      BY <1>5, <1>7, <2>1 DEF execute_command_register
  <1>8. CASE ExecRegister
    <2>1. Current.arg \in Arg[command_type_register]
      BY <1>8, RunningFacts, Sizes DEF ExecRegister
    <2> QED
      BY <1>7, <1>8, <2>1 DEF ExecRegister
  <1>9. ASSUME NEW t, NEW a, Effect(t, a) PROVE PllSet(dds')
    BY <1>2, <1>3, <1>6, <1>9 DEF Effect, ad9910_io_update
  <1>10. CASE OpenTrigger
    BY <1>2, <1>3, <1>10 DEF OpenTrigger
  <1>11. CASE ExecPlain
    BY <1>9, <1>11 DEF ExecPlain
  <1>12. CASE ExtRise
    BY <1>2, <1>3, <1>12 DEF ExtRise
  <1>13. ASSUME NEW a \in Arg[command_type_register], NormalRegister(a)
         PROVE  PllSet(dds')
    BY <1>7, <1>13 DEF NormalRegister
  <1>14. ASSUME NEW t, NEW a, NormalPlain(t, a) PROVE PllSet(dds')
    BY <1>9, <1>14 DEF NormalPlain
  <1>15. CASE NormalTrigger \/ ExecTrigger
    BY <1>10, <1>15 DEF NormalTrigger, ExecTrigger
  <1>16. CASE ExecSpiWrite
    BY <1>4, <1>16, SMTT(30) DEF ExecSpiWrite
  <1>17. ASSUME \/ \E m \in {"normal", "program", "execute"} : mode(m)
                \/ \E t \in Plain : \E a \in Arg[t] : ProgramPlain(t, a)
                \/ \E a \in Arg[command_type_register] : ProgramRegister(a)
                \/ SequenceClear \/ (\E n \in Repeats : SequenceNcycles(n))
                \/ Execute \/ ExecEnd \/ SeeHigh \/ SeeLow \/ ExtFall
                \/ UNCHANGED vars
         PROVE  dds' = dds
    BY <1>17 DEF mode, ProgramPlain, ProgramRegister, SequenceClear,
       SequenceNcycles, Execute, ExecEnd, SeeHigh, SeeLow, ExtFall, vars,
       seqVars
  <1> QED
    BY <1>2, <1>8, <1>11, <1>12, <1>13, <1>14, <1>15, <1>16, <1>17
       DEF Next, Exec

-----------------------------------------------------------------------------
(* Every variable keeps its type when the masks cover the registers.       *)
THEOREM SequencerTypes == Covers => (Spec => []TypeOK)
  <1>1. SeqInv => TypeOK
    BY DEF SeqInv
  <1> QED
    BY <1>1, SeqInvAlways, PTL

(* When the mask covers the registers in use, no register change of a      *)
(* program is forgotten by execute_command_spi_write.                      *)
THEOREM NoUpdateIsLost == Covers => (Spec => []NoLostUpdate)
  <1>1. SeqInv => NoLostUpdate
    BY DEF SeqInv
  <1> QED
    BY <1>1, SeqInvAlways, PTL

(* Changes wait for their spi_write only inside a group of registers.      *)
THEOREM MarksEndWithGroup == Covers => (Spec => []MarkedInGroup)
  <1>1. SeqInv => MarkedInGroup
    BY DEF SeqInv
  <1> QED
    BY <1>1, SeqInvAlways, PTL

(* Everything programmed before an update or a trigger command is active   *)
(* behind it.                                                              *)
THEOREM UpdatesTakeEffect == Covers => (Spec => []ActiveAfterUpdate)
  <1>1. SeqInv => ActiveAfterUpdate
    BY DEF SeqInv
  <1> QED
    BY <1>1, SeqInvAlways, PTL

(* execute_command_trigger returns only after the chip saw the edge.       *)
THEOREM TriggerSeesEdge == Covers => (Spec => []TriggerLatches)
  <1>1. SeqInv => TriggerLatches
    BY DEF SeqInv
  <1> QED
    BY <1>1, SeqInvAlways, PTL

(* Outside commands_execute the chip has what the driver's copy has.       *)
THEOREM IdleIsSent == Covers => (Spec => []SentWhenIdle)
  <1>1. SeqInv => SentWhenIdle
    BY AllSent DEF SentWhenIdle, Idle
  <1> QED
    BY <1>1, SeqInvAlways, PTL

(* The chip keeps the clock that ad9910_init set up, whatever is queued,   *)
(* executed or triggered.                                                  *)
THEOREM ClockKept == Covers => (Spec => []PllActive)
  <1> SUFFICES ASSUME Covers PROVE Spec => []PllActive
    OBVIOUS
  <1>1. Init => PllSet(dds)
    BY BootFacts DEF Init
  <1>2. SeqInv /\ PllSet(dds) /\ [Next]_vars => PllSet(dds)'
    BY NextPll, SMTT(30) DEF PllSet
  <1>3. PllSet(dds) => PllActive
    BY DEF PllSet, PllActive
  <1> QED
    BY <1>1, <1>2, <1>3, SeqInvAlways, PTL DEF Spec
=============================================================================
