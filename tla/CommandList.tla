---------------------------- MODULE CommandList ----------------------------
(***************************************************************************)
(* What the command queue of commands.c promises its callers: a bounded    *)
(* list of commands that is filled in setup mode and replayed in run mode. *)
(* The memory the list lives in (command headers and payloads packed into  *)
(* one byte array) is the subject of CommandBytes, which implements this   *)
(* module; Sequencer gives the commands their effect on the DDS chip.      *)
(***************************************************************************)
EXTENDS Integers, Sequences

CONSTANTS
  COMMAND_QUEUE_LENGTH, \* capacity of the queue in bytes
  Sizeof,               \* payload bytes of each command type
  Arg,                  \* payloads a caller may give each command type
  WriteLike,            \* payloads whose last byte equals a spi_write's header
  Repeats               \* arguments of commands_repeat

(* enum command_type; a command starts with a header of sizeof(command)    *)
(* bytes, one with the short enums of the ARM ABI.                         *)
command_type_end == 0
command_type_register == 1
command_type_pin == 2
command_type_trigger == 3
command_type_wait == 4
command_type_update == 5
command_type_spi_write == 6
command_type_parallel == 7
command_type_parallel_frequency == 8

Types == 0 .. 8
Header == 1

(* Types queued by a plain command_queue_<type> call: DEFINE_COMMAND_QUEUE *)
(* instantiates it for these; registers have a function of their own.      *)
Plain ==
  Types \ {command_type_end, command_type_register, command_type_spi_write}

NoArg == <<>>
Command(t, a) == [type |-> t, arg |-> a]

(* Commands with a payload carry it, the others carry nothing.             *)
CommandSet ==
  UNION {{Command(t, a) : a \in Arg[t]} : t \in Types}

ASSUME QueueAssumption ==
  /\ COMMAND_QUEUE_LENGTH \in Nat
  /\ Sizeof \in [Types -> Nat]
  /\ DOMAIN Arg = Types
  /\ Arg[command_type_spi_write] = {NoArg}
  /\ Sizeof[command_type_spi_write] = 0
  /\ Repeats \subseteq Nat
  /\ 0 \in Repeats

Queues == [list : Seq(CommandSet),
           end : 0 .. COMMAND_QUEUE_LENGTH,
           repeat : Repeats,
           intact : BOOLEAN]

Empty(n) == [list |-> <<>>, end |-> 0, repeat |-> n, intact |-> TRUE]

(* The bytes are no longer a sequence of commands: nothing is promised     *)
(* about a lost queue and its executions until commands_clear.             *)
Lost(n) == [list |-> <<>>, end |-> 0, repeat |-> n, intact |-> FALSE]

VARIABLES
  commands, \* struct command_queue: the list, its size in bytes, the repeats,
            \* and whether the bytes still are that list
  pos,      \* next command of the running execution; 0 when none runs
  pass      \* the counter i of execute_commands

listVars == <<commands, pos, pass>>

ListTypeOK ==
  /\ commands \in Queues
  /\ pos \in Nat
  /\ commands.intact => pos <= Len(commands.list) + 1
  /\ pass \in Nat

ListInit ==
  /\ commands = Empty(0)
  /\ pos = 0
  /\ pass = 0

Idle == pos = 0

(* command_queue(): append, or refuse (return 1) when the bytes run out.   *)
Fits(q, t) == q.end + Header + Sizeof[t] <= COMMAND_QUEUE_LENGTH

Put(q, t, a) ==
  IF Fits(q, t)
  THEN [q EXCEPT !.list = Append(@, Command(t, a)),
                 !.end = @ + Header + Sizeof[t]]
  ELSE q

EndsIn(q, t) == q.list /= <<>> /\ q.list[Len(q.list)].type = t

DropSpiWrite(q) ==
  IF EndsIn(q, command_type_spi_write)
  THEN [q EXCEPT !.list = SubSeq(@, 1, Len(@) - 1), !.end = @ - Header]
  ELSE q

(* find_last_command walks with get_command_length, which knows no payload *)
(* of the two parallel commands: behind one of them the walk may stand     *)
(* inside a payload.                                                       *)
Uncounted == {command_type_parallel, command_type_parallel_frequency}
Blind(q) == \E n \in 1 .. Len(q.list) : q.list[n].type \in Uncounted

(* What the search of command_queue_register for a trailing spi_write      *)
(* leaves of the queue.  A blind search may miss the spi_write, ...        *)
Searched(q) == {DropSpiWrite(q)} \cup (IF Blind(q) THEN {q} ELSE {})

(* ... or take the last byte of a payload for one and remove that.         *)
Mistaken(q) ==
  /\ Blind(q)
  /\ q.list[Len(q.list)].arg \in WriteLike

QueuePlain(t, a) ==
  /\ Idle
  /\ commands' = Put(commands, t, a)
  /\ UNCHANGED <<pos, pass>>

WithRegister(q, a) ==
  Put(Put(q, command_type_register, a), command_type_spi_write, NoArg)

(* Mutant of PutRegister: the old spi_write stays.                         *)
PutRegister_keep(q, a) == {WithRegister(q, a)}

(* A register change joins the preceding ones: one spi_write follows them. *)
PutRegister(q, a) ==
  {WithRegister(r, a) : r \in Searched(q)}
  \cup (IF Mistaken(q) THEN {Lost(q.repeat)} ELSE {})

QueueRegister(a) ==
  /\ Idle
  /\ commands' \in PutRegister(commands, a)
  /\ UNCHANGED <<pos, pass>>

Clear ==
  /\ Idle
  /\ commands' = Empty(commands.repeat)
  /\ UNCHANGED <<pos, pass>>

SetRepeat(n) ==
  /\ Idle
  /\ commands' = [commands EXCEPT !.repeat = n]
  /\ UNCHANGED <<pos, pass>>

Start ==
  /\ Idle
  /\ pos' = 1
  /\ pass' = 0
  /\ UNCHANGED commands

(* One turn of the inner loop of execute_commands.                         *)
ExecNext ==
  /\ pos \in 1 .. Len(commands.list)
  /\ pos' = pos + 1
  /\ UNCHANGED <<commands, pass>>

(* Mutant of EndPass: i is not counted up.                                 *)
EndPass_not_counted ==
  /\ pos = Len(commands.list) + 1
  /\ IF pass < commands.repeat
     THEN pos' = 1 /\ pass' = pass
     ELSE pos' = 0 /\ pass' = 0
  /\ UNCHANGED commands

(* `while (i++ < cmds->repeat)': the first pass always runs.               *)
EndPass ==
  /\ pos = Len(commands.list) + 1
  /\ IF pass < commands.repeat
     THEN pos' = 1 /\ pass' = pass + 1
     ELSE pos' = 0 /\ pass' = 0
  /\ UNCHANGED commands

(* Anything may happen to a lost queue but a change of the repeats, which  *)
(* are no part of the bytes; it stays lost.                                *)
LostStep ==
  /\ ~commands.intact
  /\ commands' = Lost(commands.repeat)
  /\ pos' \in Nat
  /\ pass' \in Nat

ListNext ==
  \/ \E t \in Plain : \E a \in Arg[t] : QueuePlain(t, a)
  \/ \E a \in Arg[command_type_register] : QueueRegister(a)
  \/ Clear
  \/ \E n \in Repeats : SetRepeat(n)
  \/ Start
  \/ ExecNext
  \/ EndPass
  \/ LostStep

ListSpec == ListInit /\ [][ListNext]_listVars

-----------------------------------------------------------------------------
(* Register commands come in groups that one spi_write closes: a register  *)
(* command is followed by another one or by a spi_write, and only in a     *)
(* queue that is full to the last byte can a group lack its spi_write.     *)
(* Merging leaves no two spi_writes in a row, except behind a parallel     *)
(* command, where find_last_command may miss the first of them.            *)
Grouped(q) ==
  /\ \A n \in 1 .. Len(q.list) - 1 :
       /\ q.list[n].type = command_type_register
            => q.list[n + 1].type \in {command_type_register,
                                      command_type_spi_write}
       /\ q.list[n].type = command_type_spi_write
            => \/ q.list[n + 1].type /= command_type_spi_write
               \/ \E m \in 1 .. n : q.list[m].type \in Uncounted
  /\ EndsIn(q, command_type_register) => q.end = COMMAND_QUEUE_LENGTH

(* Whatever is queued, refused, merged and cleared, the list is grouped.   *)
RegisterThenWrite == Grouped(commands)
=============================================================================
