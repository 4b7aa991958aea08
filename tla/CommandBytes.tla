---------------------------- MODULE CommandBytes ----------------------------
(***************************************************************************)
(* The command queue as commands.c stores it: headers and payloads packed  *)
(* into one byte array, walked by two loops that each compute where the    *)
(* next command starts.  find_last_command uses get_command_length,        *)
(* execute_commands uses what execute_command returns.                     *)
(*                                                                         *)
(* Offset c of commands_buf is position c + 1 of `buf'; `commands.end' is  *)
(* the position behind the last byte.  Bytes behind the end are not kept.  *)
(***************************************************************************)
EXTENDS Integers, Sequences, FiniteSets

CONSTANTS
  COMMAND_QUEUE_LENGTH, \* capacity in bytes
  Sizeof,               \* payload bytes of each command type
  Payload,              \* payloads (byte sequences) of each command type
  Repeats,              \* arguments of commands_repeat
  NoPayload             \* no register command is being queued

command_type_register == 1
command_type_pin == 2
command_type_wait == 4
command_type_spi_write == 6
command_type_parallel == 7
command_type_parallel_frequency == 8
Types == 0 .. 8
Plain == Types \ {0, command_type_register, command_type_spi_write}

Byte == 0 .. 255
Header == 1

ASSUME BytesAssumption ==
  /\ COMMAND_QUEUE_LENGTH \in Nat
  /\ Sizeof \in [Types -> Nat]
  /\ DOMAIN Payload = Types
  /\ \A t \in Types : \A p \in Payload[t] :
       p \in Seq(Byte) /\ Len(p) = Sizeof[t]
  /\ \A t \in {0, 3, 5, command_type_spi_write} : Sizeof[t] = 0
  /\ Payload[command_type_spi_write] = {<<>>}
  /\ Repeats \subseteq Nat
  /\ 0 \in Repeats
  /\ NoPayload \notin Seq(Byte)

VARIABLES
  buf,     \* bytes between commands.begin and commands.end
  repeat,  \* commands.repeat
  pc,      \* "idle", "find" (find_last_command) or "exec" (execute_commands)
  cur,     \* the loop's cursor
  pass,    \* the counter i of execute_commands
  pending, \* the register command being queued
  hdrs,    \* history: positions at which command_queue put a header
  damaged  \* history: command_queue_register took a payload byte for a
           \* spi_write and removed it; commands_clear mends the queue

vars == <<buf, repeat, pc, cur, pass, pending, hdrs, damaged>>

End == Len(buf) + 1

TypeOK ==
  /\ buf \in Seq(Byte)
  /\ repeat \in Repeats
  /\ pc \in {"idle", "find", "exec"}
  /\ cur \in Nat
  /\ pass \in Nat
  /\ pending \in Payload[command_type_register] \cup {NoPayload}
  /\ hdrs \in SUBSET Nat
  /\ damaged \in BOOLEAN

Init ==
  /\ buf = <<>>
  /\ repeat = 0
  /\ pc = "idle"
  /\ cur = 0
  /\ pass = 0
  /\ pending = NoPayload
  /\ hdrs = {}
  /\ damaged = FALSE

(* Mutant of get_command_length: the case for wait is missing.             *)
get_command_length_no_wait(b) ==
  IF b \in {command_type_register, command_type_pin}
  THEN Header + Sizeof[b]
  ELSE Header

(* get_command_length(): payloads of register, pin and wait are known,     *)
(* everything else counts as a bare header.                                *)
get_command_length(b) ==
  IF b \in {command_type_register, command_type_pin, command_type_wait}
  THEN Header + Sizeof[b]
  ELSE Header

(* What execute_command() returns: the header, and the sizeof the          *)
(* execute_command_<type> it dispatches to returns.                        *)
execute_command(b) ==
  IF b \in Types THEN Header + Sizeof[b] ELSE Header

(* Mutants of command_queue: the check forgets sizeof(command); the        *)
(* payload is appended whether or not there is room for it.                *)
command_queue_no_header(s, h, t, p) ==
  IF Len(s) + Sizeof[t] > COMMAND_QUEUE_LENGTH
  THEN [buf |-> s, hdrs |-> h]
  ELSE [buf |-> s \o <<t>> \o p, hdrs |-> h \cup {Len(s) + 1}]

command_queue_cut(s, h, t, p) ==
  IF Len(s) + Header > COMMAND_QUEUE_LENGTH
  THEN [buf |-> s, hdrs |-> h]
  ELSE [buf |-> IF Len(s) + Header + Sizeof[t] > COMMAND_QUEUE_LENGTH
                THEN s \o <<t>>
                ELSE s \o <<t>> \o p,
        hdrs |-> h \cup {Len(s) + 1}]

(* command_queue() on the bytes s with headers h.                          *)
command_queue(s, h, t, p) ==
  IF Len(s) + Header + Sizeof[t] > COMMAND_QUEUE_LENGTH
  THEN [buf |-> s, hdrs |-> h]
  ELSE [buf |-> s \o <<t>> \o p, hdrs |-> h \cup {Len(s) + 1}]

QueuePlain(t, p) ==
  /\ pc = "idle"
  /\ LET q == command_queue(buf, hdrs, t, p)
     IN  buf' = q.buf /\ hdrs' = q.hdrs
  /\ UNCHANGED <<repeat, pc, cur, pass, pending, damaged>>

(* command_queue_register(): look for the last command ...                 *)
FindLast(p) ==
  /\ pc = "idle"
  /\ pc' = "find"
  /\ cur' = 1
  /\ pending' = p
  /\ UNCHANGED <<buf, repeat, pass, hdrs, damaged>>

(* ... one turn of the loop of find_last_command ...                       *)
FindNext ==
  /\ pc = "find"
  /\ cur < End
  /\ cur + get_command_length(buf[cur]) /= End
  /\ cur' = cur + get_command_length(buf[cur])
  /\ UNCHANGED <<buf, repeat, pc, pass, pending, hdrs, damaged>>

(* ... which ends at the command that reaches commands.end, or nowhere.    *)
Found == cur < End /\ cur + get_command_length(buf[cur]) = End
NotFound == cur >= End

(* Mutant of QueueRegister: any last command without payload is dropped.   *)
QueueRegister_drop_any ==
  /\ pc = "find"
  /\ Found \/ NotFound
  /\ LET drop == Found /\ get_command_length(buf[cur]) = Header
         s0 == IF drop THEN SubSeq(buf, 1, Len(buf) - Header) ELSE buf
         h0 == IF drop THEN hdrs \ {Len(buf)} ELSE hdrs
         q1 == command_queue(s0, h0, command_type_register, pending)
         q2 == command_queue(q1.buf, q1.hdrs, command_type_spi_write, <<>>)
     IN  /\ buf' = q2.buf
         /\ hdrs' = q2.hdrs
         /\ damaged' = (damaged \/ (drop /\ Len(buf) \notin hdrs))
  /\ pc' = "idle"
  /\ cur' = 0
  /\ pending' = NoPayload
  /\ UNCHANGED <<repeat, pass>>

(* The rest of command_queue_register: give up a trailing spi_write, queue *)
(* the register command and a new spi_write, each if it fits.              *)
QueueRegister ==
  /\ pc = "find"
  /\ Found \/ NotFound
  /\ LET drop == Found /\ buf[cur] = command_type_spi_write
         s0 == IF drop THEN SubSeq(buf, 1, Len(buf) - Header) ELSE buf
         h0 == IF drop THEN hdrs \ {Len(buf)} ELSE hdrs
         q1 == command_queue(s0, h0, command_type_register, pending)
         q2 == command_queue(q1.buf, q1.hdrs, command_type_spi_write, <<>>)
     IN  /\ buf' = q2.buf
         /\ hdrs' = q2.hdrs
         /\ damaged' = (damaged \/ (drop /\ Len(buf) \notin hdrs))
  /\ pc' = "idle"
  /\ cur' = 0
  /\ pending' = NoPayload
  /\ UNCHANGED <<repeat, pass>>

commands_clear ==
  /\ pc = "idle"
  /\ buf' = <<>>
  /\ hdrs' = {}
  /\ damaged' = FALSE
  /\ UNCHANGED <<repeat, pc, cur, pass, pending>>

commands_repeat(n) ==
  /\ pc = "idle"
  /\ repeat' = n
  /\ UNCHANGED <<buf, pc, cur, pass, pending, hdrs, damaged>>

commands_execute ==
  /\ pc = "idle"
  /\ pc' = "exec"
  /\ cur' = 1
  /\ pass' = 0
  /\ UNCHANGED <<buf, repeat, pending, hdrs, damaged>>

(* Mutants: execute_command returns the payload size without the header;   *)
(* `while (i++ <= cmds->repeat)'.                                          *)
ExecNext_no_header ==
  /\ pc = "exec"
  /\ cur < End
  /\ cur' = cur + execute_command(buf[cur]) - Header
  /\ UNCHANGED <<buf, repeat, pc, pass, pending, hdrs, damaged>>

EndPass_one_more ==
  /\ pc = "exec"
  /\ cur >= End
  /\ IF pass <= repeat
     THEN pc' = "exec" /\ cur' = 1 /\ pass' = pass + 1
     ELSE pc' = "idle" /\ cur' = 0 /\ pass' = 0
  /\ UNCHANGED <<buf, repeat, pending, hdrs, damaged>>

(* execute_commands(): the inner loop and the repeat loop.                 *)
ExecNext ==
  /\ pc = "exec"
  /\ cur < End
  /\ cur' = cur + execute_command(buf[cur])
  /\ UNCHANGED <<buf, repeat, pc, pass, pending, hdrs, damaged>>

EndPass ==
  /\ pc = "exec"
  /\ cur >= End
  /\ IF pass < repeat
     THEN pc' = "exec" /\ cur' = 1 /\ pass' = pass + 1
     ELSE pc' = "idle" /\ cur' = 0 /\ pass' = 0
  /\ UNCHANGED <<buf, repeat, pending, hdrs, damaged>>

Next ==
  \/ \E t \in Plain : \E p \in Payload[t] : QueuePlain(t, p)
  \/ \E p \in Payload[command_type_register] : FindLast(p)
  \/ FindNext
  \/ QueueRegister
  \/ commands_clear
  \/ \E n \in Repeats : commands_repeat(n)
  \/ commands_execute
  \/ ExecNext
  \/ EndPass

Spec == Init /\ [][Next]_vars

-----------------------------------------------------------------------------
Queued == {t \in Types : Payload[t] /= {}}

(* The commands whose payload execute_command skips and get_command_length *)
(* does not: find_last_command steps into it, byte by byte.                *)
Uncounted == {command_type_parallel, command_type_parallel_frequency}

(* The queue never outgrows commands_buf, whatever is queued or refused.   *)
Capacity == Len(buf) <= COMMAND_QUEUE_LENGTH

(* The headers h split the bytes s into commands: the first one starts at  *)
(* commands.begin, each ends where the next starts, and the last ends      *)
(* exactly at commands.end.                                                *)
PackedBytes(s, h) ==
  /\ h \subseteq 1 .. Len(s)
  /\ s /= <<>> => 1 \in h
  /\ \A g \in h : /\ s[g] \in Queued
                  /\ g + execute_command(s[g]) \in h \cup {Len(s) + 1}
  /\ \A f, g \in h : f < g => f + execute_command(s[f]) <= g

(* The used part of commands_buf is a sequence of whole commands, whatever *)
(* was queued, refused or merged before, until a payload byte is taken for *)
(* a spi_write.                                                            *)
Packed == damaged \/ PackedBytes(buf, hdrs)

(* The cursor of an undamaged queue's execution only ever stands on a      *)
(* command header or at commands.end, parallel commands included, so no    *)
(* payload byte is executed as a command and `while (cur < cmds->end)'     *)
(* ends exactly at the end of the queue.                                   *)
ExecInStep == pc = "exec" /\ ~damaged => cur \in hdrs \cup {End}

(* find_last_command stands on a header, or at the end, unless a parallel  *)
(* command lies in front of its cursor: then it may stand in a payload.    *)
FindInStep ==
  pc = "find" /\ ~damaged =>
    \/ cur \in hdrs \cup {End}
    \/ \E h \in hdrs : h < cur /\ buf[h] \in Uncounted

(* "if the last command was a spi write we remove that": bytes leave the   *)
(* queue only by commands_clear or as a spi_write that really is the last  *)
(* command.  Only in a queue that holds a parallel command can the byte    *)
(* instead be the last one of a payload that ends in the value of a        *)
(* spi_write's header: the comment in the code does not hold there.        *)
OnlySpiWriteRemoved ==
  [][\A i \in 1 .. Len(buf) :
       \/ i <= Len(buf') /\ buf'[i] = buf[i]
       \/ buf' = <<>>
       \/ /\ i = Len(buf)
          /\ buf[i] = command_type_spi_write
          /\ i \in hdrs \/ \E h \in hdrs : buf[h] \in Uncounted]_vars

-----------------------------------------------------------------------------
(* The list of commands the bytes s with headers h stand for: command n    *)
(* starts at the n-th header.                                              *)
Rank(h, x) == Cardinality({g \in h : g <= x})
Nth(h, n) == CHOOSE x \in h : Rank(h, x) = n

CommandAt(s, x) == [type |-> s[x], arg |-> SubSeq(s, x + 1, x + Sizeof[s[x]])]
Decoded(s, h) == [n \in 1 .. Cardinality(h) |-> CommandAt(s, Nth(h, n))]

List == INSTANCE CommandList WITH
  Arg <- Payload,
  WriteLike <- {p \in Seq(Byte) :
                  p /= <<>> /\ p[Len(p)] = command_type_spi_write},
  commands <- IF damaged
              THEN [list |-> <<>>, end |-> 0, repeat |-> repeat,
                    intact |-> FALSE]
              ELSE [list |-> Decoded(buf, hdrs), end |-> Len(buf),
                    repeat |-> repeat, intact |-> TRUE],
  pos <- IF pc = "exec" THEN Cardinality({h \in hdrs : h < cur}) + 1 ELSE 0,
  pass <- pass

(* The byte queue behaves like the command list: the same commands in the  *)
(* same order, refused and merged in the same cases, executed one by one,  *)
(* lost only where the list allows it and whole again once it is cleared.  *)
RefinesList == List!ListSpec
=============================================================================
