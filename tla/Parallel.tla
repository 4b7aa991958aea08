------------------------------ MODULE Parallel ------------------------------
(***************************************************************************)
(* The PARallel commands (scpi.c): a block of data is copied from as many  *)
(* packets as it takes (ethernet_copy_data) and played on the parallel     *)
(* port (ad9910_execute_parallel), at once or by the program.              *)
(***************************************************************************)
EXTENDS Integers, Sequences

CONSTANTS
  Word,              \* the number of values of a size_t
  PARALLEL_BUF_SIZE, \* bytes
  Lengths,           \* of the blocks that clients send, in bytes
  Header,            \* bytes of the command in front of its data
  Earlier,           \* bytes in front of the command in its packet
  Ncycles            \* arguments of PARallel:NCYCles

ASSUME ParallelAssumption ==
  /\ Word \in Nat \ {0}
  /\ PARALLEL_BUF_SIZE \in 2 .. Word - 1
  /\ Lengths \subseteq Nat
  /\ Header \in Nat \ {0}
  /\ Earlier \subseteq Nat
  /\ Ncycles \subseteq 0 .. Word - 1

VARIABLES
  pc,           \* in the main "loop", or in ethernet_copy_data ("copy") or
                \* ad9910_execute_parallel ("play")
  parallel,     \* struct parallel
  copied, sent, \* bytes of the block: copied so far, sent by the client
  queued,       \* the play command of the program: length, repeats, and
                \* (history) whether a block came after it
  play,         \* ad9910_execute_parallel: len, rep, i, and (history)
                \* whether it left out a sample
  (* history *)
  generation,   \* tells a block from the one before it
  aligned,      \* the last PARallel:DATA began its packet, and no blank
                \* followed its block
  foreign,      \* its connection ended before the block was complete
  stale         \* the play uses a block newer than its command

uploadVars == <<copied, sent, generation, aligned, foreign>>
vars == <<pc, parallel, queued, uploadVars, play, stale>>

Words == 0 .. Word - 1
Positions == 1 .. PARALLEL_BUF_SIZE
NoPlay == <<>>
Call(l, r) == [len |-> l, rep |-> r, i |-> 0, missed |-> FALSE]

TypeOK ==
  /\ pc \in {"loop", "copy", "play"}
  /\ parallel \in [buffer : [Positions -> Nat],
                   length : 0 .. PARALLEL_BUF_SIZE, repeats : Words]
  /\ {copied, sent} \subseteq 0 .. PARALLEL_BUF_SIZE
  /\ queued \in {NoPlay} \cup
       [length : 0 .. PARALLEL_BUF_SIZE, repeats : Words, old : BOOLEAN]
  /\ play \in [len : Words, rep : Words, i : Words, missed : BOOLEAN]
  /\ {aligned, foreign, stale} \subseteq BOOLEAN
  /\ generation \in {0, 1}

Init ==
  /\ pc = "loop"
  /\ parallel = [buffer |-> [k \in Positions |-> 0], length |-> 0,
                 repeats |-> 0]
  /\ copied = 0
  /\ sent = 0
  /\ queued = NoPlay
  /\ play = Call(0, 0)
  /\ generation = 0
  /\ aligned = TRUE
  /\ foreign = FALSE
  /\ stale = FALSE

-----------------------------------------------------------------------------
(* PARallel:DATA.  Byte k of the block of a generation; command text is 0. *)
Byte(k, g) == 2 * k + g
Text(n) == [k \in 1 .. n |-> 0]
Block(from, n, g) == [k \in 1 .. n |-> Byte(from + k, g)]

AtMost(n, max) == IF n <= max THEN n ELSE max

(* Mutant of Received: the offset is not reset for the next packet.        *)
Received_offset_stays(payload, offset, at, n) ==
  LET o == AtMost(Header, Len(payload))
      c == AtMost(Len(payload) - o, n - at)
  IN  /\ parallel' = [parallel EXCEPT
           !.length = n,
           !.buffer = [k \in Positions |-> IF k - at \in 1 .. c
                                           THEN payload[o + k - at]
                                           ELSE @[k]]]
      /\ copied' = IF at + c < n THEN at + c ELSE 0
      /\ pc' = IF at + c < n THEN "copy" ELSE "loop"

(* Mutant of Received: the rest of the packet is copied, wanted or not.    *)
Received_whole(payload, offset, at, n) ==
  LET c == Len(payload) - offset
  IN  /\ parallel' = [parallel EXCEPT
           !.length = n,
           !.buffer = [k \in DOMAIN @ \cup (at + 1 .. at + c) |->
                         IF k - at \in 1 .. c THEN payload[offset + k - at]
                                              ELSE @[k]]]
      /\ copied' = IF at + c < n THEN at + c ELSE 0
      /\ pc' = IF at + c < n THEN "copy" ELSE "loop"

(* One round of ethernet_copy_data: what the block wants of a packet goes  *)
(* to the buffer, behind the `at' bytes it has already; then the function  *)
(* waits for the next packet or returns.  What follows the block in its    *)
(* last packet is not looked at.                                           *)
Received(payload, offset, at, n) ==
  LET c == AtMost(Len(payload) - offset, n - at)
  IN  /\ parallel' = [parallel EXCEPT
           !.length = n,
           !.buffer = [k \in Positions |-> IF k - at \in 1 .. c
                                           THEN payload[offset + k - at]
                                           ELSE @[k]]]
      /\ copied' = IF at + c < n THEN at + c ELSE 0
      /\ pc' = IF at + c < n THEN "copy" ELSE "loop"

(* The bytes between the beginning of the command and the end of what the  *)
(* parser read, less the block: the command itself, the p bytes of the     *)
(* path that the parser took over from the command before it, and the b    *)
(* blanks that it skipped behind the block.                                *)
DataOffset(p, b) == Header + p + b

(* scpi_callback_parallel_data: a block of n bytes, of which `first' are   *)
(* in the packet of the command, with e bytes in front of the command and  *)
(* `tail' bytes behind the block, b of them blanks.  The offset is applied *)
(* to the beginning of the packet.  The data of a queued play command is   *)
(* not copied.                                                             *)
ParallelData(n, first, e, p, tail, b) ==
  /\ pc = "loop"
  /\ n <= PARALLEL_BUF_SIZE
  /\ generation' = 1 - generation
  /\ aligned' = (e = 0 /\ b = 0)
  /\ foreign' = FALSE
  /\ Received(Text(e + Header) \o Block(0, first, generation') \o Text(tail),
              DataOffset(p, b), 0, n)
  /\ sent' = IF pc' = "copy" THEN first ELSE 0
  /\ queued' = IF queued = NoPlay THEN NoPlay ELSE [queued EXCEPT !.old = TRUE]
  /\ UNCHANGED <<play, stale>>

(* The next packet: m more bytes, or after the end of the connection, the  *)
(* first commands of another one.                                          *)
CopyPacket(m, tail) ==
  /\ pc = "copy"
  /\ IF foreign
     THEN /\ Received(Text(m + tail), 0, copied, parallel.length)
     ELSE /\ sent + m <= parallel.length
          /\ Received(Block(sent, m, generation) \o Text(tail), 0, copied,
                      parallel.length)
  /\ sent' = IF pc' = "loop" THEN 0 ELSE IF foreign THEN sent ELSE sent + m
  /\ UNCHANGED <<queued, generation, aligned, foreign, play, stale>>

Disconnect ==
  /\ pc = "copy"
  /\ foreign' = TRUE
  /\ UNCHANGED <<pc, parallel, queued, copied, sent, generation, aligned, play,
                 stale>>

ParallelNcycles(n) ==
  /\ pc = "loop"
  /\ parallel' = [parallel EXCEPT !.repeats = n]
  /\ UNCHANGED <<pc, queued, uploadVars, play, stale>>

-----------------------------------------------------------------------------
(* ad9910_execute_parallel(data, l, r), up to the loop; the first sample   *)
(* is written at once.                                                     *)
Play(l, r) ==
  /\ pc = "loop"
  /\ pc' = "play"
  /\ play' = Call(l, r)
  /\ UNCHANGED <<parallel, queued, uploadVars>>

(* PARallel:STATe in normal mode, ...                                      *)
ParallelState ==
  /\ Play(parallel.length, parallel.repeats)
  /\ stale' = FALSE

(* Mutant of QueuedPlay: the whole buffer is played.                       *)
QueuedPlay_buffer ==
  [length |-> PARALLEL_BUF_SIZE, repeats |-> parallel.repeats, old |-> FALSE]

(* ... and in program mode: the command has a length and a number of       *)
(* repeats of its own but only points to the buffer.                       *)
QueuedPlay ==
  [length |-> parallel.length, repeats |-> parallel.repeats, old |-> FALSE]

ParallelQueue ==
  /\ pc = "loop"
  /\ queued' = QueuedPlay
  /\ UNCHANGED <<pc, parallel, uploadVars, play, stale>>

Execute ==
  /\ queued /= NoPlay
  /\ Play(queued.length, queued.repeats)
  /\ stale' = queued.old

(* The loop runs to len * rep, a size_t.                                   *)
Polls == (play.len * play.rep) % Word

(* Mutant of Poll: i has fewer bits than the bound it runs to.             *)
Poll_narrow ==
  /\ pc = "play"
  /\ play.i < Polls
  /\ play' = [play EXCEPT !.i = (@ + 1) % (Word \div 2)]
  /\ UNCHANGED <<pc, parallel, queued, uploadVars, stale>>

(* One round: i counts the rounds, and sample i % len is written if the    *)
(* update flag of the timer is set, left out if not.                       *)
Poll ==
  /\ pc = "play"
  /\ play.i < Polls
  /\ \/ play' = [play EXCEPT !.i = @ + 1]
     \/ play' = [play EXCEPT !.i = @ + 1, !.missed = TRUE]
  /\ UNCHANGED <<pc, parallel, queued, uploadVars, stale>>

PlayReturns ==
  /\ pc = "play"
  /\ play.i = Polls
  /\ pc' = "loop"
  /\ play' = Call(0, 0)
  /\ stale' = FALSE
  /\ UNCHANGED <<parallel, queued, uploadVars>>

-----------------------------------------------------------------------------
(* The path is a part of the text in front of the command: a separator at  *)
(* least follows it.                                                       *)
Taken(e) == {0} \cup (0 .. e - 1)

Next ==
  \/ \E n \in Lengths, e \in Earlier :
       \E first \in 0 .. n :
         \E tail \in IF first = n THEN {0, 1} ELSE {0}, p \in Taken(e) :
           \E b \in 0 .. tail : ParallelData(n, first, e, p, tail, b)
  \/ \E m \in Positions :
       \E tail \in IF sent + m = parallel.length THEN {0, 1} ELSE {0} :
         CopyPacket(m, tail)
  \/ Disconnect
  \/ \E n \in Ncycles : ParallelNcycles(n)
  \/ ParallelState
  \/ ParallelQueue
  \/ Execute
  \/ Poll
  \/ PlayReturns

Spec == Init /\ [][Next]_vars

(* The processor runs: nothing can stop the loop of                        *)
(* ad9910_execute_parallel, not even an interrupt.                         *)
FairSpec == Spec /\ WF_vars(Poll \/ PlayReturns)

-----------------------------------------------------------------------------
(* The buffer holds the block as the client sent it, however the network   *)
(* cut it into packets (ethernet_copy_data), if nothing was in front of    *)
(* the command in its packet, no blank behind the block, and the           *)
(* connection lasted.                                                      *)
UploadExact ==
  pc /= "copy" /\ aligned /\ ~foreign =>
    \A k \in 1 .. parallel.length : parallel.buffer[k] = Byte(k, generation)

(* data[i] of ad9910_execute_parallel, a uint16_t.                         *)
Sample(i) == <<parallel.buffer[2 * i + 1], parallel.buffer[2 * i + 2]>>

(* A play goes through as many samples as its block has bytes, and those   *)
(* that are in the block are the ones the client sent, in their order, if  *)
(* the block arrived exactly and none was uploaded between the play        *)
(* command of a program and its execution.  The other half of the samples  *)
(* lies behind the block (ad9910_execute_parallel counts samples,          *)
(* parallel.length bytes).                                                 *)
PlaysOneBlock ==
  pc = "play" /\ ~stale =>
    /\ play.len = parallel.length
    /\ aligned /\ ~foreign =>
         \A i \in 0 .. play.len - 1 :
           2 * i + 2 <= parallel.length =>
             Sample(i) = <<Byte(2 * i + 1, generation),
                           Byte(2 * i + 2, generation)>>

(* A play ends, whatever length and number of repeats.                     *)
PlayEnds == pc = "play" ~> pc = "loop"

(* ad9910_execute_parallel does not return until all samples were written, *)
(* each as often as asked for (ad9910.h).                                  *)
AllTransmitted ==
  pc = "play" /\ play.i = Polls =>
    ~play.missed /\ Polls = play.len * play.rep
=============================================================================
