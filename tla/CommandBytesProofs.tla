------------------------- MODULE CommandBytesProofs -------------------------
(***************************************************************************)
(* For every capacity, every payload size and every set of payloads: the   *)
(* byte queue stays a sequence of whole commands and execute_commands      *)
(* stays in step with the headers, until find_last_command, led astray by  *)
(* a parallel command, takes the last byte of a payload for a spi_write.   *)
(***************************************************************************)
EXTENDS CommandBytes, FiniteSetTheorems, SequenceTheorems, TLAPS

USE DEF Header

(* The register command of a command_queue_register call in progress.      *)
PendingOK == pc = "find" => pending \in Payload[command_type_register]

(* What needs no agreement between the two length computations.            *)
Bounded ==
  /\ TypeOK
  /\ Capacity
  /\ PendingOK
  /\ pc /= "idle" => cur >= 1

(* The bytes s with headers h hold a parallel command.                     *)
Holds(s, h) == \E x \in h : x \in 1 .. Len(s) /\ s[x] \in Uncounted

(* Only a parallel command can lead the search astray.                     *)
DamageNeedsParallel == damaged => Holds(buf, hdrs)

IInv ==
  /\ Bounded
  /\ Packed
  /\ ExecInStep
  /\ FindInStep
  /\ DamageNeedsParallel

(* Command types are bytes.                                                *)
LEMMA TypesAreBytes == Types \subseteq Byte
  BY DEF Types, Byte

(* Both loops always move forward.                                         *)
LEMMA LengthsAreNat ==
  \A b \in Byte : /\ get_command_length(b) \in Nat \ {0}
                  /\ execute_command(b) \in Nat \ {0}
  <1>1. Sizeof \in [Types -> Nat]
    BY BytesAssumption
  <1> QED
    BY <1>1 DEF get_command_length, execute_command, Types,
                command_type_register, command_type_pin, command_type_wait

(* The header and the payload land behind the old bytes, which stay.       *)
LEMMA ConcatFacts ==
  ASSUME NEW s \in Seq(Byte), NEW t \in Types, NEW p \in Seq(Byte)
  PROVE  /\ s \o <<t>> \o p \in Seq(Byte)
         /\ Len(s \o <<t>> \o p) = Len(s) + 1 + Len(p)
         /\ \A i \in 1 .. Len(s) : (s \o <<t>> \o p)[i] = s[i]
         /\ (s \o <<t>> \o p)[Len(s) + 1] = t
  <1>1. <<t>> \in Seq(Byte) /\ Len(<<t>>) = 1 /\ <<t>>[1] = t
    BY TypesAreBytes
  <1>2. /\ s \o <<t>> \in Seq(Byte)
        /\ Len(s \o <<t>>) = Len(s) + 1
    BY <1>1
  <1>3. /\ \A i \in 1 .. Len(s) : (s \o <<t>>)[i] = s[i]
        /\ (s \o <<t>>)[Len(s) + 1] = t
    BY <1>1
  <1> QED
    BY <1>2, <1>3

(* Queueing a command keeps the bytes packed and within the capacity.      *)
LEMMA QueueKeepsPacked ==
  ASSUME NEW s \in Seq(Byte), NEW h \in SUBSET Nat,
         NEW t \in Types, NEW p \in Payload[t],
         Len(s) <= COMMAND_QUEUE_LENGTH, PackedBytes(s, h)
  PROVE  LET q == command_queue(s, h, t, p)
         IN  /\ q.buf \in Seq(Byte)
             /\ q.hdrs \in SUBSET Nat
             /\ Len(q.buf) <= COMMAND_QUEUE_LENGTH
             /\ PackedBytes(q.buf, q.hdrs)
  <1> DEFINE q == command_queue(s, h, t, p)
             n == s \o <<t>> \o p
  <1>1. CASE Len(s) + Header + Sizeof[t] > COMMAND_QUEUE_LENGTH
    BY <1>1 DEF command_queue
  <1>2. CASE ~(Len(s) + Header + Sizeof[t] > COMMAND_QUEUE_LENGTH)
    <2>1. q.buf = n /\ q.hdrs = h \cup {Len(s) + 1}
      BY <1>2 DEF command_queue
    <2>2. p \in Seq(Byte) /\ Len(p) = Sizeof[t] /\ Sizeof[t] \in Nat
      BY BytesAssumption
    <2>3. /\ n \in Seq(Byte)
          /\ Len(n) = Len(s) + 1 + Sizeof[t]
          /\ \A i \in 1 .. Len(s) : n[i] = s[i]
          /\ n[Len(s) + 1] = t
      <3>1. /\ n \in Seq(Byte)
            /\ Len(n) = Len(s) + 1 + Len(p)
            /\ \A i \in 1 .. Len(s) : n[i] = s[i]
            /\ n[Len(s) + 1] = t
        BY <2>2, ConcatFacts, ZenonT(60)
      <3> QED
        BY <2>2, <3>1, ZenonT(60)
    <2> HIDE DEF n
    <2>4. Len(n) <= COMMAND_QUEUE_LENGTH
      BY <1>2, <2>2, <2>3, BytesAssumption
    <2>5. t \in Queued
      BY DEF Queued
    <2>6. execute_command(t) = 1 + Sizeof[t]
      BY DEF execute_command
    <2>7. PackedBytes(n, h \cup {Len(s) + 1})
      <3>1. h \cup {Len(s) + 1} \subseteq 1 .. Len(n)
        <4>1. h \subseteq 1 .. Len(s) /\ Len(s) \in Nat
          BY DEF PackedBytes
        <4>2. Sizeof[t] \in Nat /\ Len(n) = Len(s) + 1 + Sizeof[t]
          BY <2>2, <2>3
        <4>3. \A x \in h \cup {Len(s) + 1} : x \in 1 .. Len(n)
          BY <4>1, <4>2
        <4> QED BY <4>3, Zenon
      <3>2. 1 \in h \cup {Len(s) + 1}
        <4>1. CASE s = <<>>
          BY <4>1
        <4>2. CASE s /= <<>>
          BY <4>2 DEF PackedBytes
        <4> QED BY <4>1, <4>2
      <3>3. \A g \in h : n[g] = s[g] /\ g \in 1 .. Len(s)
        BY <2>3, Zenon DEF PackedBytes
      <3>4. ASSUME NEW g \in h \cup {Len(s) + 1}
            PROVE  /\ n[g] \in Queued
                   /\ g + execute_command(n[g])
                        \in (h \cup {Len(s) + 1}) \cup {Len(n) + 1}
        <4>1. CASE g \in h
          BY <4>1, <3>3 DEF PackedBytes
        <4>2. CASE g = Len(s) + 1
          BY <4>2, <2>2, <2>3, <2>5, <2>6
        <4> QED BY <4>1, <4>2
      <3>5. ASSUME NEW f \in h \cup {Len(s) + 1},
                   NEW g \in h \cup {Len(s) + 1}, f < g
            PROVE  f + execute_command(n[f]) <= g
        <4>1. f \in h
          BY <3>5, <3>3
        <4>2. CASE g \in h
          BY <4>1, <4>2, <3>3, <3>5 DEF PackedBytes
        <4>3. CASE g = Len(s) + 1
          <5>1. f + execute_command(s[f]) \in h \cup {Len(s) + 1}
            BY <4>1 DEF PackedBytes
          <5>2. \A x \in h : x <= Len(s) + 1
            BY <3>3
          <5>3. execute_command(s[f]) \in Nat /\ f \in Nat /\ Len(s) \in Nat
            BY <4>1, <3>3, LengthsAreNat
          <5>4. f + execute_command(s[f]) <= Len(s) + 1
            BY <5>1, <5>2, <5>3
          <5> QED BY <4>1, <4>3, <5>4, <3>3
        <4> QED BY <4>2, <4>3
      <3> QED
        BY <3>1, <3>2, <3>4, <3>5 DEF PackedBytes
    <2>8. h \cup {Len(s) + 1} \in SUBSET Nat
      BY Len(s) \in Nat
    <2>9. /\ q.buf \in Seq(Byte)
          /\ q.hdrs \in SUBSET Nat
          /\ Len(q.buf) <= COMMAND_QUEUE_LENGTH
          /\ PackedBytes(q.buf, q.hdrs)
      BY <2>1, <2>3, <2>4, <2>7, <2>8, ZenonT(60)
    <2> QED
      BY <2>9, ZenonT(60)
  <1> QED
    BY <1>1, <1>2

(* `commands.end -= sizeof(command)' on a queue that is not empty.         *)
LEMMA DropBytes ==
  ASSUME NEW s \in Seq(Byte), Len(s) >= 1
  PROVE  /\ SubSeq(s, 1, Len(s) - Header) \in Seq(Byte)
         /\ Len(SubSeq(s, 1, Len(s) - Header)) = Len(s) - 1
         /\ \A i \in 1 .. Len(s) - 1 : SubSeq(s, 1, Len(s) - Header)[i] = s[i]
  <1> DEFINE n == SubSeq(s, 1, Len(s) - Header)
  <1>1. /\ Len(s) \in Nat
        /\ Len(s) - 1 \in Nat
        /\ \A i \in 1 .. Len(s) - 1 : s[i] \in Byte
    OBVIOUS
  <1>2. /\ n \in Seq(Byte)
        /\ Len(n) = IF 1 <= Len(s) - 1 THEN Len(s) - 1 - 1 + 1 ELSE 0
        /\ \A i \in 1 .. Len(s) - 1 - 1 + 1 : n[i] = s[1 + i - 1]
    BY <1>1, SubSeqProperties
  <1> HIDE DEF n
  <1>3. Len(n) = Len(s) - 1
    <2>1. \A l \in Nat : l >= 1 =>
            \A m : (m = IF 1 <= l - 1 THEN l - 1 - 1 + 1 ELSE 0) => m = l - 1
      OBVIOUS
    <2> QED
      BY <1>1, <1>2, <2>1, ZenonT(60)
  <1>4. ASSUME NEW i \in 1 .. Len(s) - 1 PROVE n[i] = s[i]
    <2>1. i \in 1 .. Len(s) - 1 - 1 + 1 /\ 1 + i - 1 = i
      BY <1>1
    <2> QED
      BY <1>2, <2>1
  <1> QED
    BY <1>2, <1>3, <1>4 DEF n

(* Giving up a spi_write at the end leaves whole commands.                 *)
LEMMA DropKeepsPacked ==
  ASSUME NEW s \in Seq(Byte), NEW h \in SUBSET Nat, PackedBytes(s, h),
         Len(s) \in h, s[Len(s)] = command_type_spi_write
  PROVE  /\ SubSeq(s, 1, Len(s) - Header) \in Seq(Byte)
         /\ Len(SubSeq(s, 1, Len(s) - Header)) = Len(s) - 1
         /\ PackedBytes(SubSeq(s, 1, Len(s) - Header), h \ {Len(s)})
  <1> DEFINE n == SubSeq(s, 1, Len(s) - Header)
             k == h \ {Len(s)}
  <1>1. Len(s) \in Nat /\ h \subseteq 1 .. Len(s)
    BY DEF PackedBytes
  <1>2. /\ n \in Seq(Byte)
        /\ Len(n) = Len(s) - 1
        /\ \A i \in 1 .. Len(s) - 1 : n[i] = s[i]
    <2>1. Len(s) >= 1
      BY <1>1
    <2> QED
      BY <2>1, DropBytes
  <1> HIDE DEF n
  <1>3. \A g \in k : g \in h /\ g \in 1 .. Len(s) - 1 /\ n[g] = s[g]
    <2> SUFFICES ASSUME NEW g \in k
                 PROVE  g \in h /\ g \in 1 .. Len(s) - 1 /\ n[g] = s[g]
      OBVIOUS
    <2>1. g \in h /\ g \in 1 .. Len(s) /\ g /= Len(s)
      BY <1>1
    <2>2. g \in 1 .. Len(s) - 1
      BY <1>1, <2>1
    <2> QED
      BY <1>2, <2>1, <2>2
  <1>4. k \subseteq 1 .. Len(n)
    BY <1>2, <1>3, Zenon
  <1>5. n /= <<>> => 1 \in k
    <2> SUFFICES ASSUME n /= <<>> PROVE 1 \in k
      OBVIOUS
    <2>1. Len(n) /= 0
      BY <1>2
    <2>2. Len(s) /= 1 /\ s /= <<>>
      BY <2>1, <1>1, <1>2
    <2> QED
      BY <2>2 DEF PackedBytes
  <1>6. ASSUME NEW g \in k
        PROVE  /\ n[g] \in Queued
               /\ g + execute_command(n[g]) \in k \cup {Len(n) + 1}
    <2>1. g < Len(s)
      BY <1>1, <1>3
    <2>2. g + execute_command(s[g]) <= Len(s)
      BY <1>3, <2>1 DEF PackedBytes
    <2>3. s[g] \in Queued /\ g + execute_command(s[g]) \in h \cup {Len(s) + 1}
      BY <1>3 DEF PackedBytes
    <2>4. execute_command(s[g]) \in Nat /\ g \in Nat
      BY <1>1, <1>3, LengthsAreNat
    <2>5. g + execute_command(s[g]) \in h
      BY <1>1, <2>2, <2>3, <2>4
    <2>6. Len(n) + 1 = Len(s)
      BY <1>1, <1>2
    <2> QED
      BY <1>3, <2>3, <2>5, <2>6
  <1>7. ASSUME NEW f \in k, NEW g \in k, f < g
        PROVE  f + execute_command(n[f]) <= g
    BY <1>3, <1>7 DEF PackedBytes
  <1>8. PackedBytes(n, k)
    BY <1>4, <1>5, <1>6, <1>7 DEF PackedBytes
  <1> QED
    BY <1>2, <1>8 DEF n

(* The register command is queued behind what is left, then the spi_write. *)
LEMMA RegisterKeepsPacked ==
  ASSUME NEW s \in Seq(Byte), NEW h \in SUBSET Nat,
         NEW p \in Payload[command_type_register],
         Len(s) <= COMMAND_QUEUE_LENGTH, PackedBytes(s, h)
  PROVE  LET q1 == command_queue(s, h, command_type_register, p)
             q2 == command_queue(q1.buf, q1.hdrs, command_type_spi_write, <<>>)
         IN  /\ q2.buf \in Seq(Byte)
             /\ q2.hdrs \in SUBSET Nat
             /\ Len(q2.buf) <= COMMAND_QUEUE_LENGTH
             /\ PackedBytes(q2.buf, q2.hdrs)
  <1> DEFINE q1 == command_queue(s, h, command_type_register, p)
  <1>1. command_type_register \in Types /\ command_type_spi_write \in Types
    BY DEF command_type_register, command_type_spi_write, Types
  <1>2. <<>> \in Payload[command_type_spi_write]
    BY BytesAssumption
  <1>3. /\ q1.buf \in Seq(Byte)
        /\ q1.hdrs \in SUBSET Nat
        /\ Len(q1.buf) <= COMMAND_QUEUE_LENGTH
        /\ PackedBytes(q1.buf, q1.hdrs)
    BY <1>1, QueueKeepsPacked, ZenonT(60)
  <1> HIDE DEF q1
  <1> QED
    BY <1>1, <1>2, <1>3, QueueKeepsPacked, ZenonT(60) DEF q1

(* command_queue only appends.                                             *)
LEMMA QueueKeepsBytes ==
  ASSUME NEW s \in Seq(Byte), NEW h \in SUBSET Nat,
         NEW t \in Types, NEW p \in Payload[t]
  PROVE  LET q == command_queue(s, h, t, p)
         IN  /\ q.buf \in Seq(Byte)
             /\ q.hdrs \in SUBSET Nat
             /\ h \subseteq q.hdrs
             /\ \A i \in 1 .. Len(s) : i <= Len(q.buf) /\ q.buf[i] = s[i]
             /\ Len(s) <= COMMAND_QUEUE_LENGTH
                  => Len(q.buf) <= COMMAND_QUEUE_LENGTH
  <1> DEFINE q == command_queue(s, h, t, p)
             n == s \o <<t>> \o p
  <1>1. CASE Len(s) + Header + Sizeof[t] > COMMAND_QUEUE_LENGTH
    BY <1>1 DEF command_queue
  <1>2. CASE ~(Len(s) + Header + Sizeof[t] > COMMAND_QUEUE_LENGTH)
    <2>1. q.buf = n /\ q.hdrs = h \cup {Len(s) + 1}
      BY <1>2 DEF command_queue
    <2>2. p \in Seq(Byte) /\ Len(p) = Sizeof[t] /\ Sizeof[t] \in Nat
      BY BytesAssumption
    <2>3. /\ n \in Seq(Byte)
          /\ Len(n) = Len(s) + 1 + Len(p)
          /\ \A i \in 1 .. Len(s) : n[i] = s[i]
      <3>1. p \in Seq(Byte)
        BY <2>2
      <3> QED
        BY <3>1, ConcatFacts, ZenonT(60)
    <2> HIDE DEF n
    <2>4. Len(n) <= COMMAND_QUEUE_LENGTH
      BY <1>2, <2>2, <2>3, BytesAssumption
    <2>5. \A i \in 1 .. Len(s) : i <= Len(n)
      BY <2>2, <2>3
    <2>6. \A x \in h \cup {Len(s) + 1} : x \in Nat
      BY Len(s) \in Nat
    <2> QED
      BY <2>1, <2>3, <2>4, <2>5, <2>6, ZenonT(60)
  <1> QED
    BY <1>1, <1>2

(* command_queue_register after find_last_command: what it leaves alone.   *)
LEMMA RegisterKeepsBytes ==
  ASSUME NEW s \in Seq(Byte), NEW h \in SUBSET Nat,
         NEW p \in Payload[command_type_register]
  PROVE  LET q1 == command_queue(s, h, command_type_register, p)
             q2 == command_queue(q1.buf, q1.hdrs, command_type_spi_write, <<>>)
         IN  /\ q2.buf \in Seq(Byte)
             /\ q2.hdrs \in SUBSET Nat
             /\ h \subseteq q2.hdrs
             /\ \A i \in 1 .. Len(s) : i <= Len(q2.buf) /\ q2.buf[i] = s[i]
             /\ Len(s) <= COMMAND_QUEUE_LENGTH
                  => Len(q2.buf) <= COMMAND_QUEUE_LENGTH
  <1> DEFINE q1 == command_queue(s, h, command_type_register, p)
             q2 == command_queue(q1.buf, q1.hdrs, command_type_spi_write, <<>>)
  <1>1. command_type_register \in Types /\ command_type_spi_write \in Types
    BY DEF command_type_register, command_type_spi_write, Types
  <1>2. <<>> \in Payload[command_type_spi_write]
    BY BytesAssumption
  <1>3. /\ q1.buf \in Seq(Byte)
        /\ q1.hdrs \in SUBSET Nat
        /\ h \subseteq q1.hdrs
        /\ \A i \in 1 .. Len(s) : i <= Len(q1.buf) /\ q1.buf[i] = s[i]
        /\ Len(s) <= COMMAND_QUEUE_LENGTH
             => Len(q1.buf) <= COMMAND_QUEUE_LENGTH
    BY <1>1, QueueKeepsBytes, ZenonT(60)
  <1> HIDE DEF q1
  <1>4. /\ q2.buf \in Seq(Byte)
        /\ q2.hdrs \in SUBSET Nat
        /\ q1.hdrs \subseteq q2.hdrs
        /\ \A i \in 1 .. Len(q1.buf) : i <= Len(q2.buf) /\ q2.buf[i] = q1.buf[i]
        /\ Len(q1.buf) <= COMMAND_QUEUE_LENGTH
             => Len(q2.buf) <= COMMAND_QUEUE_LENGTH
    BY <1>1, <1>2, <1>3, QueueKeepsBytes, ZenonT(60)
  <1> HIDE DEF q2
  <1>5. \A i \in 1 .. Len(s) : i \in 1 .. Len(q1.buf)
    BY <1>3
  <1>6. \A i \in 1 .. Len(s) : i <= Len(q2.buf) /\ q2.buf[i] = s[i]
    BY <1>3, <1>4, <1>5
  <1>7. h \subseteq q2.hdrs
    BY <1>3, <1>4, Zenon
  <1> QED
    BY <1>3, <1>4, <1>6, <1>7 DEF q1, q2

(* A queue_register call that finds a spi_write finds it at the very end.  *)
LEMMA FoundIsLast ==
  ASSUME TypeOK, cur >= 1, Found,
         buf[cur] = command_type_spi_write
  PROVE  Len(buf) >= 1 /\ cur = Len(buf)
  BY DEF Found, End, TypeOK, get_command_length, command_type_spi_write,
         command_type_register, command_type_pin, command_type_wait

(* Every step stays within the capacity, also where the length             *)
(* computations differ.                                                    *)
LEMMA BoundedInv ==
  ASSUME Bounded, [Next]_vars
  PROVE  Bounded'
  <1> USE DEF Bounded
  <1>1. ASSUME NEW t \in Plain, NEW p \in Payload[t], QueuePlain(t, p)
        PROVE  Bounded'
    <2> DEFINE q == command_queue(buf, hdrs, t, p)
    <2>1. t \in Types
      BY DEF Plain
    <2>2. /\ q.buf \in Seq(Byte)
          /\ q.hdrs \in SUBSET Nat
          /\ Len(q.buf) <= COMMAND_QUEUE_LENGTH
      BY <2>1, QueueKeepsBytes, ZenonT(60) DEF TypeOK, Capacity
    <2>3. /\ pc = "idle" /\ buf' = q.buf /\ hdrs' = q.hdrs
          /\ UNCHANGED <<repeat, pc, cur, pass, pending, damaged>>
      BY <1>1 DEF QueuePlain
    <2> HIDE DEF q
    <2> QED
      BY <2>2, <2>3 DEF TypeOK, Capacity, PendingOK
  <1>2. ASSUME NEW p \in Payload[command_type_register], FindLast(p)
        PROVE  Bounded'
    BY <1>2 DEF FindLast, TypeOK, Capacity, PendingOK
  <1>3. CASE FindNext
    <2>1. buf[cur] \in Byte /\ cur >= 1 /\ cur \in Nat
      BY <1>3 DEF FindNext, TypeOK, End
    <2>2. cur' \in Nat /\ cur' >= 1
      <3>1. get_command_length(buf[cur]) \in Nat
        BY <2>1, LengthsAreNat
      <3> QED
        BY <1>3, <2>1, <3>1 DEF FindNext
    <2> QED
      BY <1>3, <2>2 DEF FindNext, TypeOK, Capacity, PendingOK
  <1>4. CASE QueueRegister
    <2> DEFINE drop == Found /\ buf[cur] = command_type_spi_write
               s0 == IF drop THEN SubSeq(buf, 1, Len(buf) - Header) ELSE buf
               h0 == IF drop THEN hdrs \ {Len(buf)} ELSE hdrs
               q1 == command_queue(s0, h0, command_type_register, pending)
               q2 == command_queue(q1.buf, q1.hdrs, command_type_spi_write,
                                   <<>>)
    <2>1. /\ s0 \in Seq(Byte)
          /\ h0 \in SUBSET Nat
          /\ Len(s0) <= COMMAND_QUEUE_LENGTH
      <3>1. CASE drop
        <4>1. Len(buf) >= 1
          BY <1>4, <3>1, FoundIsLast DEF QueueRegister
        <4>2. s0 \in Seq(Byte) /\ Len(s0) = Len(buf) - 1
          BY <3>1, <4>1, DropBytes DEF TypeOK
        <4>3. Len(buf) - 1 <= COMMAND_QUEUE_LENGTH
          BY BytesAssumption DEF TypeOK, Capacity
        <4> QED
          BY <3>1, <4>2, <4>3, ZenonT(60) DEF TypeOK
      <3>2. CASE ~drop
        BY <3>2 DEF TypeOK, Capacity
      <3> QED
        BY <3>1, <3>2
    <2> HIDE DEF s0, h0
    <2>2. pending \in Payload[command_type_register]
      BY <1>4 DEF QueueRegister, PendingOK
    <2>3. /\ q2.buf \in Seq(Byte)
          /\ q2.hdrs \in SUBSET Nat
          /\ Len(q2.buf) <= COMMAND_QUEUE_LENGTH
      BY <2>1, <2>2, RegisterKeepsBytes, ZenonT(60)
    <2>4. /\ buf' = q2.buf /\ hdrs' = q2.hdrs
          /\ pc' = "idle" /\ cur' = 0 /\ pending' = NoPayload
          /\ UNCHANGED <<repeat, pass>>
      BY <1>4, ZenonT(60) DEF QueueRegister, s0, h0
    <2>5. damaged' \in BOOLEAN
      BY <1>4, Zenon DEF QueueRegister
    <2> HIDE DEF q2
    <2> QED
      BY <2>3, <2>4, <2>5 DEF TypeOK, Capacity, PendingOK
  <1>5. CASE commands_clear
    <2>1. damaged' \in BOOLEAN
      BY <1>5, Zenon DEF commands_clear
    <2> QED
      BY <1>5, <2>1, BytesAssumption
         DEF commands_clear, TypeOK, Capacity, PendingOK
  <1>6. ASSUME NEW n \in Repeats, commands_repeat(n)
        PROVE  Bounded'
    BY <1>6 DEF commands_repeat, TypeOK, Capacity, PendingOK
  <1>7. CASE commands_execute
    BY <1>7 DEF commands_execute, TypeOK, Capacity, PendingOK
  <1>8. CASE ExecNext
    <2>1. buf[cur] \in Byte /\ cur >= 1 /\ cur \in Nat
      BY <1>8 DEF ExecNext, TypeOK, End
    <2>2. cur' \in Nat /\ cur' >= 1
      <3>1. execute_command(buf[cur]) \in Nat
        BY <2>1, LengthsAreNat
      <3> QED
        BY <1>8, <2>1, <3>1 DEF ExecNext
    <2> QED
      BY <1>8, <2>2 DEF ExecNext, TypeOK, Capacity, PendingOK
  <1>9. CASE EndPass
    BY <1>9 DEF EndPass, TypeOK, Capacity, PendingOK
  <1>10. CASE UNCHANGED vars
    BY <1>10 DEF vars, TypeOK, Capacity, PendingOK
  <1> QED
    BY <1>1, <1>2, <1>3, <1>4, <1>5, <1>6, <1>7, <1>8, <1>9, <1>10 DEF Next

(* The empty queue satisfies the invariant.                                *)
LEMMA InitInv == Init => IInv
  <1> SUFFICES ASSUME Init PROVE IInv
    OBVIOUS
  <1>1. TypeOK
    <2>1. damaged \in BOOLEAN
      BY Zenon DEF Init
    <2> QED
      BY <2>1, BytesAssumption DEF Init, TypeOK
  <1>2. Capacity
    BY BytesAssumption DEF Init, Capacity
  <1>3. Packed
    BY DEF Init, Packed, PackedBytes
  <1> QED
    BY <1>1, <1>2, <1>3 DEF Init, IInv, Bounded, ExecInStep, FindInStep,
                            PendingOK, DamageNeedsParallel

(* The queue and the cursors of the two functions that walk it stay within *)
(* their bounds.                                                           *)
LEMMA AlwaysBounded == Spec => []Bounded
  <1>1. Init => Bounded
    BY InitInv DEF IInv
  <1>2. Bounded /\ [Next]_vars => Bounded'
    BY BoundedInv
  <1> QED
    BY <1>1, <1>2, PTL DEF Spec

(* The queue, and the cursors of the two functions that walk it, keep      *)
(* their types, also in a damaged queue.                                   *)
THEOREM QueueTypes == Spec => []TypeOK
  <1>1. Bounded => TypeOK
    BY DEF Bounded
  <1> QED
    BY <1>1, AlwaysBounded, PTL

(* Whatever is queued, in whatever order, parallel commands included:      *)
(* command_queue's check keeps the queue inside commands_buf.              *)
THEOREM NeverOverflows == Spec => []Capacity
  <1>1. Bounded => Capacity
    BY DEF Bounded
  <1> QED
    BY <1>1, AlwaysBounded, PTL

-----------------------------------------------------------------------------
(* The two lengths differ on the parallel commands only.                   *)
LEMMA LengthsAgree ==
  \A t \in Types \ Uncounted : get_command_length(t) = execute_command(t)
  BY BytesAssumption
     DEF get_command_length, execute_command, Types, Uncounted,
         command_type_register, command_type_pin, command_type_wait,
         command_type_spi_write, command_type_parallel,
         command_type_parallel_frequency

(* A step of execute_commands lands on the next header; so does a step of  *)
(* find_last_command, unless it starts on a parallel command.              *)
LEMMA StepInStep ==
  ASSUME TypeOK, PackedBytes(buf, hdrs), cur \in hdrs
  PROVE  /\ cur \in 1 .. Len(buf)
         /\ cur + execute_command(buf[cur]) \in hdrs \cup {End}
         /\ buf[cur] \notin Uncounted
              => get_command_length(buf[cur]) = execute_command(buf[cur])
  <1>1. /\ cur \in 1 .. Len(buf) /\ buf[cur] \in Types
        /\ cur + execute_command(buf[cur]) \in hdrs \cup {End}
    BY DEF TypeOK, PackedBytes, Queued, End
  <1> QED
    BY <1>1, LengthsAgree

(* A walk over an intact queue starts on its first header.                 *)
LEMMA StartInStep ==
  ASSUME TypeOK, PackedBytes(buf, hdrs)
  PROVE  1 \in hdrs \cup {End}
  <1>1. CASE buf = <<>>
    BY <1>1 DEF End
  <1>2. CASE buf /= <<>>
    BY <1>2 DEF PackedBytes
  <1> QED
    BY <1>1, <1>2

(* A search that finds a spi_write where no header is has passed a         *)
(* parallel command.                                                       *)
LEMMA StrayNeedsParallel ==
  ASSUME IInv, pc = "find", Found, buf[cur] = command_type_spi_write,
         Len(buf) \notin hdrs \/ damaged
  PROVE  Holds(buf, hdrs)
  <1>1. CASE damaged
    BY <1>1 DEF IInv, DamageNeedsParallel
  <1>2. CASE ~damaged
    <2>1. Len(buf) >= 1 /\ cur = Len(buf)
      BY FoundIsLast DEF IInv, Bounded
    <2>2. cur \notin hdrs /\ cur /= End
      BY <1>2, <2>1 DEF End, IInv, Bounded, TypeOK
    <2>3. PICK h \in hdrs : h < cur /\ buf[h] \in Uncounted
      BY <1>2, <2>2 DEF IInv, FindInStep
    <2>4. h \in 1 .. Len(buf)
      BY <1>2 DEF IInv, Packed, PackedBytes
    <2> QED
      BY <2>3, <2>4 DEF Holds
  <1> QED
    BY <1>1, <1>2

(* Giving up a trailing byte 6 keeps the parallel commands.                *)
LEMMA DropHolds ==
  ASSUME NEW s \in Seq(Byte), NEW h \in SUBSET Nat, Len(s) >= 1,
         s[Len(s)] = command_type_spi_write, Holds(s, h)
  PROVE  Holds(SubSeq(s, 1, Len(s) - Header), h \ {Len(s)})
  <1> DEFINE n == SubSeq(s, 1, Len(s) - Header)
  <1>1. /\ Len(n) = Len(s) - 1 /\ Len(s) \in Nat
        /\ \A i \in 1 .. Len(s) - 1 : n[i] = s[i]
    BY DropBytes
  <1> HIDE DEF n
  <1>2. PICK x \in h : x \in 1 .. Len(s) /\ s[x] \in Uncounted
    BY DEF Holds
  <1>3. x /= Len(s)
    BY <1>2 DEF Uncounted, command_type_spi_write, command_type_parallel,
                command_type_parallel_frequency
  <1>4. x \in 1 .. Len(s) - 1 /\ x \in 1 .. Len(n)
    BY <1>1, <1>2, <1>3
  <1>5. x \in h \ {Len(s)} /\ n[x] \in Uncounted
    BY <1>1, <1>2, <1>3, <1>4
  <1> QED
    BY <1>4, <1>5 DEF Holds, n

(* So does everything that keeps the bytes and the headers.                *)
LEMMA KeptHolds ==
  ASSUME NEW s \in Seq(Byte), NEW h \in SUBSET Nat, Holds(s, h),
         NEW n \in Seq(Byte), NEW k \in SUBSET Nat, h \subseteq k,
         \A i \in 1 .. Len(s) : i <= Len(n) /\ n[i] = s[i]
  PROVE  Holds(n, k)
  <1>1. PICK x \in h : x \in 1 .. Len(s) /\ s[x] \in Uncounted
    BY DEF Holds
  <1>2. x \in k /\ n[x] = s[x]
    BY <1>1
  <1>3. x \in 1 .. Len(n)
    BY <1>1
  <1> QED
    BY <1>1, <1>2, <1>3 DEF Holds

(* command_queue_register keeps the queue whole, or its damage is noted.   *)
LEMMA RegisterInv ==
  ASSUME IInv, QueueRegister
  PROVE  Packed' /\ DamageNeedsParallel'
  <1> DEFINE drop == Found /\ buf[cur] = command_type_spi_write
             s0 == IF drop THEN SubSeq(buf, 1, Len(buf) - Header) ELSE buf
             h0 == IF drop THEN hdrs \ {Len(buf)} ELSE hdrs
             q1 == command_queue(s0, h0, command_type_register, pending)
             q2 == command_queue(q1.buf, q1.hdrs, command_type_spi_write, <<>>)
  <1>1. /\ buf' = q2.buf /\ hdrs' = q2.hdrs /\ pc = "find"
        /\ damaged' <=> (damaged \/ (drop /\ Len(buf) \notin hdrs))
    BY ZenonT(60) DEF QueueRegister
  <1>2. /\ buf \in Seq(Byte) /\ hdrs \in SUBSET Nat
        /\ Len(buf) <= COMMAND_QUEUE_LENGTH /\ Len(buf) \in Nat
        /\ pending \in Payload[command_type_register] /\ TypeOK /\ cur >= 1
    BY <1>1 DEF IInv, Bounded, TypeOK, Capacity, PendingOK
  <1>3. ASSUME drop PROVE Len(buf) >= 1 /\ cur = Len(buf)
    BY <1>2, <1>3, FoundIsLast
  <1>4. s0 \in Seq(Byte) /\ h0 \in SUBSET Nat /\ Len(s0) <= COMMAND_QUEUE_LENGTH
    <2>1. CASE drop
      <3>1. s0 \in Seq(Byte) /\ Len(s0) = Len(buf) - 1
        BY <1>2, <1>3, <2>1, DropBytes
      <3>2. Len(buf) - 1 <= COMMAND_QUEUE_LENGTH
        BY <1>2, BytesAssumption
      <3> QED
        BY <1>2, <2>1, <3>1, <3>2, ZenonT(60)
    <2>2. CASE ~drop
      BY <1>2, <2>2
    <2> QED
      BY <2>1, <2>2
  <1>5. ASSUME ~damaged' PROVE PackedBytes(s0, h0)
    <2>1. PackedBytes(buf, hdrs)
      BY <1>1, <1>5 DEF IInv, Packed
    <2>2. CASE drop
      <3>1. Len(buf) \in hdrs /\ buf[Len(buf)] = command_type_spi_write
        BY <1>1, <1>3, <1>5, <2>2
      <3>2. PackedBytes(SubSeq(buf, 1, Len(buf) - Header), hdrs \ {Len(buf)})
        BY <1>2, <2>1, <3>1, DropKeepsPacked, ZenonT(60)
      <3> QED
        BY <2>2, <3>2, ZenonT(60)
    <2>3. CASE ~drop
      BY <2>1, <2>3
    <2> QED
      BY <2>2, <2>3
  <1>6. ASSUME damaged' PROVE Holds(s0, h0)
    <2>1. CASE drop
      <3>1. buf[Len(buf)] = command_type_spi_write /\ Len(buf) >= 1
        BY <1>3, <2>1
      <3>2. Holds(buf, hdrs)
        BY <1>1, <1>6, <2>1, StrayNeedsParallel
      <3>3. Holds(SubSeq(buf, 1, Len(buf) - Header), hdrs \ {Len(buf)})
        BY <1>2, <3>1, <3>2, DropHolds
      <3> QED
        BY <2>1, <3>3, ZenonT(60)
    <2>2. CASE ~drop
      BY <1>1, <1>6, <2>2 DEF IInv, DamageNeedsParallel
    <2> QED
      BY <2>1, <2>2
  <1> HIDE DEF s0, h0
  <1>7. ASSUME ~damaged' PROVE Packed'
    <2>1. PackedBytes(q2.buf, q2.hdrs)
      BY <1>2, <1>4, <1>5, <1>7, RegisterKeepsPacked, ZenonT(60)
    <2> HIDE DEF q2
    <2> QED
      BY <1>1, <2>1 DEF Packed
  <1>8. ASSUME damaged' PROVE Holds(buf', hdrs')
    <2>1. /\ q2.buf \in Seq(Byte)
          /\ q2.hdrs \in SUBSET Nat
          /\ h0 \subseteq q2.hdrs
          /\ \A i \in 1 .. Len(s0) : i <= Len(q2.buf) /\ q2.buf[i] = s0[i]
      BY <1>2, <1>4, RegisterKeepsBytes, ZenonT(60)
    <2> HIDE DEF q2
    <2>2. Holds(q2.buf, q2.hdrs)
      <3>1. Holds(s0, h0)
        BY <1>6, <1>8
      <3> QED
        BY <1>4, <2>1, <3>1, KeptHolds
    <2> QED
      BY <1>1, <2>2
  <1> HIDE DEF q2
  <1>9. Packed'
    BY <1>7 DEF Packed
  <1>10. DamageNeedsParallel'
    BY <1>8, Zenon DEF DamageNeedsParallel, Holds
  <1> QED
    BY <1>9, <1>10

(* Every operation and every turn of a loop keeps the invariant.           *)
LEMMA NextInv ==
  ASSUME IInv, [Next]_vars
  PROVE  IInv'
  <1> DEFINE Rest == Packed /\ ExecInStep /\ FindInStep /\ DamageNeedsParallel
  <1>1. Bounded'
    BY BoundedInv DEF IInv
  <1> SUFFICES Rest'
    BY <1>1 DEF IInv
  <1>2. /\ TypeOK /\ buf \in Seq(Byte) /\ hdrs \in SUBSET Nat /\ cur \in Nat
        /\ Len(buf) <= COMMAND_QUEUE_LENGTH /\ Len(buf) \in Nat
    BY DEF IInv, Bounded, TypeOK, Capacity
  <1>3. ASSUME NEW t \in Plain, NEW p \in Payload[t], QueuePlain(t, p)
        PROVE  Rest'
    <2> DEFINE q == command_queue(buf, hdrs, t, p)
    <2>1. t \in Types
      BY DEF Plain
    <2>2. /\ pc' = "idle" /\ buf' = q.buf /\ hdrs' = q.hdrs
          /\ damaged' = damaged
      BY <1>3 DEF QueuePlain
    <2>3. ASSUME ~damaged PROVE PackedBytes(q.buf, q.hdrs)
      <3>1. PackedBytes(buf, hdrs)
        BY <2>3 DEF IInv, Packed
      <3> QED
        BY <1>2, <2>1, <3>1, QueueKeepsPacked, ZenonT(60)
    <2>4. ASSUME damaged PROVE Holds(q.buf, q.hdrs)
      <3>1. Holds(buf, hdrs)
        BY <2>4 DEF IInv, DamageNeedsParallel
      <3>2. /\ q.buf \in Seq(Byte) /\ q.hdrs \in SUBSET Nat
            /\ hdrs \subseteq q.hdrs
            /\ \A i \in 1 .. Len(buf) : i <= Len(q.buf) /\ q.buf[i] = buf[i]
        BY <1>2, <2>1, QueueKeepsBytes, ZenonT(60)
      <3> HIDE DEF q
      <3> QED
        BY <1>2, <3>1, <3>2, KeptHolds, Zenon
    <2> HIDE DEF q
    <2>5. Packed'
      BY <2>2, <2>3 DEF Packed
    <2>6. DamageNeedsParallel'
      BY <2>2, <2>4, Zenon DEF DamageNeedsParallel, Holds
    <2> QED
      BY <2>2, <2>5, <2>6 DEF ExecInStep, FindInStep
  <1>4. ASSUME NEW p \in Payload[command_type_register], FindLast(p)
        PROVE  Rest'
    <2>1. ~damaged => 1 \in hdrs \cup {End}
      BY <1>2, StartInStep DEF IInv, Packed
    <2> QED
      BY <1>4, <2>1 DEF FindLast, IInv, Packed, ExecInStep, FindInStep, End,
                        DamageNeedsParallel, Holds
  <1>5. CASE FindNext
    <2>1. /\ pc = "find" /\ pc' = "find" /\ cur < End
          /\ cur' = cur + get_command_length(buf[cur])
          /\ UNCHANGED <<buf, hdrs, damaged>>
      BY <1>5 DEF FindNext
    <2>2. cur >= 1 /\ buf[cur] \in Byte /\ get_command_length(buf[cur]) \in Nat \ {0}
      BY <1>2, <2>1, LengthsAreNat DEF IInv, Bounded, End
    <2>3. cur < cur'
      BY <1>2, <2>1, <2>2
    <2>4. ASSUME ~damaged
          PROVE  \/ cur' \in hdrs \cup {End}
                 \/ \E h \in hdrs : h < cur' /\ buf[h] \in Uncounted
      <3>1. PackedBytes(buf, hdrs)
        BY <2>4 DEF IInv, Packed
      <3>2. CASE cur \in hdrs
        <4>1. CASE buf[cur] \in Uncounted
          BY <2>3, <3>2, <4>1
        <4>2. CASE buf[cur] \notin Uncounted
          BY <1>2, <2>1, <3>1, <3>2, <4>2, StepInStep
        <4> QED
          BY <4>1, <4>2
      <3>3. ASSUME NEW h \in hdrs, h < cur, buf[h] \in Uncounted
            PROVE  \E g \in hdrs : g < cur' /\ buf[g] \in Uncounted
        <4>1. h \in Nat /\ cur' \in Nat
          BY <1>1, <1>2 DEF Bounded, TypeOK
        <4>2. h < cur'
          BY <1>2, <2>3, <3>3, <4>1
        <4> QED
          BY <3>3, <4>2
      <3>4. cur /= End
        BY <1>2, <2>1 DEF End
      <3> QED
        BY <2>1, <2>4, <3>2, <3>3, <3>4 DEF IInv, FindInStep
    <2> QED
      BY <2>1, <2>4 DEF IInv, Packed, ExecInStep, FindInStep, End,
                        DamageNeedsParallel, Holds
  <1>6. CASE QueueRegister
    BY <1>6, RegisterInv DEF QueueRegister, ExecInStep, FindInStep
  <1>7. CASE commands_clear
    <2>1. PackedBytes(<<>>, {})
      BY DEF PackedBytes
    <2> QED
      BY <1>7, <2>1 DEF commands_clear, Packed, ExecInStep, FindInStep,
                        DamageNeedsParallel
  <1>8. ASSUME NEW n \in Repeats, commands_repeat(n)
        PROVE  Rest'
    BY <1>8 DEF commands_repeat, IInv, Packed, ExecInStep, FindInStep, End,
                DamageNeedsParallel, Holds
  <1>9. ASSUME pc' \in {"exec", "idle"}, ~damaged /\ pc' = "exec" => cur' = 1,
               UNCHANGED <<buf, hdrs, damaged>>
        PROVE  Rest'
    <2>1. ~damaged => 1 \in hdrs \cup {End}
      BY <1>2, StartInStep DEF IInv, Packed
    <2> QED
      BY <1>9, <2>1 DEF IInv, Packed, ExecInStep, FindInStep, End,
                        DamageNeedsParallel, Holds
  <1>10. CASE commands_execute
    BY <1>9, <1>10 DEF commands_execute
  <1>11. CASE ExecNext
    <2>1. /\ pc = "exec" /\ pc' = "exec" /\ cur < End
          /\ cur' = cur + execute_command(buf[cur])
          /\ UNCHANGED <<buf, hdrs, damaged>>
      BY <1>11 DEF ExecNext
    <2>2. ASSUME ~damaged PROVE cur' \in hdrs \cup {End}
      <3>1. cur \in hdrs /\ PackedBytes(buf, hdrs)
        BY <1>2, <2>1, <2>2 DEF IInv, ExecInStep, Packed, End
      <3> QED
        BY <1>2, <2>1, <3>1, StepInStep
    <2> QED
      BY <2>1, <2>2 DEF IInv, Packed, ExecInStep, FindInStep, End,
                        DamageNeedsParallel, Holds
  <1>12. CASE EndPass
    BY <1>9, <1>12 DEF EndPass
  <1>13. CASE UNCHANGED vars
    BY <1>13 DEF vars, IInv, Packed, ExecInStep, FindInStep, End,
                 DamageNeedsParallel, Holds
  <1> QED
    BY <1>3, <1>4, <1>5, <1>6, <1>7, <1>8, <1>10, <1>11, <1>12, <1>13 DEF Next

-----------------------------------------------------------------------------
(* The inductive invariant holds in every reachable state.                 *)
LEMMA QueueInvariant == Spec => []IInv
  <1>1. Init => IInv
    BY InitInv
  <1>2. IInv /\ [Next]_vars => IInv'
    BY NextInv
  <1> QED
    BY <1>1, <1>2, PTL DEF Spec

(* The queue is a packed sequence of whole commands (command_queue),       *)
(* parallel ones included, until command_queue_register removes a payload  *)
(* byte.                                                                   *)
THEOREM QueueStaysPacked == Spec => []Packed
  <1>1. IInv => Packed
    BY DEF IInv
  <1> QED
    BY <1>1, QueueInvariant, PTL

(* execute_commands reads a type only where a command begins, also where   *)
(* parallel commands are queued.                                           *)
THEOREM ExecStaysInStep == Spec => []ExecInStep
  <1>1. IInv => ExecInStep
    BY DEF IInv
  <1> QED
    BY <1>1, QueueInvariant, PTL

(* So does the search for the last command (find_last_command), as far as  *)
(* the first parallel command of the queue.                                *)
THEOREM FindStaysInStep == Spec => []FindInStep
  <1>1. IInv => FindInStep
    BY DEF IInv
  <1> QED
    BY <1>1, QueueInvariant, PTL

-----------------------------------------------------------------------------
(* What one step may take out of the queue.                                *)
Kept ==
  \A i \in 1 .. Len(buf) :
     \/ i <= Len(buf') /\ buf'[i] = buf[i]
     \/ buf' = <<>>
     \/ /\ i = Len(buf)
        /\ buf[i] = command_type_spi_write
        /\ i \in hdrs \/ \E h \in hdrs : buf[h] \in Uncounted

(* A step removes at most a trailing byte 6, which is a spi_write or lies  *)
(* in a queue with a parallel command, or it clears the queue.             *)
LEMMA StepKeeps ==
  ASSUME IInv, Next
  PROVE  Kept
  <1> USE DEF IInv, Bounded
  <1>1. ASSUME NEW t \in Plain, NEW p \in Payload[t], QueuePlain(t, p)
        PROVE  Kept
    <2>1. t \in Types
      BY DEF Plain
    <2>2. \A i \in 1 .. Len(buf) :
            LET q == command_queue(buf, hdrs, t, p)
            IN  i <= Len(q.buf) /\ q.buf[i] = buf[i]
      BY <2>1, QueueKeepsBytes, ZenonT(60) DEF TypeOK
    <2> QED
      BY <1>1, <2>2, ZenonT(60) DEF QueuePlain, Kept
  <1>2. CASE QueueRegister
    <2> DEFINE drop == Found /\ buf[cur] = command_type_spi_write
               s0 == IF drop THEN SubSeq(buf, 1, Len(buf) - Header) ELSE buf
               h0 == IF drop THEN hdrs \ {Len(buf)} ELSE hdrs
               q1 == command_queue(s0, h0, command_type_register, pending)
               q2 == command_queue(q1.buf, q1.hdrs, command_type_spi_write,
                                   <<>>)
    <2>1. buf' = q2.buf
      BY <1>2, ZenonT(60) DEF QueueRegister
    <2>2. pending \in Payload[command_type_register]
      BY <1>2 DEF QueueRegister, PendingOK
    <2>3. CASE drop
      <3>1. cur >= 1 /\ pc = "find"
        BY <1>2 DEF QueueRegister
      <3>2. Len(buf) >= 1 /\ cur = Len(buf)
        BY <2>3, <3>1, FoundIsLast
      <3>7. Len(buf) \in hdrs \/ \E h \in hdrs : buf[h] \in Uncounted
        BY <2>3, <3>1, StrayNeedsParallel DEF Holds
      <3>3. /\ s0 \in Seq(Byte) /\ Len(s0) = Len(buf) - 1
            /\ \A i \in 1 .. Len(buf) - 1 : s0[i] = buf[i]
        BY <2>3, <3>2, DropBytes DEF TypeOK
      <3>4. h0 \in SUBSET Nat
        BY Zenon DEF TypeOK
      <3> HIDE DEF s0, h0
      <3>5. \A i \in 1 .. Len(s0) : i <= Len(q2.buf) /\ q2.buf[i] = s0[i]
        BY <2>2, <3>3, <3>4, RegisterKeepsBytes, ZenonT(60)
      <3> HIDE DEF q2
      <3>6. \A i \in 1 .. Len(buf) : i \in 1 .. Len(buf) - 1 \/ i = Len(buf)
        BY DEF TypeOK
      <3> QED
        BY <2>1, <2>3, <3>2, <3>3, <3>5, <3>6, <3>7 DEF Kept
    <2>4. CASE ~drop
      <3>1. s0 = buf /\ s0 \in Seq(Byte) /\ h0 \in SUBSET Nat
        BY <2>4 DEF TypeOK
      <3> HIDE DEF s0, h0
      <3>2. \A i \in 1 .. Len(s0) : i <= Len(q2.buf) /\ q2.buf[i] = s0[i]
        BY <2>2, <3>1, RegisterKeepsBytes, ZenonT(60)
      <3> HIDE DEF q2
      <3> QED
        BY <2>1, <3>1, <3>2 DEF Kept
    <2> QED
      BY <2>3, <2>4
  <1>3. CASE commands_clear
    BY <1>3 DEF commands_clear, Kept
  <1>4. CASE UNCHANGED buf
    BY <1>4 DEF Kept, TypeOK
  <1> QED
    BY <1>1, <1>2, <1>3, <1>4 DEF Next, FindLast, FindNext, commands_repeat,
       commands_execute, ExecNext, EndPass

(* What command_queue_register may take back: a spi_write that is the last *)
(* command of the queue, and only in a queue with a parallel command, for  *)
(* which find_last_command is not made, a payload byte of the same value.  *)
THEOREM RemovesOnlySpiWrite == Spec => OnlySpiWriteRemoved
  <1>1. IInv /\ [Next]_vars => [Kept]_vars
    BY StepKeeps
  <1>2. [Kept]_vars <=>
        [\A i \in 1 .. Len(buf) :
           \/ i <= Len(buf') /\ buf'[i] = buf[i]
           \/ buf' = <<>>
           \/ /\ i = Len(buf)
              /\ buf[i] = command_type_spi_write
              /\ i \in hdrs \/ \E h \in hdrs : buf[h] \in Uncounted]_vars
    BY ZenonT(60) DEF Kept
  <1> QED
    BY <1>1, <1>2, QueueInvariant, PTL DEF Spec, OnlySpiWriteRemoved

-----------------------------------------------------------------------------
(* The headers in order: ranks.                                            *)

(* The headers of a queue are finitely many.                               *)
LEMMA FiniteHeaders ==
  ASSUME NEW l \in Nat, NEW h \in SUBSET (1 .. l)
  PROVE  IsFiniteSet(h) /\ Cardinality(h) \in Nat
  <1>1. IsFiniteSet(1 .. l)
    BY FS_Interval
  <1>2. IsFiniteSet(h)
    BY <1>1, FS_Subset, Zenon
  <1> QED
    BY <1>2, FS_CardinalityType

(* The rank of a header, ...                                               *)
LEMMA RankRange ==
  ASSUME NEW l \in Nat, NEW h \in SUBSET (1 .. l), NEW x \in h
  PROVE  Rank(h, x) \in 1 .. Cardinality(h)
  <1> DEFINE below == {g \in h : g <= x}
  <1>1. IsFiniteSet(h) /\ Cardinality(h) \in Nat
    BY FiniteHeaders
  <1>2. below \in SUBSET h /\ x \in below
    OBVIOUS
  <1> HIDE DEF below
  <1>3. IsFiniteSet(below) /\ Cardinality(below) <= Cardinality(h)
    BY <1>1, <1>2, FS_Subset, Zenon
  <1>4. Cardinality(below) \in Nat /\ Cardinality(below) /= 0
    BY <1>2, <1>3, FS_CardinalityType, FS_EmptySet
  <1> QED
    BY <1>1, <1>3, <1>4 DEF Rank, below

(* ... grows with the header.                                              *)
LEMMA RankGrows ==
  ASSUME NEW l \in Nat, NEW h \in SUBSET (1 .. l), NEW x \in h, NEW y \in h,
         x < y
  PROVE  Rank(h, x) < Rank(h, y)
  <1> DEFINE a == {g \in h : g <= x}
             b == {g \in h : g <= y}
  <1>1. a \in SUBSET b
    <2>1. x \in Nat /\ y \in Nat /\ \A g \in h : g \in Nat
      OBVIOUS
    <2>2. \A g \in h : g <= x => g <= y
      BY <2>1
    <2> QED
      BY <2>2, Zenon
  <1>2. y \in b /\ y \notin a
    OBVIOUS
  <1>3. b \in SUBSET (1 .. l) /\ a \in SUBSET (1 .. l)
    BY Zenon
  <1>4. Rank(h, x) = Cardinality(a) /\ Rank(h, y) = Cardinality(b)
    BY DEF Rank
  <1> HIDE DEF a, b
  <1>5. IsFiniteSet(b) /\ Cardinality(b) \in Nat /\ Cardinality(a) \in Nat
    BY <1>3, FiniteHeaders
  <1>6. /\ Cardinality(a) <= Cardinality(b)
        /\ Cardinality(b) = Cardinality(a) => b = a
    BY <1>1, <1>5, FS_Subset
  <1>7. Cardinality(b) /= Cardinality(a)
    BY <1>2, <1>6
  <1> QED
    BY <1>4, <1>5, <1>6, <1>7

(* Two headers have different ranks, ...                                   *)
LEMMA RankInjective ==
  ASSUME NEW l \in Nat, NEW h \in SUBSET (1 .. l), NEW x \in h, NEW y \in h,
         Rank(h, x) = Rank(h, y)
  PROVE  x = y
  <1>1. Rank(h, x) \in Nat /\ Rank(h, y) \in Nat
    <2>1. Cardinality(h) \in Nat
      BY FiniteHeaders, Zenon
    <2>2. Rank(h, x) \in 1 .. Cardinality(h) /\ Rank(h, y) \in 1 .. Cardinality(h)
      BY RankRange, Zenon
    <2> QED
      BY <2>1, <2>2
  <1>2. ASSUME x < y PROVE FALSE
    <2>1. Rank(h, x) < Rank(h, y)
      BY <1>2, RankGrows
    <2> QED
      BY <1>1, <2>1
  <1>3. ASSUME y < x PROVE FALSE
    <2>1. Rank(h, y) < Rank(h, x)
      BY <1>3, RankGrows
    <2> QED
      BY <1>1, <2>1
  <1>4. x \in Nat /\ y \in Nat
    OBVIOUS
  <1> QED
    BY <1>2, <1>3, <1>4

(* ... and every rank has its header.                                      *)
LEMMA RankOnto ==
  ASSUME NEW l \in Nat, NEW h \in SUBSET (1 .. l), NEW n \in 1 .. Cardinality(h)
  PROVE  \E x \in h : Rank(h, x) = n
  <1> DEFINE m == Cardinality(h)
             rank == [x \in h |-> Rank(h, x)]
  <1>1. IsFiniteSet(h) /\ m \in Nat
    BY FiniteHeaders
  <1>2. rank \in [h -> 1 .. m]
    BY RankRange, Zenon
  <1>3. \A x, y \in h : rank[x] = rank[y] => x = y
    BY RankInjective
  <1>4. rank \in Injection(h, 1 .. m)
    <2> HIDE DEF rank, m
    <2> QED
      BY <1>2, <1>3 DEF Injection, IsInjective
  <1>5. IsFiniteSet(1 .. m) /\ Cardinality(1 .. m) = m
    <2> HIDE DEF m
    <2>1. IsFiniteSet(1 .. m) /\ Cardinality(1 .. m) = IF 1 > m THEN 0 ELSE m - 1 + 1
      BY <1>1, FS_Interval
    <2> QED
      BY <1>1, <2>1
  <1>6. rank \in Surjection(h, 1 .. m)
    <2> HIDE DEF rank
    <2>1. Cardinality(h) = Cardinality(1 .. m)
      BY <1>5
    <2> HIDE DEF m
    <2> QED
      BY <1>4, <1>5, <2>1, FS_Injection
  <1>7. PICK x \in h : rank[x] = n
    BY <1>6, Zenon DEF Surjection
  <1> QED
    BY <1>7

(* So the n-th header is well defined ...                                  *)
LEMMA NthFacts ==
  ASSUME NEW l \in Nat, NEW h \in SUBSET (1 .. l), NEW n \in 1 .. Cardinality(h)
  PROVE  Nth(h, n) \in h /\ Rank(h, Nth(h, n)) = n
  BY RankOnto DEF Nth

(* ... and is the only one of its rank.                                    *)
LEMMA NthOfRank ==
  ASSUME NEW l \in Nat, NEW h \in SUBSET (1 .. l), NEW x \in h
  PROVE  Nth(h, Rank(h, x)) = x
  <1>1. Rank(h, x) \in 1 .. Cardinality(h)
    BY RankRange, Zenon
  <1> DEFINE y == Nth(h, Rank(h, x))
  <1>2. y \in h /\ Rank(h, y) = Rank(h, x)
    BY <1>1, NthFacts, Zenon
  <1> HIDE DEF y
  <1>3. y = x
    BY <1>2, RankInjective
  <1> QED
    BY <1>3 DEF y

(* x is the last one of k, and h the others, in their places.              *)
LastOf(k, x, h) ==
  /\ Cardinality(k) = Cardinality(h) + 1
  /\ Nth(k, Cardinality(k)) = x
  /\ \A n \in 1 .. Cardinality(h) : Nth(k, n) = Nth(h, n)

(* A header behind all others is the last one.                             *)
LEMMA NthAdded ==
  ASSUME NEW l \in Nat, NEW h \in SUBSET (1 .. l)
  PROVE  LastOf(h \cup {l + 1}, l + 1, h)
  <1> DEFINE k == h \cup {l + 1}
  <1>1. k \in SUBSET (1 .. l + 1) /\ l + 1 \in k /\ l + 1 \in Nat
    OBVIOUS
  <1>2. \A g \in h : g \in Nat /\ g <= l
    OBVIOUS
  <1>3. l + 1 \notin h
    BY <1>2
  <1>4. IsFiniteSet(h) /\ Cardinality(h) \in Nat
    BY FiniteHeaders
  <1>5. Cardinality(k) = Cardinality(h) + 1
    BY <1>3, <1>4, FS_AddElement
  <1>6. Rank(k, l + 1) = Cardinality(k)
    <2>1. \A g \in k : g <= l + 1
      BY <1>1
    <2>2. {g \in k : g <= l + 1} = k
      BY <2>1, Zenon
    <2> QED
      BY <2>2 DEF Rank
  <1>7. Nth(k, Cardinality(k)) = l + 1
    BY <1>1, <1>6, NthOfRank
  <1>8. ASSUME NEW n \in 1 .. Cardinality(h) PROVE Nth(k, n) = Nth(h, n)
    <2> DEFINE x == Nth(h, n)
    <2>1. x \in h /\ Rank(h, x) = n
      BY NthFacts
    <2> HIDE DEF x
    <2>2. {g \in k : g <= x} = {g \in h : g <= x}
      <3>1. x \in Nat /\ x <= l
        BY <1>2, <2>1
      <3>2. ~(l + 1 <= x)
        BY <3>1
      <3> QED
        BY <3>2
    <2>3. Rank(k, x) = n
      BY <2>1, <2>2 DEF Rank
    <2>4. x \in k
      BY <2>1
    <2> HIDE DEF k
    <2>5. Nth(k, Rank(k, x)) = x
      BY <1>1, <2>4, NthOfRank
    <2> QED
      BY <2>3, <2>5 DEF x
  <1> QED
    BY <1>5, <1>7, <1>8 DEF LastOf

-----------------------------------------------------------------------------
(* The commands the bytes stand for.                                       *)

(* A piece of the buffer.                                                  *)
LEMMA PieceFacts ==
  ASSUME NEW s \in Seq(Byte), NEW x \in Nat, NEW m \in Nat, x + m <= Len(s)
  PROVE  /\ SubSeq(s, x + 1, x + m) \in Seq(Byte)
         /\ Len(SubSeq(s, x + 1, x + m)) = m
         /\ \A i \in 1 .. m : SubSeq(s, x + 1, x + m)[i] = s[x + i]
  <1> DEFINE r == SubSeq(s, x + 1, x + m)
  <1>1. Len(s) \in Nat
    OBVIOUS
  <1>2. \A i \in x + 1 .. x + m : s[i] \in Byte
    BY <1>1
  <1>3. /\ r \in Seq(Byte)
        /\ Len(r) = IF x + 1 <= x + m THEN x + m - (x + 1) + 1 ELSE 0
        /\ \A i \in 1 .. x + m - (x + 1) + 1 : r[i] = s[x + 1 + i - 1]
    BY <1>2, SubSeqProperties
  <1> HIDE DEF r
  <1>4. /\ x + m - (x + 1) + 1 = m
        /\ \A i \in 1 .. m : x + 1 + i - 1 = x + i
    OBVIOUS
  <1>5. Len(r) = m
    <2>1. CASE m = 0
      BY <1>3, <2>1
    <2>2. CASE m /= 0
      BY <1>3, <2>2
    <2> QED
      BY <2>1, <2>2
  <1>6. \A i \in 1 .. m : r[i] = s[x + i]
    BY <1>3, <1>4
  <1> QED
    BY <1>3, <1>5, <1>6 DEF r

(* Two buffers that agree on a piece.                                      *)
LEMMA SamePiece ==
  ASSUME NEW s \in Seq(Byte), NEW n \in Seq(Byte), NEW x \in Nat, NEW m \in Nat,
         x + m <= Len(s), x + m <= Len(n),
         \A i \in 1 .. Len(s) : i <= Len(n) => n[i] = s[i]
  PROVE  SubSeq(n, x + 1, x + m) = SubSeq(s, x + 1, x + m)
  <1> DEFINE a == SubSeq(n, x + 1, x + m)
             b == SubSeq(s, x + 1, x + m)
  <1>1. /\ a \in Seq(Byte) /\ Len(a) = m /\ \A i \in 1 .. m : a[i] = n[x + i]
    BY PieceFacts
  <1>2. /\ b \in Seq(Byte) /\ Len(b) = m /\ \A i \in 1 .. m : b[i] = s[x + i]
    BY PieceFacts
  <1> HIDE DEF a, b
  <1>3. ASSUME NEW i \in 1 .. m PROVE n[x + i] = s[x + i]
    <2>1. x + i \in 1 .. Len(s) /\ x + i <= Len(n)
      OBVIOUS
    <2> QED
      BY <2>1
  <1>4. \A i \in 1 .. Len(a) : a[i] = b[i]
    BY <1>1, <1>2, <1>3
  <1>5. a = b
    BY <1>1, <1>2, <1>4, SeqEqual
  <1> QED
    BY <1>5 DEF a, b

(* A queued command lies inside the buffer.                                *)
LEMMA CommandInside ==
  ASSUME NEW s \in Seq(Byte), NEW h \in SUBSET Nat, PackedBytes(s, h),
         NEW x \in h
  PROVE  /\ x \in 1 .. Len(s) /\ s[x] \in Types /\ Sizeof[s[x]] \in Nat
         /\ execute_command(s[x]) = 1 + Sizeof[s[x]]
         /\ x + Sizeof[s[x]] <= Len(s)
  <1>1. /\ x \in 1 .. Len(s) /\ h \subseteq 1 .. Len(s) /\ s[x] \in Types
        /\ x + execute_command(s[x]) \in h \cup {Len(s) + 1}
    BY DEF PackedBytes, Queued
  <1>2. Sizeof[s[x]] \in Nat
    BY <1>1, BytesAssumption
  <1>3. execute_command(s[x]) = 1 + Sizeof[s[x]]
    BY <1>1 DEF execute_command
  <1>4. x + execute_command(s[x]) <= Len(s) + 1
    <2>1. Len(s) \in Nat
      OBVIOUS
    <2>2. \A y \in h \cup {Len(s) + 1} : y <= Len(s) + 1
      BY <1>1, <2>1
    <2> QED
      BY <1>1, <2>2, Zenon
  <1> QED
    BY <1>1, <1>2, <1>3, <1>4

(* The command at a header is its type and its payload.                    *)
LEMMA CommandAtType ==
  ASSUME NEW s \in Seq(Byte), NEW h \in SUBSET Nat, PackedBytes(s, h),
         NEW x \in h
  PROVE  CommandAt(s, x) \in [type : Byte, arg : Seq(Byte)]
  <1>1. /\ x \in Nat /\ s[x] \in Byte /\ Sizeof[s[x]] \in Nat
        /\ x + Sizeof[s[x]] <= Len(s)
    <2>1. /\ x \in 1 .. Len(s) /\ s[x] \in Types /\ Sizeof[s[x]] \in Nat
          /\ x + Sizeof[s[x]] <= Len(s)
      BY CommandInside, Zenon
    <2> QED
      BY <2>1, TypesAreBytes
  <1>2. SubSeq(s, x + 1, x + Sizeof[s[x]]) \in Seq(Byte)
    BY <1>1, PieceFacts
  <1> QED
    BY <1>1, <1>2 DEF CommandAt

(* The list has one command per header.                                    *)
LEMMA DecodedFacts ==
  ASSUME NEW s \in Seq(Byte), NEW h \in SUBSET Nat, PackedBytes(s, h)
  PROVE  /\ IsFiniteSet(h) /\ Cardinality(h) \in Nat
         /\ Decoded(s, h) \in Seq([type : Byte, arg : Seq(Byte)])
         /\ Len(Decoded(s, h)) = Cardinality(h)
         /\ \A n \in 1 .. Cardinality(h) :
              /\ Nth(h, n) \in h
              /\ Decoded(s, h)[n] = CommandAt(s, Nth(h, n))
  <1>1. Len(s) \in Nat /\ h \in SUBSET (1 .. Len(s))
    BY DEF PackedBytes
  <1>2. IsFiniteSet(h) /\ Cardinality(h) \in Nat
    BY <1>1, FiniteHeaders, Zenon
  <1> DEFINE m == Cardinality(h)
             C == [type : Byte, arg : Seq(Byte)]
  <1>3. \A n \in 1 .. m : Nth(h, n) \in h
    BY <1>1, NthFacts, Zenon
  <1>4. \A n \in 1 .. m : CommandAt(s, Nth(h, n)) \in C
    BY <1>3, CommandAtType, Zenon
  <1> HIDE DEF C
  <1>5. /\ Decoded(s, h) \in [1 .. m -> C]
        /\ \A n \in 1 .. m : Decoded(s, h)[n] = CommandAt(s, Nth(h, n))
    BY <1>4 DEF Decoded
  <1>6. Decoded(s, h) \in Seq(C) /\ Len(Decoded(s, h)) = m
    BY <1>2, <1>5
  <1> QED
    BY <1>2, <1>3, <1>5, <1>6 DEF C

(* Bytes behind a command do not change it.                                *)
LEMMA CommandKept ==
  ASSUME NEW s \in Seq(Byte), NEW h \in SUBSET Nat, PackedBytes(s, h),
         NEW n \in Seq(Byte), Len(s) <= Len(n),
         \A i \in 1 .. Len(s) : n[i] = s[i],
         NEW x \in h
  PROVE  CommandAt(n, x) = CommandAt(s, x)
  <1>1. /\ x \in 1 .. Len(s) /\ x \in Nat /\ Sizeof[s[x]] \in Nat
        /\ x + Sizeof[s[x]] <= Len(s) /\ Len(s) \in Nat /\ Len(n) \in Nat
    <2>1. /\ x \in 1 .. Len(s) /\ Sizeof[s[x]] \in Nat
          /\ x + Sizeof[s[x]] <= Len(s)
      BY CommandInside, Zenon
    <2> QED
      BY <2>1
  <1>2. n[x] = s[x]
    BY <1>1
  <1> DEFINE m == Sizeof[s[x]]
  <1>3. /\ m \in Nat /\ x + m <= Len(s) /\ x + m <= Len(n)
    BY <1>1
  <1> HIDE DEF m
  <1>4. SubSeq(n, x + 1, x + m) = SubSeq(s, x + 1, x + m)
    BY <1>1, <1>3, SamePiece
  <1> QED
    BY <1>2, <1>4, Zenon DEF CommandAt, m

(* command_queue appends a command to the list.                            *)
LEMMA DecodedAdded ==
  ASSUME NEW s \in Seq(Byte), NEW h \in SUBSET Nat, PackedBytes(s, h),
         NEW t \in Types, NEW p \in Seq(Byte), Len(p) = Sizeof[t],
         PackedBytes(s \o <<t>> \o p, h \cup {Len(s) + 1})
  PROVE  Decoded(s \o <<t>> \o p, h \cup {Len(s) + 1})
           = Append(Decoded(s, h), [type |-> t, arg |-> p])
  <1> DEFINE n == s \o <<t>> \o p
             k == h \cup {Len(s) + 1}
             l == Len(s)
             C == [type : Byte, arg : Seq(Byte)]
             c == [type |-> t, arg |-> p]
             d == Decoded(s, h)
             e == Decoded(n, k)
  <1>1. /\ n \in Seq(Byte) /\ Len(n) = l + 1 + Len(p)
        /\ \A i \in 1 .. l : n[i] = s[i]
        /\ n[l + 1] = t
    BY ConcatFacts, ZenonT(60)
  <1>2. l \in Nat /\ h \in SUBSET (1 .. l) /\ Len(p) \in Nat
    BY DEF PackedBytes
  <1>3. k \in SUBSET Nat
    <2>1. \A x \in h \cup {l + 1} : x \in Nat
      BY <1>2
    <2> QED
      BY <2>1, Zenon
  <1>4. /\ Cardinality(k) = Cardinality(h) + 1
        /\ Nth(k, Cardinality(k)) = l + 1
        /\ \A i \in 1 .. Cardinality(h) : Nth(k, i) = Nth(h, i)
    <2>1. LastOf(h \cup {l + 1}, l + 1, h)
      BY <1>2, NthAdded
    <2> QED
      BY <2>1, Zenon DEF LastOf
  <1>5. /\ Cardinality(h) \in Nat /\ d \in Seq(C) /\ Len(d) = Cardinality(h)
        /\ \A i \in 1 .. Cardinality(h) :
             Nth(h, i) \in h /\ d[i] = CommandAt(s, Nth(h, i))
    BY DecodedFacts, Zenon
  <1>6. /\ e \in Seq(C) /\ Len(e) = Cardinality(k)
        /\ \A i \in 1 .. Cardinality(k) : e[i] = CommandAt(n, Nth(k, i))
    BY <1>1, <1>3, DecodedFacts, Zenon
  <1>7. c \in C
    BY TypesAreBytes
  <1> HIDE DEF C, d, e
  <1>8. /\ Append(d, c) \in Seq(C) /\ Len(Append(d, c)) = Len(d) + 1
        /\ \A i \in 1 .. Len(d) : Append(d, c)[i] = d[i]
        /\ Append(d, c)[Len(d) + 1] = c
    BY <1>5, <1>7, AppendProperties
  <1>9. CommandAt(n, l + 1) = c
    <2>1. SubSeq(n, (l + 1) + 1, (l + 1) + Sizeof[t]) = p
      <3> DEFINE r == SubSeq(n, (l + 1) + 1, (l + 1) + Sizeof[t])
      <3>1. /\ r \in Seq(Byte) /\ Len(r) = Sizeof[t]
            /\ \A i \in 1 .. Sizeof[t] : r[i] = n[(l + 1) + i]
        <4>1. /\ l + 1 \in Nat /\ Sizeof[t] \in Nat
              /\ (l + 1) + Sizeof[t] <= Len(n)
          BY <1>1, <1>2
        <4> HIDE DEF l
        <4> QED
          BY <1>1, <4>1, PieceFacts, Zenon
      <3> HIDE DEF r
      <3>2. ASSUME NEW i \in 1 .. Len(p) PROVE n[(l + 1) + i] = p[i]
        BY ConcatProperties
      <3>3. r = p
        BY <3>1, <3>2, SeqEqual, Zenon
      <3> QED
        BY <3>3 DEF r
    <2> QED
      BY <1>1, <2>1, Zenon DEF CommandAt
  <1>10. ASSUME NEW i \in 1 .. Len(e) PROVE e[i] = Append(d, c)[i]
    <2>1. CASE i = Len(d) + 1
      <3>1. i = Cardinality(k) /\ i \in 1 .. Cardinality(k)
        BY <1>4, <1>5, <1>6, <2>1
      <3>2. e[i] = CommandAt(n, l + 1)
        BY <1>4, <1>6, <3>1, Zenon
      <3> QED
        BY <1>8, <1>9, <2>1, <3>2
    <2>2. CASE i /= Len(d) + 1
      <3>1. i \in 1 .. Cardinality(h) /\ i \in 1 .. Cardinality(k)
        BY <1>4, <1>5, <1>6, <2>2
      <3>2. e[i] = CommandAt(n, Nth(h, i)) /\ Nth(h, i) \in h
        BY <1>4, <1>5, <1>6, <3>1, Zenon
      <3>3. Len(s) <= Len(n)
        BY <1>1, <1>2
      <3>4. CommandAt(n, Nth(h, i)) = CommandAt(s, Nth(h, i))
        BY <1>1, <3>2, <3>3, CommandKept, Zenon
      <3> QED
        BY <1>5, <1>8, <3>1, <3>2, <3>4
    <2> QED
      BY <2>1, <2>2, Zenon
  <1>11. e = Append(d, c)
    <2>1. Len(e) = Len(Append(d, c))
      BY <1>4, <1>5, <1>6, <1>8
    <2> QED
      BY <1>6, <1>8, <1>10, <2>1, SeqEqual, Zenon
  <1> QED
    BY <1>11, Zenon DEF d, e

(* The queue of CommandList that the bytes s with headers h stand for.     *)
View(s, h, r) ==
  [list |-> Decoded(s, h), end |-> Len(s), repeat |-> r, intact |-> TRUE]

(* command_queue on the bytes is command_queue on the list.                *)
LEMMA PutMaps ==
  ASSUME NEW s \in Seq(Byte), NEW h \in SUBSET Nat, PackedBytes(s, h),
         Len(s) <= COMMAND_QUEUE_LENGTH, NEW t \in Types, NEW p \in Payload[t],
         NEW r
  PROVE  View(command_queue(s, h, t, p).buf, command_queue(s, h, t, p).hdrs, r)
           = List!Put(View(s, h, r), t, p)
  <1> DEFINE q == command_queue(s, h, t, p)
  <1>1. /\ Len(s) \in Nat /\ Sizeof[t] \in Nat /\ COMMAND_QUEUE_LENGTH \in Nat
        /\ p \in Seq(Byte) /\ Len(p) = Sizeof[t]
    BY BytesAssumption
  <1>2. List!Fits(View(s, h, r), t)
          <=> ~(Len(s) + Header + Sizeof[t] > COMMAND_QUEUE_LENGTH)
    BY <1>1 DEF List!Fits, List!Header, View
  <1>3. CASE Len(s) + Header + Sizeof[t] > COMMAND_QUEUE_LENGTH
    <2>1. q.buf = s /\ q.hdrs = h
      BY <1>3 DEF command_queue
    <2> QED
      BY <1>2, <1>3, <2>1 DEF List!Put
  <1>4. CASE ~(Len(s) + Header + Sizeof[t] > COMMAND_QUEUE_LENGTH)
    <2> DEFINE n == s \o <<t>> \o p
               k == h \cup {Len(s) + 1}
    <2>1. q.buf = n /\ q.hdrs = k
      BY <1>4 DEF command_queue
    <2>2. PackedBytes(n, k)
      BY <2>1, QueueKeepsPacked, ZenonT(60)
    <2>3. Len(n) = Len(s) + 1 + Sizeof[t]
      <3>1. Len(n) = Len(s) + 1 + Len(p)
        BY <1>1, ConcatFacts, ZenonT(60)
      <3> QED
        BY <1>1, <3>1, ZenonT(60)
    <2>4. Decoded(n, k) = Append(Decoded(s, h), [type |-> t, arg |-> p])
      BY <1>1, <2>2, DecodedAdded, ZenonT(60)
    <2> HIDE DEF n, k
    <2> QED
      BY <1>2, <1>4, <2>1, <2>3, <2>4, Zenon
         DEF List!Put, List!Command, List!Header, View
  <1> QED
    BY <1>3, <1>4

(* Giving up a spi_write at the end takes the last command off the list.   *)
LEMMA DropMaps ==
  ASSUME NEW s \in Seq(Byte), NEW h \in SUBSET Nat, PackedBytes(s, h),
         Len(s) \in h, s[Len(s)] = command_type_spi_write, NEW r
  PROVE  View(SubSeq(s, 1, Len(s) - Header), h \ {Len(s)}, r)
           = List!DropSpiWrite(View(s, h, r))
  <1> DEFINE n == SubSeq(s, 1, Len(s) - Header)
             k == h \ {Len(s)}
             t == command_type_spi_write
             c == [type |-> t, arg |-> <<>>]
             C == [type : Byte, arg : Seq(Byte)]
             d == Decoded(n, k)
  <1>1. Len(s) \in Nat /\ Len(s) >= 1
    BY DEF PackedBytes
  <1>2. /\ n \in Seq(Byte) /\ Len(n) = Len(s) - 1 /\ PackedBytes(n, k)
        /\ k \in SUBSET Nat
    BY DropKeepsPacked, Zenon
  <1>3. \A i \in 1 .. Len(s) - 1 : n[i] = s[i]
    BY <1>1, DropBytes
  <1>4. t \in Types /\ <<>> \in Seq(Byte) /\ Len(<<>>) = Sizeof[t]
    BY BytesAssumption DEF Types, command_type_spi_write
  <1> HIDE DEF n, t
  <1>5. n \o <<t>> \o <<>> = s
    <2> DEFINE m == n \o <<t>> \o <<>>
    <2>1. /\ m \in Seq(Byte) /\ Len(m) = Len(n) + 1 + Len(<<>>)
          /\ \A i \in 1 .. Len(n) : m[i] = n[i]
          /\ m[Len(n) + 1] = t
      BY <1>2, <1>4, ConcatFacts, ZenonT(60)
    <2> HIDE DEF m
    <2>2. Len(m) = Len(s)
      BY <1>1, <1>2, <2>1
    <2>3. ASSUME NEW i \in 1 .. Len(m) PROVE m[i] = s[i]
      <3>1. i \in 1 .. Len(s) - 1 \/ i = Len(s)
        BY <1>1, <2>2
      <3> QED
        BY <1>1, <1>2, <1>3, <2>1, <3>1 DEF t
    <2>4. m = s
      BY <2>1, <2>2, <2>3, SeqEqual
    <2> QED
      BY <2>4 DEF m
  <1>6. k \cup {Len(n) + 1} = h
    <2>1. Len(n) + 1 = Len(s)
      BY <1>1, <1>2
    <2> QED
      BY <2>1
  <1>7. Decoded(s, h) = Append(d, c)
    <2> HIDE DEF k
    <2>1. PackedBytes(n \o <<t>> \o <<>>, k \cup {Len(n) + 1})
      BY <1>5, <1>6, Zenon
    <2>2. Decoded(n \o <<t>> \o <<>>, k \cup {Len(n) + 1}) = Append(d, c)
      BY <1>2, <1>4, <2>1, DecodedAdded, ZenonT(60)
    <2> QED
      BY <1>5, <1>6, <2>2, Zenon
  <1>8. d \in Seq(C) /\ c \in C
    BY <1>2, <1>4, DecodedFacts, TypesAreBytes, Zenon
  <1> HIDE DEF d, k, C
  <1>9. /\ Append(d, c) /= <<>>
        /\ Len(Append(d, c)) = Len(d) + 1 /\ Len(d) \in Nat
        /\ Append(d, c)[Len(d) + 1] = c
        /\ SubSeq(Append(d, c), 1, Len(d)) = d
    BY <1>8, AppendProperties
  <1>10. List!EndsIn(View(s, h, r), List!command_type_spi_write)
    BY <1>7, <1>9 DEF List!EndsIn, View, List!command_type_spi_write, t,
                      command_type_spi_write
  <1>11. SubSeq(Decoded(s, h), 1, Len(Decoded(s, h)) - 1) = d
    BY <1>7, <1>9
  <1> QED
    BY <1>2, <1>10, <1>11, Zenon
       DEF List!DropSpiWrite, List!Header, View, n, k, d

(* The command that reaches the end of the buffer is the last of the list. *)
LEMMA LastDecoded ==
  ASSUME NEW s \in Seq(Byte), NEW h \in SUBSET Nat, PackedBytes(s, h),
         NEW x \in h, x + execute_command(s[x]) = Len(s) + 1
  PROVE  /\ Decoded(s, h) /= <<>>
         /\ Decoded(s, h)[Len(Decoded(s, h))] = CommandAt(s, x)
  <1>1. Len(s) \in Nat /\ h \in SUBSET (1 .. Len(s))
    BY DEF PackedBytes
  <1>2. {g \in h : g <= x} = h
    <2>1. ASSUME NEW g \in h, ~(g <= x) PROVE FALSE
      <3>1. x \in Nat /\ g \in Nat /\ g <= Len(s) /\ x < g
        BY <1>1, <2>1
      <3>2. x + execute_command(s[x]) <= g
        BY <3>1 DEF PackedBytes
      <3> QED
        BY <1>1, <3>1, <3>2
    <2> QED
      BY <2>1, Zenon
  <1>3. Rank(h, x) = Cardinality(h)
    BY <1>2, Zenon DEF Rank
  <1>4. Nth(h, Cardinality(h)) = x /\ Cardinality(h) \in 1 .. Cardinality(h)
    <2>1. Rank(h, x) \in 1 .. Cardinality(h) /\ Nth(h, Rank(h, x)) = x
      BY <1>1, RankRange, NthOfRank, Zenon
    <2> QED
      BY <1>3, <2>1
  <1> DEFINE d == Decoded(s, h)
  <1>5. /\ Cardinality(h) \in Nat /\ Len(d) = Cardinality(h)
        /\ \A n \in 1 .. Cardinality(h) : d[n] = CommandAt(s, Nth(h, n))
    BY DecodedFacts, Zenon
  <1>6. d[Len(d)] = CommandAt(s, x)
    BY <1>4, <1>5, Zenon
  <1> HIDE DEF d
  <1>7. d /= <<>>
    BY <1>4, <1>5
  <1> QED
    BY <1>6, <1>7 DEF d

(* So its type is the one the list ends in.                                *)
LEMMA EndsInMaps ==
  ASSUME NEW s \in Seq(Byte), NEW h \in SUBSET Nat, PackedBytes(s, h),
         NEW x \in h, x + execute_command(s[x]) = Len(s) + 1,
         NEW r, NEW t
  PROVE  List!EndsIn(View(s, h, r), t) <=> s[x] = t
  <1> DEFINE d == Decoded(s, h)
  <1>1. d[Len(d)].type = s[x] /\ d /= <<>>
    <2>1. d /= <<>> /\ d[Len(d)] = CommandAt(s, x)
      BY LastDecoded, Zenon
    <2> HIDE DEF d
    <2> QED
      BY <2>1 DEF CommandAt
  <1>2. View(s, h, r).list = d
    BY DEF View
  <1> HIDE DEF d
  <1> QED
    BY <1>1, <1>2 DEF List!EndsIn

(* A queue that is not empty has a last command.                           *)
LEMMA LastHeader ==
  ASSUME NEW s \in Seq(Byte), NEW h \in SUBSET Nat, PackedBytes(s, h),
         s /= <<>>
  PROVE  \E x \in h : x + execute_command(s[x]) = Len(s) + 1
  <1>1. Len(s) \in Nat /\ h \in SUBSET (1 .. Len(s)) /\ 1 \in h
    BY DEF PackedBytes
  <1>2. Cardinality(h) \in Nat
    BY <1>1, FiniteHeaders, Zenon
  <1>3. Rank(h, 1) \in 1 .. Cardinality(h)
    BY <1>1, RankRange, Zenon
  <1> DEFINE c == Cardinality(h)
             x == Nth(h, c)
  <1>4. c \in 1 .. Cardinality(h)
    BY <1>2, <1>3
  <1>5. x \in h /\ Rank(h, x) = Cardinality(h)
    BY <1>1, <1>4, NthFacts, Zenon
  <1> HIDE DEF c, x
  <1> DEFINE y == x + execute_command(s[x])
  <1>6. y \in h \cup {Len(s) + 1}
    BY <1>5 DEF PackedBytes
  <1>7. x < y
    <2>1. x \in 1 .. Len(s) /\ s[x] \in Types
      BY <1>1, <1>5, Zenon DEF PackedBytes, Queued
    <2>2. execute_command(s[x]) \in Nat \ {0}
      BY <2>1, LengthsAreNat, TypesAreBytes
    <2> QED
      BY <2>1, <2>2
  <1> HIDE DEF y
  <1>8. y \notin h
    <2> SUFFICES ASSUME y \in h PROVE FALSE
      OBVIOUS
    <2>1. Rank(h, x) < Rank(h, y)
      BY <1>1, <1>5, <1>7, RankGrows, Zenon
    <2>2. Rank(h, y) \in 1 .. Cardinality(h)
      BY <1>1, RankRange, Zenon
    <2> QED
      BY <1>2, <1>5, <2>1, <2>2
  <1> QED
    BY <1>5, <1>6, <1>8 DEF y

(* The search is blind on the list where the bytes hold a parallel         *)
(* command.                                                                *)
LEMMA BlindMaps ==
  ASSUME NEW s \in Seq(Byte), NEW h \in SUBSET Nat, PackedBytes(s, h),
         Holds(s, h), NEW r
  PROVE  List!Blind(View(s, h, r))
  <1>1. Len(s) \in Nat /\ h \in SUBSET (1 .. Len(s))
    BY DEF PackedBytes
  <1>2. PICK x \in h : s[x] \in Uncounted
    BY DEF Holds
  <1>3. Rank(h, x) \in 1 .. Cardinality(h) /\ Nth(h, Rank(h, x)) = x
    BY <1>1, RankRange, NthOfRank, Zenon
  <1> DEFINE d == Decoded(s, h)
             n == Rank(h, x)
  <1>4. n \in 1 .. Len(d) /\ d[n] = CommandAt(s, x)
    BY <1>3, DecodedFacts, Zenon
  <1>5. d[n].type \in List!Uncounted
    <2>1. d[n].type = s[x]
      BY <1>4 DEF CommandAt
    <2>2. List!Uncounted = Uncounted
      BY DEF List!Uncounted, Uncounted, List!command_type_parallel,
             List!command_type_parallel_frequency, command_type_parallel,
             command_type_parallel_frequency
    <2> QED
      BY <1>2, <2>1, <2>2, Zenon
  <1>6. View(s, h, r).list = d
    BY DEF View
  <1> HIDE DEF d, n
  <1> QED
    BY <1>4, <1>5, <1>6 DEF List!Blind

(* The payloads that a search may take for a spi_write.                    *)
Sixes == {p \in Seq(Byte) : p /= <<>> /\ p[Len(p)] = command_type_spi_write}

(* A byte 6 at the end that is no header ends the last command's payload.  *)
LEMMA LastPayload ==
  ASSUME NEW s \in Seq(Byte), NEW h \in SUBSET Nat, PackedBytes(s, h),
         s /= <<>>, Len(s) \notin h, s[Len(s)] = command_type_spi_write,
         NEW r
  PROVE  View(s, h, r).list[Len(View(s, h, r).list)].arg \in Sixes
  <1>1. PICK x \in h : x + execute_command(s[x]) = Len(s) + 1
    BY LastHeader, Zenon
  <1>2. Len(s) \in Nat /\ h \in SUBSET (1 .. Len(s))
    BY DEF PackedBytes
  <1>3. /\ x \in 1 .. Len(s) /\ Sizeof[s[x]] \in Nat
        /\ execute_command(s[x]) = 1 + Sizeof[s[x]]
    BY CommandInside, Zenon
  <1> DEFINE m == Sizeof[s[x]]
             a == SubSeq(s, x + 1, x + m)
  <1>4. x + m = Len(s) /\ m \in Nat \ {0} /\ x \in Nat /\ x + m <= Len(s)
    BY <1>1, <1>2, <1>3
  <1> HIDE DEF m
  <1>5. /\ a \in Seq(Byte) /\ Len(a) = m
        /\ \A i \in 1 .. m : a[i] = s[x + i]
    BY <1>4, PieceFacts
  <1>6. a \in Sixes
    <2> HIDE DEF a
    <2>1. m \in 1 .. m /\ a[m] = s[Len(s)] /\ a /= <<>>
      BY <1>4, <1>5
    <2> QED
      BY <1>5, <2>1 DEF Sixes
  <1> DEFINE d == Decoded(s, h)
  <1>7. d[Len(d)] = CommandAt(s, x)
    BY <1>1, LastDecoded, Zenon
  <1>8. View(s, h, r).list = d
    BY DEF View
  <1>9. CommandAt(s, x).arg = a
    BY Zenon DEF CommandAt, m
  <1> HIDE DEF d, a
  <1> QED
    BY <1>6, <1>7, <1>8, <1>9

(* The empty queue is the empty list.                                      *)
LEMMA EmptyMaps ==
  ASSUME NEW r
  PROVE  View(<<>>, {}, r)
           = [list |-> <<>>, end |-> 0, repeat |-> r, intact |-> TRUE]
  <1>1. Cardinality({}) = 0
    BY FS_EmptySet
  <1>2. Decoded(<<>>, {}) = <<>>
    BY <1>1 DEF Decoded
  <1> QED
    BY <1>2, Zenon DEF View

-----------------------------------------------------------------------------
(* The position of the executor in the list.                               *)
Before(h, c) == Cardinality({g \in h : g < c})

(* A turn of the inner loop passes one command, ...                        *)
LEMMA BeforeStep ==
  ASSUME NEW s \in Seq(Byte), NEW h \in SUBSET Nat, PackedBytes(s, h),
         NEW x \in h
  PROVE  /\ Before(h, x) + 1 \in 1 .. Cardinality(h)
         /\ Before(h, x + execute_command(s[x])) = Before(h, x) + 1
  <1> DEFINE a == {g \in h : g < x}
             y == x + execute_command(s[x])
             b == {g \in h : g < y}
  <1>1. /\ Len(s) \in Nat /\ h \in SUBSET (1 .. Len(s)) /\ x \in Nat
        /\ execute_command(s[x]) \in Nat \ {0} /\ y \in Nat /\ x < y
    <2>1. Len(s) \in Nat /\ h \in SUBSET (1 .. Len(s)) /\ x \in Nat
      BY DEF PackedBytes
    <2>2. execute_command(s[x]) \in Nat \ {0}
      <3>1. Sizeof[s[x]] \in Nat /\ execute_command(s[x]) = 1 + Sizeof[s[x]]
        BY CommandInside, Zenon
      <3> QED
        BY <3>1
    <2> QED
      BY <2>1, <2>2
  <1>2. \A g \in h : g \in Nat /\ (x < g => y <= g)
    BY DEF PackedBytes
  <1> HIDE DEF y
  <1>3. x \notin a /\ a \in SUBSET (1 .. Len(s)) /\ a \cup {x} \in SUBSET h
    <2>1. ~(x < x)
      BY <1>1
    <2>2. a \in SUBSET h
      OBVIOUS
    <2>3. a \in SUBSET (1 .. Len(s)) /\ a \cup {x} \in SUBSET h
      BY <1>1, <2>2, Zenon
    <2> QED
      BY <2>1, <2>3
  <1>4. \A g \in h : g < y <=> g < x \/ g = x
    BY <1>1, <1>2
  <1>5. b = a \cup {x}
    BY <1>4, Zenon
  <1> HIDE DEF a, b
  <1>6. IsFiniteSet(a) /\ Cardinality(a) \in Nat
    BY <1>1, <1>3, FiniteHeaders, Zenon
  <1>7. Cardinality(a \cup {x}) = Cardinality(a) + 1
    BY <1>3, <1>6, FS_AddElement, Zenon
  <1>8. IsFiniteSet(h) /\ Cardinality(h) \in Nat
    BY <1>1, FiniteHeaders, Zenon
  <1>9. Cardinality(a \cup {x}) <= Cardinality(h)
    BY <1>3, <1>8, FS_Subset, Zenon
  <1>10. Cardinality(a) + 1 \in 1 .. Cardinality(h) /\ Cardinality(b) = Cardinality(a) + 1
    BY <1>5, <1>6, <1>7, <1>8, <1>9
  <1> QED
    BY <1>10 DEF Before, a, b, y

(* ... from none at the beginning to all at the end.                       *)
LEMMA BeforeEnds ==
  ASSUME NEW s \in Seq(Byte), NEW h \in SUBSET Nat, PackedBytes(s, h)
  PROVE  /\ Before(h, 1) = 0
         /\ \A c \in Nat : c >= Len(s) + 1 => Before(h, c) = Cardinality(h)
  <1>1. Len(s) \in Nat /\ \A g \in h : g \in Nat /\ 1 <= g /\ g <= Len(s)
    BY DEF PackedBytes
  <1>2. {g \in h : g < 1} = {}
    <2>1. \A g \in h : ~(g < 1)
      BY <1>1
    <2> QED
      BY <2>1, Zenon
  <1>3. ASSUME NEW c \in Nat, c >= Len(s) + 1 PROVE Before(h, c) = Cardinality(h)
    <2>1. \A g \in h : g < c
      BY <1>1, <1>3
    <2>2. {g \in h : g < c} = h
      BY <2>1, Zenon
    <2> QED
      BY <2>2, Zenon DEF Before
  <1>4. Before(h, 1) = 0
    <2>1. Cardinality({}) = 0
      BY FS_EmptySet, Zenon
    <2> QED
      BY <1>2, <2>1, Zenon DEF Before
  <1> QED
    BY <1>3, <1>4

-----------------------------------------------------------------------------
(* In a queue without parallel commands find_last_command stops at the     *)
(* last command, not behind it.                                            *)
FindBefore ==
  pc = "find" /\ ~damaged =>
    cur \in hdrs \/ buf = <<>> \/ Holds(buf, hdrs)

(* Every step keeps it so.                                                 *)
LEMMA FindBeforeKept ==
  ASSUME IInv, FindBefore, [Next]_vars
  PROVE  FindBefore'
  <1>1. ASSUME NEW p \in Payload[command_type_register], FindLast(p)
        PROVE  FindBefore'
    BY <1>1 DEF FindLast, FindBefore, IInv, Packed, PackedBytes
  <1>2. CASE FindNext
    <2>1. /\ pc = "find" /\ cur < End /\ cur' /= End
          /\ cur' = cur + get_command_length(buf[cur])
          /\ UNCHANGED <<buf, hdrs, damaged>>
      BY <1>2 DEF FindNext
    <2>2. ASSUME ~damaged, ~Holds(buf, hdrs) PROVE cur' \in hdrs
      <3>1. PackedBytes(buf, hdrs) /\ TypeOK
        BY <2>2 DEF IInv, Packed, Bounded
      <3>2. \A h \in hdrs : buf[h] \notin Uncounted
        BY <2>2, <3>1 DEF Holds, PackedBytes
      <3>3. cur \in hdrs
        BY <2>1, <2>2, <3>1, <3>2 DEF IInv, FindInStep, TypeOK, End
      <3> QED
        BY <2>1, <3>1, <3>2, <3>3, StepInStep
    <2> QED
      BY <2>1, <2>2, Zenon DEF FindBefore, Holds
  <1>3. CASE pc' /= "find"
    BY <1>3 DEF FindBefore
  <1>4. CASE UNCHANGED vars
    BY <1>4 DEF vars, FindBefore, Holds
  <1> QED
    BY <1>1, <1>2, <1>3, <1>4
       DEF Next, QueuePlain, QueueRegister, commands_clear, commands_repeat,
           commands_execute, ExecNext, EndPass

(* The queue and the position of CommandList.                              *)
Queue == View(buf, hdrs, repeat)
Position == IF pc = "exec" THEN Before(hdrs, cur) + 1 ELSE 0

(* command_queue_register on the bytes is command_queue_register on the    *)
(* list.                                                                   *)
LEMMA RegisterMaps ==
  ASSUME IInv, FindBefore, QueueRegister, ~damaged, ~damaged'
  PROVE  Queue' \in List!PutRegister(Queue, pending)
  <1> DEFINE drop == Found /\ buf[cur] = command_type_spi_write
             s0 == IF drop THEN SubSeq(buf, 1, Len(buf) - Header) ELSE buf
             h0 == IF drop THEN hdrs \ {Len(buf)} ELSE hdrs
             q1 == command_queue(s0, h0, command_type_register, pending)
             q2 == command_queue(q1.buf, q1.hdrs, command_type_spi_write, <<>>)
  <1>1. /\ buf' = q2.buf /\ hdrs' = q2.hdrs /\ repeat' = repeat
        /\ pc = "find"
        /\ Found \/ NotFound
        /\ drop => Len(buf) \in hdrs
    BY ZenonT(60) DEF QueueRegister
  <1>2. /\ buf \in Seq(Byte) /\ hdrs \in SUBSET Nat /\ PackedBytes(buf, hdrs)
        /\ Len(buf) <= COMMAND_QUEUE_LENGTH /\ Len(buf) \in Nat
        /\ hdrs \subseteq 1 .. Len(buf)
        /\ pending \in Payload[command_type_register]
    BY <1>1 DEF IInv, Bounded, TypeOK, Packed, PackedBytes, Capacity, PendingOK
  <1>3. /\ s0 \in Seq(Byte) /\ h0 \in SUBSET Nat /\ PackedBytes(s0, h0)
        /\ Len(s0) <= COMMAND_QUEUE_LENGTH
        /\ View(s0, h0, repeat) \in List!Searched(Queue)
    <2>1. CASE drop
      <3>1. cur >= 1 /\ TypeOK
        BY <1>1 DEF IInv, Bounded
      <3>2. Len(buf) \in hdrs /\ buf[Len(buf)] = command_type_spi_write
        BY <1>1, <2>1, <3>1, FoundIsLast
      <3> DEFINE n == SubSeq(buf, 1, Len(buf) - Header)
                 k == hdrs \ {Len(buf)}
      <3>3. /\ n \in Seq(Byte) /\ Len(n) = Len(buf) - 1
            /\ PackedBytes(n, k)
        BY <1>2, <3>2, DropKeepsPacked, Zenon
      <3>4. View(n, k, repeat) = List!DropSpiWrite(Queue)
        BY <1>2, <3>2, DropMaps DEF Queue
      <3>5. k \in SUBSET Nat
        BY <1>2, Zenon
      <3>6. s0 = n /\ h0 = k
        BY <2>1
      <3> HIDE DEF n, k, s0, h0
      <3>7. Len(n) <= COMMAND_QUEUE_LENGTH
        BY <1>2, <3>3, BytesAssumption
      <3>8. List!DropSpiWrite(Queue) \in List!Searched(Queue)
        BY Zenon DEF List!Searched
      <3> QED
        BY <3>3, <3>4, <3>5, <3>6, <3>7, <3>8, Zenon
    <2>2. CASE ~drop
      <3>1. s0 = buf /\ h0 = hdrs
        BY <2>2
      <3>2. Queue \in List!Searched(Queue)
        <4>1. CASE Holds(buf, hdrs)
          <5>1. List!Blind(Queue)
            BY <1>2, <4>1, BlindMaps DEF Queue
          <5> QED
            BY <5>1, Zenon DEF List!Searched
        <4>2. CASE cur \in hdrs /\ ~Holds(buf, hdrs)
          <5>1. cur \in 1 .. Len(buf) /\ buf[cur] \notin Uncounted
            BY <1>2, <4>2 DEF Holds
          <5>2. Found
            BY <1>1, <1>2, <5>1 DEF NotFound, End
          <5>3. cur + execute_command(buf[cur]) = Len(buf) + 1
            BY <1>2, <4>2, <5>1, <5>2, StepInStep DEF Found, End, IInv, Bounded
          <5>4. ~List!EndsIn(Queue, List!command_type_spi_write)
            <6>1. List!command_type_spi_write = command_type_spi_write
              BY DEF List!command_type_spi_write, command_type_spi_write
            <6> QED
              BY <1>2, <2>2, <4>2, <5>2, <5>3, <6>1, EndsInMaps DEF Queue
          <5>5. List!DropSpiWrite(Queue) = Queue
            BY <5>4, Zenon DEF List!DropSpiWrite
          <5> QED
            BY <5>5, Zenon DEF List!Searched
        <4>3. CASE buf = <<>>
          <5>1. hdrs = {}
            BY <1>2, <4>3
          <5>2. Queue = [list |-> <<>>, end |-> 0, repeat |-> repeat,
                         intact |-> TRUE]
            BY <4>3, <5>1, EmptyMaps DEF Queue
          <5>3. List!DropSpiWrite(Queue) = Queue
            BY <5>2 DEF List!DropSpiWrite, List!EndsIn
          <5> QED
            BY <5>3, Zenon DEF List!Searched
        <4> QED
          BY <1>1, <4>1, <4>2, <4>3 DEF FindBefore
      <3> HIDE DEF s0, h0
      <3> QED
        BY <1>2, <3>1, <3>2, Zenon DEF Queue
    <2> QED
      BY <2>1, <2>2
  <1> HIDE DEF s0, h0
  <1>4. /\ command_type_register \in Types /\ command_type_spi_write \in Types
        /\ <<>> \in Payload[command_type_spi_write]
    BY BytesAssumption DEF command_type_register, command_type_spi_write, Types
  <1>5. /\ q1.buf \in Seq(Byte)
        /\ q1.hdrs \in SUBSET Nat
        /\ Len(q1.buf) <= COMMAND_QUEUE_LENGTH
        /\ PackedBytes(q1.buf, q1.hdrs)
    BY <1>2, <1>3, <1>4, QueueKeepsPacked, ZenonT(60)
  <1>6. View(q1.buf, q1.hdrs, repeat)
          = List!Put(View(s0, h0, repeat), command_type_register, pending)
    <2>1. /\ s0 \in Seq(Byte) /\ h0 \in SUBSET Nat /\ PackedBytes(s0, h0)
          /\ Len(s0) <= COMMAND_QUEUE_LENGTH
          /\ pending \in Payload[command_type_register]
          /\ command_type_register \in Types
      BY <1>2, <1>3, <1>4
    <2> QED
      BY <2>1, PutMaps, ZenonT(60)
  <1> HIDE DEF q1
  <1>7. View(q2.buf, q2.hdrs, repeat)
          = List!Put(View(q1.buf, q1.hdrs, repeat), command_type_spi_write,
                     <<>>)
    BY <1>4, <1>5, PutMaps, ZenonT(60)
  <1> HIDE DEF q2
  <1>8. Queue' = View(q2.buf, q2.hdrs, repeat)
    BY <1>1 DEF Queue
  <1>9. /\ List!command_type_register = command_type_register
        /\ List!command_type_spi_write = command_type_spi_write
        /\ List!NoArg = <<>>
    BY DEF List!command_type_register, List!command_type_spi_write, List!NoArg,
           command_type_register, command_type_spi_write
  <1>10. Queue' = List!WithRegister(View(s0, h0, repeat), pending)
    BY <1>6, <1>7, <1>8, <1>9, Zenon DEF List!WithRegister
  <1> QED
    BY <1>3, <1>10, Zenon DEF List!PutRegister

(* A payload byte is removed only where the list may be lost.              *)
LEMMA LossMaps ==
  ASSUME IInv, QueueRegister, ~damaged, damaged'
  PROVE  List!Mistaken(Queue)
  <1>1. /\ Found /\ buf[cur] = command_type_spi_write /\ pc = "find"
        /\ Len(buf) \notin hdrs
    BY Zenon DEF QueueRegister
  <1>2. /\ buf \in Seq(Byte) /\ hdrs \in SUBSET Nat /\ PackedBytes(buf, hdrs)
        /\ TypeOK /\ cur >= 1
    BY <1>1 DEF IInv, Bounded, TypeOK, Packed
  <1>3. buf[Len(buf)] = command_type_spi_write /\ buf /= <<>>
    BY <1>1, <1>2, FoundIsLast
  <1>4. List!Blind(Queue)
    BY <1>1, <1>2, StrayNeedsParallel, BlindMaps DEF Queue
  <1>5. Queue.list[Len(Queue.list)].arg \in Sixes
    BY <1>1, <1>2, <1>3, LastPayload DEF Queue
  <1> QED
    BY <1>4, <1>5, Zenon DEF List!Mistaken, Sixes

(* A step on the bytes is a step on the list, or none.                     *)
LEMMA StepMaps ==
  ASSUME IInv, FindBefore, [Next]_vars, ~damaged
  PROVE  [List!ListNext]_(List!listVars)
  <1> DEFINE cmds == IF damaged
                     THEN [list |-> <<>>, end |-> 0, repeat |-> repeat,
                           intact |-> FALSE]
                     ELSE [list |-> Decoded(buf, hdrs), end |-> Len(buf),
                           repeat |-> repeat, intact |-> TRUE]
             at == IF pc = "exec" THEN Cardinality({h \in hdrs : h < cur}) + 1
                   ELSE 0
  <1>1. /\ buf \in Seq(Byte) /\ hdrs \in SUBSET Nat /\ PackedBytes(buf, hdrs)
        /\ Len(buf) <= COMMAND_QUEUE_LENGTH /\ cur \in Nat
        /\ Len(buf) \in Nat
    BY DEF IInv, Bounded, TypeOK, Packed, Capacity
  <1>2. /\ cmds = Queue /\ (~damaged' => cmds' = Queue')
        /\ at = Position /\ at' = Position'
    BY DEF Queue, View, Position, Before
  <1>17. damaged' => cmds' = List!Lost(repeat')
    BY DEF List!Lost
  <1>3. Len(cmds.list) = Cardinality(hdrs)
    <2>1. cmds.list = Decoded(buf, hdrs)
      OBVIOUS
    <2> QED
      BY <1>1, <2>1, DecodedFacts, Zenon
  <1> HIDE DEF cmds, at
  <1>4. ASSUME NEW t \in Plain, NEW p \in Payload[t], QueuePlain(t, p)
        PROVE  List!QueuePlain(t, p) /\ t \in List!Plain
    <2>1. t \in Types /\ t \in List!Plain
      BY DEF Plain, Types, List!Plain, List!Types, command_type_register,
             command_type_spi_write, List!command_type_register,
             List!command_type_spi_write, List!command_type_end
    <2> DEFINE q == command_queue(buf, hdrs, t, p)
    <2>2. /\ buf' = q.buf /\ hdrs' = q.hdrs /\ pc = "idle"
          /\ UNCHANGED <<repeat, pc, cur, pass, pending, damaged>>
      BY <1>4 DEF QueuePlain
    <2>3. View(q.buf, q.hdrs, repeat) = List!Put(View(buf, hdrs, repeat), t, p)
      BY <1>1, <2>1, PutMaps, ZenonT(60)
    <2> HIDE DEF q
    <2>4. cmds' = List!Put(cmds, t, p)
      BY <1>2, <2>2, <2>3 DEF Queue
    <2>5. at = 0 /\ at' = 0
      BY <1>2, <2>2 DEF Position
    <2> QED
      BY <2>1, <2>2, <2>4, <2>5 DEF List!QueuePlain, List!Idle, cmds, at
  <1>5. CASE QueueRegister
    <2>1. cmds' \in List!PutRegister(cmds, pending)
      <3>1. CASE ~damaged'
        BY <1>2, <1>5, <3>1, RegisterMaps
      <3>2. CASE damaged'
        <4>1. List!Mistaken(cmds)
          BY <1>2, <1>5, <3>2, LossMaps
        <4>2. repeat' = repeat /\ cmds.repeat = repeat
          BY <1>5 DEF QueueRegister, cmds
        <4>3. cmds' = List!Lost(cmds.repeat)
          BY <1>17, <3>2, <4>2
        <4> QED
          BY <4>1, <4>3, Zenon DEF List!PutRegister
      <3> QED
        BY <3>1, <3>2
    <2>2. at = 0 /\ at' = 0 /\ pass' = pass
      BY <1>2, <1>5 DEF Position, QueueRegister
    <2>3. pending \in Payload[List!command_type_register]
      BY <1>5 DEF IInv, Bounded, PendingOK, QueueRegister, command_type_register,
                  List!command_type_register
    <2>4. List!QueueRegister(pending)
      BY <2>1, <2>2 DEF List!QueueRegister, List!Idle, cmds, at
    <2> QED
      BY <2>3, <2>4 DEF List!ListNext
  <1>6. CASE commands_clear
    <2>1. /\ buf' = <<>> /\ hdrs' = {} /\ pc = "idle"
          /\ UNCHANGED <<repeat, pc, cur, pass, pending>>
      BY <1>6 DEF commands_clear
    <2>2. cmds' = [list |-> <<>>, end |-> 0, repeat |-> repeat,
                   intact |-> TRUE]
      BY <1>2, <1>6, <2>1, EmptyMaps DEF Queue, commands_clear
    <2>3. cmds' = List!Empty(cmds.repeat)
      BY <2>2 DEF List!Empty, cmds
    <2>4. at = 0 /\ at' = 0
      BY <1>2, <2>1 DEF Position
    <2>5. List!Clear
      BY <2>1, <2>3, <2>4 DEF List!Clear, List!Idle, cmds, at
    <2> QED
      BY <2>5 DEF List!ListNext
  <1>7. ASSUME NEW n \in Repeats, commands_repeat(n) PROVE List!SetRepeat(n)
    <2>1. /\ repeat' = n /\ pc = "idle"
          /\ UNCHANGED <<buf, pc, cur, pass, pending, hdrs, damaged>>
      BY <1>7 DEF commands_repeat
    <2>2. cmds' = [cmds EXCEPT !.repeat = n]
      <3> DEFINE c == [cmds EXCEPT !.repeat = n]
      <3>1. c = [cmds EXCEPT !.repeat = n]
        OBVIOUS
      <3>2. cmds = [list |-> Decoded(buf, hdrs), end |-> Len(buf),
                    repeat |-> repeat, intact |-> TRUE]
        BY DEF cmds
      <3> HIDE DEF c
      <3>3. c = [list |-> Decoded(buf, hdrs), end |-> Len(buf),
                 repeat |-> n, intact |-> TRUE]
        BY <3>1, <3>2, Zenon
      <3>4. cmds' = [list |-> Decoded(buf, hdrs), end |-> Len(buf),
                     repeat |-> n, intact |-> TRUE]
        BY <2>1 DEF cmds
      <3> QED
        BY <3>3, <3>4 DEF c
    <2>3. at = 0 /\ at' = 0
      BY <1>2, <2>1 DEF Position
    <2> QED
      BY <2>1, <2>2, <2>3 DEF List!SetRepeat, List!Idle, cmds, at
  <1>8. CASE commands_execute
    <2>1. /\ pc = "idle" /\ pc' = "exec" /\ cur' = 1 /\ pass' = 0
          /\ UNCHANGED <<buf, repeat, pending, hdrs, damaged>>
      BY <1>8 DEF commands_execute
    <2>2. at = 0 /\ at' = 1
      BY <1>1, <1>2, <2>1, BeforeEnds DEF Position
    <2>3. cmds' = cmds
      BY <2>1 DEF cmds
    <2>4. List!Start
      BY <2>1, <2>2, <2>3 DEF List!Start, List!Idle, cmds, at
    <2> QED
      BY <2>4 DEF List!ListNext
  <1>9. CASE ExecNext
    <2>1. /\ pc = "exec" /\ cur < End /\ cur' = cur + execute_command(buf[cur])
          /\ UNCHANGED <<buf, repeat, pc, pass, pending, hdrs, damaged>>
      BY <1>9 DEF ExecNext
    <2>2. cur \in hdrs
      BY <1>1, <2>1 DEF IInv, ExecInStep, End
    <2>3. /\ Before(hdrs, cur) + 1 \in 1 .. Cardinality(hdrs)
          /\ Before(hdrs, cur + execute_command(buf[cur]))
               = Before(hdrs, cur) + 1
      BY <1>1, <2>2, BeforeStep
    <2>4. at \in 1 .. Len(cmds.list) /\ at' = at + 1
      <3>1. at = Before(hdrs, cur) + 1
        BY <1>2, <2>1 DEF Position
      <3>2. at' = Before(hdrs, cur + execute_command(buf[cur])) + 1
        BY <1>2, <2>1 DEF Position
      <3> QED
        BY <1>3, <2>3, <3>1, <3>2
    <2>5. cmds' = cmds
      BY <2>1 DEF cmds
    <2>6. List!ExecNext
      BY <2>1, <2>4, <2>5 DEF List!ExecNext, cmds, at
    <2> QED
      BY <2>6 DEF List!ListNext
  <1>10. CASE EndPass
    <2>1. /\ pc = "exec" /\ cur >= End
          /\ IF pass < repeat
             THEN pc' = "exec" /\ cur' = 1 /\ pass' = pass + 1
             ELSE pc' = "idle" /\ cur' = 0 /\ pass' = 0
          /\ UNCHANGED <<buf, repeat, pending, hdrs, damaged>>
      BY <1>10 DEF EndPass
    <2>2. Before(hdrs, 1) = 0 /\ Before(hdrs, cur) = Cardinality(hdrs)
      BY <1>1, <2>1, BeforeEnds DEF End
    <2>3. at = Len(cmds.list) + 1
      BY <1>2, <1>3, <2>1, <2>2 DEF Position
    <2>4. /\ cmds.repeat = repeat
          /\ cmds' = cmds
      BY <2>1 DEF cmds
    <2>5. IF pass < repeat THEN at' = 1 /\ pass' = pass + 1
                           ELSE at' = 0 /\ pass' = 0
      BY <1>2, <2>1, <2>2, SMTT(30) DEF Position
    <2>6. List!EndPass
      BY <2>3, <2>4, <2>5, SMTT(30) DEF List!EndPass, cmds, at
    <2> QED
      BY <2>6 DEF List!ListNext
  <1>11. ASSUME /\ UNCHANGED <<buf, repeat, pass, hdrs, damaged>>
                /\ \/ pc /= "exec" /\ pc' /= "exec"
                   \/ UNCHANGED <<pc, cur>>
         PROVE  UNCHANGED List!listVars
    <2>1. cmds' = cmds
      BY <1>11 DEF cmds
    <2>2. at' = at
      BY <1>11 DEF at
    <2> QED
      BY <1>11, <2>1, <2>2, SMTT(30) DEF List!listVars, cmds, at
  <1>12. ASSUME NEW p \in Payload[command_type_register], FindLast(p)
         PROVE  UNCHANGED List!listVars
    BY <1>11, <1>12 DEF FindLast
  <1>13. CASE FindNext
    BY <1>11, <1>13 DEF FindNext
  <1>14. CASE UNCHANGED vars
    BY <1>11, <1>14 DEF vars
  <1>15. ASSUME NEW t \in Plain, NEW p \in Payload[t], QueuePlain(t, p)
         PROVE  List!ListNext
    BY <1>4, <1>15 DEF List!ListNext
  <1>16. ASSUME NEW n \in Repeats, commands_repeat(n) PROVE List!ListNext
    BY <1>7, <1>16 DEF List!ListNext
  <1> QED
    BY <1>5, <1>6, <1>8, <1>9, <1>10, <1>12, <1>13, <1>14, <1>15, <1>16
       DEF Next

(* Whatever the loops do to a damaged queue, the list allows.              *)
LEMMA LostMaps ==
  ASSUME IInv, [Next]_vars, damaged
  PROVE  [List!ListNext]_(List!listVars)
  <1> DEFINE cmds == IF damaged
                     THEN [list |-> <<>>, end |-> 0, repeat |-> repeat,
                           intact |-> FALSE]
                     ELSE [list |-> Decoded(buf, hdrs), end |-> Len(buf),
                           repeat |-> repeat, intact |-> TRUE]
             before == {h \in hdrs : h < cur}
             at == IF pc = "exec" THEN Cardinality(before) + 1 ELSE 0
  <1>1. Bounded'
    BY BoundedInv DEF IInv
  <1>2. cmds = List!Lost(repeat) /\ (damaged' => cmds' = List!Lost(repeat'))
    BY DEF List!Lost
  <1>3. cmds.repeat = repeat /\ ~cmds.intact
    BY DEF cmds
  <1>4. at' \in Nat /\ pass' \in Nat
    <2>1. hdrs' \in SUBSET Nat /\ cur' \in Nat /\ pass' \in Nat
      BY <1>1 DEF Bounded, TypeOK
    <2> DEFINE b == {h \in hdrs' : h < cur'}
    <2>2. b \subseteq 0 .. cur' /\ IsFiniteSet(0 .. cur')
      <3>1. ASSUME NEW h \in b PROVE h \in 0 .. cur'
        <4>1. h \in Nat /\ h < cur'
          BY <2>1
        <4> QED
          BY <2>1, <4>1
      <3>2. 0 \in Int /\ cur' \in Int
        BY <2>1
      <3>3. IsFiniteSet(0 .. cur')
        BY <3>2, FS_Interval, Zenon
      <3> HIDE DEF b
      <3> QED
        BY <3>1, <3>3, Zenon
    <2>3. IsFiniteSet(b)
      BY <2>2, FS_Subset, Zenon
    <2> HIDE DEF b
    <2>4. Cardinality(b) \in Nat
      BY <2>3, FS_CardinalityType
    <2>5. at' = IF pc' = "exec" THEN Cardinality(b) + 1 ELSE 0
      BY DEF b
    <2> HIDE DEF at
    <2> QED
      BY <2>1, <2>4, <2>5
  <1>5. CASE commands_clear
    <2>1. /\ pc = "idle" /\ buf' = <<>> /\ hdrs' = {} /\ ~damaged'
          /\ UNCHANGED <<repeat, pc, cur, pass, pending>>
      BY <1>5 DEF commands_clear
    <2>2. Decoded(<<>>, {}) = <<>> /\ Len(<<>>) = 0
      BY EmptyMaps, Zenon DEF View
    <2>3. cmds' = List!Empty(repeat)
      BY <2>1, <2>2, Zenon DEF List!Empty
    <2>4. at = 0 /\ at' = 0
      BY <2>1
    <2>5. List!Clear
      BY <1>3, <2>1, <2>3, <2>4 DEF List!Clear, List!Idle
    <2> QED
      BY <2>5 DEF List!ListNext
  <1>6. ASSUME NEW n \in Repeats, commands_repeat(n)
        PROVE  [List!ListNext]_(List!listVars)
    <2>1. /\ repeat' = n /\ pc = "idle"
          /\ UNCHANGED <<buf, pc, cur, pass, pending, hdrs, damaged>>
      BY <1>6 DEF commands_repeat
    <2>2. cmds' = [cmds EXCEPT !.repeat = n]
      <3>1. cmds' = List!Lost(n)
        BY <1>2, <2>1
      <3> HIDE DEF cmds
      <3> DEFINE c == [cmds EXCEPT !.repeat = n]
      <3>2. c = [cmds EXCEPT !.repeat = n]
        OBVIOUS
      <3>3. cmds = [list |-> <<>>, end |-> 0, repeat |-> repeat,
                    intact |-> FALSE]
        BY <1>2 DEF List!Lost
      <3> HIDE DEF c
      <3>4. c = [list |-> <<>>, end |-> 0, repeat |-> n, intact |-> FALSE]
        BY <3>2, <3>3, Zenon
      <3> QED
        BY <3>1, <3>4, SMTT(30) DEF c, List!Lost
    <2>3. at = 0 /\ at' = 0
      BY <2>1
    <2>4. List!SetRepeat(n)
      BY <2>1, <2>2, <2>3 DEF List!SetRepeat, List!Idle
    <2> QED
      BY <2>4 DEF List!ListNext
  <1>7. CASE damaged' /\ repeat' = repeat
    <2>1. cmds' = List!Lost(cmds.repeat)
      BY <1>2, <1>3, <1>7
    <2>2. List!LostStep
      BY <1>3, <1>4, <2>1 DEF List!LostStep
    <2> QED
      BY <2>2, SMTT(30) DEF List!ListNext
  <1>8. CASE QueueRegister
    <2>1. damaged' /\ repeat' = repeat
      BY <1>8, Zenon DEF QueueRegister
    <2> QED
      BY <1>7, <2>1
  <1>9. ASSUME NEW t \in Plain, NEW p \in Payload[t], QueuePlain(t, p)
        PROVE  [List!ListNext]_(List!listVars)
    BY <1>7, <1>9 DEF QueuePlain
  <1>10. ASSUME NEW p \in Payload[command_type_register], FindLast(p)
         PROVE  [List!ListNext]_(List!listVars)
    BY <1>7, <1>10 DEF FindLast
  <1>11. CASE FindNext \/ commands_execute \/ ExecNext \/ EndPass
              \/ UNCHANGED vars
    BY <1>7, <1>11, Zenon DEF FindNext, commands_execute, ExecNext, EndPass, vars
  <1> HIDE DEF cmds, at
  <1> QED
    BY <1>5, <1>6, <1>8, <1>9, <1>10, <1>11 DEF Next

(* The bytes and the loops of commands.c implement the command list: the   *)
(* same commands in the same order, refused and merged in the same cases,  *)
(* executed one by one and as often.  What CommandList allows a search     *)
(* behind a parallel command, to miss a spi_write or to lose the queue, is *)
(* all that can go wrong.                                                  *)
THEOREM BytesImplementList == Spec => RefinesList
  <1>1. Init => IInv /\ FindBefore
    BY InitInv DEF Init, FindBefore
  <1>2. IInv /\ FindBefore /\ [Next]_vars => (IInv /\ FindBefore)'
    BY NextInv, FindBeforeKept
  <1>3. Init => List!ListInit
    <2> SUFFICES ASSUME Init PROVE List!ListInit
      OBVIOUS
    <2>1. View(buf, hdrs, repeat)
            = [list |-> <<>>, end |-> 0, repeat |-> 0, intact |-> TRUE]
      BY EmptyMaps DEF Init
    <2> QED
      BY <2>1 DEF Init, List!ListInit, List!Empty, View
  <1>4. ASSUME IInv, FindBefore, [Next]_vars
        PROVE  [List!ListNext]_(List!listVars)
    <2>1. CASE damaged
      BY <1>4, <2>1, LostMaps
    <2>2. CASE ~damaged
      BY <1>4, <2>2, StepMaps
    <2> QED
      BY <2>1, <2>2
  <1> QED
    BY <1>1, <1>2, <1>3, <1>4, PTL DEF Spec, RefinesList, List!ListSpec

-----------------------------------------------------------------------------
(* No payload a caller gives ends in the value of a spi_write's header.    *)
NoWriteLike ==
  \A t \in Types : \A p \in Payload[t] :
    p /= <<>> => p[Len(p)] /= command_type_spi_write

(* The payloads of the headers h of the bytes s do not end in that value.  *)
Harmless(s, h) ==
  \A g \in h : Sizeof[s[g]] > 0
    => s[g + Sizeof[s[g]]] /= command_type_spi_write

(* command_queue keeps the payloads harmless.                              *)
LEMMA PutHarmless ==
  ASSUME NoWriteLike, NEW s \in Seq(Byte), NEW h, PackedBytes(s, h),
         Harmless(s, h), NEW t \in Types, NEW p \in Payload[t]
  PROVE  Harmless(command_queue(s, h, t, p).buf,
                  command_queue(s, h, t, p).hdrs)
  <1> DEFINE r == s \o <<t>> \o p
  <1>1. p \in Seq(Byte) /\ Len(p) = Sizeof[t] /\ Sizeof[t] \in Nat
    BY BytesAssumption
  <1>2. t \in Byte
    BY DEF Types, Byte
  <1>3. /\ r \in Seq(Byte) /\ Len(r) = Len(s) + 1 + Sizeof[t]
        /\ \A i \in 1 .. Len(s) : r[i] = s[i]
        /\ r[Len(s) + 1] = t
    <2>1. Len(r) = Len(s) + 1 + Len(p)
      BY <1>1, ConcatFacts, Zenon
    <2> QED
      BY <1>1, <2>1, ConcatFacts, Zenon
  <1>5. Sizeof[t] > 0 => r[Len(s) + 1 + Sizeof[t]] = p[Sizeof[t]]
    <2> DEFINE u == s \o <<t>>
    <2>1. u \in Seq(Byte) /\ Len(u) = Len(s) + 1
      BY <1>2
    <2> HIDE DEF u
    <2>2. Sizeof[t] > 0 => (u \o p)[Len(u) + Sizeof[t]] = p[Sizeof[t]]
      BY <1>1, <2>1
    <2> QED
      BY <2>1, <2>2, Zenon DEF u
  <1> HIDE DEF r
  <1>4. Harmless(r, h \cup {Len(s) + 1})
    <2> SUFFICES ASSUME NEW g \in h \cup {Len(s) + 1}, Sizeof[r[g]] > 0
                 PROVE  r[g + Sizeof[r[g]]] /= command_type_spi_write
      BY DEF Harmless
    <2>1. CASE g = Len(s) + 1
      <3>1. p /= <<>>
        BY <1>1, <1>3, <2>1
      <3> QED
        BY <1>1, <1>3, <1>5, <2>1, <3>1 DEF NoWriteLike
    <2>2. CASE g \in h
      <3>1. g \in 1 .. Len(s) /\ s[g] \in Types
            /\ g + execute_command(s[g]) <= Len(s) + 1
        BY <2>2 DEF PackedBytes, Queued
      <3>2. Sizeof[s[g]] \in Nat /\ g + Sizeof[s[g]] \in 1 .. Len(s)
        BY <3>1, BytesAssumption DEF execute_command, Header
      <3> QED
        BY <1>3, <2>2, <3>1, <3>2 DEF Harmless
    <2> QED
      BY <2>1, <2>2
  <1> QED
    BY <1>4 DEF command_queue, r

(* What the search takes for a spi_write is one, in harmless bytes.        *)
LEMMA LastIsHeader ==
  ASSUME NEW s \in Seq(Byte), NEW h \in SUBSET Nat, PackedBytes(s, h),
         Harmless(s, h), Len(s) >= 1, s[Len(s)] = command_type_spi_write
  PROVE  Len(s) \in h
  <1>1. PICK x \in h : x + execute_command(s[x]) = Len(s) + 1
    BY LastHeader
  <1>2. x \in 1 .. Len(s) /\ s[x] \in Types
    BY <1>1 DEF PackedBytes, Queued
  <1>3. Sizeof[s[x]] \in Nat /\ x + Sizeof[s[x]] = Len(s)
    BY <1>1, <1>2, BytesAssumption DEF execute_command, Header
  <1>4. ~(Sizeof[s[x]] > 0)
    BY <1>1, <1>3 DEF Harmless
  <1> QED
    BY <1>1, <1>2, <1>3, <1>4

(* Giving up a spi_write keeps the other payloads as they are.             *)
LEMMA DropHarmless ==
  ASSUME NEW s \in Seq(Byte), NEW h \in SUBSET Nat, PackedBytes(s, h),
         Harmless(s, h), Len(s) \in h
  PROVE  Harmless(SubSeq(s, 1, Len(s) - Header), h \ {Len(s)})
  <1> DEFINE n == SubSeq(s, 1, Len(s) - Header)
  <1>1. Len(s) \in Nat /\ Len(s) >= 1
    BY DEF PackedBytes
  <1>2. \A i \in 1 .. Len(s) - 1 : n[i] = s[i]
    BY <1>1, DropBytes
  <1> HIDE DEF n
  <1> SUFFICES ASSUME NEW g \in h \ {Len(s)}, Sizeof[n[g]] > 0
               PROVE  n[g + Sizeof[n[g]]] /= command_type_spi_write
    BY Zenon DEF Harmless, n
  <1>3. /\ g \in 1 .. Len(s) - 1 /\ s[g] \in Types
        /\ g + execute_command(s[g]) <= Len(s)
    BY <1>1 DEF PackedBytes, Queued
  <1>4. Sizeof[s[g]] \in Nat /\ g + Sizeof[s[g]] \in 1 .. Len(s) - 1
    BY <1>1, <1>3, BytesAssumption DEF execute_command, Header
  <1> QED
    BY <1>2, <1>3, <1>4 DEF Harmless

HarmlessInv == ~damaged /\ Harmless(buf, hdrs)

(* command_queue_register removes a spi_write or nothing.                  *)
LEMMA RegisterHarmless ==
  ASSUME NoWriteLike, IInv, HarmlessInv, QueueRegister
  PROVE  HarmlessInv'
  <1> DEFINE drop == Found /\ buf[cur] = command_type_spi_write
             s0 == IF drop THEN SubSeq(buf, 1, Len(buf) - Header) ELSE buf
             h0 == IF drop THEN hdrs \ {Len(buf)} ELSE hdrs
             q1 == command_queue(s0, h0, command_type_register, pending)
             q2 == command_queue(q1.buf, q1.hdrs, command_type_spi_write, <<>>)
  <1>1. /\ buf' = q2.buf /\ hdrs' = q2.hdrs /\ pc = "find"
        /\ damaged' <=> (damaged \/ (drop /\ Len(buf) \notin hdrs))
    BY ZenonT(60) DEF QueueRegister
  <1>2. /\ buf \in Seq(Byte) /\ hdrs \in SUBSET Nat
        /\ Len(buf) <= COMMAND_QUEUE_LENGTH /\ Len(buf) \in Nat
        /\ pending \in Payload[command_type_register] /\ TypeOK /\ cur >= 1
        /\ PackedBytes(buf, hdrs) /\ Harmless(buf, hdrs) /\ ~damaged
    BY <1>1 DEF IInv, Bounded, TypeOK, Capacity, PendingOK, Packed, HarmlessInv
  <1>3. ASSUME drop
        PROVE  /\ Len(buf) >= 1 /\ cur = Len(buf) /\ Len(buf) \in hdrs
               /\ buf[Len(buf)] = command_type_spi_write
    <2>1. Len(buf) >= 1 /\ cur = Len(buf)
      BY <1>2, <1>3, FoundIsLast
    <2> QED
      BY <1>2, <1>3, <2>1, LastIsHeader
  <1>4. /\ s0 \in Seq(Byte) /\ h0 \in SUBSET Nat
        /\ Len(s0) <= COMMAND_QUEUE_LENGTH
        /\ PackedBytes(s0, h0) /\ Harmless(s0, h0)
    <2>1. CASE drop
      <3>1. s0 \in Seq(Byte) /\ Len(s0) = Len(buf) - 1 /\ PackedBytes(s0, h0)
        BY <1>2, <1>3, <2>1, DropKeepsPacked
      <3>2. Harmless(s0, h0)
        BY <1>2, <1>3, <2>1, DropHarmless
      <3>3. Len(buf) - 1 <= COMMAND_QUEUE_LENGTH
        BY <1>2, BytesAssumption
      <3> QED
        BY <1>2, <3>1, <3>2, <3>3, <2>1, Zenon
    <2>2. CASE ~drop
      BY <1>2, <2>2
    <2> QED
      BY <2>1, <2>2
  <1>5. ~damaged'
    BY <1>1, <1>2, <1>3
  <1> HIDE DEF drop, s0, h0
  <1>6. command_type_register \in Types /\ command_type_spi_write \in Types
        /\ <<>> \in Payload[command_type_spi_write]
    BY BytesAssumption DEF command_type_register, command_type_spi_write, Types
  <1>7. /\ q1.buf \in Seq(Byte) /\ q1.hdrs \in SUBSET Nat
        /\ PackedBytes(q1.buf, q1.hdrs)
    BY <1>2, <1>4, <1>6, QueueKeepsPacked, ZenonT(60)
  <1>8. Harmless(q1.buf, q1.hdrs)
    BY <1>2, <1>4, <1>6, PutHarmless, ZenonT(60)
  <1> HIDE DEF q1
  <1>9. Harmless(q2.buf, q2.hdrs)
    BY <1>6, <1>7, <1>8, PutHarmless, ZenonT(60)
  <1> QED
    BY <1>1, <1>5, <1>9 DEF HarmlessInv

(* When no payload ends in the value of a spi_write's header, the comment  *)
(* of command_queue_register holds also behind parallel commands: what it  *)
(* removes is a spi_write, and the queue stays a sequence of commands.     *)
THEOREM HarmlessPayloads ==
  ASSUME NoWriteLike
  PROVE  Spec => []~damaged
  <1>1. Init => HarmlessInv
    BY DEF Init, HarmlessInv, Harmless
  <1>2. IInv /\ HarmlessInv /\ [Next]_vars => HarmlessInv'
    <2> SUFFICES ASSUME IInv, HarmlessInv, [Next]_vars PROVE HarmlessInv'
      OBVIOUS
    <2>1. ASSUME UNCHANGED <<buf, hdrs, damaged>> PROVE HarmlessInv'
      BY <2>1 DEF HarmlessInv
    <2>2. ASSUME NEW t \in Plain, NEW p \in Payload[t], QueuePlain(t, p)
          PROVE  HarmlessInv'
      <3> DEFINE q == command_queue(buf, hdrs, t, p)
      <3>1. buf' = q.buf /\ hdrs' = q.hdrs /\ damaged' = damaged
        BY <2>2, Zenon DEF QueuePlain
      <3>2. buf \in Seq(Byte) /\ PackedBytes(buf, hdrs) /\ Harmless(buf, hdrs)
            /\ ~damaged
        BY DEF IInv, Bounded, TypeOK, Packed, HarmlessInv
      <3>3. t \in Types
        BY DEF Plain
      <3>4. Harmless(q.buf, q.hdrs)
        BY <3>2, <3>3, PutHarmless, Zenon
      <3> QED
        BY <3>1, <3>2, <3>4 DEF HarmlessInv
    <2>3. CASE QueueRegister
      BY <2>3, RegisterHarmless
    <2>4. CASE commands_clear
      BY <2>4 DEF commands_clear, HarmlessInv, Harmless
    <2>5. CASE \E p \in Payload[command_type_register] : FindLast(p)
      BY <2>1, <2>5 DEF FindLast
    <2>6. CASE \E n \in Repeats : commands_repeat(n)
      BY <2>1, <2>6 DEF commands_repeat
    <2>7. CASE FindNext \/ commands_execute \/ ExecNext \/ EndPass
      BY <2>1, <2>7 DEF FindNext, commands_execute, ExecNext, EndPass
    <2>8. CASE UNCHANGED vars
      BY <2>1, <2>8 DEF vars
    <2> QED
      BY <2>2, <2>3, <2>4, <2>5, <2>6, <2>7, <2>8 DEF Next
  <1>3. HarmlessInv => ~damaged
    BY DEF HarmlessInv
  <1> QED
    BY <1>1, <1>2, <1>3, QueueInvariant, PTL DEF Spec
=============================================================================
