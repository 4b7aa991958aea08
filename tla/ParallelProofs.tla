--------------------------- MODULE ParallelProofs ---------------------------
(***************************************************************************)
(* For every buffer, every width of a size_t and every way the network     *)
(* cuts a block into packets: the buffer holds the block as it was sent,   *)
(* and the samples that a play takes from the block are the block's.       *)
(***************************************************************************)
EXTENDS Parallel, SequenceTheorems, TLAPS

(* Between two packets, the part of the block that was copied is the part  *)
(* the client sent, if nothing shifted it.                                 *)
CopyInv ==
  pc = "copy" =>
    /\ copied < parallel.length
    /\ sent <= parallel.length
    /\ aligned /\ ~foreign =>
         /\ copied = sent
         /\ \A k \in 1 .. copied : parallel.buffer[k] = Byte(k, generation)

(* A queued play command has the length of the block it was queued for.    *)
QueueInv ==
  queued /= NoPlay /\ ~queued.old => queued.length = parallel.length

(* The loop of ad9910_execute_parallel counts up to its bound.             *)
PlayInv ==
  /\ play.i <= Polls
  /\ pc = "play" /\ ~stale => play.len = parallel.length

Inv == TypeOK /\ CopyInv /\ UploadExact /\ QueueInv /\ PlayInv

-----------------------------------------------------------------------------
(* The values of a size_t, and what the code's arithmetic stays in.        *)
LEMMA WordFacts ==
  /\ Word \in Nat \ {0}
  /\ PARALLEL_BUF_SIZE \in Nat /\ PARALLEL_BUF_SIZE < Word
  /\ PARALLEL_BUF_SIZE >= 2
  /\ \A w : w \in Words <=> w \in Nat /\ w < Word
  BY ParallelAssumption DEF Words

(* The bound of the loop is a size_t.                                      *)
LEMMA PollsFacts ==
  ASSUME NEW l \in Words, NEW r \in Words
  PROVE  (l * r) % Word \in Words
  <1>1. l \in Nat /\ r \in Nat /\ Word \in Nat \ {0}
    BY WordFacts
  <1>2. l * r \in Nat
    BY <1>1
  <1>3. \A m \in Nat : m % Word \in 0 .. Word - 1
    BY <1>1
  <1> QED
    BY <1>2, <1>3 DEF Words

(* Two byte sequences in a row.                                            *)
LEMMA JoinFacts ==
  ASSUME NEW s \in Seq(Nat), NEW t \in Seq(Nat)
  PROVE  /\ s \o t \in Seq(Nat)
         /\ Len(s \o t) = Len(s) + Len(t)
         /\ \A k \in 1 .. Len(s) : (s \o t)[k] = s[k]
  BY ConcatProperties

(* The second one starts where the first one ends.                         *)
LEMMA JoinSecond ==
  ASSUME NEW s \in Seq(Nat), NEW t \in Seq(Nat), NEW k \in 1 .. Len(t)
  PROVE  (s \o t)[Len(s) + k] = t[k]
  <1>1. /\ Len(s) + k \in 1 .. Len(s) + Len(t)
        /\ ~(Len(s) + k <= Len(s)) /\ (Len(s) + k) - Len(s) = k
    OBVIOUS
  <1> QED
    BY <1>1, ConcatProperties

(* A packet s with n bytes of a block behind a others, and b behind them.  *)
Carries(s, a, from, n, b, g) ==
  /\ s \in Seq(Nat)
  /\ Len(s) = a + n + b
  /\ \A j \in a + 1 .. a + n : s[j] = Byte(from + (j - a), g)

(* What the network delivers: a block between command texts.               *)
LEMMA PayloadFacts ==
  ASSUME NEW a \in Nat, NEW from \in Nat, NEW n \in Nat, NEW b \in Nat,
         NEW g \in {0, 1}
  PROVE  Carries(Text(a) \o Block(from, n, g) \o Text(b), a, from, n, b, g)
  <1> DEFINE t == Text(a)
             d == Block(from, n, g)
             u == Text(b)
  <1>1. t \in Seq(Nat) /\ Len(t) = a
    BY DEF Text
  <1>2. u \in Seq(Nat) /\ Len(u) = b
    BY DEF Text
  <1>3. \A k \in 1 .. n : Byte(from + k, g) \in Nat
    BY DEF Byte
  <1>4. /\ d \in Seq(Nat) /\ Len(d) = n
        /\ \A k \in 1 .. n : d[k] = Byte(from + k, g)
    BY <1>3 DEF Block
  <1> HIDE DEF t, d, u
  <1>5. /\ t \o d \in Seq(Nat) /\ Len(t \o d) = a + n
        /\ \A k \in 1 .. n : (t \o d)[a + k] = d[k]
    <2>1. t \in Seq(Nat) /\ d \in Seq(Nat) /\ Len(t) = a /\ Len(d) = n
      BY <1>1, <1>4
    <2>2. t \o d \in Seq(Nat) /\ Len(t \o d) = a + n
      BY <2>1, JoinFacts
    <2>3. ASSUME NEW k \in 1 .. n PROVE (t \o d)[a + k] = d[k]
      <3>1. (t \o d)[Len(t) + k] = d[k]
        BY <2>1, JoinSecond, Zenon
      <3> QED
        BY <2>1, <3>1, Zenon
    <2> QED
      BY <2>2, <2>3
  <1> DEFINE v == t \o d
  <1>6. /\ v \in Seq(Nat) /\ Len(v) = a + n
        /\ \A k \in 1 .. n : v[a + k] = d[k]
    BY <1>5
  <1> HIDE DEF v
  <1>7. /\ v \o u \in Seq(Nat) /\ Len(v \o u) = a + n + b
        /\ \A k \in 1 .. a + n : (v \o u)[k] = v[k]
    <2>1. /\ v \in Seq(Nat) /\ Len(v) = a + n /\ a + n \in Nat
          /\ u \in Seq(Nat) /\ Len(u) = b
      BY <1>2, <1>6
    <2> QED
      BY <2>1, JoinFacts, Zenon
  <1> DEFINE s == v \o u
  <1>8. s = Text(a) \o Block(from, n, g) \o Text(b)
    BY DEF v, t, d, u
  <1>9. ASSUME NEW j \in a + 1 .. a + n
        PROVE  s[j] = Byte(from + (j - a), g)
    <2>1. j - a \in 1 .. n /\ a + (j - a) = j /\ j \in 1 .. a + n
      OBVIOUS
    <2>2. v[j] = d[j - a]
      BY <1>6, <2>1, Zenon
    <2> QED
      BY <1>4, <1>7, <2>1, <2>2, Zenon
  <1>10. Carries(s, a, from, n, b, g)
    BY <1>7, <1>9 DEF Carries
  <1> QED
    BY <1>8, <1>10, Zenon

(* The rest of a block, ...                                                *)
LEMMA RestFacts ==
  ASSUME NEW from \in Nat, NEW n \in Nat, NEW b \in Nat, NEW g \in {0, 1}
  PROVE  Carries(Block(from, n, g) \o Text(b), 0, from, n, b, g)
  <1> DEFINE d == Block(from, n, g)
             u == Text(b)
  <1>1. u \in Seq(Nat) /\ Len(u) = b
    BY DEF Text
  <1>2. \A k \in 1 .. n : Byte(from + k, g) \in Nat
    BY DEF Byte
  <1>3. /\ d \in Seq(Nat) /\ Len(d) = n
        /\ \A k \in 1 .. n : d[k] = Byte(from + k, g)
    BY <1>2 DEF Block
  <1> HIDE DEF d, u
  <1>4. /\ d \o u \in Seq(Nat) /\ Len(d \o u) = n + b
        /\ \A k \in 1 .. n : (d \o u)[k] = d[k]
    <2>1. d \in Seq(Nat) /\ u \in Seq(Nat) /\ Len(d) = n /\ Len(u) = b
      BY <1>1, <1>3
    <2> QED
      BY <2>1, JoinFacts, Zenon
  <1>5. Carries(d \o u, 0, from, n, b, g)
    BY <1>3, <1>4 DEF Carries
  <1> QED
    BY <1>5 DEF d, u

(* ... and the text of another connection.                                 *)
LEMMA TextFacts ==
  ASSUME NEW n \in Nat
  PROVE  Text(n) \in Seq(Nat) /\ Len(Text(n)) = n
  BY DEF Text

(* Bytes at + 1 to at + c of a block of n were copied from a packet.       *)
Copied(payload, offset, at, n, c) ==
  /\ parallel' \in [buffer : [Positions -> Nat],
                    length : 0 .. PARALLEL_BUF_SIZE, repeats : Words]
  /\ parallel'.length = n
  /\ \A k \in Positions :
       parallel'.buffer[k] = IF k - at \in 1 .. c
                             THEN payload[offset + k - at]
                             ELSE parallel.buffer[k]
  /\ c \in 0 .. n - at
  /\ \/ at + c < n /\ pc' = "copy" /\ copied' = at + c
     \/ at + c = n /\ pc' = "loop" /\ copied' = 0

(* One round of ethernet_copy_data.                                        *)
LEMMA ReceivedFacts ==
  ASSUME TypeOK, NEW payload \in Seq(Nat), NEW offset \in 0 .. Len(payload),
         NEW n \in 0 .. PARALLEL_BUF_SIZE, NEW at \in 0 .. n,
         Received(payload, offset, at, n),
         NEW c, c = AtMost(Len(payload) - offset, n - at)
  PROVE  Copied(payload, offset, at, n, c)
  <1>1. /\ Len(payload) \in Nat /\ offset \in Nat /\ n \in Nat /\ at \in Nat
        /\ offset <= Len(payload) /\ at <= n /\ n <= PARALLEL_BUF_SIZE
        /\ PARALLEL_BUF_SIZE \in Nat
    BY WordFacts
  <1>2. c \in 0 .. n - at /\ c <= Len(payload) - offset
    BY <1>1 DEF AtMost
  <1>3. parallel \in [buffer : [Positions -> Nat],
                      length : 0 .. PARALLEL_BUF_SIZE, repeats : Words]
    BY DEF TypeOK
  <1> DEFINE new == [k \in Positions |-> IF k - at \in 1 .. c
                                         THEN payload[offset + k - at]
                                         ELSE parallel.buffer[k]]
  <1>4. new \in [Positions -> Nat]
    <2> SUFFICES ASSUME NEW k \in Positions
                 PROVE  (IF k - at \in 1 .. c THEN payload[offset + k - at]
                                              ELSE parallel.buffer[k]) \in Nat
      OBVIOUS
    <2>1. CASE k - at \in 1 .. c
      <3>1. offset + k - at \in 1 .. Len(payload)
        BY <1>1, <1>2, <2>1 DEF Positions
      <3> QED
        BY <2>1, <3>1
    <2>2. CASE k - at \notin 1 .. c
      BY <1>3, <2>2
    <2> QED
      BY <2>1, <2>2
  <1>5. /\ parallel' = [parallel EXCEPT !.length = n, !.buffer = new]
        /\ copied' = IF at + c < n THEN at + c ELSE 0
        /\ pc' = IF at + c < n THEN "copy" ELSE "loop"
    BY DEF Received
  <1>6. \A k \in Positions :
          new[k] = IF k - at \in 1 .. c THEN payload[offset + k - at]
                                        ELSE parallel.buffer[k]
    OBVIOUS
  <1> HIDE DEF new
  <1>7. /\ parallel' \in [buffer : [Positions -> Nat],
                          length : 0 .. PARALLEL_BUF_SIZE, repeats : Words]
        /\ parallel'.length = n /\ parallel'.buffer = new
    BY <1>3, <1>4, <1>5, Zenon
  <1>8. \/ at + c < n /\ pc' = "copy" /\ copied' = at + c
        \/ at + c = n /\ pc' = "loop" /\ copied' = 0
    <2>1. c \in Int /\ at \in Int /\ n \in Int /\ at + c <= n
      BY <1>1, <1>2
    <2>2. at + c < n \/ at + c = n
      BY <2>1
    <2> QED
      BY <1>5, <2>1, <2>2
  <1> QED
    BY <1>2, <1>6, <1>7, <1>8 DEF Copied

-----------------------------------------------------------------------------
(* What an upload does not touch.                                          *)
LEMMA PlayKept ==
  ASSUME PlayInv, UNCHANGED <<play, stale>>, pc' /= "play"
  PROVE  PlayInv'
  BY DEF PlayInv, Polls

(* The state after ad9910_init and scpi_init.                              *)
LEMMA InitInv == Init => Inv
  <1> SUFFICES ASSUME Init PROVE Inv
    OBVIOUS
  <1>1. /\ play \in [len : Words, rep : Words, i : Words, missed : BOOLEAN]
        /\ play.len = 0 /\ play.rep = 0 /\ play.i = 0
    BY WordFacts DEF Init, Call
  <1>2. /\ parallel \in [buffer : [Positions -> Nat],
                         length : 0 .. PARALLEL_BUF_SIZE, repeats : Words]
        /\ parallel.length = 0
    BY WordFacts DEF Init
  <1>3. TypeOK
    <2>1. {copied, sent} \subseteq 0 .. PARALLEL_BUF_SIZE
      BY WordFacts DEF Init
    <2> QED
      BY <1>1, <1>2, <2>1, Zenon DEF Init, TypeOK
  <1>4. Polls \in Nat
    BY <1>1, PollsFacts, WordFacts DEF Polls
  <1>5. PlayInv
    BY <1>1, <1>4 DEF Init, PlayInv
  <1>6. UploadExact
    BY <1>2 DEF UploadExact
  <1> QED
    BY <1>3, <1>5, <1>6 DEF Init, Inv, CopyInv, QueueInv

(* The first packet of a block.                                            *)
LEMMA ParallelDataKeeps ==
  ASSUME Inv, NEW n \in Lengths, NEW e \in Earlier,
         NEW first \in 0 .. n,
         NEW tail \in IF first = n THEN {0, 1} ELSE {0}, NEW p \in Taken(e),
         NEW b \in 0 .. tail,
         ParallelData(n, first, e, p, tail, b)
  PROVE  Inv'
  <1> DEFINE payload == Text(e + Header) \o Block(0, first, generation')
                        \o Text(tail)
             o == DataOffset(p, b)
             c == AtMost(Len(payload) - o, n - 0)
  <1>1. /\ pc = "loop"
        /\ generation' = 1 - generation
        /\ aligned' = (e = 0 /\ b = 0)
        /\ foreign' = FALSE
        /\ Received(payload, o, 0, n)
        /\ sent' = IF pc' = "copy" THEN first ELSE 0
        /\ queued' = IF queued = NoPlay THEN NoPlay
                     ELSE [queued EXCEPT !.old = TRUE]
        /\ UNCHANGED <<play, stale>>
    BY DEF ParallelData
  <1>2. /\ n \in Nat /\ first \in Nat /\ tail \in Nat /\ e \in Nat
        /\ Header \in Nat /\ e + Header \in Nat /\ first <= n
        /\ n <= PARALLEL_BUF_SIZE /\ PARALLEL_BUF_SIZE \in Nat
        /\ first < n => tail = 0
        /\ p \in Nat /\ p <= e /\ b \in Nat /\ b <= tail
        /\ n \in 0 .. PARALLEL_BUF_SIZE
    BY ParallelAssumption, WordFacts DEF ParallelData, Taken
  <1>3. generation' \in {0, 1}
    BY <1>1 DEF Inv, TypeOK
  <1>4. /\ payload \in Seq(Nat)
        /\ Len(payload) = (e + Header) + first + tail
        /\ \A j \in (e + Header) + 1 .. (e + Header) + first :
             payload[j] = Byte(0 + (j - (e + Header)), generation')
    <2>1. Carries(payload, e + Header, 0, first, tail, generation')
      BY <1>2, <1>3, PayloadFacts
    <2> HIDE DEF payload
    <2> QED
      BY <2>1 DEF Carries
  <1> HIDE DEF payload
  <1>5. /\ o \in 0 .. Len(payload) /\ 0 \in 0 .. n
        /\ e = 0 /\ b = 0 => o = Header
    BY <1>2, <1>4 DEF DataOffset
  <1>6. c = AtMost(Len(payload) - o, n - 0)
    OBVIOUS
  <1> HIDE DEF c, o
  <1>7. /\ parallel' \in [buffer : [Positions -> Nat],
                          length : 0 .. PARALLEL_BUF_SIZE, repeats : Words]
        /\ parallel'.length = n
        /\ \A k \in Positions :
             parallel'.buffer[k] = IF k - 0 \in 1 .. c
                                   THEN payload[o + k - 0]
                                   ELSE parallel.buffer[k]
        /\ c \in 0 .. n - 0
        /\ \/ 0 + c < n /\ pc' = "copy" /\ copied' = 0 + c
           \/ 0 + c = n /\ pc' = "loop" /\ copied' = 0
    <2>1. TypeOK /\ Received(payload, o, 0, n) /\ payload \in Seq(Nat)
      BY <1>1, <1>4 DEF Inv
    <2>2. Copied(payload, o, 0, n, c)
      BY <1>2, <1>5, <1>6, <2>1, ReceivedFacts
    <2> QED
      BY <1>2, <2>2 DEF Copied
  <1>8. /\ c \in Nat /\ c <= n
        /\ \/ c < n /\ pc' = "copy" /\ copied' = c
           \/ c = n /\ pc' = "loop" /\ copied' = 0
    BY <1>2, <1>7
  <1>9. aligned' => e = 0 /\ b = 0 /\ c = first
    <2>1. aligned' => e = 0 /\ b = 0
      BY <1>1, Zenon
    <2>2. e = 0 /\ b = 0 => c = first
      BY <1>2, <1>4, <1>5, <1>6 DEF AtMost
    <2> QED
      BY <2>1, <2>2, Zenon
  <1>10. aligned' => \A k \in 1 .. c :
                       parallel'.buffer[k] = Byte(k, generation')
    <2> SUFFICES ASSUME aligned', NEW k \in 1 .. c
                 PROVE  parallel'.buffer[k] = Byte(k, generation')
      OBVIOUS
    <2> DEFINE j == o + k - 0
    <2>1. k \in Positions /\ k - 0 \in 1 .. c
      BY <1>2, <1>8 DEF Positions
    <2>2. parallel'.buffer[k] = payload[j]
      BY <1>7, <2>1
    <2>3. /\ j \in (e + Header) + 1 .. (e + Header) + first
          /\ 0 + (j - (e + Header)) = k
      BY <1>2, <1>5, <1>8, <1>9
    <2> HIDE DEF j
    <2> QED
      BY <1>4, <2>2, <2>3
  <1>11. TypeOK'
    <2>1. {copied', sent'} \subseteq 0 .. PARALLEL_BUF_SIZE
      BY <1>1, <1>2, <1>8
    <2>2. queued' \in {NoPlay} \cup
            [length : 0 .. PARALLEL_BUF_SIZE, repeats : Words, old : BOOLEAN]
      BY <1>1, Zenon DEF Inv, TypeOK
    <2>3. aligned' \in BOOLEAN /\ foreign' \in BOOLEAN /\ stale' \in BOOLEAN
      BY <1>1, Zenon DEF Inv, TypeOK
    <2> QED
      BY <1>1, <1>3, <1>7, <1>8, <2>1, <2>2, <2>3 DEF Inv, TypeOK
  <1>12. CopyInv'
    BY <1>1, <1>2, <1>7, <1>8, <1>9, <1>10, Zenon DEF CopyInv
  <1>13. UploadExact'
    BY <1>1, <1>7, <1>8, <1>10, Zenon DEF UploadExact
  <1>14. QueueInv'
    BY <1>1 DEF QueueInv, Inv, TypeOK
  <1>15. PlayInv'
    BY <1>1, <1>8, PlayKept DEF Inv
  <1> QED
    BY <1>11, <1>12, <1>13, <1>14, <1>15 DEF Inv

(* A later packet of a block, or of another connection.                    *)
LEMMA CopyPacketKeeps ==
  ASSUME Inv, NEW m \in Positions,
         NEW tail \in IF sent + m = parallel.length THEN {0, 1} ELSE {0},
         CopyPacket(m, tail)
  PROVE  Inv'
  <1> DEFINE payload == IF foreign THEN Text(m + tail)
                        ELSE Block(sent, m, generation) \o Text(tail)
             n == parallel.length
             at == copied
             c == AtMost(Len(payload) - 0, n - at)
  <1>1. /\ pc = "copy"
        /\ ~foreign => sent + m <= n
        /\ Received(payload, 0, at, n)
        /\ sent' = IF pc' = "loop" THEN 0 ELSE IF foreign THEN sent
                                               ELSE sent + m
        /\ UNCHANGED <<queued, generation, aligned, foreign, play, stale>>
    BY DEF CopyPacket
  <1>2. /\ m \in Nat /\ m >= 1 /\ tail \in {0, 1} /\ m + tail \in Nat
        /\ sent \in Nat /\ sent <= n /\ at \in Nat /\ at < n /\ n \in Nat
        /\ n \in 0 .. PARALLEL_BUF_SIZE /\ at \in 0 .. n
        /\ sent + m < n => tail = 0
    <2>1. /\ n \in 0 .. PARALLEL_BUF_SIZE /\ sent \in 0 .. PARALLEL_BUF_SIZE
          /\ at \in 0 .. PARALLEL_BUF_SIZE
      BY DEF Inv, TypeOK
    <2>2. at < n /\ sent <= n
      BY <1>1 DEF Inv, CopyInv
    <2>3. m \in 1 .. PARALLEL_BUF_SIZE /\ tail \in {0, 1}
      BY DEF Positions
    <2>4. sent + m < n => tail = 0
      BY <2>1, <2>3, WordFacts
    <2> HIDE DEF n, at
    <2> QED
      BY <2>1, <2>2, <2>3, <2>4, WordFacts
  <1>3. generation \in {0, 1}
    BY DEF Inv, TypeOK
  <1>4. /\ payload \in Seq(Nat)
        /\ Len(payload) = m + tail
        /\ ~foreign => \A j \in 1 .. m :
                         payload[j] = Byte(sent + j, generation)
    <2>1. CASE foreign
      BY <1>2, <2>1, TextFacts, Zenon
    <2>2. CASE ~foreign
      <3>1. Carries(payload, 0, sent, m, tail, generation)
        BY <1>2, <1>3, <2>2, RestFacts
      <3> HIDE DEF payload
      <3> QED
        BY <1>2, <3>1 DEF Carries
    <2> QED
      BY <2>1, <2>2, Zenon
  <1> HIDE DEF payload
  <1>5. 0 \in 0 .. Len(payload)
    BY <1>2, <1>4
  <1>6. c = AtMost(Len(payload) - 0, n - at)
    OBVIOUS
  <1> HIDE DEF c, n, at
  <1>7. /\ parallel' \in [buffer : [Positions -> Nat],
                          length : 0 .. PARALLEL_BUF_SIZE, repeats : Words]
        /\ parallel'.length = n
        /\ \A k \in Positions :
             parallel'.buffer[k] = IF k - at \in 1 .. c
                                   THEN payload[0 + k - at]
                                   ELSE parallel.buffer[k]
        /\ c \in 0 .. n - at
        /\ \/ at + c < n /\ pc' = "copy" /\ copied' = at + c
           \/ at + c = n /\ pc' = "loop" /\ copied' = 0
    <2>1. TypeOK /\ Received(payload, 0, at, n) /\ payload \in Seq(Nat)
      BY <1>1, <1>4 DEF Inv
    <2>2. Copied(payload, 0, at, n, c)
      BY <1>2, <1>5, <1>6, <2>1, ReceivedFacts
    <2> QED
      BY <1>2, <2>2 DEF Copied
  <1>8. c \in Nat /\ c <= n - at
    BY <1>2, <1>7
  <1>9. aligned /\ ~foreign => c = m /\ at = sent
    BY <1>1, <1>2, <1>4, <1>6 DEF AtMost, at, n, Inv, CopyInv
  <1>10. aligned /\ ~foreign => \A k \in 1 .. at + c :
                                  parallel'.buffer[k] = Byte(k, generation)
    <2> SUFFICES ASSUME aligned, ~foreign, NEW k \in 1 .. at + c
                 PROVE  parallel'.buffer[k] = Byte(k, generation)
      OBVIOUS
    <2>1. k \in Positions /\ k \in Nat
      BY <1>2, <1>8, WordFacts DEF Positions
    <2>2. CASE k <= at
      <3>1. ~(k - at \in 1 .. c)
        BY <1>2, <1>8, <2>1, <2>2
      <3>2. parallel.buffer[k] = Byte(k, generation)
        BY <1>1, <1>2, <2>1, <2>2 DEF Inv, CopyInv, at
      <3> QED
        BY <1>7, <2>1, <3>1, <3>2
    <2>3. CASE k > at
      <3>1. k - at \in 1 .. c /\ k - at \in 1 .. m
        BY <1>2, <1>8, <1>9, <2>1, <2>3
      <3>2. /\ 0 + k - at = k - at /\ sent + (k - at) = k
        BY <1>2, <1>9, <2>1
      <3>3. parallel'.buffer[k] = payload[k - at]
        BY <1>7, <2>1, <3>1, <3>2
      <3> QED
        BY <1>4, <3>1, <3>2, <3>3
    <2> QED
      BY <1>2, <2>1, <2>2, <2>3
  <1>11. TypeOK'
    <2>1. copied' \in 0 .. PARALLEL_BUF_SIZE
      BY <1>2, <1>7, <1>8, WordFacts
    <2>2. sent' \in 0 .. PARALLEL_BUF_SIZE
      BY <1>1, <1>2, WordFacts
    <2> QED
      BY <1>1, <1>7, <2>1, <2>2 DEF Inv, TypeOK
  <1>12. CopyInv'
    BY <1>1, <1>2, <1>7, <1>8, <1>9, <1>10 DEF CopyInv
  <1>13. UploadExact'
    BY <1>1, <1>7, <1>10 DEF UploadExact
  <1>14. QueueInv'
    BY <1>1, <1>7 DEF QueueInv, Inv, n
  <1>15. PlayInv'
    BY <1>1, <1>7, PlayKept DEF Inv
  <1> QED
    BY <1>11, <1>12, <1>13, <1>14, <1>15 DEF Inv

(* A call of ad9910_execute_parallel.                                      *)
LEMMA PlayKeeps ==
  ASSUME Inv, NEW l \in 0 .. PARALLEL_BUF_SIZE, NEW r \in Words, Play(l, r),
         stale' \in BOOLEAN, ~stale' => l = parallel.length
  PROVE  Inv'
  <1>1. l \in Words /\ 0 \in Words
    BY WordFacts
  <1>2. /\ pc = "loop" /\ pc' = "play"
        /\ UNCHANGED <<parallel, queued, copied, sent, generation, aligned,
                       foreign>>
    BY DEF Play, uploadVars
  <1>3. /\ play' \in [len : Words, rep : Words, i : Words, missed : BOOLEAN]
        /\ play'.len = l /\ play'.rep = r /\ play'.i = 0
    BY <1>1 DEF Play, Call
  <1>4. Polls' \in Nat
    BY <1>1, <1>3, PollsFacts, WordFacts DEF Polls
  <1>5. TypeOK'
    BY <1>2, <1>3 DEF Inv, TypeOK
  <1>6. CopyInv' /\ UploadExact' /\ QueueInv'
    BY <1>2 DEF Inv, CopyInv, UploadExact, QueueInv
  <1>7. PlayInv'
    BY <1>2, <1>3, <1>4 DEF PlayInv
  <1> QED
    BY <1>5, <1>6, <1>7 DEF Inv

(* PARallel:STATe in normal mode, and the play command of a program.       *)
LEMMA ParallelStateKeeps ==
  ASSUME Inv, ParallelState
  PROVE  Inv'
  <1>1. /\ parallel.length \in 0 .. PARALLEL_BUF_SIZE
        /\ parallel.repeats \in Words
    BY DEF Inv, TypeOK
  <1> QED
    BY <1>1, PlayKeeps, Zenon DEF ParallelState

LEMMA ExecuteKeeps ==
  ASSUME Inv, Execute
  PROVE  Inv'
  <1>1. /\ queued.length \in 0 .. PARALLEL_BUF_SIZE
        /\ queued.repeats \in Words /\ queued.old \in BOOLEAN
    BY DEF Inv, TypeOK, Execute
  <1>2. ~queued.old => queued.length = parallel.length
    BY DEF Inv, QueueInv, Execute
  <1> QED
    BY <1>1, <1>2, PlayKeeps DEF Execute

(* One round of the loop of ad9910_execute_parallel.                       *)
LEMMA PollKeeps ==
  ASSUME Inv, Poll
  PROVE  Inv'
  <1>1. /\ pc = "play" /\ play.i < Polls
        /\ UNCHANGED <<pc, parallel, queued, copied, sent, generation,
                       aligned, foreign, stale>>
        /\ \/ play' = [play EXCEPT !.i = @ + 1]
           \/ play' = [play EXCEPT !.i = @ + 1, !.missed = TRUE]
    BY DEF Poll, uploadVars
  <1>2. play \in [len : Words, rep : Words, i : Words, missed : BOOLEAN]
    BY DEF Inv, TypeOK
  <1>3. Polls \in Words
    BY <1>2, PollsFacts DEF Polls
  <1>4. play.i + 1 \in Words /\ play.i + 1 <= Polls
    BY <1>1, <1>2, <1>3, WordFacts
  <1>5. /\ play' \in [len : Words, rep : Words, i : Words, missed : BOOLEAN]
        /\ play'.len = play.len /\ play'.rep = play.rep
        /\ play'.i = play.i + 1
    BY <1>1, <1>2, <1>4, Zenon
  <1>6. Polls' = Polls
    BY <1>5 DEF Polls
  <1>7. TypeOK'
    BY <1>1, <1>5 DEF Inv, TypeOK
  <1>8. CopyInv' /\ UploadExact' /\ QueueInv'
    BY <1>1 DEF Inv, CopyInv, UploadExact, QueueInv
  <1>9. PlayInv'
    BY <1>1, <1>4, <1>5, <1>6 DEF Inv, PlayInv
  <1> QED
    BY <1>7, <1>8, <1>9 DEF Inv

(* ad9910_execute_parallel returns.                                        *)
LEMMA PlayReturnsKeeps ==
  ASSUME Inv, PlayReturns
  PROVE  Inv'
  <1>1. /\ pc = "play" /\ pc' = "loop" /\ stale' = FALSE
        /\ UNCHANGED <<parallel, queued, copied, sent, generation, aligned,
                       foreign>>
    BY DEF PlayReturns, uploadVars
  <1>2. /\ play' \in [len : Words, rep : Words, i : Words, missed : BOOLEAN]
        /\ play'.len = 0 /\ play'.rep = 0 /\ play'.i = 0
    BY WordFacts DEF PlayReturns, Call
  <1>3. Polls' \in Nat
    BY <1>2, PollsFacts, WordFacts DEF Polls
  <1>4. TypeOK'
    BY <1>1, <1>2, Zenon DEF Inv, TypeOK
  <1>5. CopyInv' /\ UploadExact' /\ QueueInv'
    BY <1>1 DEF Inv, CopyInv, UploadExact, QueueInv
  <1>6. PlayInv'
    BY <1>1, <1>2, <1>3 DEF PlayInv
  <1> QED
    BY <1>4, <1>5, <1>6 DEF Inv

(* The end of the connection: the next packets are another one's.          *)
LEMMA DisconnectKeeps ==
  ASSUME Inv, Disconnect
  PROVE  Inv'
  <1>1. TypeOK'
    BY DEF Inv, TypeOK, Disconnect
  <1>2. CopyInv' /\ UploadExact' /\ QueueInv'
    BY DEF Inv, CopyInv, UploadExact, QueueInv, Disconnect
  <1>3. PlayInv'
    BY PlayKept DEF Inv, Disconnect
  <1> QED
    BY <1>1, <1>2, <1>3 DEF Inv

(* PARallel:NCYCles.                                                       *)
LEMMA ParallelNcyclesKeeps ==
  ASSUME Inv, NEW n \in Ncycles, ParallelNcycles(n)
  PROVE  Inv'
  <1>1. n \in Words
    BY ParallelAssumption DEF Words
  <1>2. /\ pc = "loop" /\ pc' = "loop"
        /\ parallel' = [parallel EXCEPT !.repeats = n]
        /\ UNCHANGED <<queued, copied, sent, generation, aligned, foreign,
                       play, stale>>
    BY DEF ParallelNcycles, uploadVars
  <1>3. /\ parallel' \in [buffer : [Positions -> Nat],
                          length : 0 .. PARALLEL_BUF_SIZE, repeats : Words]
        /\ parallel'.length = parallel.length
        /\ parallel'.buffer = parallel.buffer
    BY <1>1, <1>2 DEF Inv, TypeOK
  <1>4. TypeOK'
    BY <1>2, <1>3 DEF Inv, TypeOK
  <1>5. CopyInv' /\ UploadExact' /\ QueueInv'
    BY <1>2, <1>3 DEF Inv, CopyInv, UploadExact, QueueInv
  <1>6. PlayInv'
    BY <1>2, PlayKept DEF Inv
  <1> QED
    BY <1>4, <1>5, <1>6 DEF Inv

(* PARallel:STATe in program mode.                                         *)
LEMMA ParallelQueueKeeps ==
  ASSUME Inv, ParallelQueue
  PROVE  Inv'
  <1>1. /\ pc = "loop" /\ pc' = "loop"
        /\ UNCHANGED <<parallel, copied, sent, generation, aligned, foreign,
                       play, stale>>
    BY DEF ParallelQueue, uploadVars
  <1>2. /\ queued' \in [length : 0 .. PARALLEL_BUF_SIZE, repeats : Words,
                        old : BOOLEAN]
        /\ queued'.length = parallel.length
    BY DEF Inv, TypeOK, ParallelQueue, QueuedPlay
  <1>3. TypeOK'
    BY <1>1, <1>2 DEF Inv, TypeOK
  <1>4. CopyInv' /\ UploadExact' /\ QueueInv'
    BY <1>1, <1>2 DEF Inv, CopyInv, UploadExact, QueueInv
  <1>5. PlayInv'
    BY <1>1, PlayKept DEF Inv
  <1> QED
    BY <1>3, <1>4, <1>5 DEF Inv

(* Every command, every packet and every round keeps the invariant.        *)
LEMMA NextInv == Inv /\ [Next]_vars => Inv'
  <1> SUFFICES ASSUME Inv, [Next]_vars PROVE Inv'
    OBVIOUS
  <1>1. ASSUME NEW n \in Lengths, NEW e \in Earlier,
               NEW first \in 0 .. n,
               NEW tail \in IF first = n THEN {0, 1} ELSE {0},
               NEW p \in Taken(e), NEW b \in 0 .. tail,
               ParallelData(n, first, e, p, tail, b)
        PROVE  Inv'
    BY <1>1, ParallelDataKeeps, Zenon
  <1>2. ASSUME NEW m \in Positions,
               NEW tail \in IF sent + m = parallel.length THEN {0, 1}
                            ELSE {0},
               CopyPacket(m, tail)
        PROVE  Inv'
    BY <1>2, CopyPacketKeeps, Zenon
  <1>3. CASE Disconnect
    BY <1>3, DisconnectKeeps
  <1>4. ASSUME NEW n \in Ncycles, ParallelNcycles(n) PROVE Inv'
    BY <1>4, ParallelNcyclesKeeps
  <1>5. CASE ParallelState
    BY <1>5, ParallelStateKeeps
  <1>6. CASE ParallelQueue
    BY <1>6, ParallelQueueKeeps
  <1>7. CASE Execute
    BY <1>7, ExecuteKeeps
  <1>8. CASE Poll
    BY <1>8, PollKeeps
  <1>9. CASE PlayReturns
    BY <1>9, PlayReturnsKeeps
  <1>10. CASE UNCHANGED vars
    <2>1. UNCHANGED <<pc, parallel, copied, sent, queued, play, generation,
                      aligned, foreign, stale>>
      BY <1>10 DEF vars, uploadVars
    <2>2. TypeOK'
      BY <2>1 DEF Inv, TypeOK
    <2>3. CopyInv' /\ UploadExact' /\ QueueInv'
      BY <2>1 DEF Inv, CopyInv, UploadExact, QueueInv
    <2>4. PlayInv'
      BY <2>1 DEF Inv, PlayInv, Polls
    <2> QED
      BY <2>2, <2>3, <2>4 DEF Inv
  <1> QED
    BY <1>1, <1>2, <1>3, <1>4, <1>5, <1>6, <1>7, <1>8, <1>9, <1>10, Zenon
       DEF Next

-----------------------------------------------------------------------------
(* Every packet and every command leaves buffer, lengths and counters in   *)
(* their types: no copy of ethernet_copy_data ends behind the buffer, and  *)
(* i does not wrap on its way to len * rep.                                *)
THEOREM ParallelTypes == Spec => []TypeOK
  <1>1. Inv => TypeOK
    BY DEF Inv
  <1> QED
    BY <1>1, InitInv, NextInv, PTL DEF Spec

(* The buffer holds the block as the client sent it, however the network   *)
(* cut it into packets (ethernet_copy_data), if nothing was in front of    *)
(* the command in its packet, no blank behind the block, and the           *)
(* connection lasted.                                                      *)
THEOREM UploadIsExact == Spec => []UploadExact
  <1>1. Inv => UploadExact
    BY DEF Inv
  <1> QED
    BY <1>1, InitInv, NextInv, PTL DEF Spec

(* A play goes through as many samples as its block has bytes, and those   *)
(* that are in the block are the ones the client sent, in their order, if  *)
(* the block arrived exactly and none was uploaded between the play        *)
(* command of a program and its execution (ad9910_execute_parallel).       *)
THEOREM PlayCoversOneBlock == Spec => []PlaysOneBlock
  <1>1. Inv => PlaysOneBlock
    <2> SUFFICES ASSUME Inv, pc = "play", ~stale
                 PROVE  /\ play.len = parallel.length
                        /\ aligned /\ ~foreign =>
                             \A i \in 0 .. play.len - 1 :
                               2 * i + 2 <= parallel.length =>
                                 Sample(i) = <<Byte(2 * i + 1, generation),
                                               Byte(2 * i + 2, generation)>>
      BY DEF PlaysOneBlock
    <2>1. play.len = parallel.length /\ parallel.length \in Nat
      BY WordFacts DEF Inv, PlayInv, TypeOK
    <2>2. ASSUME aligned, ~foreign, NEW i \in 0 .. play.len - 1,
                 2 * i + 2 <= parallel.length
          PROVE  Sample(i) = <<Byte(2 * i + 1, generation),
                               Byte(2 * i + 2, generation)>>
      <3>1. {2 * i + 1, 2 * i + 2} \subseteq 1 .. parallel.length
        BY <2>1, <2>2
      <3>2. \A k \in 1 .. parallel.length :
              parallel.buffer[k] = Byte(k, generation)
        BY <2>2 DEF Inv, UploadExact
      <3> QED
        BY <3>1, <3>2 DEF Sample
    <2> QED
      BY <2>1, <2>2
  <1> QED
    BY <1>1, InitInv, NextInv, PTL DEF Spec
=============================================================================
