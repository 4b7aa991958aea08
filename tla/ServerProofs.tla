---------------------------- MODULE ServerProofs ----------------------------
(***************************************************************************)
(* For every number of clients, pbufs and connections and every length of  *)
(* the window: no pbuf is used after it was freed, the pool loses pbufs    *)
(* only in the two places PoolComplete names, and replies go to the client *)
(* that sent the command.                                                  *)
(***************************************************************************)
EXTENDS Server, TLAPS, SequenceTheorems

(* No pbuf of a chain is in the pool, and none is in it twice.             *)
Chain(p, r) ==
  /\ \A i \in 1 .. Len(p) : r[p[i].buf] > 0
  /\ \A i, j \in 1 .. Len(p) : p[i].buf = p[j].buf => i = j

(* The pbufs of the chain are the ones in use, and each is used once.      *)
Exact(p, r) ==
  \A b \in Buffers :
    r[b] = IF \E i \in 1 .. Len(p) : p[i].buf = b THEN 1 ELSE 0

(* The pbufs of p were free, and r are the counts with p in use.           *)
Fresh(p, r) ==
  /\ \A i \in 1 .. Len(p) : ref[p[i].buf] = 0 /\ r[p[i].buf] = 1
  /\ \A i, j \in 1 .. Len(p) : p[i].buf = p[j].buf => i = j
  /\ \A b \in Buffers :
       (\A i \in 1 .. Len(p) : p[i].buf /= b) => r[b] = ref[b]

BufInv ==
  /\ Chain(pin, ref)
  /\ ~leaked => Exact(pin, ref)
  /\ pc = "packet" => pin /= <<>>
  /\ es_state = "ACCEPTED" => pin = <<>>

ConnInv ==
  /\ ReplyToOpen
  /\ accept <=> es_pcb = NoClient
  /\ es_state = "NONE" <=> es_pcb = NoClient
  /\ ~overlapped =>
       \A c \in Clients : State(c) = "ESTABLISHED" => c = es_pcb
  /\ ReplyToSender

Inv == TypeOK /\ BufInv /\ ConnInv

(* A chain is empty exactly when it has no pbuf.                           *)
LEMMA ChainFacts ==
  ASSUME NEW p \in Seq(Pbufs)
  PROVE  /\ Len(p) \in Nat
         /\ p = <<>> <=> Len(p) = 0
         /\ DOMAIN p = 1 .. Len(p)
         /\ \A i \in 1 .. Len(p) : p[i] \in Pbufs /\ p[i].buf \in Buffers
  <1>1. Len(p) \in Nat /\ (p = <<>> <=> Len(p) = 0) /\ DOMAIN p = 1 .. Len(p)
    BY EmptySeq, LenProperties
  <1>2. \A i \in 1 .. Len(p) : p[i] \in Pbufs
    BY ElementOfSeq
  <1>3. \A q \in Pbufs : q.buf \in Buffers
    BY DEF Pbufs
  <1> QED
    BY <1>1, <1>2, <1>3

(* What ethernet_clear_packet does to the chain and the counts: only the   *)
(* head loses its reference.                                               *)
LEMMA ClearFacts ==
  ASSUME pin \in Seq(Pbufs), ref \in [Buffers -> Nat], pin /= <<>>,
         Chain(pin, ref), ethernet_clear_packet
  PROVE  /\ pin' \in Seq(Pbufs) /\ Len(pin') = Len(pin) - 1
         /\ \A i \in 1 .. Len(pin') : pin'[i] = pin[i + 1]
         /\ ref' \in [Buffers -> Nat]
         /\ \A b \in Buffers :
              b = pin[1].buf => ref'[b] = ref[b] - 1
         /\ \A b \in Buffers :
              b /= pin[1].buf /\ (Len(pin) = 1 \/ b /= pin[2].buf)
                => ref'[b] = ref[b]
         /\ \A b \in Buffers :
              Len(pin) > 1 /\ b = pin[2].buf
                => ref'[b] = IF ref[pin[1].buf] = 1 THEN ref[b] ELSE ref[b] + 1
  <1>1. /\ Len(pin) \in Nat /\ Len(pin) >= 1
        /\ \A i \in 1 .. Len(pin) : pin[i] \in Pbufs /\ pin[i].buf \in Buffers
    BY ChainFacts
  <1>0. Len(pin) \in Nat /\ (Len(pin) = 1 \/ Len(pin) > 1)
    <2> DEFINE n == Len(pin)
    <2>1. n \in Nat /\ n >= 1
      BY <1>1
    <2> HIDE DEF n
    <2>2. n = 1 \/ n > 1
      BY <2>1
    <2> QED
      BY <2>1, <2>2 DEF n
  <1>2. /\ pin' = Tail(pin) /\ Tail(pin) \in Seq(Pbufs)
        /\ Len(Tail(pin)) = Len(pin) - 1
        /\ \A i \in 1 .. Len(Tail(pin)) : Tail(pin)[i] = pin[i + 1]
    BY <1>1, HeadTailProperties DEF ethernet_clear_packet
  <1>3. Tail(pin) = <<>> <=> Len(pin) = 1
    <2>1. Tail(pin) = <<>> <=> Len(Tail(pin)) = 0
      BY <1>2, ChainFacts, Zenon
    <2> QED
      BY <1>0, <1>2, <2>1
  <1> DEFINE r1 == IF Len(pin) = 1 THEN ref ELSE pbuf_ref(ref, pin[2])
  <1>4. ref' = pbuf_free(r1, pin)
    BY <1>3 DEF ethernet_clear_packet
  <1>5. /\ r1 \in [Buffers -> Nat]
        /\ \A b \in Buffers : r1[b] =
             IF Len(pin) > 1 /\ b = pin[2].buf THEN ref[b] + 1 ELSE ref[b]
    <2>1. CASE Len(pin) = 1
      BY <2>1
    <2>2. CASE Len(pin) > 1
      <3> DEFINE x == pin[2].buf
      <3>1. x \in Buffers
        BY <1>1, <2>2
      <3>2. r1 = [ref EXCEPT ![x] = @ + 1]
        BY <2>2 DEF pbuf_ref
      <3> HIDE DEF x, r1
      <3>3. /\ r1 \in [Buffers -> Nat]
            /\ \A b \in Buffers : r1[b] = IF b = x THEN ref[b] + 1 ELSE ref[b]
        BY <3>1, <3>2
      <3> QED
        BY <2>2, <3>3 DEF x
    <2> QED
      BY <1>0, <2>1, <2>2
  <1> HIDE DEF r1
  <1>6. \A i \in 1 .. Len(pin) : ref[pin[i].buf] > 0
    BY DEF Chain
  <1>7. \A i, j \in 1 .. Len(pin) : pin[i].buf = pin[j].buf => i = j
    BY DEF Chain
  <1> DEFINE Dec(b) ==
        \E i \in 1 .. Len(pin) :
          pin[i].buf = b /\ \A j \in 1 .. i - 1 : r1[pin[j].buf] = 1
  <1>8. \A b \in Buffers : ref'[b] = IF Dec(b) THEN r1[b] - 1 ELSE r1[b]
    BY <1>4 DEF pbuf_free
  <1>9. Dec(pin[1].buf)
    BY <1>1
  <1>10. Len(pin) > 1 => (Dec(pin[2].buf) <=> ref[pin[1].buf] = 1)
    <2> SUFFICES ASSUME Len(pin) > 1
                 PROVE  Dec(pin[2].buf) <=> ref[pin[1].buf] = 1
      OBVIOUS
    <2>1. pin[1].buf /= pin[2].buf
      BY <1>1, <1>7
    <2>2. r1[pin[1].buf] = ref[pin[1].buf]
      BY <1>1, <1>5, <2>1
    <2>3. ASSUME Dec(pin[2].buf) PROVE ref[pin[1].buf] = 1
      <3>1. PICK i \in 1 .. Len(pin) :
              pin[i].buf = pin[2].buf /\ \A j \in 1 .. i - 1 :
                                           r1[pin[j].buf] = 1
        BY <2>3
      <3>2. i = 2
        BY <1>1, <1>7, <3>1
      <3> QED
        BY <2>2, <3>1, <3>2
    <2>4. ASSUME ref[pin[1].buf] = 1 PROVE Dec(pin[2].buf)
      BY <1>1, <2>2, <2>4
    <2> QED
      BY <2>3, <2>4
  <1>11. ASSUME NEW b \in Buffers, b /= pin[1].buf,
                Len(pin) = 1 \/ b /= pin[2].buf
         PROVE  ~Dec(b)
    <2> SUFFICES ASSUME NEW i \in 1 .. Len(pin), pin[i].buf = b,
                        \A j \in 1 .. i - 1 : r1[pin[j].buf] = 1
                 PROVE  FALSE
      OBVIOUS
    <2>1. i > 2 /\ Len(pin) > 1
      BY <1>1, <1>11
    <2>2. r1[pin[2].buf] = 1
      BY <2>1
    <2>3. r1[pin[2].buf] = ref[pin[2].buf] + 1
      BY <1>1, <1>5, <2>1
    <2>4. ref[pin[2].buf] > 0 /\ ref[pin[2].buf] \in Nat
      BY <1>1, <1>6, <2>1
    <2> QED
      BY <2>2, <2>3, <2>4
  <1> HIDE DEF Dec
  <1>12. \A b \in Buffers : b = pin[1].buf => ref'[b] = ref[b] - 1
    <2>1. Len(pin) > 1 => pin[1].buf /= pin[2].buf
      BY <1>1, <1>7
    <2> QED
      BY <1>5, <1>8, <1>9, <2>1
  <1>13. \A b \in Buffers :
           b /= pin[1].buf /\ (Len(pin) = 1 \/ b /= pin[2].buf)
             => ref'[b] = ref[b]
    BY <1>1, <1>5, <1>8, <1>11
  <1>14. \A b \in Buffers :
           Len(pin) > 1 /\ b = pin[2].buf
             => ref'[b] = IF ref[pin[1].buf] = 1 THEN ref[b] ELSE ref[b] + 1
    BY <1>1, <1>5, <1>8, <1>10
  <1>15. ref' \in [Buffers -> Nat]
    <2>1. \A b \in Buffers : ref'[b] \in Nat
      <3> TAKE b \in Buffers
      <3>1. CASE b = pin[1].buf
        BY <1>1, <1>6, <1>12, <3>1
      <3>2. CASE b /= pin[1].buf /\ Len(pin) > 1 /\ b = pin[2].buf
        BY <1>14, <3>2
      <3>3. CASE b /= pin[1].buf /\ (Len(pin) = 1 \/ b /= pin[2].buf)
        BY <1>13, <3>3
      <3> QED
        BY <1>0, <3>1, <3>2, <3>3
    <2> QED
      BY <1>4, <2>1 DEF pbuf_free
  <1> QED
    BY <1>2, <1>12, <1>13, <1>14, <1>15, Zenon

(* After ethernet_clear_packet the rest of the chain is a chain, and the   *)
(* counts are exact if they were.                                          *)
LEMMA ClearKeepsChain ==
  ASSUME pin \in Seq(Pbufs), ref \in [Buffers -> Nat], pin /= <<>>,
         Chain(pin, ref), ethernet_clear_packet
  PROVE  /\ pin' \in Seq(Pbufs)
         /\ ref' \in [Buffers -> Nat]
         /\ Chain(pin', ref')
         /\ Exact(pin, ref) => Exact(pin', ref')
         /\ \A i \in 1 .. Len(pin') : \E j \in 1 .. Len(pin) : pin'[i] = pin[j]
  <1> DEFINE n == Len(pin)
             q(i) == pin[i].buf
  <1>1. /\ n \in Nat /\ n >= 1
        /\ \A i \in 1 .. n : q(i) \in Buffers /\ ref[q(i)] > 0
        /\ \A i, j \in 1 .. n : q(i) = q(j) => i = j
    <2>1. \A i \in 1 .. n : q(i) \in Buffers
      BY ChainFacts
    <2> QED
      BY <2>1, ChainFacts DEF Chain
  <1>2. /\ pin' \in Seq(Pbufs) /\ Len(pin') = n - 1
        /\ \A i \in 1 .. n - 1 : pin'[i] = pin[i + 1]
        /\ ref' \in [Buffers -> Nat]
    BY ClearFacts
  <1>3. \A b \in Buffers : b = q(1) => ref'[b] = ref[b] - 1
    BY ClearFacts
  <1>4. \A b \in Buffers :
          b /= q(1) /\ (n = 1 \/ b /= q(2)) => ref'[b] = ref[b]
    BY ClearFacts
  <1>5. \A b \in Buffers :
          n > 1 /\ b = q(2)
            => ref'[b] = IF ref[q(1)] = 1 THEN ref[b] ELSE ref[b] + 1
    BY ClearFacts
  <1>6. \A i \in 1 .. n - 1 : pin'[i].buf = q(i + 1)
    BY <1>2
  <1>7. (Exact(pin, ref) <=>
           \A b \in Buffers :
             ref[b] = IF \E i \in 1 .. n : q(i) = b THEN 1 ELSE 0)
        /\ (Exact(pin', ref') <=>
              \A b \in Buffers :
                ref'[b] = IF \E i \in 1 .. n - 1 : pin'[i].buf = b
                          THEN 1 ELSE 0)
        /\ (Chain(pin', ref') <=>
              /\ \A i \in 1 .. n - 1 : ref'[pin'[i].buf] > 0
              /\ \A i, j \in 1 .. n - 1 :
                   pin'[i].buf = pin'[j].buf => i = j)
    BY <1>2 DEF Exact, Chain
  <1>8. \A i \in 1 .. n - 1 : \E j \in 1 .. n : pin'[i] = pin[j]
    <2> TAKE i \in 1 .. n - 1
    <2> WITNESS i + 1 \in 1 .. n
    <2> QED
      BY <1>2
  <1> HIDE DEF n, q
  <1>9. \A i \in 1 .. n - 1 : ref'[q(i + 1)] > 0
    <2> TAKE i \in 1 .. n - 1
    <2>1. /\ i + 1 \in 1 .. n /\ 1 \in 1 .. n /\ q(i + 1) \in Buffers
          /\ ref[q(i + 1)] > 0 /\ q(i + 1) /= q(1)
      BY <1>1
    <2>2. ref[q(i + 1)] \in Nat
      BY <2>1
    <2>3. n > 1
      BY <1>1
    <2>4. CASE q(i + 1) = q(2)
      BY <1>5, <2>1, <2>2, <2>3, <2>4
    <2>5. CASE q(i + 1) /= q(2)
      BY <1>4, <2>1, <2>2, <2>5
    <2> QED
      BY <2>4, <2>5
  <1>10. Chain(pin', ref')
    <2>1. \A i, j \in 1 .. n - 1 : q(i + 1) = q(j + 1) => i = j
      BY <1>1
    <2> QED
      BY <1>6, <1>7, <1>9, <2>1
  <1>11. ASSUME Exact(pin, ref) PROVE Exact(pin', ref')
    <2>1. \A b \in Buffers :
            ref[b] = IF \E i \in 1 .. n : q(i) = b THEN 1 ELSE 0
      BY <1>7, <1>11
    <2> SUFFICES ASSUME NEW b \in Buffers
                 PROVE  ref'[b] = IF \E i \in 1 .. n - 1 : q(i + 1) = b
                                  THEN 1 ELSE 0
      BY <1>6, <1>7
    <2>2. 1 \in 1 .. n /\ q(1) \in Buffers /\ ref[q(1)] = 1
      BY <1>1, <2>1
    <2>3. CASE b = q(1)
      <3>1. ref'[b] = 0
        BY <1>3, <2>2, <2>3
      <3>2. ~\E i \in 1 .. n - 1 : q(i + 1) = b
        BY <1>1, <2>2, <2>3
      <3> QED
        BY <3>1, <3>2
    <2>4. CASE b /= q(1)
      <3>1. ref'[b] = ref[b]
        BY <1>1, <1>4, <1>5, <2>2, <2>4
      <3>2. (\E i \in 1 .. n - 1 : q(i + 1) = b)
              <=> (\E i \in 1 .. n : q(i) = b)
        <4>1. ASSUME NEW i \in 1 .. n, q(i) = b
              PROVE  \E j \in 1 .. n - 1 : q(j + 1) = b
          <5>1. i - 1 \in 1 .. n - 1 /\ (i - 1) + 1 = i
            BY <1>1, <2>4, <4>1
          <5> QED
            BY <4>1, <5>1
        <4>2. ASSUME NEW i \in 1 .. n - 1, q(i + 1) = b
              PROVE  \E j \in 1 .. n : q(j) = b
          BY <1>1, <4>2
        <4> QED
          BY <4>1, <4>2
      <3> QED
        BY <2>1, <3>1, <3>2
    <2> QED
      BY <2>3, <2>4
  <1> QED
    BY <1>2, <1>8, <1>10, <1>11 DEF n

(* Data in fresh pbufs p keeps es.pin a chain, whether the callback stores *)
(* p, links it behind es.pin or frees it.                                  *)
LEMMA RecvKeepsChain ==
  ASSUME pin \in Seq(Pbufs), ref \in [Buffers -> Nat], BufInv,
         NEW p \in Seq(Pbufs), p /= <<>>, NEW ref1 \in [Buffers -> Nat],
         Fresh(p, ref1), server_recv_callback(p, ref1)
  PROVE  /\ pin' \in Seq(Pbufs)
         /\ ref' \in [Buffers -> Nat]
         /\ Chain(pin', ref')
         /\ ~leaked' => Exact(pin', ref')
         /\ \A i \in 1 .. Len(pin') :
              \/ \E j \in 1 .. Len(pin) : pin'[i] = pin[j]
              \/ \E j \in 1 .. Len(p) : pin'[i] = p[j]
  <1>0. /\ \A i \in 1 .. Len(p) : ref[p[i].buf] = 0 /\ ref1[p[i].buf] = 1
        /\ \A i, j \in 1 .. Len(p) : p[i].buf = p[j].buf => i = j
        /\ \A b \in Buffers :
             (\A i \in 1 .. Len(p) : p[i].buf /= b) => ref1[b] = ref[b]
    BY DEF Fresh
  <1>1. /\ Chain(pin, ref)
        /\ ~leaked => Exact(pin, ref)
        /\ es_state = "ACCEPTED" => pin = <<>>
    BY DEF BufInv
  <1>2. /\ Len(p) \in Nat /\ Len(p) >= 1 /\ Len(pin) \in Nat
        /\ \A i \in 1 .. Len(p) : p[i].buf \in Buffers
        /\ \A i \in 1 .. Len(pin) : pin[i].buf \in Buffers
    BY ChainFacts
  <1>3. \A i \in 1 .. Len(pin), j \in 1 .. Len(p) : pin[i].buf /= p[j].buf
    BY <1>0, <1>1, <1>2 DEF Chain
  <1>4. Chain(p, ref1)
    BY <1>0 DEF Chain
  <1>5. Exact(<<>>, ref) => Exact(p, ref1)
    BY <1>0 DEF Exact
  <1>6. ASSUME pin = <<>>, pin' = p, ref' = ref1, leaked' = leaked
        PROVE  /\ Chain(pin', ref')
               /\ ~leaked' => Exact(pin', ref')
    BY <1>1, <1>4, <1>5, <1>6
  <1>7. CASE es_state = "ACCEPTED"
    <2>1. pin' = p /\ ref' = ref1 /\ leaked' = leaked /\ pin = <<>>
      BY <1>1, <1>7 DEF server_recv_callback
    <2> QED
      BY <1>6, <2>1
  <1>8. CASE es_state = "RECEIVING" /\ pin = <<>>
    <2>1. pin' = <<>> \o p /\ ref' = ref1 /\ (leaked' <=> leaked)
      BY <1>8, Zenon DEF server_recv_callback
    <2>2. pin' = p
      BY <2>1, ConcatEmptySeq
    <2>3. Chain(pin', ref') /\ (~leaked' => Exact(pin', ref'))
      BY <1>1, <1>4, <1>5, <1>8, <2>1, <2>2
    <2> QED
      BY <2>1, <2>2, <2>3
  <1>9. CASE es_state = "RECEIVING" /\ pin /= <<>>
    <2>1. pin' = pin \o p /\ ref' = pbuf_ref(ref1, p[1]) /\ leaked'
      BY <1>9, Zenon DEF server_recv_callback
    <2> DEFINE m == Len(pin)
               k == Len(p)
    <2>2. /\ pin' \in Seq(Pbufs) /\ Len(pin') = m + k
          /\ \A i \in 1 .. m + k :
               pin'[i] = IF i <= m THEN pin[i] ELSE p[i - m]
      BY <2>1, ConcatProperties
    <2>3. ref' \in [Buffers -> Nat] /\ \A b \in Buffers : ref'[b] >= ref1[b]
      <3> DEFINE x == p[1].buf
      <3>1. x \in Buffers /\ ref' = [ref1 EXCEPT ![x] = @ + 1]
        BY <1>2, <2>1 DEF pbuf_ref
      <3> HIDE DEF x
      <3> QED
        BY <3>1
    <2>4. /\ m \in Nat /\ k \in Nat
          /\ \A i \in 1 .. m : pin[i].buf \in Buffers /\ ref'[pin[i].buf] > 0
          /\ \A i \in 1 .. k : p[i].buf \in Buffers /\ ref'[p[i].buf] > 0
      <3>1. \A i \in 1 .. m : ref1[pin[i].buf] = ref[pin[i].buf]
        BY <1>0, <1>2, <1>3, Zenon
      <3>2. \A i \in 1 .. m : ref1[pin[i].buf] > 0
        BY <1>1, <3>1 DEF Chain
      <3>3. \A b \in Buffers : ref'[b] \in Nat /\ ref1[b] \in Nat
        BY <2>3
      <3> QED
        BY <1>0, <1>2, <2>3, <3>2, <3>3
    <2>5. \A i, j \in 1 .. m : pin[i].buf = pin[j].buf => i = j
      BY <1>1 DEF Chain
    <2>6. \A i \in 1 .. m + k :
            ~(i <= m) => i - m \in 1 .. k /\ pin'[i] = p[i - m]
      <3>1. \A i \in 1 .. m + k : ~(i <= m) => i - m \in 1 .. k
        BY <2>4
      <3> QED
        BY <2>2, <3>1
    <2>7. \A i \in 1 .. m + k : i <= m => i \in 1 .. m /\ pin'[i] = pin[i]
      <3>1. \A i \in 1 .. m + k : i <= m => i \in 1 .. m
        BY <2>4
      <3> QED
        BY <2>2, <3>1
    <2> HIDE DEF m, k
    <2>8. \A i \in 1 .. m + k : ref'[pin'[i].buf] > 0
      <3> TAKE i \in 1 .. m + k
      <3>1. CASE i <= m
        BY <2>4, <2>7, <3>1
      <3>2. CASE ~(i <= m)
        <4>1. i - m \in 1 .. k /\ pin'[i] = p[i - m]
          BY <2>6, <3>2
        <4> QED
          BY <2>4, <4>1
      <3> QED
        BY <3>1, <3>2
    <2>9. \A i, j \in 1 .. m + k : pin'[i].buf = pin'[j].buf => i = j
      <3> SUFFICES ASSUME NEW i \in 1 .. m + k, NEW j \in 1 .. m + k,
                          pin'[i].buf = pin'[j].buf
                   PROVE  i = j
        OBVIOUS
      <3>1. CASE i <= m /\ j <= m
        BY <2>5, <2>7, <3>1
      <3>2. CASE i <= m /\ ~(j <= m)
        <4>1. i \in 1 .. m /\ j - m \in 1 .. k /\ pin[i].buf = p[j - m].buf
          BY <2>6, <2>7, <3>2
        <4> QED
          BY <1>3, <4>1 DEF m, k
      <3>3. CASE ~(i <= m) /\ j <= m
        <4>1. j \in 1 .. m /\ i - m \in 1 .. k /\ pin[j].buf = p[i - m].buf
          BY <2>6, <2>7, <3>3
        <4> QED
          BY <1>3, <4>1 DEF m, k
      <3>4. CASE ~(i <= m) /\ ~(j <= m)
        <4>1. /\ i - m \in 1 .. k /\ j - m \in 1 .. k
              /\ p[i - m].buf = p[j - m].buf
          BY <2>6, <3>4
        <4>2. i - m = j - m
          BY <1>0, <4>1 DEF k
        <4> QED
          BY <2>4, <4>2
      <3> QED
        BY <3>1, <3>2, <3>3, <3>4
    <2>10. Chain(pin', ref')
      BY <2>2, <2>8, <2>9 DEF Chain
    <2>11. \A i \in 1 .. Len(pin') :
             \/ \E j \in 1 .. m : pin'[i] = pin[j]
             \/ \E j \in 1 .. k : pin'[i] = p[j]
      <3>1. \A i \in 1 .. m + k :
              \/ \E j \in 1 .. m : pin'[i] = pin[j]
              \/ \E j \in 1 .. k : pin'[i] = p[j]
        BY <2>6, <2>7, Zenon
      <3> QED
        BY <2>2, <3>1, Zenon
    <2> QED
      BY <2>1, <2>2, <2>3, <2>10, <2>11, Zenon DEF m, k
  <1>10. CASE es_state = "NONE"
    <2>1. pin' = pin /\ ref' = pbuf_free(ref1, p) /\ leaked' = leaked
      BY <1>10 DEF server_recv_callback
    <2>2. \A b \in Buffers : ref'[b] = ref[b]
      <3> TAKE b \in Buffers
      <3>1. ref'[b] = IF \E i \in 1 .. Len(p) :
                           p[i].buf = b /\ \A j \in 1 .. i - 1 :
                                             ref1[p[j].buf] = 1
                      THEN ref1[b] - 1 ELSE ref1[b]
        BY <2>1 DEF pbuf_free
      <3>2. CASE \E i \in 1 .. Len(p) : p[i].buf = b
        <4>1. PICK i \in 1 .. Len(p) : p[i].buf = b
          BY <3>2
        <4>2. \A j \in 1 .. i - 1 : ref1[p[j].buf] = 1
          BY <1>0, <1>2
        <4> QED
          BY <1>0, <3>1, <4>1, <4>2
      <3>3. CASE \A i \in 1 .. Len(p) : p[i].buf /= b
        BY <1>0, <3>1, <3>3
      <3> QED
        BY <3>2, <3>3
    <2>3. ref' \in [Buffers -> Nat]
      BY <2>1, <2>2 DEF pbuf_free
    <2>4. Chain(pin', ref')
      BY <1>1, <1>2, <2>1, <2>2, Zenon DEF Chain
    <2>5. ~leaked' => Exact(pin', ref')
      BY <1>1, <2>1, <2>2 DEF Exact
    <2> QED
      BY <2>1, <2>3, <2>4, <2>5
  <1> QED
    BY <1>7, <1>8, <1>9, <1>10, Zenon DEF server_recv_callback

Payload(c, kinds, t) ==
  [i \in 1 .. Len(kinds) |-> [buf |-> t[i], kind |-> kinds[i], from |-> c]]
Counts(kinds, t) ==
  [b \in Buffers |-> IF \E i \in 1 .. Len(kinds) : t[i] = b THEN 1 ELSE ref[b]]

(* What Data hands to server_recv_callback are fresh pbufs from client c.  *)
LEMMA PayloadFacts ==
  ASSUME ref \in [Buffers -> Nat], NEW c \in Clients, NEW kinds \in Segments,
         NEW t \in pbuf_alloc(ref, Len(kinds)),
         NEW p, p = Payload(c, kinds, t), NEW r, r = Counts(kinds, t)
  PROVE  /\ p \in Seq(Pbufs) /\ p /= <<>>
         /\ r \in [Buffers -> Nat]
         /\ Fresh(p, r)
         /\ \A i \in 1 .. Len(p) : p[i].from = c
         /\ Len(kinds) \in Nat \ {0}
  <1>1. PICK k \in 1 .. MaxSegment : kinds \in [1 .. k -> Kinds]
    BY DEF Segments
  <1>2. k \in Nat \ {0}
    BY <1>1, ServerAssumption
  <1>3. kinds \in Seq(Kinds) /\ Len(kinds) = k
    BY <1>1, <1>2
  <1>4. /\ t \in [1 .. k -> Free(ref)]
        /\ \A i, j \in 1 .. k : i < j => t[i] < t[j]
    BY <1>3 DEF pbuf_alloc
  <1>5. \A i \in 1 .. k : t[i] \in Buffers /\ ref[t[i]] = 0 /\ t[i] \in Int
    BY <1>4 DEF Free, Buffers
  <1>6. p = [i \in 1 .. k |-> [buf |-> t[i], kind |-> kinds[i], from |-> c]]
    BY <1>3 DEF Payload
  <1>7. \A i \in 1 .. k : p[i] \in Pbufs /\ p[i].buf = t[i] /\ p[i].from = c
    BY <1>1, <1>5, <1>6 DEF Pbufs
  <1>8. p \in Seq(Pbufs) /\ Len(p) = k
    BY <1>2, <1>6, <1>7
  <1>9. p /= <<>>
    BY <1>2, <1>8, ChainFacts
  <1>10. \A i, j \in 1 .. k : t[i] = t[j] => i = j
    <2> SUFFICES ASSUME NEW i \in 1 .. k, NEW j \in 1 .. k, t[i] = t[j]
                 PROVE  i = j
      OBVIOUS
    <2>1. ~(t[i] < t[j]) /\ ~(t[j] < t[i])
      BY <1>5
    <2>2. ~(i < j) /\ ~(j < i)
      BY <1>4, <2>1
    <2> QED
      BY <2>2
  <1>11. r = [b \in Buffers |->
                IF \E i \in 1 .. k : t[i] = b THEN 1 ELSE ref[b]]
    BY <1>3 DEF Counts
  <1>12. \A i \in 1 .. k : ref[p[i].buf] = 0 /\ r[p[i].buf] = 1
    BY <1>5, <1>7, <1>11
  <1>13. \A i, j \in 1 .. k : p[i].buf = p[j].buf => i = j
    BY <1>7, <1>10
  <1>14. r \in [Buffers -> Nat]
    BY <1>11
  <1>15. \A b \in Buffers : (\A i \in 1 .. k : p[i].buf /= b) => r[b] = ref[b]
    BY <1>7, <1>11
  <1>16. Fresh(p, r)
    BY <1>8, <1>12, <1>13, <1>15 DEF Fresh
  <1> QED
    BY <1>2, <1>3, <1>7, <1>8, <1>9, <1>14, <1>16

(* Data keeps the chain, and adds to it only pbufs of its own client.      *)
LEMMA DataKeepsChain ==
  ASSUME TypeOK, BufInv, NEW c \in Clients, NEW kinds \in Segments,
         Data(c, kinds)
  PROVE  /\ pin' \in Seq(Pbufs)
         /\ ref' \in [Buffers -> Nat]
         /\ BufInv'
         /\ \A i \in 1 .. Len(pin') :
              \/ \E j \in 1 .. Len(pin) : pin'[i] = pin[j]
              \/ pin'[i].from = c
         /\ es_state' \in {"NONE", "ACCEPTED", "RECEIVING"}
         /\ es_state' = "NONE" <=> es_state = "NONE"
         /\ leaked' \in BOOLEAN
         /\ Len(kinds) \in Nat \ {0}
  <1>1. PICK t \in pbuf_alloc(ref, Len(kinds)) :
          server_recv_callback(Payload(c, kinds, t), Counts(kinds, t))
    BY Zenon DEF Data, Payload, Counts
  <1>2. PICK p, r : p = Payload(c, kinds, t) /\ r = Counts(kinds, t)
    OBVIOUS
  <1>3. ref \in [Buffers -> Nat] /\ pin \in Seq(Pbufs) /\ leaked \in BOOLEAN
    BY DEF TypeOK
  <1>4. server_recv_callback(p, r)
    BY <1>1, <1>2
  <1>5. /\ p \in Seq(Pbufs) /\ p /= <<>>
        /\ r \in [Buffers -> Nat]
        /\ Fresh(p, r)
    BY <1>2, <1>3, PayloadFacts
  <1>6. (\A i \in 1 .. Len(p) : p[i].from = c) /\ Len(kinds) \in Nat \ {0}
    BY <1>2, <1>3, PayloadFacts
  <1>7. /\ pin' \in Seq(Pbufs)
        /\ ref' \in [Buffers -> Nat]
        /\ Chain(pin', ref')
        /\ ~leaked' => Exact(pin', ref')
        /\ \A i \in 1 .. Len(pin') :
             \/ \E j \in 1 .. Len(pin) : pin'[i] = pin[j]
             \/ \E j \in 1 .. Len(p) : pin'[i] = p[j]
    BY <1>3, <1>4, <1>5, RecvKeepsChain, Zenon
  <1>8. pc' = "packet" => pin' /= <<>>
    BY DEF Data, LeaveIfPacket
  <1>9. /\ es_state' \in {"NONE", "RECEIVING"}
        /\ es_state' = "NONE" <=> es_state = "NONE"
        /\ leaked' \in BOOLEAN
    BY <1>3, <1>4, Zenon DEF server_recv_callback
  <1>10. BufInv'
    BY <1>7, <1>8, <1>9 DEF BufInv
  <1>11. \A i \in 1 .. Len(pin') :
           \/ \E j \in 1 .. Len(pin) : pin'[i] = pin[j]
           \/ pin'[i].from = c
    BY <1>6, <1>7
  <1> QED
    BY <1>6, <1>7, <1>9, <1>10, <1>11

(* pcb keeps its type when connections get new values, and older does.     *)
LEMMA PcbTypes ==
  ASSUME TypeOK, NEW c \in Clients
  PROVE  /\ Pcb("SYN_RCVD", TCP_WND, accept) \in Pcbs
         /\ Pcb("ESTABLISHED", TCP_WND, TRUE) \in Pcbs
         /\ Pcb("LAST_ACK", TCP_WND, TRUE) \in Pcbs
         /\ NoPcb \in Pcbs
         /\ pcb \in [Clients -> Pcbs]
         /\ Touch(c) \in SUBSET (Clients \X Clients)
         /\ \A o \in SUBSET (Clients \X Clients), d \in Clients :
              Without(o, d) \in SUBSET (Clients \X Clients)
  <1>1. TCP_WND \in Nat
    BY ServerAssumption
  <1>2. accept \in BOOLEAN /\ pcb \in [Clients -> Pcbs]
    BY DEF TypeOK
  <1>3. \A o \in SUBSET (Clients \X Clients), d \in Clients :
          Without(o, d) \in SUBSET (Clients \X Clients)
    BY DEF Without
  <1>4. older \in SUBSET (Clients \X Clients)
    BY DEF TypeOK
  <1>5. Touch(c) \in SUBSET (Clients \X Clients)
    BY <1>3, <1>4 DEF Touch, Open
  <1>6. Pcb("SYN_RCVD", TCP_WND, accept) \in Pcbs
    BY <1>1, <1>2 DEF Pcb, Pcbs
  <1>7. /\ Pcb("ESTABLISHED", TCP_WND, TRUE) \in Pcbs
        /\ Pcb("LAST_ACK", TCP_WND, TRUE) \in Pcbs
        /\ NoPcb \in Pcbs
    BY <1>1 DEF Pcb, Pcbs, NoPcb
  <1> QED
    BY <1>2, <1>3, <1>5, <1>6, <1>7, Zenon

(* The state a value of pcb[c] stands for.                                 *)
LEMMA PcbStates ==
  /\ \A w, a : Pcb("SYN_RCVD", w, a).state = "SYN_RCVD"
  /\ \A w, a : Pcb("ESTABLISHED", w, a).state = "ESTABLISHED"
  /\ \A w, a : Pcb("LAST_ACK", w, a).state = "LAST_ACK"
  /\ NoPcb.state = "CLOSED"
  BY DEF Pcb, NoPcb

(* A step that leaves the pbufs and the waiting chain alone keeps what is  *)
(* known of them.                                                          *)
LEMMA BufKept ==
  ASSUME BufInv, UNCHANGED <<ref, pin, leaked>>,
         es_state' = "ACCEPTED" => es_state = "ACCEPTED",
         pc' = "packet" => pin' /= <<>>
  PROVE  BufInv'
  <1>1. Chain(pin, ref)' /\ (~leaked => Exact(pin, ref))'
    BY DEF BufInv, Chain, Exact
  <1> QED
    BY <1>1 DEF BufInv

(* A SYN, which may abort the connection that was inactive longest.        *)
LEMMA SynKeeps ==
  ASSUME Inv, NEW c \in Clients, Syn(c)
  PROVE  Inv'
  <1>1. /\ UNCHANGED <<ref, es_pcb, es_state, accept, pin, need,
                       command_execute_flag, asker, overlapped, leaked>>
        /\ State(c) = "CLOSED" /\ LeaveIfPacket
    BY DEF Syn, esVars, loopVars
  <1>2. pcb \in [Clients -> Pcbs] /\ failed \in BOOLEAN
    BY DEF Inv, TypeOK
  <1> DEFINE new == [pcb EXCEPT ![c] = Pcb("SYN_RCVD", TCP_WND, accept)]
  <1>3. /\ new \in [Clients -> Pcbs]
        /\ \A d \in Clients : d /= c => new[d] = pcb[d]
        /\ new[c].state = "SYN_RCVD"
    BY <1>2, PcbTypes, PcbStates, Zenon DEF Inv
  <1>4. \/ pcb' = new /\ older' = Touch(c) /\ failed' = failed
        \/ \E v \in Open :
             /\ pcb' = [new EXCEPT ![v] = NoPcb]
             /\ older' = Without(Touch(c), v)
             /\ failed' = (failed \/ State(v) = "ESTABLISHED")
    BY DEF Syn
  <1> HIDE DEF new
  <1>5. /\ pcb' \in [Clients -> Pcbs]
        /\ older' \in SUBSET (Clients \X Clients)
        /\ failed' \in BOOLEAN
        /\ failed => failed'
        /\ \A d \in Clients : pcb'[d].state = "ESTABLISHED"
                                => State(d) = "ESTABLISHED"
        /\ \A d \in Clients : State(d) = "ESTABLISHED"
                                => pcb'[d].state = "ESTABLISHED" \/ failed'
    <2>1. CASE pcb' = new /\ older' = Touch(c) /\ failed' = failed
      <3>1. older' \in SUBSET (Clients \X Clients)
        BY <2>1, PcbTypes, Zenon DEF Inv
      <3> QED
        BY <1>1, <1>2, <1>3, <2>1, <3>1 DEF State
    <2>2. CASE \E v \in Open :
                 /\ pcb' = [new EXCEPT ![v] = NoPcb]
                 /\ older' = Without(Touch(c), v)
                 /\ failed' = (failed \/ State(v) = "ESTABLISHED")
      <3>1. PICK v \in Open :
              /\ pcb' = [new EXCEPT ![v] = NoPcb]
              /\ older' = Without(Touch(c), v)
              /\ failed' = (failed \/ State(v) = "ESTABLISHED")
        BY <2>2, Zenon
      <3>2. v \in Clients
        BY DEF Open
      <3>3. older' \in SUBSET (Clients \X Clients)
        BY <3>1, <3>2, PcbTypes, Zenon DEF Inv
      <3>4. /\ pcb' \in [Clients -> Pcbs]
            /\ \A d \in Clients : d /= v => pcb'[d] = new[d]
            /\ pcb'[v].state = "CLOSED"
        BY <1>3, <3>1, <3>2, PcbTypes, PcbStates, Zenon DEF Inv
      <3> QED
        BY <1>1, <1>2, <1>3, <3>1, <3>2, <3>3, <3>4, Zenon DEF State
    <2> QED
      BY <1>4, <2>1, <2>2
  <1>6. TypeOK'
    BY <1>1, <1>5 DEF Inv, TypeOK, LeaveIfPacket
  <1>7. BufInv'
    <2>1. BufInv /\ (pc' = "packet" => pin' /= <<>>)
      BY <1>1 DEF Inv, LeaveIfPacket
    <2> QED
      BY <1>1, <2>1, BufKept
  <1>8. ReplyToOpen'
    <2>1. es_pcb \in Clients \cup {NoClient}
      BY DEF Inv, TypeOK
    <2> QED
      BY <1>1, <1>5, <2>1 DEF Inv, ConnInv, ReplyToOpen, State
  <1>9. ReplyToSender'
    BY <1>1 DEF Inv, ConnInv, ReplyToSender
  <1>10. ConnInv'
    BY <1>1, <1>5, <1>8, <1>9 DEF Inv, ConnInv, State
  <1> QED
    BY <1>6, <1>7, <1>10 DEF Inv

(* The end of a handshake: accepted, or aborted without a callback.        *)
LEMMA AckKeeps ==
  ASSUME Inv, NEW c \in Clients, Ack(c)
  PROVE  Inv'
  <1>1. /\ UNCHANGED <<ref, need, command_execute_flag, failed>>
        /\ State(c) = "SYN_RCVD" /\ LeaveIfPacket
    BY DEF Ack
  <1>2. pcb \in [Clients -> Pcbs] /\ es_pcb \in Clients \cup {NoClient}
    BY DEF Inv, TypeOK
  <1>3. CASE /\ pcb' = [pcb EXCEPT ![c] = Pcb("ESTABLISHED", TCP_WND, TRUE)]
             /\ older' = Touch(c)
             /\ server_accept_callback(c)
    <2>1. /\ es_state' = "ACCEPTED" /\ es_pcb' = c /\ pin' = <<>>
          /\ accept' = FALSE /\ asker' = NoClient
          /\ overlapped' = (overlapped \/ es_pcb /= NoClient)
          /\ leaked' = (leaked \/ pin /= <<>>)
      BY <1>3 DEF server_accept_callback
    <2>2. /\ pcb' \in [Clients -> Pcbs]
          /\ pcb'[c].state = "ESTABLISHED"
          /\ \A d \in Clients : d /= c => pcb'[d] = pcb[d]
          /\ older' \in SUBSET (Clients \X Clients)
      BY <1>2, <1>3, PcbTypes, PcbStates, Zenon DEF Inv
    <2>3. pin' \in Seq(Pbufs) /\ Len(pin') = 0 /\ DOMAIN pin' = {}
      BY <2>1
    <2>4. TypeOK'
      <3>1. /\ overlapped' \in BOOLEAN /\ leaked' \in BOOLEAN
            /\ accept' \in BOOLEAN
        BY <2>1, Zenon
      <3> QED
        BY <1>1, <2>1, <2>2, <2>3, <3>1 DEF Inv, TypeOK, LeaveIfPacket
    <2>5. BufInv'
      <3>1. Chain(pin', ref')
        BY <2>3 DEF Chain
      <3>2. ~leaked' => Exact(pin', ref')
        BY <1>1, <2>1, Zenon DEF Inv, BufInv, Exact
      <3> QED
        BY <1>1, <2>1, <3>1, <3>2 DEF BufInv, LeaveIfPacket
    <2>6. ReplyToOpen' /\ ReplyToSender'
      BY <2>1, <2>2, <2>3 DEF ReplyToOpen, ReplyToSender, State
    <2>7. ~overlapped' =>
            \A d \in Clients : State(d)' = "ESTABLISHED" => d = es_pcb'
      BY <2>1, <2>2, ServerAssumption, Zenon DEF Inv, ConnInv, State
    <2>8. ConnInv'
      BY <2>1, <2>6, <2>7, ServerAssumption DEF ConnInv
    <2> QED
      BY <2>4, <2>5, <2>8 DEF Inv
  <1>4. CASE /\ pcb' = [pcb EXCEPT ![c] = NoPcb]
             /\ older' = Without(older, c)
             /\ UNCHANGED <<esVars, pin, asker, overlapped, leaked>>
    <2>1. UNCHANGED <<es_pcb, es_state, accept, pin, asker, overlapped,
                      leaked>>
      BY <1>4 DEF esVars
    <2>2. /\ pcb' \in [Clients -> Pcbs]
          /\ pcb'[c].state = "CLOSED"
          /\ \A d \in Clients : d /= c => pcb'[d] = pcb[d]
          /\ older' \in SUBSET (Clients \X Clients)
      BY <1>2, <1>4, PcbTypes, PcbStates, Zenon DEF Inv, TypeOK
    <2>3. TypeOK'
      BY <1>1, <2>1, <2>2 DEF Inv, TypeOK, LeaveIfPacket
    <2>4. BufInv'
      <3>1. BufInv /\ (pc' = "packet" => pin' /= <<>>)
        BY <1>1, <2>1 DEF Inv, LeaveIfPacket
      <3> QED
        BY <1>1, <2>1, <3>1, BufKept
    <2>5. ReplyToOpen' /\ ReplyToSender'
      BY <1>1, <1>2, <2>1, <2>2
      DEF Inv, ConnInv, ReplyToOpen, ReplyToSender, State
    <2>6. ConnInv'
      BY <2>1, <2>2, <2>5 DEF Inv, ConnInv, State
    <2> QED
      BY <2>3, <2>4, <2>6 DEF Inv
  <1> QED
    BY <1>3, <1>4, Zenon DEF Ack

(* Data of an established connection.                                      *)
LEMMA DataKeeps ==
  ASSUME Inv, NEW c \in Clients, NEW kinds \in Segments, Data(c, kinds)
  PROVE  Inv'
  <1>1. /\ UNCHANGED <<es_pcb, accept, need, command_execute_flag, asker,
                       failed, overlapped>>
        /\ State(c) = "ESTABLISHED" /\ LeaveIfPacket
        /\ Len(kinds) <= pcb[c].rcv_wnd
        /\ pcb' = [pcb EXCEPT ![c] =
                     Pcb("ESTABLISHED", pcb[c].rcv_wnd - Len(kinds), TRUE)]
        /\ older' = Touch(c)
    BY DEF Data, loopVars
  <1>2. pcb \in [Clients -> Pcbs] /\ es_pcb \in Clients \cup {NoClient}
    BY DEF Inv, TypeOK
  <1>3. /\ pin' \in Seq(Pbufs)
        /\ ref' \in [Buffers -> Nat]
        /\ BufInv'
        /\ \A i \in 1 .. Len(pin') :
             \/ \E j \in 1 .. Len(pin) : pin'[i] = pin[j]
             \/ pin'[i].from = c
        /\ es_state' \in {"NONE", "ACCEPTED", "RECEIVING"}
        /\ es_state' = "NONE" <=> es_state = "NONE"
        /\ leaked' \in BOOLEAN
        /\ Len(kinds) \in Nat \ {0}
    BY DataKeepsChain, Zenon DEF Inv
  <1>4. Pcb("ESTABLISHED", pcb[c].rcv_wnd - Len(kinds), TRUE) \in Pcbs
    <2>1. pcb[c].rcv_wnd \in 0 .. TCP_WND
      BY <1>2 DEF Pcbs
    <2>2. pcb[c].rcv_wnd - Len(kinds) \in 0 .. TCP_WND
      BY <1>1, <1>3, <2>1, ServerAssumption
    <2> QED
      BY <2>2 DEF Pcb, Pcbs
  <1>5. /\ pcb' \in [Clients -> Pcbs]
        /\ \A d \in Clients : pcb'[d].state = State(d)
        /\ older' \in SUBSET (Clients \X Clients)
    <2>1. older' \in SUBSET (Clients \X Clients)
      BY <1>1, PcbTypes, Zenon DEF Inv
    <2> QED
      BY <1>1, <1>2, <1>4, <2>1, PcbStates, Zenon DEF State
  <1>6. TypeOK'
    BY <1>1, <1>3, <1>5, Zenon DEF Inv, TypeOK, LeaveIfPacket
  <1>7. ReplyToOpen'
    BY <1>1, <1>2, <1>5, Zenon DEF Inv, ConnInv, ReplyToOpen, State
  <1>8. ReplyToSender'
    <2> SUFFICES ASSUME ~overlapped, es_pcb /= NoClient, NEW i \in DOMAIN pin'
                 PROVE  pin'[i].from = es_pcb
      BY <1>1 DEF Inv, ConnInv, ReplyToSender
    <2>1. c = es_pcb
      BY <1>1 DEF Inv, ConnInv
    <2>2. pin \in Seq(Pbufs)
      BY DEF Inv, TypeOK
    <2>3. DOMAIN pin = 1 .. Len(pin) /\ DOMAIN pin' = 1 .. Len(pin')
      BY <1>3, <2>2, ChainFacts
    <2>4. \A j \in 1 .. Len(pin) : pin[j].from = es_pcb
      BY <2>3 DEF Inv, ConnInv, ReplyToSender
    <2> QED
      BY <1>3, <2>1, <2>3, <2>4
  <1>9. ConnInv'
    <2>1. ~overlapped' =>
            \A d \in Clients : State(d)' = "ESTABLISHED" => d = es_pcb'
      BY <1>1, <1>5, Zenon DEF Inv, ConnInv, State
    <2>2. (accept' <=> es_pcb' = NoClient)
          /\ (es_state' = "NONE" <=> es_pcb' = NoClient)
      BY <1>1, <1>3 DEF Inv, ConnInv
    <2> QED
      BY <1>7, <1>8, <2>1, <2>2 DEF ConnInv
  <1> QED
    BY <1>3, <1>6, <1>9 DEF Inv

(* A FIN: server_connection_close.                                         *)
LEMMA FinKeeps ==
  ASSUME Inv, NEW c \in Clients, Fin(c)
  PROVE  Inv'
  <1>1. /\ UNCHANGED <<ref, pin, need, command_execute_flag, asker, failed,
                       overlapped, leaked>>
        /\ State(c) = "ESTABLISHED" /\ LeaveIfPacket
        /\ es_pcb' = NoClient /\ es_state' = "NONE" /\ accept' = TRUE
    BY DEF Fin, loopVars, history, server_connection_close
  <1>2. pcb \in [Clients -> Pcbs]
    BY DEF Inv, TypeOK
  <1>3. \/ /\ pcb' = [pcb EXCEPT ![c] = Pcb("LAST_ACK", TCP_WND, TRUE)]
           /\ older' = Touch(c)
        \/ /\ pcb' = [pcb EXCEPT ![c] = NoPcb]
           /\ older' = Without(older, c)
    BY Zenon DEF Fin
  <1>4. /\ pcb' \in [Clients -> Pcbs]
        /\ pcb'[c].state /= "ESTABLISHED"
        /\ \A d \in Clients : d /= c => pcb'[d] = pcb[d]
        /\ older' \in SUBSET (Clients \X Clients)
    <2>1. CASE /\ pcb' = [pcb EXCEPT ![c] = Pcb("LAST_ACK", TCP_WND, TRUE)]
               /\ older' = Touch(c)
      BY <1>2, <2>1, PcbTypes, PcbStates, Zenon DEF Inv
    <2>2. CASE /\ pcb' = [pcb EXCEPT ![c] = NoPcb]
               /\ older' = Without(older, c)
      BY <1>2, <2>2, PcbTypes, PcbStates, Zenon DEF Inv, TypeOK
    <2> QED
      BY <1>3, <2>1, <2>2, Zenon
  <1>5. TypeOK'
    BY <1>1, <1>4 DEF Inv, TypeOK, LeaveIfPacket
  <1>6. BufInv'
    <2>1. BufInv /\ (pc' = "packet" => pin' /= <<>>)
      BY <1>1 DEF Inv, LeaveIfPacket
    <2> QED
      BY <1>1, <2>1, BufKept
  <1>7. ReplyToOpen' /\ ReplyToSender'
    BY <1>1 DEF ReplyToOpen, ReplyToSender
  <1>8. ~overlapped' =>
          \A d \in Clients : State(d)' = "ESTABLISHED" => d = es_pcb'
    BY <1>1, <1>4 DEF Inv, ConnInv, State
  <1>9. ConnInv'
    BY <1>1, <1>7, <1>8 DEF ConnInv
  <1> QED
    BY <1>5, <1>6, <1>9 DEF Inv

(* A connection that ends with a RST or a timeout.                         *)
LEMMA FreedKeeps ==
  ASSUME Inv, NEW c \in Clients, Freed(c)
  PROVE  Inv'
  <1>1. /\ UNCHANGED <<ref, es_pcb, es_state, accept, pin, need,
                       command_execute_flag, asker, overlapped, leaked>>
        /\ LeaveIfPacket
        /\ pcb' = [pcb EXCEPT ![c] = NoPcb]
        /\ older' = Without(older, c)
        /\ failed' = (failed \/ State(c) = "ESTABLISHED")
    BY DEF Freed, esVars, loopVars
  <1>2. pcb \in [Clients -> Pcbs] /\ es_pcb \in Clients \cup {NoClient}
    BY DEF Inv, TypeOK
  <1>3. /\ pcb' \in [Clients -> Pcbs]
        /\ pcb'[c].state = "CLOSED"
        /\ \A d \in Clients : d /= c => pcb'[d] = pcb[d]
        /\ older' \in SUBSET (Clients \X Clients)
    BY <1>1, <1>2, PcbTypes, PcbStates, Zenon DEF Inv, TypeOK
  <1>4. TypeOK'
    <2>1. failed' \in BOOLEAN
      BY <1>1
    <2> QED
      BY <1>1, <1>3, <2>1 DEF Inv, TypeOK, LeaveIfPacket
  <1>5. BufInv'
    <2>1. BufInv /\ (pc' = "packet" => pin' /= <<>>)
      BY <1>1 DEF Inv, LeaveIfPacket
    <2> QED
      BY <1>1, <2>1, BufKept
  <1>6. ReplyToOpen' /\ ReplyToSender'
    BY <1>1, <1>2, <1>3, Zenon
    DEF Inv, ConnInv, ReplyToOpen, ReplyToSender, State
  <1>7. ConnInv'
    BY <1>1, <1>3, <1>6 DEF Inv, ConnInv, State
  <1> QED
    BY <1>4, <1>5, <1>7 DEF Inv

(* ethernet_clear_packet behind the parser or ethernet_copy_data.          *)
LEMMA NextPacketKeeps ==
  ASSUME Inv, pc = "packet", NextPacket, need' \in 0 .. MaxBlock,
         command_execute_flag' \in BOOLEAN,
         asker' \in {asker, pin[1].from, NoClient}
  PROVE  Inv'
  <1>1. /\ UNCHANGED <<pcb, older, es_pcb, es_state, accept, failed,
                       overlapped, leaked>>
        /\ ethernet_clear_packet /\ pc' = "poll"
    BY DEF NextPacket, tcpVars, esVars, history
  <1>2. /\ pin \in Seq(Pbufs) /\ ref \in [Buffers -> Nat] /\ pin /= <<>>
        /\ Chain(pin, ref) /\ es_state /= "ACCEPTED"
        /\ ~leaked => Exact(pin, ref)
    BY DEF Inv, TypeOK, BufInv
  <1>3. /\ pin' \in Seq(Pbufs) /\ ref' \in [Buffers -> Nat]
        /\ Chain(pin', ref')
        /\ Exact(pin, ref) => Exact(pin', ref')
        /\ \A i \in 1 .. Len(pin') : \E j \in 1 .. Len(pin) : pin'[i] = pin[j]
    BY <1>1, <1>2, ClearKeepsChain
  <1>4. TypeOK'
    <2>1. asker' \in Clients \cup {NoClient}
      <3>1. pin[1] \in Pbufs
        BY <1>2, ChainFacts
      <3>2. pin[1].from \in Clients
        BY <3>1 DEF Pbufs
      <3> QED
        BY <3>2 DEF Inv, TypeOK
    <2> QED
      BY <1>1, <1>3, <2>1 DEF Inv, TypeOK
  <1>5. BufInv'
    BY <1>1, <1>2, <1>3 DEF BufInv
  <1>6. ReplyToSender'
    <2>1. DOMAIN pin = 1 .. Len(pin) /\ DOMAIN pin' = 1 .. Len(pin')
      BY <1>2, <1>3, ChainFacts
    <2>2. ~overlapped /\ es_pcb /= NoClient => asker' \in {es_pcb, NoClient}
      <3>1. 1 \in DOMAIN pin
        BY <1>2, <2>1, ChainFacts
      <3> QED
        BY <3>1 DEF Inv, ConnInv, ReplyToSender
    <2> QED
      BY <1>1, <1>3, <2>1, <2>2 DEF Inv, ConnInv, ReplyToSender
  <1>7. ConnInv'
    BY <1>1, <1>6 DEF Inv, ConnInv, ReplyToOpen, State
  <1> QED
    BY <1>4, <1>5, <1>7 DEF Inv

(* Every step keeps the invariant.                                         *)
LEMMA NextKeeps ==
  ASSUME Inv, [Next]_vars
  PROVE  Inv'
  <1>1. ASSUME NEW c \in Clients, Net(c) PROVE Inv'
    BY <1>1, SynKeeps, AckKeeps, DataKeeps, FinKeeps, FreedKeeps
    DEF Net, Rst, Slowtmr
  <1>2. ASSUME /\ UNCHANGED <<pcb, older, ref, es_pcb, es_state, accept, pin,
                              need, asker, failed, overlapped, leaked>>
               /\ pc' \in {"poll", "packet"}
               /\ pc' = "packet" => pin /= <<>>
               /\ command_execute_flag' \in BOOLEAN
        PROVE  Inv'
    <2>1. TypeOK'
      BY <1>2 DEF Inv, TypeOK
    <2>2. BufInv'
      BY <1>2, BufKept DEF Inv
    <2>3. ConnInv'
      BY <1>2 DEF Inv, ConnInv, ReplyToOpen, ReplyToSender, State
    <2> QED
      BY <2>1, <2>2, <2>3 DEF Inv
  <1>3. /\ command_execute_flag \in BOOLEAN /\ pc \in {"poll", "packet"}
        /\ pc = "packet" => pin /= <<>>
        /\ need \in 0 .. MaxBlock
    BY DEF Inv, TypeOK, BufInv
  <1>4. CASE NoFrame
    BY <1>2, <1>3, <1>4 DEF NoFrame, tcpVars, esVars, loopVars, history
  <1>5. CASE Execute
    BY <1>2, <1>3, <1>5, Zenon DEF Execute, tcpVars, esVars, history
  <1>6. CASE Process
    <2>1. 0 \in 0 .. MaxBlock
      BY ServerAssumption
    <2>2. need' \in 0 .. MaxBlock /\ command_execute_flag' \in BOOLEAN
      BY <1>6, <2>1 DEF Process, scpi_process
    <2>3. asker' \in {asker, pin[1].from, NoClient}
      BY <1>6 DEF Process, scpi_process
    <2> QED
      BY <1>6, <2>2, <2>3, NextPacketKeeps DEF Process, scpi_process
  <1>7. CASE Copy
    <2>1. need' \in 0 .. MaxBlock
      BY <1>3, <1>7, ServerAssumption DEF Copy
    <2>2. asker' \in {asker, pin[1].from, NoClient}
      BY <1>7 DEF Copy
    <2> QED
      BY <1>3, <1>7, <2>1, <2>2, NextPacketKeeps DEF Copy
  <1>8. CASE UNCHANGED vars
    BY <1>2, <1>3, <1>8 DEF vars, tcpVars, esVars, loopVars, history
  <1> QED
    BY <1>1, <1>4, <1>5, <1>6, <1>7, <1>8 DEF Next, Loop

(* The invariant holds from lwip_init and server_init on.                  *)
LEMMA InvAlways == Spec => []Inv
  <1>1. Init => Inv
    <2> SUFFICES ASSUME Init PROVE Inv
      OBVIOUS
    <2>1. pin \in Seq(Pbufs) /\ Len(pin) = 0 /\ DOMAIN pin = {}
      BY DEF Init
    <2>2. NoPcb \in Pcbs
      BY ServerAssumption DEF NoPcb, Pcb, Pcbs
    <2>3. 0 \in 0 .. MaxBlock
      BY ServerAssumption
    <2>4. TypeOK
      BY <2>1, <2>2, <2>3, Zenon DEF Init, TypeOK
    <2>5. BufInv
      BY <2>1 DEF Init, BufInv, Chain, Exact
    <2>6. ConnInv
      BY <2>1, PcbStates
      DEF Init, ConnInv, ReplyToOpen, ReplyToSender, State
    <2> QED
      BY <2>4, <2>5, <2>6 DEF Inv
  <1> QED
    BY <1>1, NextKeeps, PTL DEF Spec

(* The connections, the reference counts, the chain and the main loop keep *)
(* their types; in particular no reference count of a pbuf goes below 0.   *)
THEOREM ServerTypes == Spec => []TypeOK
  <1>1. Inv => TypeOK
    BY DEF Inv
  <1> QED
    BY <1>1, InvAlways, PTL

(* The parser and ethernet_copy_data never read a pbuf that was freed.     *)
THEOREM NoFreedPbufIsRead == Spec => []NoUseAfterFree
  <1>1. Inv => NoUseAfterFree
    <2> SUFFICES ASSUME Inv PROVE NoUseAfterFree
      OBVIOUS
    <2>1. DOMAIN pin = 1 .. Len(pin)
      BY ChainFacts DEF Inv, TypeOK
    <2> QED
      BY <2>1 DEF Inv, BufInv, Chain, NoUseAfterFree
  <1> QED
    BY <1>1, InvAlways, PTL

(* Pbufs are lost only where pbuf_chain is used or es.pin is overwritten.  *)
THEOREM TwoLeaksOnly == Spec => []PoolComplete
  <1>1. Inv => PoolComplete
    <2> SUFFICES ASSUME Inv, ~leaked PROVE Free(ref) = Buffers \ Held(pin)
      BY DEF PoolComplete
    <2>1. DOMAIN pin = 1 .. Len(pin)
      BY ChainFacts DEF Inv, TypeOK
    <2>2. \A b \in Buffers :
            ref[b] = IF \E i \in DOMAIN pin : pin[i].buf = b THEN 1 ELSE 0
      BY <2>1 DEF Inv, BufInv, Exact
    <2> QED
      BY <2>2 DEF Free, Held
  <1> QED
    BY <1>1, InvAlways, PTL

(* es.pcb is an open connection, until one ends with server_err_callback.  *)
THEOREM RepliesGoToOpen == Spec => []ReplyToOpen
  <1>1. Inv => ReplyToOpen
    BY DEF Inv, ConnInv
  <1> QED
    BY <1>1, InvAlways, PTL

(* The accept callback is set exactly while no connection is open, as long *)
(* as no connection fails and no two handshakes overlap.                   *)
THEOREM AcceptsWhenFree == Spec => []AcceptIffFree
  <1>1. Inv => AcceptIffFree
    <2>1. es_pcb \in Clients \cup {NoClient}
            => (es_pcb /= NoClient => es_pcb \in Clients)
      OBVIOUS
    <2> QED
      BY <2>1, ServerAssumption
      DEF Inv, TypeOK, ConnInv, ReplyToOpen, AcceptIffFree
  <1> QED
    BY <1>1, InvAlways, PTL

(* What waits in es.pin was sent by the client replies go to, and so was   *)
(* the PARallel:DATA that waits in ethernet_copy_data, unless a connection *)
(* was accepted since it began.                                            *)
THEOREM RepliesGoToSender == Spec => []ReplyToSender
  <1>1. Inv => ReplyToSender
    BY DEF Inv, ConnInv
  <1> QED
    BY <1>1, InvAlways, PTL
=============================================================================
