-------------------------------- MODULE Pbuf --------------------------------
(***************************************************************************)
(* The packet buffers of lwIP (pbuf.c).  A pbuf is a record whose field    *)
(* buf is its place in the pool; a chain is a sequence of pbufs, and the   *)
(* pointer to a pbuf stands for the chain behind it.  The operators map    *)
(* the reference counts of the pool to the next ones.                      *)
(***************************************************************************)
EXTENDS Integers, Sequences, FiniteSets

CONSTANT PBUF_POOL_SIZE

ASSUME PoolAssumption == PBUF_POOL_SIZE \in Nat \ {0}

Buffers == 1 .. PBUF_POOL_SIZE

Held(p) == {p[i].buf : i \in DOMAIN p}
Free(ref) == {b \in Buffers : ref[b] = 0}

(* pbuf_alloc(PBUF_POOL): k free buffers, or none when the pool is short   *)
(* of them.  Which of the free buffers it takes makes no difference; the   *)
(* model takes the lowest.                                                 *)
pbuf_alloc(ref, k) ==
  {t \in [1 .. k -> Free(ref)] :
     /\ \A i, j \in 1 .. k : i < j => t[i] < t[j]
     /\ \A b \in Free(ref) : (\E i \in 1 .. k : t[i] = b) \/ (b > t[k])}

pbuf_ref(ref, pbuf) == [ref EXCEPT ![pbuf.buf] = @ + 1]

(* pbuf_free(): a pbuf of the chain loses one reference when all pbufs in  *)
(* front of it lost their last one.                                        *)
pbuf_free(ref, p) ==
  [b \in Buffers |->
     IF \E i \in 1 .. Len(p) :
          p[i].buf = b /\ \A j \in 1 .. i - 1 : ref[p[j].buf] = 1
     THEN ref[b] - 1 ELSE ref[b]]
=============================================================================
