----------------------------- MODULE ClockProofs -----------------------------
(***************************************************************************)
(* For every width of the counter and every set of timers: delay() waits   *)
(* exactly, and no timer runs early, across the wrap of LocalTime and the  *)
(* plays that stop it.                                                     *)
(***************************************************************************)
EXTENDS Clock, TLAPS

(* Milliseconds SysTick_Handler still has to count.                        *)
Owed == IF pending THEN 1 ELSE 0

(* A wait whose deadline does not wrap has as far to go as LocalTime is    *)
(* from the deadline.                                                      *)
DelayInv ==
  pc = "delay" /\ ~wraps => LocalTime + left = timingdelay

(* What the code thinks has passed since a timer ran is not more than what *)
(* has.                                                                    *)
TimerInv ==
  \A t \in Timers :
    since[t] = Interval[t] \/ Minus(LocalTime, timer[t]) + Owed <= since[t]

Inv == TypeOK /\ (pending => pc = "play") /\ DelayInv /\ TimerInv

(* The values of a uint32_t.                                               *)
LEMMA WordsAre == Word \in Nat /\ \A w : w \in Words <=> w \in Nat /\ w < Word
  BY ClockAssumption DEF Words

(* uint32_t arithmetic stays in range, and a step of the counter widens    *)
(* the distance to an earlier time by one, or closes it by a full turn.    *)
LEMMA WordFacts ==
  /\ \A a, b \in Words : Plus(a, b) \in Words /\ Minus(a, b) \in Words
  /\ \A a \in Words : time_update(a) \in Words
  /\ \A a, b \in Words : Minus(time_update(a), b) <= Minus(a, b) + 1
  /\ \A a \in Words : Minus(a, a) = 0
  /\ \A a \in Words : a + 1 < Word => time_update(a) = a + 1
  BY ClockAssumption DEF Words, Plus, Minus, time_update

(* The types of what the timers are compared with.                         *)
LEMMA TimerTypes ==
  ASSUME TypeOK, NEW t \in Timers
  PROVE  /\ LocalTime \in Words /\ timer[t] \in Words
         /\ since[t] \in Nat /\ Interval[t] \in Nat \ {0}
         /\ Interval[t] < Word
         /\ since[t] <= Interval[t]
         /\ Minus(LocalTime, timer[t]) \in Nat
  <1>1. /\ LocalTime \in Words /\ timer[t] \in Words /\ since[t] \in Words
        /\ since[t] <= Interval[t]
    BY DEF TypeOK
  <1>2. Interval[t] \in 1 .. Word - 1
    BY ClockAssumption
  <1>3. Minus(LocalTime, timer[t]) \in Words
    BY <1>1, WordFacts, Zenon
  <1> QED
    BY <1>1, <1>2, <1>3, WordsAre

(* A millisecond passes.                                                   *)
LEMMA TickKeeps ==
  ASSUME Inv, Tick
  PROVE  Inv'
  <1>1. /\ UNCHANGED <<pc, timingdelay, wraps, timer, phy, link_status,
                       link_up, agreed>>
        /\ pc = "delay" => ~(LocalTime >= timingdelay)
        /\ pc = "play" => pending' = TRUE /\ LocalTime' = LocalTime
        /\ pc /= "play" => LocalTime' = time_update(LocalTime)
                           /\ pending' = pending
        /\ left' = IF left > 0 THEN left - 1 ELSE 0
    BY DEF Tick, linkVars, DelayOver
  <1>2. /\ DOMAIN since' = Timers
        /\ \A t \in Timers :
             since'[t] = IF since[t] < Interval[t] THEN since[t] + 1
                                                   ELSE since[t]
    BY DEF Tick
  <1>3. /\ LocalTime \in Words /\ timingdelay \in Words /\ left \in Words
        /\ LocalTime' \in Words /\ left' \in Words
    <2>1. LocalTime \in Words /\ timingdelay \in Words /\ left \in Words
      BY DEF Inv, TypeOK
    <2>2. left' \in Words
      BY <1>1, <2>1, WordsAre
    <2> QED
      BY <1>1, <2>1, <2>2, WordFacts
  <1>4. \A t \in Timers : since'[t] \in Words /\ since'[t] <= Interval[t]
    BY <1>2, TimerTypes, WordsAre DEF Inv
  <1>5. since' \in [Timers -> Words]
    BY <1>2, <1>4 DEF Tick
  <1>6. TypeOK'
    <2>1. pending' \in BOOLEAN
      BY <1>1, Zenon DEF Inv, TypeOK
    <2> QED
      BY <1>1, <1>3, <1>4, <1>5, <2>1 DEF Inv, TypeOK
  <1>7. pending' => pc' = "play"
    BY <1>1, Zenon DEF Inv
  <1>8. DelayInv'
    <2> SUFFICES ASSUME pc = "delay", ~wraps
                 PROVE  LocalTime' + left' = timingdelay
      BY <1>1 DEF DelayInv
    <2>1. LocalTime + left = timingdelay /\ ~(LocalTime >= timingdelay)
      BY <1>1 DEF Inv, DelayInv
    <2>2. LocalTime' = LocalTime + 1
      <3>1. LocalTime + 1 < Word
        BY <1>3, <2>1, WordsAre
      <3> QED
        BY <1>1, <1>3, <3>1, WordFacts
    <2> QED
      BY <1>1, <1>3, <2>1, <2>2, WordsAre
  <1>9. TimerInv'
    <2> SUFFICES ASSUME NEW t \in Timers, since'[t] /= Interval[t]
                 PROVE  Minus(LocalTime', timer[t])
                          + (IF pending' THEN 1 ELSE 0) <= since'[t]
      BY <1>1 DEF TimerInv, Owed
    <2>1. /\ since[t] \in Nat /\ since[t] < Interval[t]
          /\ since'[t] = since[t] + 1
          /\ LocalTime \in Words /\ timer[t] \in Words
      BY <1>2, TimerTypes DEF Inv
    <2>2. Minus(LocalTime, timer[t]) + (IF pending THEN 1 ELSE 0) <= since[t]
      BY <2>1, TimerTypes DEF Inv, TimerInv, Owed
    <2>3. Minus(LocalTime, timer[t]) \in Nat
      BY TimerTypes DEF Inv
    <2>4. CASE pc = "play"
      BY <1>1, <2>1, <2>2, <2>3, <2>4
    <2>5. CASE pc /= "play"
      <3>1. ~pending /\ ~pending'
        BY <1>1, <2>5 DEF Inv
      <3>2. Minus(LocalTime', timer[t]) <= Minus(LocalTime, timer[t]) + 1
        BY <1>1, <2>1, <2>5, WordFacts, Zenon
      <3>3. Minus(LocalTime', timer[t]) \in Words
        BY <1>3, <2>1, WordFacts, Zenon
      <3> QED
        BY <2>1, <2>2, <2>3, <3>1, <3>2, <3>3, WordsAre
    <2> QED
      BY <2>4, <2>5
  <1> QED
    BY <1>6, <1>7, <1>8, <1>9 DEF Inv

(* lwip_periodic_handle runs the timers that are due.                      *)
LEMMA HandleKeeps ==
  ASSUME Inv, lwip_periodic_handle
  PROVE  Inv'
  <1>1. /\ UNCHANGED <<pc, LocalTime, pending, timingdelay, left, wraps, phy>>
        /\ pc = "loop"
        /\ timer' = [t \in Timers |-> IF Due(t) THEN LocalTime ELSE timer[t]]
        /\ since' = [t \in Timers |-> IF Due(t) THEN 0 ELSE since[t]]
    BY DEF lwip_periodic_handle, delayVars
  <1>2. /\ link_status' \in BOOLEAN /\ link_up' \in BOOLEAN
        /\ agreed' \in BOOLEAN
    BY Zenon DEF lwip_periodic_handle, LinkFlag, Inv, TypeOK
  <1>3. 0 \in Words /\ LocalTime \in Words /\ ~pending
    BY <1>1, ClockAssumption DEF Inv, TypeOK, Words
  <1>4. /\ timer' \in [Timers -> Words] /\ since' \in [Timers -> Words]
        /\ \A t \in Timers : since'[t] <= Interval[t]
    BY <1>1, <1>3, TimerTypes DEF Inv, TypeOK
  <1>5. TypeOK'
    BY <1>1, <1>2, <1>4 DEF Inv, TypeOK
  <1>6. TimerInv'
    <2> SUFFICES ASSUME NEW t \in Timers, since'[t] /= Interval[t]
                 PROVE  Minus(LocalTime, timer'[t]) + 0 <= since'[t]
      BY <1>1, <1>3 DEF TimerInv, Owed
    <2>1. CASE Due(t)
      BY <1>1, <1>3, <2>1, WordFacts
    <2>2. CASE ~Due(t)
      BY <1>1, <1>3, <2>2 DEF Inv, TimerInv, Owed
    <2> QED
      BY <2>1, <2>2
  <1>7. (pending' => pc' = "play") /\ DelayInv'
    BY <1>1 DEF Inv, DelayInv
  <1> QED
    BY <1>5, <1>6, <1>7 DEF Inv

(* Interrupts are enabled again, and a pending SysTick is counted.         *)
LEMMA PlayReturnsKeeps ==
  ASSUME Inv, PlayReturns
  PROVE  Inv'
  <1>1. /\ UNCHANGED <<timer, since, timingdelay, left, wraps, phy,
                       link_status, link_up, agreed>>
        /\ pc' = "loop" /\ pending' = FALSE
        /\ LocalTime' = IF pending THEN time_update(LocalTime) ELSE LocalTime
    BY DEF PlayReturns, delayVars, linkVars
  <1>2. LocalTime' \in Words
    BY <1>1, WordFacts DEF Inv, TypeOK
  <1>3. TypeOK'
    BY <1>1, <1>2, Zenon DEF Inv, TypeOK
  <1>4. TimerInv'
    <2> SUFFICES ASSUME NEW t \in Timers, since[t] /= Interval[t]
                 PROVE  Minus(LocalTime', timer[t]) + 0 <= since[t]
      BY <1>1 DEF TimerInv, Owed
    <2>1. Minus(LocalTime, timer[t]) + (IF pending THEN 1 ELSE 0) <= since[t]
      BY DEF Inv, TimerInv, Owed
    <2>2. Minus(LocalTime, timer[t]) \in Nat /\ since[t] \in Nat
          /\ LocalTime \in Words /\ timer[t] \in Words
      BY TimerTypes DEF Inv
    <2>3. Minus(LocalTime', timer[t]) \in Words
      BY <1>2, <2>2, WordFacts, Zenon
    <2>4. CASE pending
      <3>1. Minus(LocalTime', timer[t]) <= Minus(LocalTime, timer[t]) + 1
        BY <1>1, <2>2, <2>4, WordFacts, Zenon
      <3> QED
        BY <2>1, <2>2, <2>3, <2>4, <3>1 DEF Words
    <2>5. CASE ~pending
      BY <1>1, <2>1, <2>2, <2>5
    <2> QED
      BY <2>4, <2>5
  <1> QED
    BY <1>1, <1>3, <1>4 DEF Inv, DelayInv

(* Every step keeps the invariant.                                         *)
LEMMA NextKeeps ==
  ASSUME Inv, [Next]_vars
  PROVE  Inv'
  <1>1. ASSUME NEW n \in Delays, delay(n) PROVE Inv'
    <2>1. /\ UNCHANGED <<LocalTime, pending, timer, since, phy, link_status,
                         link_up, agreed>>
          /\ pc = "loop" /\ pc' = "delay"
          /\ timingdelay' = Plus(LocalTime, n) /\ left' = n
          /\ wraps' = (LocalTime + n >= Word)
      BY <1>1 DEF delay, linkVars
    <2>2. n \in Words /\ LocalTime \in Words
      BY ClockAssumption DEF Inv, TypeOK, Words
    <2>3. TypeOK'
      <3>1. timingdelay' \in Words /\ left' \in Words /\ wraps' \in BOOLEAN
        BY <2>1, <2>2, WordFacts
      <3> QED
        BY <2>1, <3>1 DEF Inv, TypeOK
    <2>4. DelayInv'
      <3> SUFFICES ASSUME ~wraps'
                   PROVE  LocalTime + n = Plus(LocalTime, n)
        BY <2>1 DEF DelayInv
      <3>0. ~(LocalTime + n >= Word)
        BY <2>1, Zenon
      <3>1. LocalTime + n < Word
        BY <2>2, <3>0, WordsAre
      <3> QED
        BY <3>1 DEF Plus
    <2>5. TimerInv'
      BY <2>1 DEF Inv, TimerInv, Owed
    <2> QED
      BY <2>1, <2>3, <2>4, <2>5 DEF Inv
  <1>2. CASE DelayReturns
    <2>1. /\ UNCHANGED <<LocalTime, pending, timer, since, phy, link_status,
                         link_up, agreed>>
          /\ pc = "delay" /\ pc' = "loop"
          /\ timingdelay' = 0 /\ left' = 0 /\ wraps' = FALSE
      BY <1>2 DEF DelayReturns, linkVars
    <2>2. TypeOK'
      <3>1. 0 \in Words /\ FALSE \in BOOLEAN
        BY ClockAssumption, WordsAre
      <3> QED
        BY <2>1, <3>1, Zenon DEF Inv, TypeOK
    <2> QED
      BY <2>1, <2>2 DEF Inv, DelayInv, TimerInv, Owed
  <1>3. CASE PlayStarts
    BY <1>3 DEF PlayStarts, delayVars, linkVars, Inv, TypeOK, DelayInv,
                TimerInv, Owed
  <1>4. CASE Cable
    <2>1. UNCHANGED <<pc, LocalTime, pending, timer, since, timingdelay, left,
                      wraps, link_status, link_up, agreed>>
          /\ phy' \in BOOLEAN
      BY <1>4 DEF Cable, delayVars
    <2>2. TypeOK'
      BY <2>1 DEF Inv, TypeOK
    <2> QED
      BY <2>1, <2>2 DEF Inv, DelayInv, TimerInv, Owed
  <1>5. CASE UNCHANGED vars
    BY <1>5 DEF vars, delayVars, linkVars, Inv, TypeOK, DelayInv, TimerInv,
                Owed
  <1> QED
    BY <1>1, <1>2, <1>3, <1>4, <1>5, TickKeeps, HandleKeeps, PlayReturnsKeeps
    DEF Next

(* The invariant holds from sysclock_init and lwip_init on.                *)
LEMMA InvAlways == Spec => []Inv
  <1>1. Init => Inv
    <2> SUFFICES ASSUME Init PROVE Inv
      OBVIOUS
    <2>1. 0 \in Words
      BY ClockAssumption DEF Words
    <2>2. TypeOK
      <3>1. \A t \in Timers : 0 <= Interval[t]
        BY ClockAssumption
      <3> QED
        BY <2>1, <3>1, Zenon DEF Init, TypeOK
    <2>3. TimerInv
      <3>1. Minus(0, 0) = 0
        BY <2>1, WordFacts
      <3> QED
        BY <3>1 DEF Init, TimerInv, Owed
    <2> QED
      BY <2>2, <2>3 DEF Init, Inv, DelayInv
  <1> QED
    BY <1>1, NextKeeps, PTL DEF Spec

(* LocalTime, the deadline and the timers stay uint32_t.                   *)
THEOREM ClockTypes == Spec => []TypeOK
  <1>1. Inv => TypeOK
    BY DEF Inv
  <1> QED
    BY <1>1, InvAlways, PTL

(* delay() is over exactly when its milliseconds are, unless the sum of    *)
(* LocalTime and its argument wraps.                                       *)
THEOREM WaitsAreExact == Spec => []WaitExact
  <1>1. Inv => WaitExact
    BY DEF Inv, TypeOK, DelayInv, WaitExact, DelayOver, Words
  <1> QED
    BY <1>1, InvAlways, PTL

(* A timer that is due has waited its whole interval.                      *)
THEOREM TimersAreNotEarly == Spec => []TimerNotEarly
  <1>1. Inv => TimerNotEarly
    <2> SUFFICES ASSUME Inv, NEW t \in Timers, Due(t)
                 PROVE  since[t] = Interval[t]
      BY DEF TimerNotEarly
    <2>1. since[t] = Interval[t]
            \/ Minus(LocalTime, timer[t]) + (IF pending THEN 1 ELSE 0)
                 <= since[t]
      BY DEF Inv, TimerInv, Owed
    <2> QED
      BY <2>1, TimerTypes DEF Inv, Due
  <1> QED
    BY <1>1, InvAlways, PTL
=============================================================================
