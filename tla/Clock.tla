------------------------------- MODULE Clock -------------------------------
(***************************************************************************)
(* Time: the millisecond counter LocalTime (timing.c, SysTick_Handler),    *)
(* delay(), and lwip_periodic_handle with its timers and the supervision   *)
(* of the link (ethernet.c).  The counter wraps around, and it stands      *)
(* still while ad9910_execute_parallel has interrupts disabled, except for *)
(* one pending SysTick.                                                    *)
(***************************************************************************)
EXTENDS Integers

CONSTANTS
  Word,      \* the number of values of a uint32_t
  Timers,    \* link_timer, tcp_fast_timer, tcp_slow_timer, arp_timer
  Interval,  \* the period of a timer
  LinkTimer, \* the timer that polls the link
  Delays     \* arguments of WAIT

ASSUME ClockAssumption ==
  /\ Word \in Nat \ {0}
  /\ Interval \in [Timers -> 1 .. Word - 1]
  /\ LinkTimer \in Timers
  /\ Delays \subseteq 0 .. Word - 1

VARIABLES
  pc,          \* "loop", or in "delay" or in ad9910_execute_parallel ("play")
  LocalTime,
  pending,     \* a SysTick waits for interrupts to be enabled
  timingdelay, \* delay(): the time it waits for
  timer,       \* when a timer ran last
  phy,         \* the link status bit of the PHY
  link_status, \* the status lwip_periodic_handle saw last
  link_up,     \* NETIF_FLAG_LINK_UP; the interface is up and down with it
  (* history *)
  left,        \* milliseconds delay() still has to wait
  wraps,       \* LocalTime + nCount was too large
  since,       \* milliseconds since a timer ran, up to its interval
  agreed       \* link_status and link_up once were the same

linkVars == <<phy, link_status, link_up, agreed>>
delayVars == <<timingdelay, left, wraps>>
vars == <<pc, LocalTime, pending, timer, since, delayVars, linkVars>>

Words == 0 .. Word - 1

TypeOK ==
  /\ pc \in {"loop", "delay", "play"}
  /\ LocalTime \in Words
  /\ timingdelay \in Words
  /\ left \in Words
  /\ timer \in [Timers -> Words]
  /\ since \in [Timers -> Words]
  /\ \A t \in Timers : since[t] <= Interval[t]
  /\ pending \in BOOLEAN
  /\ wraps \in BOOLEAN
  /\ phy \in BOOLEAN
  /\ link_status \in BOOLEAN
  /\ link_up \in BOOLEAN
  /\ agreed \in BOOLEAN

(* sysclock_init, and lwip_init, which takes the link as it finds it;      *)
(* link_status starts as 0.                                                *)
Init ==
  /\ pc = "loop"
  /\ LocalTime = 0
  /\ pending = FALSE
  /\ phy \in BOOLEAN
  /\ link_up = phy
  /\ link_status = FALSE
  /\ agreed = ~phy
  /\ timer = [t \in Timers |-> 0]
  /\ since = [t \in Timers |-> 0]
  /\ timingdelay = 0
  /\ left = 0
  /\ wraps = FALSE

(* Sum and difference of two uint32_t.                                     *)
Plus(a, b) == IF a + b < Word THEN a + b ELSE a + b - Word
Minus(a, b) == IF a >= b THEN a - b ELSE a - b + Word

time_update(t) == Plus(t, 1)

-----------------------------------------------------------------------------
(* delay() and execute_command_wait.                                       *)

delay(n) ==
  /\ pc = "loop"
  /\ pc' = "delay"
  /\ timingdelay' = Plus(LocalTime, n)
  /\ left' = n
  /\ wraps' = (LocalTime + n >= Word)
  /\ UNCHANGED <<LocalTime, pending, timer, since, linkVars>>

(* Mutant of DelayOver: `>=' in the loop of delay().                       *)
DelayOver_one_more == LocalTime > timingdelay

DelayOver == LocalTime >= timingdelay

DelayReturns ==
  /\ pc = "delay"
  /\ DelayOver
  /\ pc' = "loop"
  /\ timingdelay' = 0
  /\ left' = 0
  /\ wraps' = FALSE
  /\ UNCHANGED <<LocalTime, pending, timer, since, linkVars>>

(* ad9910_execute_parallel: interrupts are disabled for as long as it      *)
(* plays; when they are enabled, a pending SysTick is served at once.      *)
PlayStarts ==
  /\ pc = "loop"
  /\ pc' = "play"
  /\ UNCHANGED <<LocalTime, pending, timer, since, delayVars, linkVars>>

PlayReturns ==
  /\ pc = "play"
  /\ pc' = "loop"
  /\ pending' = FALSE
  /\ LocalTime' = IF pending THEN time_update(LocalTime) ELSE LocalTime
  /\ UNCHANGED <<timer, since, delayVars, linkVars>>

-----------------------------------------------------------------------------
(* A millisecond passes: SysTick_Handler counts it, or is pending.  The    *)
(* loop in delay() looks at LocalTime many times per millisecond.          *)
Tick ==
  /\ pc = "delay" => ~DelayOver
  /\ IF pc = "play"
     THEN pending' = TRUE /\ UNCHANGED LocalTime
     ELSE LocalTime' = time_update(LocalTime) /\ UNCHANGED pending
  /\ left' = IF left > 0 THEN left - 1 ELSE 0
  /\ since' = [t \in Timers |-> IF since[t] < Interval[t] THEN since[t] + 1
                                                         ELSE since[t]]
  /\ UNCHANGED <<pc, timingdelay, wraps, timer, linkVars>>

(* The cable is plugged in or out.                                         *)
Cable ==
  /\ phy' = ~phy
  /\ UNCHANGED <<pc, LocalTime, pending, timer, since, delayVars, link_status,
                 link_up, agreed>>

(* Mutants of Due: the end of the interval, which may be past the largest  *)
(* value, is compared; and it is compared modulo 2^32.                     *)
Due_no_wrap(t) == LocalTime >= timer[t] + Interval[t]

Due_deadline(t) == LocalTime >= Plus(timer[t], Interval[t])

(* localtime - timer >= interval, in uint32_t.                             *)
Due(t) == Minus(LocalTime, timer[t]) >= Interval[t]

(* Mutant of LinkFlag: the interface is not taken down.                    *)
LinkFlag_up_only == link_up' = (link_up \/ phy)

(* netif_set_link_up and netif_set_link_down, which call                   *)
(* ethernet_link_callback: the interface is up exactly while the link is.  *)
LinkFlag == link_up' = phy

(* lwip_periodic_handle, called by ethernet_next_packet; a change of the   *)
(* link reaches the interface only if link_status changes.                 *)
lwip_periodic_handle ==
  /\ pc = "loop"
  /\ timer' = [t \in Timers |-> IF Due(t) THEN LocalTime ELSE timer[t]]
  /\ since' = [t \in Timers |-> IF Due(t) THEN 0 ELSE since[t]]
  /\ \/ /\ Due(LinkTimer)
        /\ link_status /= phy
        /\ link_status' = phy
        /\ LinkFlag
        /\ agreed' = TRUE
     \/ /\ ~Due(LinkTimer) \/ link_status = phy
        /\ UNCHANGED <<link_status, link_up, agreed>>
  /\ UNCHANGED <<pc, LocalTime, pending, delayVars, phy>>

Next ==
  \/ \E n \in Delays : delay(n)
  \/ DelayReturns
  \/ PlayStarts
  \/ PlayReturns
  \/ Tick
  \/ Cable
  \/ lwip_periodic_handle

Spec == Init /\ [][Next]_vars

(* Time passes whatever runs, a wait sees that it is over, a play is       *)
(* finite, and the main loop calls lwip_periodic_handle many times per     *)
(* millisecond whenever it is not in a command.                            *)
Fairness ==
  /\ SF_vars(Tick)
  /\ WF_vars(DelayReturns)
  /\ WF_vars(PlayReturns)
  /\ \A t \in Timers : SF_vars(Due(t) /\ lwip_periodic_handle)

FairSpec == Spec /\ Fairness

-----------------------------------------------------------------------------
(* delay() returns after the milliseconds it was asked for, not earlier    *)
(* and not later, if LocalTime + nCount is not past the largest value.     *)
WaitExact == pc = "delay" /\ ~wraps => (DelayOver <=> left = 0)

(* No timer of lwip_periodic_handle runs before its interval is over,      *)
(* across the wrap of LocalTime, waits, and plays that stop the clock.     *)
TimerNotEarly == \A t \in Timers : Due(t) => since[t] = Interval[t]

(* A wait ends: the device comes back to its clients, also when the        *)
(* deadline is past the largest value of LocalTime.                        *)
WaitReturns == pc = "delay" ~> pc = "loop"

(* Every timer runs again and again, whatever is executed in between, if   *)
(* no wait is longer than Word minus its interval.                         *)
TimersRun == \A t \in Timers : []<>(since[t] = 0)

(* A link that stays as it is is known to the interface in the end, once   *)
(* lwip_periodic_handle and lwip_init have agreed about it.                *)
LinkFollows ==
  \A up \in BOOLEAN : <>[](phy = up) /\ <>agreed => <>[](link_up = up)
=============================================================================
