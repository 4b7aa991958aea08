------------------------------ MODULE MCClock ------------------------------
(* Bounds for Clock: two timers, and a LocalTime that wraps after a few    *)
(* milliseconds.                                                           *)
EXTENDS Clock

MCTimers == {"link_timer", "tcp_slow_timer"}
MCInterval == [t \in MCTimers |-> IF t = "link_timer" THEN 3 ELSE 2]
=============================================================================
