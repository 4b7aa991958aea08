SPECIFICATION FairSpec
CONSTANTS
  Word = 8
  Timers <- MCTimers
  Interval <- MCInterval
  LinkTimer = "link_timer"
  Delays = {1, 5}
INVARIANTS WaitExact TimerNotEarly
PROPERTIES WaitReturns TimersRun LinkFollows
