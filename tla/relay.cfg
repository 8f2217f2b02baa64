SPECIFICATION FairSpec
CONSTANTS
  t1 = t1
  t2 = t2
  s1 = s1
  s2 = s2
  Triggers = {t1, t2}
  Subs = {s1, s2}
  Leavers = {s1}
  Stallers = {s1}
  Capacity = 1
  NoOne = NoOne
INVARIANTS TypeOK NoEventLost PagesAgree
PROPERTIES RefinesBroadcast EventsArrive TriggerReturns HandlerEnds
CHECK_DEADLOCK FALSE
