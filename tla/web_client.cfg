SPECIFICATION FairSpec
CONSTANTS
  Own = {o1, o2}
  Made = {m1}
  Ids = {o1, o2, m1}
  Targets = {t1, t2, t3}
  Nobody = Nobody
  MaxConversations = 2
  MaxTargets = 2
  MaxEvents = 2
  MaxCursor = 3
  MaxInstances = 2
  MaxAttempts = 1
  MaxClicks = 3
CHECK_DEADLOCK FALSE
INVARIANTS ChannelConsistent EventsShownOnce
PROPERTIES TaskMessagesReachTask CatchesUp
