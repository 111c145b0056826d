SPECIFICATION Spec
CONSTANTS
  Own = {o1}
  Made = {m1}
  Ids = {o1, m1}
  Targets = {t1, t2, t3}
  Nobody = Nobody
  MaxConversations = 2
  MaxTargets = 2
  MaxEvents = 1
  MaxCursor = 2
  MaxInstances = 1
  MaxAttempts = 1
  MaxClicks = 4
CHECK_DEADLOCK FALSE
INVARIANT TasksRecoverTheirOwn
