SPECIFICATION FairSpec
CONSTANTS
  m1 = m1
  m2 = m2
  m3 = m3
  office = office
  chat = chat
  thread = thread
  page = page
  Msgs = {m1, m2, m3}
  Ignored = {m3}
  Parts <- MCParts
  Convs = {office, chat, thread, page}
  ConvOf <- MCConvOf
  Sessions = {s1}
  Home <- MCHome
  Manager = pm
  ManagerHome = office
  Control = chat
  Capacity = 1
  MaxFaults = 2
  MaxLives = 2
CHECK_DEADLOCK FALSE
INVARIANTS ExecutedOnce AckedIsTaken RepliesReachSession
PROPERTIES EveryTextIsTaken
