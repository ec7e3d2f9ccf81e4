CONSTANTS
  Sessions = {s1, s2}
  NoSession = none
  Tasks = {t1, t2}
  Minor = {}
  Calls = {c1, c2}
  Window = 0
  Batch = 1
  Interval = 2
  Overflow = 1
  Keep = 0
  LoadLimit = 3
  QueueSize = 2
  MaxEvents = 2
  MaxBus = 4
  Facts = {f1, f2}
  Absorbing = {f1}
  Writes = {w1}
  Old = old
  None = none
  Budget = 1
  Chats = {s3, s4}
  Events = {e1}
  MaxDreams = 2
  MaxMinutes = 1
SPECIFICATION Spec
INVARIANTS
  ConversationTypeOK
  NoTurnForgotten
  MemoryOfActiveSession
  HeadsAgree
  ParentsInSession
  IndicatorTells
  LeaksOnlyStripped
  NoFactLost
  PurgedIsGone
  DreamKept
CHECK_DEADLOCK FALSE
SYMMETRY Sym
