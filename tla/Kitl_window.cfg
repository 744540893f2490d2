SPECIFICATION Spec
CONSTANTS
  s1 = s1
  s2 = s2
  r1 = r1
  Senders = {s1, s2}
  Readers = {r1}
  WindowSize = 2
  SeqNums = 256
  Modes = {TRUE, FALSE}
  First = 254
  Messages = 3
  LinkCap = 2
  Faults = 1
SYMMETRY Alike
INVARIANTS
  TypeOK
  FramesHaveTimers
  TimersBounded
  SenderIsWoken
PROPERTIES
  ImplementsChannel
