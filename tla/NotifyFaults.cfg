\* Every kind of message, every failure of a channel, a crash.
CONSTANTS
  e1 = e1  e2 = e2  e3 = e3  c1 = c1  d1 = d1  d2 = d2
  Events = {e1, e2, e3}
  Kind <- OneOfEachKind
  Consumers = {c1}
  BatchMax = 2
  NoEvent = NoEvent
  Devices = {d1}
  None = None
  MaxCrashes = 1
SPECIFICATION NotifyFairSpec
INVARIANT EveryChannelTried
INVARIANT LoggedIsSent
PROPERTY DeletedOnlyAfterHandled
PROPERTY AtLeastOnce
