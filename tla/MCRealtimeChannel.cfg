SPECIFICATION Spec
CONSTANTS
  Handlers = {bell, badges}
  Streams = {s1, s2}
  NoStream = NoStream
  NoCount = NoCount
  MaxCount = 2
  MaxFailures = 2
  MaxSent = 2
INVARIANTS
  TypeOK
  ClosedWithoutSubscribers
  SingleConnection
  StaysConnected
PROPERTIES
  ShowsCountInTheEnd
