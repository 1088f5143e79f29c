SPECIFICATION FairSpec
CONSTANTS
  Clients = {c1, c2}
  Publishers = {p1}
  Events = {e1, e2}
  NoEvent = NoEvent
  Ping = Ping
  NoClient = NoClient
  EventCap = 1
  StreamCap = 1
  MaxPublished = 2
INVARIANTS
  TypeOK
  RegistrationAgrees
  Conserved
  InOrderNoGap
PROPERTIES
  WedgeIsForever
  ImplementsFanOut
  DeliveredUnlessWedged
  RunReturnsUnlessWedged
CHECK_DEADLOCK FALSE
