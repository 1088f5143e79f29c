SPECIFICATION FairSpec
CONSTANTS
  Clients = {c1}
  Publishers = {"chat", "stream elements"}
  Events = {e1}
  NoEvent = NoEvent
  Ping = Ping
  NoClient = NoClient
  EventCap = 1
  StreamCap = 1
  MaxPublished = 2
  TwitchServices = {TwitchChat}
  Twitch = {"chat"}
  LenMod = 8
  BufSize = 4
  Lengths = {1, 3, 4, 5, 7, 8, 9, 11, 16, 19}
INVARIANTS
  StopMissesOnlyLate
  PipeReadBack
PROPERTIES
  StuckIsForever
  StopReturns
CHECK_DEADLOCK FALSE
