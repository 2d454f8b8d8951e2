SPECIFICATION LiveSpec
CONSTANTS
  Sessions = {x1}
  Streams = {r1}
  NoStream = NoStream
  MaxDeltas = 2
  MaxFaults = 0
  MaxCrashes = 0
  Chats = {c1}
  ChatStreams = {s1, s2}
  MaxTurns = 2
  ChatDeltas = 1
  ChatFaults = 2
  ChatCrashes = 1
PROPERTY TurnsSettle
PROPERTY ExploredRequestsEnd
PROPERTY SessionsSettle
