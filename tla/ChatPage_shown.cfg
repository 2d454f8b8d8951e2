SPECIFICATION PageSpec
CONSTANTS
  Chats = {chat1, chat2}
  Messages = {m1, m2}
  None = None
  MaxDeltas = 1
  MaxPolls = 2
INVARIANT InFlightIsShown
