SPECIFICATION ClientSpec
CONSTANTS
  Addresses = {ip1}
  Users = {u1}
  NoUser = NoUser
  AddressPrice = 1
  AddressBurst = 2
  AccountPrice = 2
  AccountBurst = 1
  Threshold = 1
  MaxAge = 2
  Horizon = 6
  Logins = {l1, l2}
  Changes = {c1, c2}
  Tokens = {t1, t2, t3, t4}
  Passwords = {old, new}
  NoToken = NoToken
  NoLogin = NoLogin
  MaxRaces = 1
  MaxActive = 3
  Registrations = {r1, r2, r3}
  Names = {n1, n2, n3}
  Invites = {i1}
  NoInvite = NoInvite
  OneWriter = TRUE
  Requests = {q1, q2, q3}
  Limits = {1, 2}
  Turns = {1, 2}
  LastDay = 2
  MaxErrors = 1
  Chats = {chat1, chat2}
  Messages = {m1, m2}
  None = None
  MaxDeltas = 1
  MaxPolls = 2
INVARIANT SingleSession
INVARIANT ChangesSerialised
INVARIANT AdminsAccountedFor
INVARIANT DailyBudgetKept
PROPERTY VerifiedLoginsGetSession
PROPERTY EvictionInvisible
PROPERTY OthersGoOn
PROPERTY StoppedTextKept
PROPERTY PageMovesOn
CHECK_DEADLOCK FALSE
