SPECIFICATION LimitSpec
CONSTANTS
  Addresses = {ip1}
  Users = {u1}
  NoUser = NoUser
  AddressPrice = 1
  AddressBurst = 2
  AccountPrice = 2
  AccountBurst = 1
  Threshold = 1
  MaxAge = 2
  Horizon = 6
INVARIANT AttemptsAnswered
CHECK_DEADLOCK FALSE
