SPECIFICATION PartsSpec
CONSTANTS
  Staff = {s1}
  Phones = {p1}
  Contracts = {c1}
  NoOne = NoOne
  Leavers = {s1}
  MaxStamps = 3
  Makers = {m1}
  MaxSends = 2
  MaxStore = 1
  MaxKeys = 6

PROPERTIES
  OffersEnd
  SignedGetsItsCopy
CHECK_DEADLOCK FALSE
