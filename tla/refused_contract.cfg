SPECIFICATION Spec
CONSTANTS
  Staff = {s1}
  Phones = {p1}
  Contracts = {c1}
  NoOne = NoOne
  Leavers = {}
  MaxStamps = 3

INVARIANT RefusedContractStaysRefused
CHECK_DEADLOCK FALSE
