SPECIFICATION Spec
CONSTANTS
  Staff = {s1, s2}
  Phones = {p1, p2}
  Contracts = {c1, c2}
  NoOne = NoOne
  Leavers = {s1, s2}
  MaxStamps = 3
SYMMETRY Interchangeable
CONSTRAINT PeopleBound
INVARIANTS
  OneInProgressPerPhone
  SigningIsPossible
  LeaverHoldsNothing
  OneEmployedRecord
  IInv
CHECK_DEADLOCK FALSE
