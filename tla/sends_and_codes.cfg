SPECIFICATION PartsSpec
CONSTANTS
  Staff = {s1}
  Phones = {p1, p2}
  Contracts = {c1}
  NoOne = NoOne
  Leavers = {}
  MaxStamps = 3
  Records = {p1, p2}
  MaxFailed = 2
  LockTime = 1
  MaxRows = 6
  MaxSends = 2
  MaxTime = 1
  Makers = {p1, p2}
  MaxStore = 2
  MaxKeys = 7
SYMMETRY Alike
CONSTRAINT PapersBound
INVARIANTS
  OneLiveInvitation
  LiveLinkMatchesContract
  OfferedWasSent
  UndoneConsistently
  ReceivedCodeWorks
  RowsAndFiles
  PapersTellWhatWasAgreed
PROPERTIES
  StatusFollowsTable
  ImplementsInvitationLink
  ImplementsThrottle
CHECK_DEADLOCK FALSE
