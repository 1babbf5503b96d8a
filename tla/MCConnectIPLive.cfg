CONSTANTS
  a = a
  b = b
  a1 = a1
  a2 = a2
  b1 = b1
  p4 = p4
  p6 = p6
  q4 = q4
  NoSession = NoSession
  NoAddress = NoAddress
  Free = Free
  MaxSessions = 1
  Session <- PairSession
  Identity <- PairIdentity
  Addr4 <- PairAddr4
  Addr6 <- PairAddr6
  IdentityOf <- PairIdentityOf
  ClientIPs <- PairClientIPs
SPECIFICATION LiveServerSpec
INVARIANTS
  SnapshotIsClosed
PROPERTIES
  ServerUsesManager
  ReplacedReaderAcceptsNothing
  DispatcherAdvances
  ReaderEnds
  StopLeadsToExit
