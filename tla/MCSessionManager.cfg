CONSTANTS
  a = a
  b = b
  a1 = a1
  a2 = a2
  a3 = a3
  b1 = b1
  p4 = p4
  q4 = q4
  p6 = p6
  q6 = q6
  NoSession = NoSession
  Free = Free
  MaxSessions = 0
  Session <- MCSession
  Identity <- MCIdentity
  Addr4 <- MCAddr4
  Addr6 <- MCAddr6
  IdentityOf <- MCIdentityOf
  ClientIPs <- MCClientIPs
SYMMETRY SameClient
SPECIFICATION Spec
INVARIANTS
  AtomicRegistration
  LiveSessionReachable
  ClosedIsUnmapped
  NoStaleOwner
  RestIsSettled
PROPERTIES
  TakeoverWithinIdentity
  ImplementsRegistry
