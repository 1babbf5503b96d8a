CONSTANTS
  a = a
  b = b
  a1 = a1
  a2 = a2
  b1 = b1
  p4 = p4
  p6 = p6
  q4 = q4
  NoSession = NoSession
  NoAddress = NoAddress
  Free = Free
  MaxSessions = 2
  Session <- MCSession
  Identity <- MCIdentity
  Addr4 <- MCAddr4
  Addr6 <- MCAddr6
  IdentityOf <- MCIdentityOf
  ClientIPs <- MCClientIPs
SYMMETRY Symmetric
CONSTRAINT TakeoverBesideBystander
SPECIFICATION ServerSpec
INVARIANTS
  RegistrationNeverFails
  DeliveryWithinIdentity
