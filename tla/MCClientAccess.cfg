CONSTANTS
  k1 = k1
  k1x = k1x
  k2 = k2
  p1 = p1
  p2 = p2
  srv4 = srv4
  c4 = c4
  out4 = out4
  srv6 = srv6
  c6 = c6
  n1 = n1
  n2 = n2
  Key <- MCKey
  BadKey = BadKey
  Addr4 <- MCAddr4
  Addr6 <- MCAddr6
  NoAddr = NoAddr
  Malformed = Malformed
  Server4 = srv4
  Server6 = srv6
  Network <- MCNetwork
  MaxClients = 2
  Point <- MCPoint
  PointOf <- MCPointOf
  Canonical <- MCCanonical
  Foreign = Foreign
  Conn <- MCConn
  Controllers <- MCControllers
  NoPacket = NoPacket
SYMMETRY Symmetric
SPECIFICATION AccessSpec
INVARIANTS
  AddressesAreDisjoint
  LookupsAgree
  RefusalHasCause
  AccessByCertificate
  ClientsIsolated
  RoutesHaveEgress
  NoTunnelLeft
