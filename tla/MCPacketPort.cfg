CONSTANTS
  Lengths <- MCLengths
  LengthBytes <- MCLengthBytes
  Totals <- MCTotals
  Nibbles <- MCNibbles
  MaxIPv6ExtensionHeaders = 8
  MaxIPv6ExtensionBytes = 256
SPECIFICATION Spec
INVARIANTS
  PortBelongsToPacket
