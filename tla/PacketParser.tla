----------------------------- MODULE PacketParser -----------------------------
(***************************************************************************)
(* internal/connectip/packet: Parse, the walk over IPv6 extension headers  *)
(* and IsTCPOrUDPDestinationPort, on a buffer of len bytes.                *)
(*                                                                         *)
(* The walk moves forward only, so every byte of a header is read once and *)
(* its value is chosen when it is read.  A step of the walk is one         *)
(* iteration of the loop.  touched is one more than the highest index read *)
(* so far: Go panics when it exceeds len, and both goroutines that parse   *)
(* packets would take the whole server down.                               *)
(***************************************************************************)
EXTENDS Integers

CONSTANTS
  Lengths,       \* buffer lengths
  LengthBytes,   \* values of an extension header's length byte
  Totals,        \* values of IPv4's total length
  Nibbles,       \* values of IPv4's header length nibble
  MaxIPv6ExtensionHeaders,
  MaxIPv6ExtensionBytes    \* room for one extension header at least

ASSUME ParserConstants ==
  /\ Lengths \subseteq Nat
  /\ LengthBytes \subseteq Nat
  /\ Totals \subseteq Nat
  /\ Nibbles \subseteq Nat
  /\ MaxIPv6ExtensionHeaders \in Nat
  /\ MaxIPv6ExtensionBytes \in Nat /\ MaxIPv6ExtensionBytes >= 8

\* Protocol numbers: hop-by-hop, routing and destination options share a
\* format, authentication and fragment headers have their own.
Options == {0, 43, 60}
Authentication == 51
Fragment == 44
Ports == {6, 17}
NoNextHeader == 59
Protocols ==
  Options \cup {Authentication, Fragment, NoNextHeader} \cup Ports

VARIABLES
  len,         \* len(b)
  phase,       \* "start", "walking", "parsed", "refused" or "matched"
  version,     \* Info.Version, 0 before the first byte is read
  offset,      \* offset of the header that comes next
  next,        \* its type
  headers,     \* iterations of the loop
  fragmented,  \* Info.Fragmented
  first,       \* Info.FirstFragment
  total,       \* declared end of the packet
  transport,   \* Info.TransportOffset
  touched,     \* bytes of the buffer that the code relies on
  later        \* history: a fragment offset other than zero was read

vars == <<len, phase, version, offset, next, headers, fragmented, first,
          total, transport, touched, later>>

Init ==
  /\ len \in Lengths
  /\ phase = "start"
  /\ version = 0
  /\ offset = 0
  /\ next = NoNextHeader
  /\ headers = 0
  /\ fragmented = FALSE
  /\ first = TRUE
  /\ total = 0
  /\ transport = 0
  /\ touched = 0
  /\ later = FALSE

\* Parse fails after reading the first n bytes at most.
RefuseAfter(n) ==
  /\ phase' = "refused"
  /\ touched' = n
  /\ UNCHANGED <<len, version, offset, next, headers, fragmented, first, total,
                 transport, later>>

-----------------------------------------------------------------------------
(* Parse and IPv4                                                          *)

\* The buffer is empty or its first byte names no known version.
RefuseVersion ==
  /\ phase = "start"
  /\ RefuseAfter(IF len = 0 THEN 0 ELSE 1)

\* valid, for a header of ihl bytes in a packet that declares n bytes.
Valid(ihl, n) == len >= 20 /\ ihl \in 20..len /\ n \in ihl..len

RefuseIPv4 ==
  /\ phase = "start"
  /\ len > 0
  /\ \E nibble \in Nibbles, n \in Totals : ~Valid(4 * nibble, n)
  /\ RefuseAfter(IF len < 20 THEN 1 ELSE 4)

\* Mutant of TransportIPv4: the offset of a later fragment is not reset.
TransportIPv4Always(ihl, isFirst) == ihl

\* The transport offset of an IPv4 packet is the end of its header in every
\* first fragment: the condition on protocol and length that follows in the
\* code assigns the value a second time.
TransportIPv4(ihl, isFirst) == IF isFirst THEN ihl ELSE 0

ParseIPv4 ==
  /\ phase = "start"
  /\ \E nibble \in Nibbles, n \in Totals, protocol \in Protocols,
        isFirst, moreFragments \in BOOLEAN :
       /\ Valid(4 * nibble, n)
       /\ offset' = 4 * nibble
       /\ total' = n
       /\ next' = protocol
       /\ first' = isFirst
       /\ fragmented' = (moreFragments \/ ~isFirst)
       /\ transport' = TransportIPv4(4 * nibble, isFirst)
       /\ later' = ~isFirst
  /\ version' = 4
  /\ touched' = 20
  /\ phase' = "parsed"
  /\ UNCHANGED <<len, headers>>

-----------------------------------------------------------------------------
(* IPv6                                                                    *)

\* The fixed header is incomplete, or the payload length is zero or is not
\* the rest of the buffer.
RefuseIPv6 ==
  /\ phase = "start"
  /\ len > 0
  /\ RefuseAfter(IF len < 40 THEN 1 ELSE 6)

StartIPv6 ==
  /\ phase = "start"
  /\ len \in 41..(40 + 65535)
  /\ phase' = "walking"
  /\ version' = 6
  /\ offset' = 40
  /\ next' \in Protocols
  /\ total' = len
  /\ touched' = 40
  /\ UNCHANGED <<len, headers, fragmented, first, transport, later>>

\* Mutant of InWalk: the loop runs once more.
InWalkOnceMore == phase = "walking" /\ headers <= MaxIPv6ExtensionHeaders

InWalk == phase = "walking" /\ headers < MaxIPv6ExtensionHeaders

\* Size of the header at offset given its length byte.
HeaderSize(byte) ==
  IF next = Authentication THEN (byte + 2) * 4 ELSE (byte + 1) * 8

\* The header ends within the packet and within the bound on extensions.
HeaderFits(size) ==
  /\ offset + size <= total
  /\ offset + size - 40 <= MaxIPv6ExtensionBytes

\* The result of the walk; offset and protocol are as they are now.
Conclude(off, protocol, isFirst) ==
  /\ phase' = "parsed"
  /\ transport' = IF isFirst /\ protocol \in Ports /\ off + 4 <= total
                  THEN off ELSE 0

\* One iteration over options or an authentication header.
WalkExtension ==
  /\ InWalk
  /\ next \in Options \cup {Authentication}
  /\ offset + 2 <= total
  /\ \E byte \in LengthBytes :
       /\ HeaderFits(HeaderSize(byte))
       /\ offset' = offset + HeaderSize(byte)
  /\ next' \in Protocols
  /\ touched' = offset + 2
  /\ headers' = headers + 1
  /\ UNCHANGED <<len, phase, version, fragmented, first, total, transport,
                 later>>

RefuseExtension ==
  /\ InWalk
  /\ next \in Options \cup {Authentication}
  /\ \/ offset + 2 > total /\ RefuseAfter(touched)
     \/ /\ offset + 2 <= total
        /\ \E byte \in LengthBytes : ~HeaderFits(HeaderSize(byte))
        /\ RefuseAfter(offset + 2)

FragmentFits == offset + 8 <= total

\* One iteration over a fragment header: the walk ends at a later fragment,
\* whose payload does not begin with a header.
WalkFragment ==
  /\ InWalk
  /\ next = Fragment
  /\ FragmentFits
  /\ \E isZero \in BOOLEAN, protocol \in Protocols :
       /\ first' = (first /\ isZero)
       /\ later' = (later \/ ~isZero)
       /\ next' = protocol
       /\ IF first /\ isZero
          THEN UNCHANGED <<phase, transport>>
          ELSE Conclude(offset + 8, protocol, FALSE)
  /\ fragmented' = TRUE
  /\ offset' = offset + 8
  /\ touched' = offset + 4
  /\ headers' = headers + 1
  /\ UNCHANGED <<len, version, total>>

RefuseFragment ==
  /\ InWalk
  /\ next = Fragment
  /\ ~FragmentFits
  /\ RefuseAfter(touched)

\* Any other type ends the walk.
WalkEnd ==
  /\ InWalk
  /\ next \notin Options \cup {Authentication, Fragment}
  /\ Conclude(offset, next, first)
  /\ UNCHANGED <<len, version, offset, next, headers, fragmented, first, total,
                 touched, later>>

\* The loop is over before the end of the chain.
RefuseChain ==
  /\ phase = "walking"
  /\ headers = MaxIPv6ExtensionHeaders
  /\ RefuseAfter(touched)

-----------------------------------------------------------------------------
(* IsTCPOrUDPDestinationPort                                               *)

\* Mutant of PortIsThere: the length of the buffer is not checked.
PortIsAssumed == transport # 0

PortIsThere == transport # 0 /\ len >= transport + 4

\* The port is read and compares equal.
MatchPort ==
  /\ phase = "parsed"
  /\ next \in Ports
  /\ PortIsThere
  /\ phase' = "matched"
  /\ touched' = transport + 4
  /\ UNCHANGED <<len, version, offset, next, headers, fragmented, first, total,
                 transport, later>>

\* Parse has returned and nothing asks for a port, or it is not found.
Returned == phase \in {"parsed", "refused", "matched"} /\ UNCHANGED vars

Next ==
  \/ RefuseVersion \/ RefuseIPv4 \/ ParseIPv4 \/ RefuseIPv6 \/ StartIPv6
  \/ WalkExtension \/ RefuseExtension \/ WalkFragment \/ RefuseFragment
  \/ WalkEnd \/ RefuseChain \/ MatchPort \/ Returned

Spec == Init /\ [][Next]_vars

-----------------------------------------------------------------------------
TypeOK ==
  /\ len \in Lengths
  /\ phase \in {"start", "walking", "parsed", "refused", "matched"}
  /\ version \in {0, 4, 6}
  /\ offset \in Nat
  /\ next \in Protocols
  /\ headers \in 0..MaxIPv6ExtensionHeaders
  /\ fragmented \in BOOLEAN
  /\ first \in BOOLEAN
  /\ total \in Nat
  /\ transport \in Nat
  /\ touched \in Nat
  /\ later \in BOOLEAN

\* No buffer makes the parser or the port check index past its end, however
\* its headers are chained and whatever their length bytes say.
BytesExist == touched <= len

\* A packet that any of its fragment headers marks as a later fragment is
\* reported as one and has no transport header, even if another fragment
\* header says the opposite.
LaterFragmentIsOpaque ==
  phase \in {"parsed", "matched"} /\ later =>
    fragmented /\ ~first /\ transport = 0

\* The transport offset of an IPv6 packet points at the ports of a TCP or UDP
\* header that lies inside the packet.  The longest chain before it is one
\* extension header up to the byte limit, and fragment headers for the
\* iterations that this one and the end of the chain leave over.
TransportIPv6IsSound ==
  phase \in {"parsed", "matched"} /\ version = 6 /\ transport # 0 =>
    /\ next \in Ports
    /\ transport + 4 <= total
    /\ transport - 40 <= MaxIPv6ExtensionBytes + 8 * (MaxIPv6ExtensionHeaders - 2)

\* TransportOffset is zero when no trustworthy TCP or UDP header is available
\* (the comment on Info).
TransportIsTrustworthy ==
  phase = "parsed" /\ transport # 0 =>
    next \in Ports /\ transport + 4 <= total

\* The port check only matches a complete, first-fragment transport header
\* (its comment): the bytes it compares belong to the packet.
PortBelongsToPacket == phase = "matched" => first /\ transport + 4 <= total

=============================================================================
