-------------------------- MODULE PacketParserProofs --------------------------
(***************************************************************************)
(* The packet parser never leaves its buffer and never reports a transport *)
(* header that is not there, for buffers of any length, any chain of       *)
(* headers and any values of the two limits.                               *)
(***************************************************************************)
EXTENDS PacketParser, TLAPS

\* Before the first byte is read nothing has been reported.
Fresh ==
  phase = "start" =>
    touched = 0 /\ transport = 0 /\ headers = 0 /\ first /\ ~later

\* The walk has crossed no later fragment.  Behind its first header the offset
\* is within the limit on extensions, and each further header takes it at most
\* eight bytes beyond.
WalkInv ==
  phase = "walking" =>
    /\ version = 6
    /\ total = len
    /\ transport = 0
    /\ first
    /\ ~later
    /\ headers = 0 => offset = 40
    /\ headers > 0 => offset - 40 <= MaxIPv6ExtensionBytes + 8 * (headers - 1)

IInv ==
  /\ TypeOK
  /\ Fresh
  /\ WalkInv
  /\ BytesExist
  /\ LaterFragmentIsOpaque
  /\ TransportIPv6IsSound

\* The constant sets of numbers that actions choose from are numbers.
LEMMA HeaderSizeIsPositive ==
  ASSUME NEW byte \in LengthBytes
  PROVE  HeaderSize(byte) \in Nat /\ HeaderSize(byte) >= 8
<1>1. byte \in Nat
  BY ParserConstants
<1> QED
  BY <1>1 DEF HeaderSize

\* A bound on extensions alone is a bound on the offset in the walk.
LEMMA OffsetBound ==
  ASSUME NEW off \in Nat, NEW m \in Nat, NEW h \in Nat \ {0}, off - 40 <= m
  PROVE  off - 40 <= m + 8 * (h - 1)
  OBVIOUS

\* The initial states satisfy the inductive invariant.
LEMMA InitIInv == Init => IInv
<1>1. MaxIPv6ExtensionHeaders \in Nat /\ MaxIPv6ExtensionBytes \in Nat
  BY ParserConstants
<1>2. NoNextHeader \in Protocols
  BY DEF Protocols
<1>3. ASSUME Init PROVE TypeOK /\ BytesExist
  <2>1. touched = 0 /\ len \in Lengths /\ len \in Nat
    BY <1>3, ParserConstants DEF Init
  <2>2. next \in Protocols
    BY <1>2, <1>3 DEF Init
  <2>3. headers = 0 /\ 0 \in 0..MaxIPv6ExtensionHeaders
    BY <1>1, <1>3 DEF Init
  <2>4. fragmented \in BOOLEAN /\ first \in BOOLEAN /\ later \in BOOLEAN
    BY <1>3, Zenon DEF Init
  <2>5. /\ phase \in {"start", "walking", "parsed", "refused", "matched"}
        /\ version \in {0, 4, 6}
        /\ offset \in Nat /\ total \in Nat /\ transport \in Nat
    BY <1>3 DEF Init
  <2> QED
    BY <2>1, <2>2, <2>3, <2>4, <2>5 DEF TypeOK, BytesExist
<1>4. ASSUME Init
      PROVE  Fresh /\ WalkInv /\ LaterFragmentIsOpaque /\ TransportIPv6IsSound
  BY <1>4 DEF Init, Fresh, WalkInv, LaterFragmentIsOpaque, TransportIPv6IsSound
<1> QED
  BY <1>3, <1>4 DEF IInv

\* A refusal reports nothing, so only the bytes it relies on matter.
LEMMA RefusalKeepsIInv ==
  ASSUME IInv, NEW n \in Nat, n <= len, RefuseAfter(n)
  PROVE  IInv'
  BY DEF IInv, RefuseAfter, TypeOK, Fresh, WalkInv, BytesExist,
         LaterFragmentIsOpaque, TransportIPv6IsSound

\* Every step preserves the inductive invariant.
LEMMA NextIInv == IInv /\ [Next]_vars => IInv'
<1> SUFFICES ASSUME IInv, [Next]_vars PROVE IInv'
  OBVIOUS
<1> USE DEF IInv
<1>0. /\ MaxIPv6ExtensionHeaders \in Nat /\ MaxIPv6ExtensionBytes \in Nat
      /\ MaxIPv6ExtensionBytes >= 8 /\ len \in Nat
  BY ParserConstants DEF TypeOK
<1>1. CASE RefuseVersion
  BY <1>0, <1>1, RefusalKeepsIInv DEF RefuseVersion
<1>2. CASE RefuseIPv4
  BY <1>0, <1>2, RefusalKeepsIInv DEF RefuseIPv4
<1>3. CASE RefuseIPv6
  BY <1>0, <1>3, RefusalKeepsIInv DEF RefuseIPv6
<1>4. CASE ParseIPv4
  <2>1. PICK nibble \in Nibbles, n \in Totals, protocol \in Protocols,
             isFirst \in BOOLEAN, moreFragments \in BOOLEAN :
          /\ Valid(4 * nibble, n)
          /\ offset' = 4 * nibble
          /\ total' = n
          /\ next' = protocol
          /\ first' = isFirst
          /\ fragmented' = (moreFragments \/ ~isFirst)
          /\ transport' = TransportIPv4(4 * nibble, isFirst)
          /\ later' = ~isFirst
    BY <1>4 DEF ParseIPv4
  <2>2. /\ version' = 4
        /\ touched' = 20
        /\ phase' = "parsed"
        /\ UNCHANGED <<len, headers>>
    BY <1>4 DEF ParseIPv4
  <2>3. nibble \in Nat /\ n \in Nat /\ 20 <= len
    BY <1>0, <2>1, ParserConstants DEF Valid
  <2>4. TypeOK'
    BY <1>0, <2>1, <2>2, <2>3 DEF TypeOK, TransportIPv4
  <2>5. LaterFragmentIsOpaque'
    BY <2>1, <2>2 DEF LaterFragmentIsOpaque, TransportIPv4
  <2> QED
    BY <1>0, <2>2, <2>3, <2>4, <2>5 DEF Fresh, WalkInv, BytesExist,
       TransportIPv6IsSound
<1>5. CASE StartIPv6
  BY <1>0, <1>5 DEF StartIPv6, TypeOK, Fresh, WalkInv, BytesExist,
     LaterFragmentIsOpaque, TransportIPv6IsSound
<1>6. CASE WalkExtension
  <2>1. PICK byte \in LengthBytes :
          HeaderFits(HeaderSize(byte)) /\ offset' = offset + HeaderSize(byte)
    BY <1>6 DEF WalkExtension
  <2>2. HeaderSize(byte) \in Nat /\ HeaderSize(byte) >= 8
    BY HeaderSizeIsPositive
  <2>3. /\ offset' - 40 <= MaxIPv6ExtensionBytes
        /\ offset' \in Nat
    BY <1>0, <2>1, <2>2 DEF HeaderFits, TypeOK
  <2>4. /\ phase = "walking" /\ headers < MaxIPv6ExtensionHeaders
        /\ offset + 2 <= total
        /\ next' \in Protocols
        /\ touched' = offset + 2
        /\ headers' = headers + 1
        /\ UNCHANGED <<len, phase, version, fragmented, first, total,
                       transport, later>>
    BY <1>6 DEF WalkExtension, InWalk
  <2>5. TypeOK'
    <3>1. headers' \in 0..MaxIPv6ExtensionHeaders /\ touched' \in Nat
      BY <1>0, <2>4 DEF TypeOK
    <3> QED
      BY <2>3, <2>4, <3>1 DEF TypeOK
  <2>6. WalkInv'
    <3>1. headers' > 0 /\ offset' - 40 <= MaxIPv6ExtensionBytes + 8 * (headers' - 1)
      <4>1. headers' \in Nat \ {0} /\ headers' > 0
        BY <1>0, <2>4 DEF TypeOK
      <4> QED
        BY <1>0, <2>3, <4>1, OffsetBound
    <3>2. version = 6 /\ total = len /\ transport = 0 /\ first /\ ~later
      BY <2>4 DEF WalkInv
    <3>3. /\ version' = version /\ total' = total /\ len' = len
          /\ transport' = transport /\ first' = first /\ later' = later
      BY <2>4
    <3>4. version' = 6 /\ total' = len' /\ transport' = 0
      BY <3>2, <3>3
    <3>5. first' /\ ~later'
      BY <3>2, <3>3, Zenon
    <3>6. headers' # 0
      BY <1>0, <2>4 DEF TypeOK
    <3> QED
      BY <3>1, <3>4, <3>5, <3>6, Zenon DEF WalkInv
  <2>7. BytesExist'
    BY <1>0, <2>4 DEF TypeOK, WalkInv, BytesExist
  <2> QED
    BY <2>4, <2>5, <2>6, <2>7 DEF Fresh, LaterFragmentIsOpaque,
       TransportIPv6IsSound
<1>7. CASE RefuseExtension
  <2>1. touched \in Nat /\ touched <= len /\ offset + 2 \in Nat
    BY DEF TypeOK, BytesExist
  <2>2. CASE RefuseAfter(touched)
    BY <2>1, <2>2, RefusalKeepsIInv
  <2>3. CASE offset + 2 <= total /\ RefuseAfter(offset + 2)
    <3>1. offset + 2 <= len
      BY <1>7, <2>3 DEF RefuseExtension, InWalk, WalkInv
    <3> QED
      BY <2>1, <2>3, <3>1, RefusalKeepsIInv
  <2> QED
    BY <1>7, <2>2, <2>3 DEF RefuseExtension
<1>8. CASE WalkFragment
  <2>1. PICK isZero \in BOOLEAN, protocol \in Protocols :
          /\ first' = (first /\ isZero)
          /\ later' = (later \/ ~isZero)
          /\ next' = protocol
          /\ IF first /\ isZero
             THEN UNCHANGED <<phase, transport>>
             ELSE Conclude(offset + 8, protocol, FALSE)
    BY <1>8 DEF WalkFragment
  <2>2. /\ phase = "walking" /\ headers < MaxIPv6ExtensionHeaders
        /\ offset + 8 <= total
        /\ fragmented' = TRUE
        /\ offset' = offset + 8
        /\ touched' = offset + 4
        /\ headers' = headers + 1
        /\ UNCHANGED <<len, version, total>>
    BY <1>8 DEF WalkFragment, InWalk, FragmentFits
  <2>3. CASE isZero
    <3>0. first /\ ~later
      BY <2>2 DEF WalkInv
    <3>1. /\ UNCHANGED <<phase, transport>>
          /\ first' = TRUE
          /\ later' = FALSE
          /\ next' \in Protocols
      BY <2>1, <2>3, <3>0, Zenon
    <3>2. TypeOK'
      <4>1. headers' \in 0..MaxIPv6ExtensionHeaders /\ touched' \in Nat
            /\ offset' \in Nat
        BY <1>0, <2>2 DEF TypeOK
      <4>2. first' \in BOOLEAN /\ later' \in BOOLEAN /\ fragmented' \in BOOLEAN
        BY <2>2, <3>1, Zenon
      <4> QED
        BY <2>2, <3>1, <4>1, <4>2 DEF TypeOK
    <3>3. WalkInv'
      <4>1. headers' # 0
            /\ offset' - 40 <= MaxIPv6ExtensionBytes + 8 * (headers' - 1)
        <5>1. headers \in Nat /\ offset \in Nat
          BY <1>0 DEF TypeOK
        <5>2. /\ headers = 0 => offset = 40
              /\ headers > 0 =>
                   offset - 40 <= MaxIPv6ExtensionBytes + 8 * (headers - 1)
          BY <2>2 DEF WalkInv
        <5> QED
          BY <1>0, <2>2, <5>1, <5>2
      <4>2. version = 6 /\ total = len /\ transport = 0
        BY <2>2 DEF WalkInv
      <4> QED
        BY <2>2, <3>1, <4>1, <4>2, Zenon DEF WalkInv
    <3>4. BytesExist'
      BY <1>0, <2>2 DEF TypeOK, WalkInv, BytesExist
    <3> QED
      BY <2>2, <3>1, <3>2, <3>3, <3>4 DEF Fresh, LaterFragmentIsOpaque,
         TransportIPv6IsSound
  <2>4. CASE ~isZero
    <3>1. phase' = "parsed" /\ transport' = 0
      BY <2>1, <2>4 DEF Conclude
    <3> QED
      BY <1>0, <2>1, <2>2, <2>4, <3>1 DEF TypeOK, Fresh, WalkInv, BytesExist,
         LaterFragmentIsOpaque, TransportIPv6IsSound
  <2> QED
    BY <2>3, <2>4
<1>9. CASE RefuseFragment
  BY <1>9, RefusalKeepsIInv DEF RefuseFragment, TypeOK, BytesExist
<1>10. CASE WalkEnd
  <2>1. /\ phase = "walking"
        /\ Conclude(offset, next, first)
        /\ UNCHANGED <<len, version, offset, next, headers, fragmented, first,
                       total, touched, later>>
    BY <1>10 DEF WalkEnd, InWalk
  <2>2. offset - 40 <= MaxIPv6ExtensionBytes + 8 * (MaxIPv6ExtensionHeaders - 2)
    <3>1. /\ headers \in Nat /\ offset \in Nat
          /\ headers < MaxIPv6ExtensionHeaders
      BY <1>0, <1>10 DEF TypeOK, WalkEnd, InWalk
    <3>2. /\ headers = 0 => offset = 40
          /\ headers > 0 =>
               offset - 40 <= MaxIPv6ExtensionBytes + 8 * (headers - 1)
      BY <2>1 DEF WalkInv
    <3> QED
      BY <1>0, <3>1, <3>2
  <2> QED
    BY <1>0, <2>1, <2>2 DEF Conclude, TypeOK, Fresh, WalkInv, BytesExist,
       LaterFragmentIsOpaque, TransportIPv6IsSound
<1>11. CASE RefuseChain
  BY <1>11, RefusalKeepsIInv DEF RefuseChain, TypeOK, BytesExist
<1>12. CASE MatchPort
  BY <1>12 DEF MatchPort, PortIsThere, TypeOK, Fresh, WalkInv, BytesExist,
     LaterFragmentIsOpaque, TransportIPv6IsSound
<1>13. CASE UNCHANGED vars
  BY <1>13 DEF vars, TypeOK, Fresh, WalkInv, BytesExist,
     LaterFragmentIsOpaque, TransportIPv6IsSound
<1> QED
  BY <1>1, <1>2, <1>3, <1>4, <1>5, <1>6, <1>7, <1>8, <1>9, <1>10, <1>11,
     <1>12, <1>13 DEF Next, Returned

\* The inductive invariant holds in every reachable state.
THEOREM ParserInvariance == Spec => []IInv
  BY InitIInv, NextIInv, PTL DEF Spec

\* Every local variable of the parser keeps its type; the count of extension
\* headers does not pass the limit.
THEOREM ParserTypes == Spec => []TypeOK
  BY ParserInvariance, PTL DEF IInv

\* No buffer makes the parser index past its end, so Go never panics there.
THEOREM ParserStaysInBuffer == Spec => []BytesExist
  BY ParserInvariance, PTL DEF IInv

\* Contradicting fragment headers never give a later fragment a transport
\* header.
THEOREM LaterFragmentsAreOpaque == Spec => []LaterFragmentIsOpaque
  BY ParserInvariance, PTL DEF IInv

\* An IPv6 transport offset points at ports that are in the packet, at most
\* as far from its start as the two limits allow.
THEOREM IPv6TransportIsSound == Spec => []TransportIPv6IsSound
  BY ParserInvariance, PTL DEF IInv

=============================================================================
