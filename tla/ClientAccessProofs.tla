-------------------------- MODULE ClientAccessProofs --------------------------
(***************************************************************************)
(* Who gets a tunnel and what may come out of it, for any number of        *)
(* clients, keys, addresses and connections.                               *)
(*                                                                         *)
(* The checks lie far apart: some are made when the file is read, some at  *)
(* the handshake, some by the handler and some by the session reader.      *)
(* AccessInv carries the result of each to the place that relies on it.    *)
(***************************************************************************)
EXTENDS ClientAccess, ClientConfigProofs, SessionConstants

\* Positions of a request behind the handshake.
Behind == {"connected", "authorised", "answered", "proxied", "assigned",
           "advertised", "session"}

\* Nobody gets anywhere before the configuration is accepted, and what the
\* checks of the file establish is true from then on.
ServesAccepted ==
  /\ checked = "valid" => KnownController /\ EgressOK
  /\ \A c \in Conn : stage[c] # "new" => Serving

\* A connection behind the handshake has a key of the configuration.
AuthorisedBehind ==
  \A c \in Conn : stage[c] \in Behind => Authorised(cert[c])

\* What has been said to a connection follows from its entry.
AnnouncedIsRoutes ==
  \A c \in Conn : announced[c] # {} =>
    stage[c] \in Behind /\ announced[c] \subseteq Routes(ClientOf(c))

\* The packet on the interface came out of an authorised session.
PacketIsChecked ==
  packet # NoPacket =>
    /\ packet.from \in Conn /\ stage[packet.from] \in Behind
    /\ packet.src \in Addresses(ClientOf(packet.from))
    /\ packet.dst \in Address /\ ~ContainsPrefix(packet.dst)

ConnTypes ==
  /\ cert \in [Conn -> Point \cup {Foreign}]
  /\ stage \in [Conn -> Behind \cup {"new", "refused"}]
  /\ tunnel \in SUBSET Conn
  /\ announced \in [Conn -> SUBSET {"v4", "v6"}]

AccessInv ==
  /\ ResolveInv
  /\ ConnTypes
  /\ ServesAccepted
  /\ AuthorisedBehind
  /\ NoTunnelLeft
  /\ AnnouncedIsRoutes
  /\ PacketIsChecked

-----------------------------------------------------------------------------
\* The list of clients is resolved as in ClientConfig, whatever else happens.
LEMMA StepResolves == [AccessNext]_accessVars => [Next]_vars
<1> SUFFICES ASSUME [AccessNext]_accessVars PROVE [Next]_vars
  OBVIOUS
<1>1. ASSUME NEW c \in Conn, Connect(c) \/ HandleRequest(c)
      PROVE  UNCHANGED vars
  BY <1>1 DEF Connect, HandleRequest, RejectRequest, CheckCertificate, Proxy,
              AssignAddresses, AdvertiseRoute, CapsuleFails, ReplaceFails, StartSession,
              EndSession, RequestGoes
<1>2. ASSUME NEW c \in Conn, NEW src, NEW dst, ForwardPacket(c, src, dst)
      PROVE  UNCHANGED vars
  BY <1>2 DEF ForwardPacket
<1>3. ValidateFile \/ ConfigRefused \/ UNCHANGED accessVars => UNCHANGED vars
  BY DEF ValidateFile, ConfigRefused, accessVars
<1>4. ResolveClients => Next
  BY DEF ResolveClients
<1> QED  BY <1>1, <1>2, <1>3, <1>4 DEF AccessNext

\* Once the server serves, its configuration stays what it is.
LEMMA ServingIsStable ==
  ASSUME Serving, [AccessNext]_accessVars
  PROVE  UNCHANGED <<vars, fileVars, checked>>
<1>1. checked = "valid" /\ result = "ok"
  BY DEF Serving
<1>2. [Next]_vars => UNCHANGED vars
  BY <1>1 DEF Next, RefuseConfig, ResolveClient, RefuseClient, Resolving,
              Finish, Done, vars
<1>3. UNCHANGED vars
  BY <1>2, StepResolves
<1>4. ASSUME NEW c \in Conn, Connect(c) \/ HandleRequest(c)
      PROVE  UNCHANGED <<fileVars, checked>>
  BY <1>4 DEF Connect, HandleRequest, RejectRequest, CheckCertificate, Proxy,
              AssignAddresses, AdvertiseRoute, CapsuleFails, ReplaceFails, StartSession,
              EndSession, RequestGoes
<1>5. ASSUME NEW c \in Conn, NEW src, NEW dst, ForwardPacket(c, src, dst)
      PROVE  UNCHANGED <<fileVars, checked>>
  BY <1>5 DEF ForwardPacket
<1>6. ~ValidateFile
  BY <1>1 DEF ValidateFile
<1>7. ResolveClients \/ ConfigRefused \/ UNCHANGED accessVars
        => UNCHANGED <<fileVars, checked>>
  BY DEF ResolveClients, ConfigRefused, accessVars
<1> QED  BY <1>3, <1>4, <1>5, <1>6, <1>7 DEF AccessNext

\* Before the server serves there is no connection to speak of.
LEMMA QuietStep ==
  ASSUME AccessInv, ~Serving, ResolveInv', UNCHANGED <<connVars, packet>>,
         checked' = "valid" => KnownController' /\ EgressOK'
  PROVE  AccessInv'
<1>1. \A c \in Conn : stage[c] = "new"
  BY DEF AccessInv, ServesAccepted
<1>2. \A c \in Conn : stage'[c] = "new"
  BY <1>1 DEF connVars
<1>3. ConnTypes' /\ NoTunnelLeft'
  BY DEF AccessInv, ConnTypes, NoTunnelLeft, connVars
<1>4. ServesAccepted' /\ AuthorisedBehind'
  BY <1>2 DEF ServesAccepted, AuthorisedBehind, Behind
<1>5. \A c \in Conn : announced'[c] = {}
  BY <1>1 DEF AccessInv, AnnouncedIsRoutes, Behind, connVars
<1>6. packet' = NoPacket
  BY <1>1 DEF AccessInv, PacketIsChecked, Behind
<1> QED  BY <1>3, <1>4, <1>5, <1>6
         DEF AccessInv, AnnouncedIsRoutes, PacketIsChecked

\* While the server serves, an entry is found by its key as before.
LEMMA LookupsStay ==
  ASSUME UNCHANGED <<vars, fileVars, checked>>
  PROVE  /\ Serving' = Serving
         /\ KnownController' = KnownController /\ EgressOK' = EgressOK
         /\ \A k : Authorised(k)' = Authorised(k)
         /\ \A c \in Conn : cert'[c] = cert[c] => ClientOf(c)' = ClientOf(c)
         /\ \A client : Routes(client)' = Routes(client)
BY DEF vars, fileVars, Serving, KnownController, Loaded, EgressOK, Authorised,
       HasKey, ClientOf, ByKey, Routes

\* The handshake lets connections in that have a key of the configuration.
LEMMA ConnectPreserves ==
  ASSUME AccessInv, NEW c \in Conn, Connect(c)
  PROVE  AccessInv'
<1>1. /\ Serving /\ stage[c] = "new"
      /\ UNCHANGED <<vars, fileVars, checked, tunnel, announced, packet>>
  BY DEF Connect
<1>2. PICK key \in Point \cup {Foreign} :
        /\ cert' = [cert EXCEPT ![c] = key]
        /\ stage' = [stage EXCEPT ![c] =
                       IF ~VerifyConnection(key) THEN "refused"
                       ELSE IF Supported THEN "connected" ELSE "dropped"]
  BY DEF Connect
<1>3. ConnTypes
  BY DEF AccessInv
<1>4. Supported
  BY <1>1 DEF AccessInv, ServesAccepted, Serving, KnownController, Supported
<1>5. \A d \in Conn : d # c => stage'[d] = stage[d] /\ cert'[d] = cert[d]
  BY <1>2, <1>3 DEF ConnTypes
<1>6. /\ cert'[c] = key
      /\ stage'[c] = IF VerifyConnection(key) THEN "connected" ELSE "refused"
  BY <1>2, <1>3, <1>4 DEF ConnTypes
<1>7. ConnTypes'
  BY <1>1, <1>2, <1>3, <1>4 DEF ConnTypes, Behind
<1>8. ResolveInv'
  BY <1>1, NextResolveInv DEF AccessInv
<1>9. ServesAccepted'
  BY <1>1, LookupsStay DEF AccessInv, ServesAccepted
<1>10. AuthorisedBehind'
  <2> SUFFICES ASSUME NEW d \in Conn, stage'[d] \in Behind
               PROVE  Authorised(cert[d])'
    BY DEF AuthorisedBehind
  <2>1. CASE d = c
    <3>1. Authorised(key)
      BY <1>6, <2>1 DEF VerifyConnection, Behind
    <3> QED  BY <1>1, <1>6, <2>1, <3>1 DEF Authorised, HasKey, vars
  <2>2. CASE d # c
    <3>1. Authorised(cert[d])
      BY <1>5, <2>2 DEF AccessInv, AuthorisedBehind
    <3> QED  BY <1>1, <1>5, <2>2, <3>1 DEF Authorised, HasKey, vars
  <2> QED  BY <2>1, <2>2
<1>11. NoTunnelLeft'
  BY <1>1, <1>3, <1>5 DEF AccessInv, NoTunnelLeft, ConnTypes
<1>12. announced[c] = {} /\ (packet # NoPacket => packet.from # c)
  BY <1>1 DEF AccessInv, AnnouncedIsRoutes, PacketIsChecked, Behind
<1>13. AnnouncedIsRoutes'
  BY <1>1, <1>5, <1>12, LookupsStay DEF AccessInv, AnnouncedIsRoutes
<1>14. PacketIsChecked'
  BY <1>1, <1>5, <1>12, LookupsStay
     DEF AccessInv, PacketIsChecked, Addresses, ContainsPrefix
<1> QED  BY <1>7, <1>8, <1>9, <1>10, <1>11, <1>13, <1>14 DEF AccessInv

\* Where a request may be before and after a step of its handler.
LEMMA HandlerMoves ==
  ASSUME AccessInv, NEW c \in Conn, HandleRequest(c)
  PROVE  /\ stage[c] \in Behind
         /\ UNCHANGED <<vars, fileVars, checked, cert, packet>>
         /\ \E to \in Behind :
              /\ stage' = [stage EXCEPT ![c] = to]
              /\ \/ tunnel' = tunnel \ {c}
                 \/ /\ tunnel' \in {tunnel, tunnel \cup {c}}
                    /\ to \in {"proxied", "assigned", "advertised", "session"}
                 \/ tunnel' = tunnel /\ stage[c] \in {"connected", "authorised"}
         /\ announced' \in {announced,
                            [announced EXCEPT ![c] = Routes(ClientOf(c))]}
<1> USE DEF RequestGoes, Behind
<1>1. CASE RejectRequest(c)
  BY <1>1 DEF RejectRequest
<1>2. CASE CheckCertificate(c)
  BY <1>2 DEF CheckCertificate, AccessInv, AuthorisedBehind
<1>3. CASE Proxy(c)
  BY <1>3 DEF Proxy
<1>4. CASE AssignAddresses(c)
  BY <1>4 DEF AssignAddresses
<1>5. CASE AdvertiseRoute(c)
  BY <1>5 DEF AdvertiseRoute
<1>6. CASE CapsuleFails(c)
  BY <1>6 DEF CapsuleFails
<1>7. CASE StartSession(c)
  BY <1>7 DEF StartSession
<1>8. CASE EndSession(c)
  BY <1>8 DEF EndSession
<1>9. CASE ReplaceFails(c)
  BY <1>9 DEF ReplaceFails
<1> QED  BY <1>1, <1>2, <1>3, <1>4, <1>5, <1>6, <1>7, <1>8, <1>9 DEF HandleRequest

\* The handler goes on with the entry that the certificate names, and leaves no
\* tunnel behind.
LEMMA HandlePreserves ==
  ASSUME AccessInv, NEW c \in Conn, HandleRequest(c)
  PROVE  AccessInv'
<1>1. /\ stage[c] \in Behind
      /\ UNCHANGED <<vars, fileVars, checked, cert, packet>>
      /\ announced' \in {announced,
                         [announced EXCEPT ![c] = Routes(ClientOf(c))]}
  BY HandlerMoves
<1>2. PICK to \in Behind :
        /\ stage' = [stage EXCEPT ![c] = to]
        /\ \/ tunnel' = tunnel \ {c}
           \/ /\ tunnel' \in {tunnel, tunnel \cup {c}}
              /\ to \in {"proxied", "assigned", "advertised", "session"}
           \/ tunnel' = tunnel /\ stage[c] \in {"connected", "authorised"}
  BY HandlerMoves
<1>3. ConnTypes
  BY DEF AccessInv
<1>4. /\ stage'[c] = to
      /\ \A d \in Conn : d # c => stage'[d] = stage[d]
      /\ \A d \in Conn : d # c => announced'[d] = announced[d]
      /\ announced'[c] \in {announced[c], Routes(ClientOf(c))}
  BY <1>1, <1>2, <1>3 DEF ConnTypes
<1>5. \A client : Routes(client) \subseteq {"v4", "v6"}
  BY DEF Routes
<1>6. ConnTypes'
  BY <1>1, <1>2, <1>3, <1>5 DEF ConnTypes
<1>7. ResolveInv'
  BY <1>1, NextResolveInv DEF AccessInv
<1>8. \A d \in Conn : stage'[d] # "new" => stage[d] # "new"
  BY <1>1, <1>4 DEF Behind
<1>9. ServesAccepted'
  BY <1>1, <1>8, LookupsStay DEF AccessInv, ServesAccepted
<1>10. \A d \in Conn : stage'[d] \in Behind => stage[d] \in Behind
  BY <1>1, <1>4
<1>11. AuthorisedBehind'
  BY <1>1, <1>10, LookupsStay
     DEF AccessInv, AuthorisedBehind, Authorised, HasKey, vars
<1>12. NoTunnelLeft'
  BY <1>2, <1>3, <1>4 DEF AccessInv, NoTunnelLeft, ConnTypes
<1>13. \A d \in Conn : stage[d] \in Behind => stage'[d] \in Behind
  BY <1>4
<1>14. \A d \in Conn : ClientOf(d)' = ClientOf(d)
  BY <1>1, LookupsStay
<1>15. AnnouncedIsRoutes'
  <2> SUFFICES ASSUME NEW d \in Conn, announced'[d] # {}
               PROVE  /\ stage'[d] \in Behind
                      /\ announced'[d] \subseteq Routes(ClientOf(d))'
    BY DEF AnnouncedIsRoutes
  <2>1. Routes(ClientOf(d))' = Routes(ClientOf(d))
    BY <1>1, <1>14 DEF Routes, fileVars
  <2>2. CASE announced'[d] = announced[d]
    BY <1>13, <2>1, <2>2 DEF AccessInv, AnnouncedIsRoutes
  <2>3. CASE d = c /\ announced'[c] = Routes(ClientOf(c))
    BY <1>4, <2>1, <2>3
  <2> QED  BY <1>4, <2>2, <2>3
<1>16. PacketIsChecked'
  BY <1>1, <1>13, <1>14
     DEF AccessInv, PacketIsChecked, Addresses, ContainsPrefix
<1> QED  BY <1>6, <1>7, <1>9, <1>11, <1>12, <1>15, <1>16 DEF AccessInv

\* At the start nobody is there.
LEMMA InitAccessInv == AccessInit => AccessInv
<1> SUFFICES ASSUME AccessInit PROVE AccessInv
  OBVIOUS
<1>1. ResolveInv
  BY InitResolveInv DEF AccessInit
<1>2. /\ ConnTypes /\ ServesAccepted /\ AuthorisedBehind /\ NoTunnelLeft
      /\ AnnouncedIsRoutes /\ PacketIsChecked
  BY DEF AccessInit, ConnTypes, ServesAccepted, AuthorisedBehind, NoTunnelLeft,
         AnnouncedIsRoutes, PacketIsChecked, Behind
<1> QED  BY <1>1, <1>2 DEF AccessInv

\* Every step of the configuration, a handshake, a handler or a reader
\* preserves the invariant.
LEMMA NextAccessInv == AccessInv /\ [AccessNext]_accessVars => AccessInv'
<1> SUFFICES ASSUME AccessInv, [AccessNext]_accessVars PROVE AccessInv'
  OBVIOUS
<1>1. ResolveInv'
  BY StepResolves, NextResolveInv DEF AccessInv
<1>2. CASE ValidateFile
  <2>1. ~Serving /\ UNCHANGED <<fileVars, connVars, packet>>
    BY <1>2 DEF ValidateFile, Serving
  <2>2. checked' = "valid" => KnownController /\ EgressOK
    BY <1>2 DEF ValidateFile
  <2>3. checked' = "valid" => KnownController' /\ EgressOK'
    BY <2>1, <2>2 DEF KnownController, Loaded, EgressOK, fileVars
  <2> QED  BY <1>1, <2>1, <2>3, QuietStep
<1>3. CASE ~ValidateFile /\ ~Serving
  <2>1. \A c \in Conn : stage[c] = "new"
    BY <1>3 DEF AccessInv, ServesAccepted
  <2>2. ASSUME NEW c \in Conn PROVE ~Connect(c) /\ ~HandleRequest(c)
    BY <1>3, <2>1, HandlerMoves DEF Connect, Behind
  <2>3. ASSUME NEW c \in Conn, NEW src, NEW dst PROVE ~ForwardPacket(c, src, dst)
    BY <2>1 DEF ForwardPacket
  <2>4. UNCHANGED <<fileVars, checked, connVars, packet>>
    BY <1>3, <2>2, <2>3
       DEF AccessNext, ResolveClients, ConfigRefused, accessVars
  <2>5. checked' = "valid" => KnownController' /\ EgressOK'
    BY <2>4 DEF AccessInv, ServesAccepted, KnownController, Loaded, EgressOK,
                fileVars
  <2> QED  BY <1>1, <1>3, <2>4, <2>5, QuietStep
<1>4. CASE Serving
  <2>1. UNCHANGED <<vars, fileVars, checked>>
    BY <1>4, ServingIsStable
  <2>2. ASSUME NEW c \in Conn, Connect(c) \/ HandleRequest(c) PROVE AccessInv'
    BY <2>2, ConnectPreserves, HandlePreserves
  <2>3. ASSUME UNCHANGED connVars, PacketIsChecked' PROVE AccessInv'
    <3>1. ConnTypes' /\ NoTunnelLeft'
      BY <2>3 DEF AccessInv, ConnTypes, NoTunnelLeft, connVars
    <3>2. ServesAccepted'
      BY <2>1, <2>3, LookupsStay DEF AccessInv, ServesAccepted, connVars
    <3>3. AuthorisedBehind'
      BY <2>1, <2>3
         DEF AccessInv, AuthorisedBehind, Authorised, HasKey, connVars, vars
    <3>4. AnnouncedIsRoutes'
      BY <2>1, <2>3
         DEF AccessInv, AnnouncedIsRoutes, Routes, ClientOf, ByKey, HasKey,
             connVars, vars, fileVars
    <3> QED  BY <1>1, <2>3, <3>1, <3>2, <3>3, <3>4 DEF AccessInv
  <2>4. ASSUME NEW c \in Conn, NEW src \in Address, NEW dst \in Address,
               ForwardPacket(c, src, dst)
        PROVE  AccessInv'
    <3>1. /\ stage[c] = "session" /\ src \in Addresses(ClientOf(c))
          /\ ~ContainsPrefix(dst)
          /\ packet' = [from |-> c, src |-> src, dst |-> dst]
          /\ UNCHANGED connVars
      BY <2>4 DEF ForwardPacket
    <3>2. stage' = stage /\ ClientOf(c)' = ClientOf(c)
      BY <2>1, <3>1, LookupsStay DEF connVars
    <3>3. PacketIsChecked'
      BY <3>1, <3>2 DEF PacketIsChecked, Behind, Addresses, ContainsPrefix
    <3> QED  BY <2>3, <3>1, <3>3
  <2>5. ASSUME UNCHANGED <<connVars, packet>> PROVE AccessInv'
    <3>1. PacketIsChecked'
      BY <2>1, <2>5
         DEF AccessInv, PacketIsChecked, ClientOf, ByKey, HasKey, Addresses,
             ContainsPrefix, connVars, vars
    <3> QED  BY <2>3, <2>5, <3>1
  <2>6. ~ValidateFile
    BY <1>4 DEF ValidateFile, Serving
  <2>7. ResolveClients \/ ConfigRefused \/ UNCHANGED accessVars
          => UNCHANGED <<connVars, packet>>
    BY DEF ResolveClients, ConfigRefused, accessVars
  <2> QED  BY <2>2, <2>4, <2>5, <2>6, <2>7 DEF AccessNext
<1> QED  BY <1>2, <1>3, <1>4

\* What each check has established is true wherever the program relies on it.
THEOREM AccessInvariance == AccessSpec => []AccessInv
BY InitAccessInv, NextAccessInv, PTL DEF AccessSpec

\* A server that is being used resolves its clients as ClientConfig does: what
\* is proved of an accepted list holds of the clients that are let in.
THEOREM AccessResolves == AccessSpec => Spec
<1>1. AccessInit => Init
  BY DEF AccessInit
<1> QED  BY <1>1, StepResolves, PTL DEF AccessSpec, Spec

\* The variables keep their types.
THEOREM AccessTypes == AccessSpec => []AccessTypeOK
<1> DEFINE FileTypes ==
      /\ controller \in Controllers /\ advertise \in BOOLEAN
      /\ usable \in BOOLEAN /\ checked \in {"unchecked", "valid", "invalid"}
      /\ packet \in [from : Conn, src : Address, dst : Address] \cup {NoPacket}
<1>1. AccessInit => FileTypes
  BY DEF AccessInit
<1>2. FileTypes /\ [AccessNext]_accessVars => FileTypes'
  <2> SUFFICES ASSUME FileTypes, [AccessNext]_accessVars PROVE FileTypes'
    OBVIOUS
  <2>1. ASSUME NEW c \in Conn, Connect(c) \/ HandleRequest(c) PROVE FileTypes'
    BY <2>1
       DEF Connect, HandleRequest, RejectRequest, CheckCertificate, Proxy,
           AssignAddresses, AdvertiseRoute, CapsuleFails, ReplaceFails, StartSession,
           EndSession, RequestGoes, fileVars
  <2>2. ASSUME NEW c \in Conn, NEW src \in Address, NEW dst \in Address,
               ForwardPacket(c, src, dst)
        PROVE  FileTypes'
    BY <2>2 DEF ForwardPacket, fileVars
  <2>3. CASE ValidateFile
    BY <2>3 DEF ValidateFile, fileVars
  <2>4. CASE ResolveClients \/ ConfigRefused \/ UNCHANGED accessVars
    BY <2>4 DEF ResolveClients, ConfigRefused, accessVars, fileVars
  <2> QED  BY <2>1, <2>2, <2>3, <2>4 DEF AccessNext
<1>3. AccessInv /\ TypeOK /\ FileTypes => AccessTypeOK
  BY DEF AccessInv, ConnTypes, AccessTypeOK, Behind
<1> HIDE DEF FileTypes
<1>4. AccessSpec => []FileTypes
  BY <1>1, <1>2, PTL DEF AccessSpec
<1> QED  BY <1>3, <1>4, AccessInvariance, AccessResolves, ConfigTypes, PTL

-----------------------------------------------------------------------------
\* An authorised certificate has a P-256 key, which some entry names: the empty
\* key string of any other certificate is refused in the configuration.
LEMMA AuthorisedHasEntry ==
  ASSUME ResolveInv, NEW key, Authorised(key)
  PROVE  \E i \in DOMAIN out :
           /\ key \in Point /\ PointOf[out[i].key] = key
           /\ ByKey(PublicKeyBytes(key)) = out[i]
<1> DEFINE k == PublicKeyBytes(key)
<1>1. PICK i \in DOMAIN out : out[i].key = k
  BY DEF Authorised, HasKey
<1>2. DOMAIN out = 1..Len(out) /\ Len(out) \in Nat
  BY OutDomain DEF ResolveInv, AcceptedPrefix
<1>3. out[i].key # BadKey
  BY <1>1, <1>2 DEF ResolveInv, AcceptedPrefix, WellFormed
<1>4. key \in Point /\ k = Canonical[key]
  BY <1>1, <1>3 DEF PublicKeyBytes
<1>5. PointOf[out[i].key] = key
  BY <1>1, <1>4, PointAssumption
<1>6. HasKey(k) = {i}
  BY <1>1, <1>2 DEF HasKey, ResolveInv, Distinct
<1> HIDE DEF k
<1>7. (CHOOSE m \in HasKey(k) : \A j \in HasKey(k) : j <= m) = i
  BY <1>2, <1>6
<1>8. ByKey(k) = out[i]
  BY <1>7 DEF ByKey
<1> QED  BY <1>4, <1>5, <1>8 DEF k

\* A tunnel belongs to the holder of a configured P-256 key.
THEOREM TunnelsAreAuthorised == AccessSpec => []AccessByCertificate
<1>1. ASSUME AccessInv, NEW c \in tunnel
      PROVE  cert[c] \in Point
             /\ \E i \in DOMAIN out : PointOf[out[i].key] = cert[c]
  <2>1. c \in Conn /\ stage[c] \in Behind
    BY <1>1 DEF AccessInv, ConnTypes, NoTunnelLeft, Behind
  <2>2. Authorised(cert[c])
    BY <1>1, <2>1 DEF AccessInv, AuthorisedBehind
  <2> QED  BY <1>1, <2>2, AuthorisedHasEntry DEF AccessInv
<1>2. AccessInv => AccessByCertificate
  BY <1>1 DEF AccessByCertificate
<1> QED  BY <1>2, AccessInvariance, PTL

\* Whoever gets through the handshake is authorised for the handler, too, and
\* has a connection with a congestion controller.
THEOREM HandshakeIsFinal == AccessSpec => []HandshakeDecides
<1>1. AccessInv => HandshakeDecides
  BY DEF AccessInv, ConnTypes, Behind, HandshakeDecides
<1> QED  BY <1>1, AccessInvariance, PTL

\* Only a request that is in progress has a tunnel.
THEOREM TunnelsAreClosed == AccessSpec => []NoTunnelLeft
<1>1. AccessInv => NoTunnelLeft
  BY DEF AccessInv
<1> QED  BY <1>1, AccessInvariance, PTL

\* The IPv6 default route is announced only where the server has a prefix for
\* public egress.
THEOREM EgressIsReal == AccessSpec => []RoutesHaveEgress
<1>1. ASSUME AccessInv, NEW c \in Conn, "v6" \in announced[c]
      PROVE  Server6 # NoAddr /\ usable /\ ClientOf(c).v6 # NoAddr
  <2>1. stage[c] \in Behind /\ "v6" \in Routes(ClientOf(c))
    BY <1>1 DEF AccessInv, AnnouncedIsRoutes
  <2>2. ClientOf(c).v6 # NoAddr /\ advertise
    BY <2>1 DEF Routes
  <2>3. EgressOK
    BY <1>1, <2>1 DEF AccessInv, ServesAccepted, Serving, Behind
  <2> QED  BY <2>2, <2>3 DEF EgressOK
<1>2. AccessInv => RoutesHaveEgress
  BY <1>1 DEF RoutesHaveEgress
<1> QED  BY <1>2, AccessInvariance, PTL

\* No packet goes from one client to another, and each bears an address of the
\* client that sent it.
THEOREM ClientsStayIsolated == AccessSpec => []ClientsIsolated
<1>1. ASSUME AccessInv, packet # NoPacket
      PROVE  /\ \E i \in DOMAIN out :
                  /\ PointOf[out[i].key] = cert[packet.from]
                  /\ packet.src \in Addresses(out[i])
             /\ \A i \in DOMAIN out : packet.dst \notin Addresses(out[i])
  <2>1. /\ packet.from \in Conn /\ stage[packet.from] \in Behind
        /\ packet.src \in Addresses(ClientOf(packet.from))
        /\ packet.dst \in Address /\ packet.dst \notin Network
    BY <1>1 DEF AccessInv, PacketIsChecked, ContainsPrefix
  <2>2. Authorised(cert[packet.from])
    BY <1>1, <2>1 DEF AccessInv, AuthorisedBehind
  <2>3. \E i \in DOMAIN out :
          /\ PointOf[out[i].key] = cert[packet.from]
          /\ packet.src \in Addresses(out[i])
    BY <1>1, <2>1, <2>2, AuthorisedHasEntry DEF AccessInv, ClientOf
  <2>4. \A i \in DOMAIN out : Addresses(out[i]) \subseteq Network
    BY <1>1, AcceptedAreInside DEF AccessInv, ClientsInsideNetwork
  <2> QED  BY <2>1, <2>3, <2>4
<1>2. AccessInv => ClientsIsolated
  BY <1>1 DEF ClientsIsolated
<1> QED  BY <1>2, AccessInvariance, PTL

-----------------------------------------------------------------------------
(* What the session manager is given                                       *)

\* A request whose connection is behind the handshake may have built a session
\* object: of the entry that byKey finds for its certificate, whose key is the
\* identity.
Sessions == {c \in Conn : stage[c] \in Behind}
SessionIdentity == [c \in Sessions |-> ClientOf(c).key]
SessionIPs == [c \in Sessions |-> Addresses(ClientOf(c))]

\* Whatever clients connect, the sessions they get are of the kind that
\* SessionManager and ConnectIPServer assume, and NewManager(len(clients)) has
\* the limit they assume.
GivesClientTable ==
  /\ AddressSets(Sessions, Addr4, SessionIPs)
  /\ ClientTable(Sessions, Identities, SessionIdentity, SessionIPs, Len(out))

\* The sessions of one connection after another see one client table: none of
\* them changes its identity or its addresses, and with the first of them the
\* list of clients is what it will be.
TableIsFixed ==
  [][Sessions # {} =>
       /\ Identities' = Identities /\ Len(out') = Len(out)
       /\ \A c \in Sessions :
            /\ c \in Sessions'
            /\ SessionIdentity'[c] = SessionIdentity[c]
            /\ SessionIPs'[c] = SessionIPs[c]
    ]_accessVars

\* The entry of a connection behind the handshake is an accepted one.
LEMMA EntryOfSession ==
  ASSUME AccessInv, NEW c \in Sessions
  PROVE  \E i \in DOMAIN out : ClientOf(c) = out[i]
<1>1. Authorised(cert[c])
  BY DEF Sessions, AccessInv, AuthorisedBehind
<1> QED  BY <1>1, AuthorisedHasEntry DEF AccessInv, ClientOf

\* An accepted entry has an address, and one of each family at most.
LEMMA EntryAddresses ==
  ASSUME ResolveInv, NEW i \in DOMAIN out
  PROVE  /\ Addresses(out[i]) # {}
         /\ \A a, b \in Addresses(out[i]) :
              (a \in Addr4 <=> b \in Addr4) => a = b
<1>1. out[i] \in Client /\ WellFormed(out[i])
  BY OutDomain DEF ResolveInv, AcceptedPrefix
<1>2. /\ out[i].v4 \in Addr4 \cup {NoAddr} /\ out[i].v6 \in Addr6 \cup {NoAddr}
      /\ Addresses(out[i]) # {}
  BY <1>1 DEF Client, WellFormed
<1> QED  BY <1>2, ConfigConstants DEF Addresses

\* ResolvedClients, the TLS check and handleRequest between them give the
\* manager what its theorems and the server's assume: ConfigAssumption and
\* AddressSetAssumption are no restriction of the program.
THEOREM ManagerGetsClientTable == AccessSpec => []GivesClientTable
<1>1. ASSUME AccessInv PROVE AddressSets(Sessions, Addr4, SessionIPs)
  <2> SUFFICES ASSUME NEW c \in Sessions
               PROVE  /\ SessionIPs[c] # {}
                      /\ \A a, b \in SessionIPs[c] :
                           (a \in Addr4 <=> b \in Addr4) => a = b
    BY DEF AddressSets
  <2>1. PICK i \in DOMAIN out : ClientOf(c) = out[i]
    BY <1>1, EntryOfSession
  <2>2. SessionIPs[c] = Addresses(out[i])
    BY <2>1 DEF SessionIPs
  <2> QED  BY <1>1, <2>2, EntryAddresses DEF AccessInv
<1>2. ASSUME AccessInv, EntriesAreIdentities
      PROVE  ClientTable(Sessions, Identities, SessionIdentity, SessionIPs, Len(out))
  <2>1. SessionIdentity \in [Sessions -> Identities]
    <3>1. ASSUME NEW c \in Sessions PROVE ClientOf(c).key \in Identities
      BY <1>2, EntryOfSession DEF Identities
    <3> QED  BY <3>1 DEF SessionIdentity
  <2>2. ASSUME NEW c \in Sessions, NEW d \in Sessions
        PROVE  IF SessionIdentity[c] = SessionIdentity[d]
               THEN SessionIPs[c] = SessionIPs[d]
               ELSE SessionIPs[c] \cap SessionIPs[d] = {}
    <3>1. PICK i \in DOMAIN out : ClientOf(c) = out[i]
      BY <1>2, EntryOfSession
    <3>2. PICK j \in DOMAIN out : ClientOf(d) = out[j]
      BY <1>2, EntryOfSession
    <3>3. /\ SessionIdentity[c] = out[i].key /\ SessionIPs[c] = Addresses(out[i])
          /\ SessionIdentity[d] = out[j].key /\ SessionIPs[d] = Addresses(out[j])
      BY <3>1, <3>2 DEF SessionIdentity, SessionIPs
    <3>4. i # j => /\ Addresses(out[i]) \cap Addresses(out[j]) = {}
                   /\ out[i].key # out[j].key
      BY <1>2, OutDomain DEF AccessInv, ResolveInv, Distinct
    <3> QED  BY <3>3, <3>4
  <2> QED  BY <1>2, <2>1, <2>2 DEF ClientTable, EntriesAreIdentities
<1>3. AccessInv /\ EntriesAreIdentities => GivesClientTable
  BY <1>1, <1>2 DEF GivesClientTable
<1> QED  BY <1>3, AccessInvariance, AccessResolves, LimitIsIdentities, PTL

\* From the first connection on nothing that the manager was given changes, so
\* that what ManagerGetsClientTable says of each state it says of the whole run.
THEOREM ClientTableIsFixed == AccessSpec => TableIsFixed
<1> DEFINE Fixed ==
      Sessions # {} =>
        /\ Identities' = Identities /\ Len(out') = Len(out)
        /\ \A c \in Sessions :
             /\ c \in Sessions'
             /\ SessionIdentity'[c] = SessionIdentity[c]
             /\ SessionIPs'[c] = SessionIPs[c]
<1>1. ASSUME AccessInv, [AccessNext]_accessVars, Sessions # {} PROVE Fixed
  <2>1. Serving
    BY <1>1 DEF Sessions, AccessInv, ServesAccepted, Behind
  <2>2. UNCHANGED <<vars, fileVars, checked>>
    BY <1>1, <2>1, ServingIsStable
  <2>3. out' = out
    BY <2>2 DEF vars
  <2>4. ASSUME NEW c \in Sessions
        PROVE  c \in Sessions' /\ cert'[c] = cert[c]
    <3>1. ConnTypes /\ c \in Conn /\ stage[c] \in Behind
      BY <1>1 DEF AccessInv, Sessions
    <3>2. ASSUME NEW d \in Conn, Connect(d)
          PROVE  stage'[c] = stage[c] /\ cert'[c] = cert[c]
      <4>1. d # c
        BY <3>1, <3>2 DEF Connect, Behind
      <4> QED  BY <3>1, <3>2, <4>1 DEF Connect, ConnTypes
    <3>3. ASSUME NEW d \in Conn, HandleRequest(d)
          PROVE  stage'[c] \in Behind /\ cert' = cert
      BY <1>1, <3>1, <3>3, HandlerMoves DEF ConnTypes
    <3>4. ASSUME NEW d \in Conn, NEW src, NEW dst, ForwardPacket(d, src, dst)
          PROVE  UNCHANGED connVars
      BY <3>4 DEF ForwardPacket
    <3>5. ValidateFile \/ ResolveClients \/ ConfigRefused \/ UNCHANGED accessVars
            => UNCHANGED connVars
      BY DEF ValidateFile, ResolveClients, ConfigRefused, accessVars
    <3>6. stage'[c] \in Behind /\ cert'[c] = cert[c]
      BY <1>1, <3>1, <3>2, <3>3, <3>4, <3>5 DEF AccessNext, connVars
    <3> QED  BY <3>1, <3>6 DEF Sessions
  <2>5. ASSUME NEW c \in Sessions
        PROVE  /\ SessionIdentity'[c] = SessionIdentity[c]
               /\ SessionIPs'[c] = SessionIPs[c]
    <3>1. c \in Conn /\ c \in Sessions'
      BY <2>4 DEF Sessions
    <3>2. ClientOf(c)' = ClientOf(c)
      BY <2>2, <2>4, <3>1, LookupsStay
    <3>3. SessionIdentity'[c] = ClientOf(c)'.key
          /\ SessionIPs'[c] = Addresses(ClientOf(c)')
      BY <3>1 DEF SessionIdentity, SessionIPs
    <3> QED  BY <3>2, <3>3 DEF SessionIdentity, SessionIPs
  <2> QED  BY <2>3, <2>4, <2>5 DEF Identities
<1>2. AccessInv /\ [AccessNext]_accessVars => [Fixed]_accessVars
  BY <1>1
<1> HIDE DEF Fixed
<1>3. AccessSpec => [][Fixed]_accessVars
  BY <1>2, AccessInvariance, PTL DEF AccessSpec
<1> QED  BY <1>3 DEF Fixed, TableIsFixed

=============================================================================
