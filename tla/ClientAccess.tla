----------------------------- MODULE ClientAccess -----------------------------
(***************************************************************************)
(* Which clients a configuration lets in, what they are told and what they *)
(* may send: Validate (config.go), the TLS check, handleRequest up to the  *)
(* session and prepareSessionPacket (main.go), on top of the client list   *)
(* of ClientConfig.                                                        *)
(*                                                                         *)
(* A key string stands for a point of the curve, and a point has several   *)
(* strings: base64.StdEncoding ignores line breaks and the spare bits of   *)
(* the last character.  The strings that the program writes are canonical. *)
(* How sessions take over and end is ConnectIPServer; here a session is    *)
(* there or not.                                                           *)
(***************************************************************************)
EXTENDS ClientConfig

CONSTANTS
  Point,       \* P-256 points
  PointOf,     \* [Key -> Point]
  Canonical,   \* [Point -> Key], as PublicKeyBytes writes it
  Foreign,     \* the key of a certificate that is not a P-256 one
  Conn,        \* QUIC connections, of one request each
  Controllers, \* values of quic.congestion_controller
  NoPacket

ASSUME PointAssumption ==
  /\ PointOf \in [Key -> Point]
  /\ Canonical \in [Point -> Key]
  /\ \A p \in Point : PointOf[Canonical[p]] = p
  /\ Foreign \notin Point

VARIABLES
  controller,  \* quic.congestion_controller
  advertise,   \* server.advertise_ipv6_default_route
  usable,      \* the server's IPv6 prefix is usable for public egress
  checked,     \* the file itself is "unchecked", "valid" or "invalid"
  cert,        \* key of each connection's certificate
  stage,       \* of each connection and its request
  tunnel,      \* connections whose tunnel is open
  announced,   \* default routes announced to each connection
  packet       \* the packet last written to the TUN device

fileVars == <<controller, advertise, usable>>
connVars == <<cert, stage, tunnel, announced>>
accessVars == <<vars, fileVars, checked, connVars, packet>>

AccessInit ==
  /\ Init
  /\ controller \in Controllers
  /\ advertise \in BOOLEAN
  /\ usable \in BOOLEAN
  /\ checked = "unchecked"
  /\ cert = [c \in Conn |-> Foreign]
  /\ stage = [c \in Conn |-> "new"]
  /\ tunnel = {}
  /\ announced = [c \in Conn |-> {}]
  /\ packet = NoPacket

-----------------------------------------------------------------------------
(* Load and Validate                                                       *)

\* Load replaces an empty value before Validate sees it.
Loaded == IF controller = "" THEN "cubic" ELSE controller

KnownController == Loaded \in {"default", "cubic", "bbr"}

\* Mutant of EgressOK: any IPv6 prefix will do.
EgressAny == advertise => Server6 # NoAddr

EgressOK == advertise => Server6 # NoAddr /\ usable

ValidateFile ==
  /\ checked = "unchecked"
  /\ checked' = IF KnownController /\ EgressOK THEN "valid" ELSE "invalid"
  /\ UNCHANGED <<vars, fileVars, connVars, packet>>

\* ResolvedClients goes on.
ResolveClients ==
  /\ checked = "valid"
  /\ Next
  /\ UNCHANGED <<fileVars, checked, connVars, packet>>

\* The program ends with an error.
ConfigRefused == checked = "invalid" /\ UNCHANGED accessVars

Serving == checked = "valid" /\ result = "ok"

-----------------------------------------------------------------------------
(* The connection                                                          *)

\* PublicKeyBytes: the empty string, which no client may have, for a foreign
\* certificate.
PublicKeyBytes(key) == IF key \in Point THEN Canonical[key] ELSE BadKey

Authorised(key) == HasKey(PublicKeyBytes(key)) # {}

VerifyConnection(key) == Authorised(key)

\* configureCongestionControl knows the value.
Supported == Loaded \in {"", "default", "cubic", "bbr"}

\* A client connects with some certificate.
Connect(c) ==
  /\ Serving
  /\ stage[c] = "new"
  /\ \E key \in Point \cup {Foreign} :
       /\ cert' = [cert EXCEPT ![c] = key]
       /\ stage' = [stage EXCEPT ![c] =
                      IF ~VerifyConnection(key) THEN "refused"
                      ELSE IF Supported THEN "connected" ELSE "dropped"]
  /\ UNCHANGED <<vars, fileVars, checked, tunnel, announced, packet>>

-----------------------------------------------------------------------------
(* handleRequest                                                           *)

ClientOf(c) == ByKey(PublicKeyBytes(cert[c]))

RequestGoes(c, from, to) ==
  /\ stage[c] = from
  /\ stage' = [stage EXCEPT ![c] = to]
  /\ UNCHANGED <<vars, fileVars, checked, cert, packet>>

\* The protocol, before the certificate is looked at, or the authority, the
\* request or Proxy itself behind it: the handler answers with an error.
RejectRequest(c) ==
  /\ \E from \in {"connected", "authorised"} : RequestGoes(c, from, "answered")
  /\ UNCHANGED <<tunnel, announced>>

\* The handler's own look at the certificate.
CheckCertificate(c) ==
  /\ RequestGoes(c, "connected",
       IF Authorised(cert[c]) THEN "authorised" ELSE "unauthorised")
  /\ UNCHANGED <<tunnel, announced>>

Proxy(c) ==
  /\ RequestGoes(c, "authorised", "proxied")
  /\ tunnel' = tunnel \cup {c}
  /\ UNCHANGED announced

AssignAddresses(c) ==
  /\ RequestGoes(c, "proxied", "assigned")
  /\ UNCHANGED <<tunnel, announced>>

\* connectIPRoutes
Routes(client) ==
  (IF client.v4 # NoAddr THEN {"v4"} ELSE {})
    \cup (IF client.v6 # NoAddr /\ advertise THEN {"v6"} ELSE {})

AdvertiseRoute(c) ==
  /\ RequestGoes(c, "assigned", "advertised")
  /\ announced' = [announced EXCEPT ![c] = Routes(ClientOf(c))]
  /\ UNCHANGED tunnel

\* Mutant of CapsuleFails: the tunnel is left open.
CapsuleFailsOpen(c) ==
  /\ RequestGoes(c, "proxied", "answered") \/ RequestGoes(c, "assigned", "answered")
  /\ UNCHANGED <<tunnel, announced>>

\* AssignAddresses or AdvertiseRoute fails.
CapsuleFails(c) ==
  /\ RequestGoes(c, "proxied", "answered") \/ RequestGoes(c, "assigned", "answered")
  /\ tunnel' = tunnel \ {c}
  /\ UNCHANGED announced

\* Replace refuses the session, which is closed with its tunnel.  In the server
\* this does not happen (RegistrationNeverFails of ConnectIPServer).
ReplaceFails(c) ==
  /\ RequestGoes(c, "advertised", "answered")
  /\ tunnel' = tunnel \ {c}
  /\ UNCHANGED announced

\* The session is registered and its reader started.
StartSession(c) ==
  /\ RequestGoes(c, "advertised", "session")
  /\ UNCHANGED <<tunnel, announced>>

\* The session ends and has been closed.
EndSession(c) ==
  /\ RequestGoes(c, "session", "answered")
  /\ tunnel' = tunnel \ {c}
  /\ UNCHANGED announced

-----------------------------------------------------------------------------
(* prepareSessionPacket                                                    *)

\* Mutant of ContainsPrefix: the prefix of one family only.
ContainsIPv4(ip) == ip \in Network \cap Addr4

\* The destination lies inside the server's tunnel prefixes.
ContainsPrefix(ip) == ip \in Network

\* The reader accepts a packet of the client and writes it to the device.
ForwardPacket(c, src, dst) ==
  /\ stage[c] = "session"
  /\ src \in Addresses(ClientOf(c))
  /\ ~ContainsPrefix(dst)
  /\ packet' = [from |-> c, src |-> src, dst |-> dst]
  /\ UNCHANGED <<vars, fileVars, checked, connVars>>

-----------------------------------------------------------------------------
HandleRequest(c) ==
  \/ RejectRequest(c) \/ CheckCertificate(c) \/ Proxy(c)
  \/ AssignAddresses(c) \/ AdvertiseRoute(c) \/ CapsuleFails(c)
  \/ ReplaceFails(c) \/ StartSession(c) \/ EndSession(c)

AccessNext ==
  \/ ValidateFile \/ ResolveClients \/ ConfigRefused
  \/ \E c \in Conn :
       \/ Connect(c) \/ HandleRequest(c)
       \/ \E src, dst \in Address : ForwardPacket(c, src, dst)

AccessSpec == AccessInit /\ [][AccessNext]_accessVars

-----------------------------------------------------------------------------
(* Properties                                                              *)

AccessTypeOK ==
  /\ TypeOK
  /\ controller \in Controllers
  /\ advertise \in BOOLEAN
  /\ usable \in BOOLEAN
  /\ checked \in {"unchecked", "valid", "invalid"}
  /\ cert \in [Conn -> Point \cup {Foreign}]
  /\ stage \in [Conn -> {"new", "refused", "dropped", "connected", "answered",
                         "authorised", "unauthorised", "proxied", "assigned",
                         "advertised", "session"}]
  /\ tunnel \in SUBSET Conn
  /\ announced \in [Conn -> SUBSET {"v4", "v6"}]
  /\ packet \in [from : Conn, src : Address, dst : Address] \cup {NoPacket}

\* Only the holder of a configured key gets a tunnel, whatever its
\* certificate is; a foreign one, whose key string is empty, never does.
AccessByCertificate ==
  \A c \in tunnel :
    cert[c] \in Point /\ \E i \in DOMAIN out : PointOf[out[i].key] = cert[c]

\* No later check refuses what an earlier one has let pass, though each has a
\* list of its own: the handler computes and looks up the key again after the
\* TLS check, and the connection has to know the controller that Validate
\* took.
HandshakeDecides == \A c \in Conn : stage[c] \notin {"unauthorised", "dropped"}

\* A packet that a client gets onto the tunnel interface carries an address
\* that is configured for the client's own key, and no client is its
\* destination: there is no way from client to client, because what
\* ResolvedClients allows as addresses lies inside what the reader drops.
ClientsIsolated ==
  packet # NoPacket =>
    /\ \E i \in DOMAIN out :
         /\ PointOf[out[i].key] = cert[packet.from]
         /\ packet.src \in Addresses(out[i])
    /\ \A i \in DOMAIN out : packet.dst \notin Addresses(out[i])

\* An IPv6 default route is announced only to clients with an IPv6 address
\* and only by servers whose own prefix may have public egress.
RoutesHaveEgress ==
  \A c \in Conn : "v6" \in announced[c] =>
    Server6 # NoAddr /\ usable /\ ClientOf(c).v6 # NoAddr

\* A request that is over has left no tunnel open.
NoTunnelLeft ==
  \A c \in tunnel : stage[c] \in {"proxied", "assigned", "advertised", "session"}

\* "public key assigned to multiple tunnel IPs" is an error of config.go: no
\* two entries of an accepted configuration are of one key.
PointsAreDistinct ==
  result = "ok" =>
    \A i, j \in DOMAIN out : PointOf[out[i].key] = PointOf[out[j].key] => i = j

=============================================================================
