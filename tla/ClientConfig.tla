----------------------------- MODULE ClientConfig -----------------------------
(***************************************************************************)
(* internal/connectip/config: how ResolvedClients turns the client list of *)
(* the configuration file into the clients the server knows, one entry per *)
(* iteration of its loop, and how the server and mihomo-config then find a *)
(* client by its public key.                                               *)
(*                                                                         *)
(* An address is a model value; Network is the set of addresses inside the *)
(* server's tunnel prefixes.  Malformed stands for everything that         *)
(* optionalPrefix or the prefix length check refuses, BadKey for an empty  *)
(* key and for one that is not a P-256 point.                              *)
(***************************************************************************)
EXTENDS Naturals, Sequences, FiniteSets

CONSTANTS
  Key,            \* public key strings that decode to a point
  BadKey,         \* any other public key string
  Addr4, Addr6,   \* well-formed addresses by family
  NoAddr,         \* the field is left out
  Malformed,      \* the field cannot be used
  Server4,        \* the server's own IPv4 tunnel address or NoAddr
  Server6,        \* the server's own IPv6 tunnel address or NoAddr
  Network,        \* addresses inside the server's tunnel prefixes
  MaxClients      \* bound on the length of the client list

Address == Addr4 \cup Addr6

ASSUME ConfigConstants ==
  /\ BadKey \notin Key
  /\ Addr4 \cap Addr6 = {}
  /\ {NoAddr, Malformed} \cap Address = {}
  /\ NoAddr # Malformed
  /\ Server4 \in Addr4 \cup {NoAddr}
  /\ Server6 \in Addr6 \cup {NoAddr}
  /\ Network \subseteq Address
  /\ MaxClients \in Nat

Client == [key : Key \cup {BadKey},
           v4  : Addr4 \cup {NoAddr, Malformed},
           v6  : Addr6 \cup {NoAddr, Malformed}]

VARIABLES
  clients,     \* Config.Clients
  out,         \* the clients resolved so far
  seenIP,      \* addresses of the clients resolved so far
  seenKeyIP,   \* primary address by key, NoAddr for a key not seen
  result       \* "resolving", "ok" or "failed"

vars == <<clients, out, seenIP, seenKeyIP, result>>

-----------------------------------------------------------------------------
Addresses(c) == {c.v4, c.v6} \ {NoAddr}

\* The address a key is remembered by.
Primary(c) == IF c.v4 # NoAddr THEN c.v4 ELSE c.v6

\* The address can be given to a client: the server has a prefix of the
\* family, the address lies inside and is not the server's.
Assignable(ip, server) ==
  ip = NoAddr \/ (server # NoAddr /\ ip \in Network \ {server})

\* Mutant of WellFormed: the key is not looked at.
WellFormedAnyKey(c) ==
  /\ Malformed \notin {c.v4, c.v6}
  /\ Addresses(c) # {}
  /\ Assignable(c.v4, Server4)
  /\ Assignable(c.v6, Server6)

\* What the loop asks of an entry whatever came before it.
WellFormed(c) ==
  /\ Malformed \notin {c.v4, c.v6}
  /\ Addresses(c) # {}
  /\ Assignable(c.v4, Server4)
  /\ Assignable(c.v6, Server6)
  /\ c.key # BadKey

\* Mutant of DuplicateAddress: IPv6 addresses are not compared.
DuplicateIPv4(c) == c.v4 \in seenIP

\* Mutant of DuplicateAddress: a missing address counts as a duplicate.
DuplicateOrUnset(c) == {c.v4, c.v6} \cap (seenIP \cup {NoAddr}) # {}

\* What it asks given the entries before it.
DuplicateAddress(c) == Addresses(c) \cap seenIP # {}

\* Mutant of KeyElsewhere: keys are not compared.
KeyIgnored(c) == FALSE

KeyElsewhere(c) ==
  c.key \in Key /\ seenKeyIP[c.key] \notin {NoAddr, Primary(c)}

Init ==
  /\ clients \in UNION {[1..n -> Client] : n \in 0..MaxClients}
  /\ out = <<>>
  /\ seenIP = {}
  /\ seenKeyIP = [k \in Key |-> NoAddr]
  /\ result = "resolving"

\* The server has no tunnel address, or there is no client.
RefuseConfig ==
  /\ result = "resolving"
  /\ out = <<>>
  /\ (Server4 = NoAddr /\ Server6 = NoAddr) \/ clients = <<>>
  /\ result' = "failed"
  /\ UNCHANGED <<clients, out, seenIP, seenKeyIP>>

Resolving ==
  /\ result = "resolving"
  /\ Server4 # NoAddr \/ Server6 # NoAddr
  /\ Len(out) < Len(clients)

\* One iteration that appends the entry.
ResolveClient ==
  /\ Resolving
  /\ LET c == clients[Len(out) + 1]
     IN  /\ WellFormed(c)
         /\ ~DuplicateAddress(c)
         /\ ~KeyElsewhere(c)
         /\ out' = Append(out, c)
         /\ seenIP' = seenIP \cup Addresses(c)
         /\ seenKeyIP' = [seenKeyIP EXCEPT ![c.key] = Primary(c)]
  /\ UNCHANGED <<clients, result>>

\* One iteration that ends in an error.
RefuseClient ==
  /\ Resolving
  /\ LET c == clients[Len(out) + 1]
     IN  ~WellFormed(c) \/ DuplicateAddress(c) \/ KeyElsewhere(c)
  /\ result' = "failed"
  /\ UNCHANGED <<clients, out, seenIP, seenKeyIP>>

Finish ==
  /\ result = "resolving"
  /\ clients # <<>>
  /\ Len(out) = Len(clients)
  /\ result' = "ok"
  /\ UNCHANGED <<clients, out, seenIP, seenKeyIP>>

Done == result # "resolving" /\ UNCHANGED vars

Next == RefuseConfig \/ ResolveClient \/ RefuseClient \/ Finish \/ Done

Spec == Init /\ [][Next]_vars

-----------------------------------------------------------------------------
(* Finding a client by key                                                 *)

HasKey(k) == {i \in DOMAIN out : out[i].key = k}

\* byKey is filled in order, a later entry overwriting an earlier one.
ByKey(k) == out[CHOOSE i \in HasKey(k) : \A j \in HasKey(k) : j <= i]

\* selectMihomoClient returns the first entry.
SelectMihomoClient(k) == out[CHOOSE i \in HasKey(k) : \A j \in HasKey(k) : i <= j]

-----------------------------------------------------------------------------
TypeOK ==
  /\ \E n \in 0..MaxClients : clients \in [1..n -> Client]
  /\ out \in Seq(Client)
  /\ seenIP \in SUBSET Address
  /\ seenKeyIP \in [Key -> Address \cup {NoAddr}]
  /\ result \in {"resolving", "ok", "failed"}

\* No two clients share an address.
AddressesAreDisjoint ==
  \A i, j \in DOMAIN out :
    i # j => Addresses(out[i]) \cap Addresses(out[j]) = {}

\* A key belongs to one entry, although the loop lets a key appear again
\* with the same primary address.
KeysAreDistinct ==
  \A i, j \in DOMAIN out : i # j => out[i].key # out[j].key

\* Whatever a client may send to the address of another client lies in the
\* server's tunnel network, where the packet filter of the session readers
\* stops it, and no client has the server's own address.
ClientsInsideNetwork ==
  \A i \in DOMAIN out :
    /\ Addresses(out[i]) # {}
    /\ Addresses(out[i]) \subseteq Network \ {Server4, Server6}

\* The server gives a client the addresses that mihomo-config wrote into the
\* client's own configuration.
LookupsAgree ==
  result = "ok" =>
    \A i \in DOMAIN clients :
      /\ ByKey(clients[i].key) = clients[i]
      /\ SelectMihomoClient(clients[i].key) = clients[i]

\* A configuration is refused only if one of its entries is wrong by itself
\* or two of its entries get in each other's way.
RefusalHasCause ==
  result = "failed" =>
    \/ Server4 = NoAddr /\ Server6 = NoAddr
    \/ clients = <<>>
    \/ \E i \in DOMAIN clients : ~WellFormed(clients[i])
    \/ \E i, j \in DOMAIN clients :
         /\ i # j
         /\ \/ Addresses(clients[i]) \cap Addresses(clients[j]) # {}
            \/ clients[i].key = clients[j].key

=============================================================================
