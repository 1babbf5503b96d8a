-------------------------- MODULE ClientConfigProofs --------------------------
(***************************************************************************)
(* For any list of clients, the clients that ResolvedClients accepts have  *)
(* distinct keys and disjoint addresses inside the server's network, and   *)
(* the two ways to look a client up by its key agree.                      *)
(***************************************************************************)
EXTENDS ClientConfig, FiniteSetTheorems, TLAPS

\* The accepted entries are the first entries of the list.
AcceptedPrefix ==
  /\ clients \in Seq(Client)
  /\ out \in Seq(Client)
  /\ Len(out) <= Len(clients)
  /\ \A i \in 1..Len(out) : out[i] = clients[i] /\ WellFormed(out[i])
  /\ result = "ok" => Len(out) = Len(clients)

\* What the two maps of the loop remember.
SeenIsOut ==
  /\ seenIP = UNION {Addresses(out[i]) : i \in 1..Len(out)}
  /\ seenKeyIP \in [Key -> Address \cup {NoAddr}]
  /\ \A i \in 1..Len(out) : seenKeyIP[out[i].key] = Primary(out[i])
  /\ \A k \in Key : seenKeyIP[k] # NoAddr =>
       \E i \in 1..Len(out) : out[i].key = k

Distinct ==
  \A i, j \in 1..Len(out) : i # j =>
    /\ Addresses(out[i]) \cap Addresses(out[j]) = {}
    /\ out[i].key # out[j].key

ResolveInv == AcceptedPrefix /\ SeenIsOut /\ Distinct

-----------------------------------------------------------------------------
\* A well-formed entry has an address and is remembered by one of its own.
LEMMA PrimaryIsAddress ==
  ASSUME NEW c \in Client, WellFormed(c)
  PROVE  /\ c.key \in Key
         /\ Addresses(c) \subseteq Address
         /\ Primary(c) \in Addresses(c)
         /\ Primary(c) # NoAddr
BY ConfigConstants DEF Client, WellFormed, Addresses, Primary, Address

\* Before the first entry nothing has been accepted.
LEMMA InitResolveInv == Init => ResolveInv
<1> SUFFICES ASSUME Init PROVE ResolveInv
  OBVIOUS
<1>1. clients \in Seq(Client)
  BY ConfigConstants DEF Init
<1>2. Len(out) = 0 /\ out \in Seq(Client)
  BY DEF Init
<1>3. seenIP = UNION {Addresses(out[i]) : i \in 1..Len(out)}
  BY <1>2 DEF Init
<1>4. AcceptedPrefix
  BY <1>1, <1>2 DEF Init, AcceptedPrefix
<1>5. SeenIsOut /\ Distinct
  BY <1>2, <1>3 DEF Init, SeenIsOut, Distinct
<1> QED  BY <1>4, <1>5 DEF ResolveInv

\* An entry whose key was seen before has been seen with another primary
\* address, since its own addresses are all new: the loop refuses it.
LEMMA ResolvePreserves ==
  ASSUME ResolveInv, ResolveClient
  PROVE  ResolveInv'
<1> DEFINE n == Len(out) + 1
           c == clients[n]
<1>1. /\ clients \in Seq(Client) /\ out \in Seq(Client)
      /\ Len(out) < Len(clients)
      /\ result = "resolving" /\ result' = result /\ clients' = clients
  BY DEF ResolveInv, AcceptedPrefix, ResolveClient, Resolving
<1>2. n \in 1..Len(clients) /\ c \in Client
  BY <1>1
<1>3. /\ WellFormed(c) /\ ~DuplicateAddress(c) /\ ~KeyElsewhere(c)
      /\ out' = Append(out, c)
      /\ seenIP' = seenIP \cup Addresses(c)
      /\ seenKeyIP' = [seenKeyIP EXCEPT ![c.key] = Primary(c)]
  BY DEF ResolveClient
<1>4. /\ c.key \in Key
      /\ Addresses(c) \subseteq Address
      /\ Primary(c) \in Addresses(c)
      /\ Primary(c) # NoAddr
  BY <1>2, <1>3, PrimaryIsAddress
<1>5. /\ Len(out') = n
      /\ \A i \in 1..Len(out) : out'[i] = out[i]
      /\ out'[n] = c
      /\ out' \in Seq(Client)
      /\ \A i \in 1..n : i # n => i \in 1..Len(out)
  BY <1>1, <1>2, <1>3
<1> HIDE DEF n, c
<1>6. \A i \in 1..Len(out) :
        /\ Addresses(out[i]) \cap Addresses(c) = {}
        /\ out[i].key # c.key
  <2> SUFFICES ASSUME NEW i \in 1..Len(out)
               PROVE  /\ Addresses(out[i]) \cap Addresses(c) = {}
                      /\ out[i].key # c.key
    OBVIOUS
  <2>1. Addresses(out[i]) \subseteq seenIP
    BY DEF ResolveInv, SeenIsOut
  <2>2. Addresses(c) \cap seenIP = {}
    BY <1>3 DEF DuplicateAddress
  <2>3. ASSUME out[i].key = c.key PROVE FALSE
    <3>1. out[i] \in Client /\ WellFormed(out[i])
      BY <1>1 DEF ResolveInv, AcceptedPrefix
    <3>2. Primary(out[i]) \in Addresses(out[i]) /\ Primary(out[i]) # NoAddr
      BY <3>1, PrimaryIsAddress
    <3>3. seenKeyIP[c.key] = Primary(out[i])
      BY <2>3 DEF ResolveInv, SeenIsOut
    <3>4. Primary(out[i]) = Primary(c)
      BY <1>3, <1>4, <3>2, <3>3 DEF KeyElsewhere
    <3> QED  BY <1>4, <2>1, <2>2, <3>2, <3>4
  <2> QED  BY <2>1, <2>2, <2>3
<1>7. AcceptedPrefix'
  <2>1. ASSUME NEW i \in 1..n
        PROVE  out'[i] = clients[i] /\ WellFormed(out'[i])
    <3>1. CASE i = n
      BY <1>3, <1>5, <3>1 DEF c
    <3>2. CASE i # n
      BY <1>5, <3>2 DEF ResolveInv, AcceptedPrefix
    <3> QED  BY <3>1, <3>2
  <2>2. Len(out') <= Len(clients)
    BY <1>1, <1>2, <1>5
  <2> QED  BY <1>1, <1>5, <2>1, <2>2 DEF AcceptedPrefix
<1>8. SeenIsOut'
  <2>1. seenIP' = UNION {Addresses(out'[i]) : i \in 1..Len(out')}
    <3>1. ASSUME NEW ip
          PROVE  ip \in seenIP' <=>
                   \E i \in 1..Len(out') : ip \in Addresses(out'[i])
      <4>1. ip \in seenIP <=> \E i \in 1..Len(out) : ip \in Addresses(out[i])
        BY DEF ResolveInv, SeenIsOut
      <4>2. n \in 1..n /\ \A i \in 1..Len(out) : i \in 1..n
        BY <1>1 DEF n
      <4> QED  BY <1>3, <1>5, <4>1, <4>2
    <3> QED  BY <3>1
  <2>2. seenKeyIP' \in [Key -> Address \cup {NoAddr}]
    BY <1>3, <1>4 DEF ResolveInv, SeenIsOut
  <2>3. \A i \in 1..Len(out') : seenKeyIP'[out'[i].key] = Primary(out'[i])
    <3> SUFFICES ASSUME NEW i \in 1..n
                 PROVE  seenKeyIP'[out'[i].key] = Primary(out'[i])
      BY <1>5
    <3>1. CASE i = n
      BY <1>3, <1>4, <1>5, <3>1 DEF ResolveInv, SeenIsOut
    <3>2. CASE i # n
      BY <1>3, <1>4, <1>5, <1>6, <3>2 DEF ResolveInv, SeenIsOut
    <3> QED  BY <3>1, <3>2
  <2>4. \A k \in Key : seenKeyIP'[k] # NoAddr =>
          \E i \in 1..Len(out') : out'[i].key = k
    <3> SUFFICES ASSUME NEW k \in Key, seenKeyIP'[k] # NoAddr
                 PROVE  \E i \in 1..n : out'[i].key = k
      BY <1>5
    <3>1. n \in 1..n /\ \A i \in 1..Len(out) : i \in 1..n
      BY <1>1 DEF n
    <3>2. CASE k = c.key
      BY <1>5, <3>1, <3>2
    <3>3. CASE k # c.key
      BY <1>3, <1>5, <3>1, <3>3 DEF ResolveInv, SeenIsOut
    <3> QED  BY <3>2, <3>3
  <2> QED  BY <2>1, <2>2, <2>3, <2>4 DEF SeenIsOut, Addresses, Primary
<1>9. Distinct'
  <2> SUFFICES ASSUME NEW i \in 1..n, NEW j \in 1..n, i # j
               PROVE  /\ Addresses(out'[i]) \cap Addresses(out'[j]) = {}
                      /\ out'[i].key # out'[j].key
    BY <1>5 DEF Distinct, Addresses
  <2>1. CASE i # n /\ j # n
    BY <1>5, <2>1 DEF ResolveInv, Distinct
  <2>2. CASE i = n \/ j = n
    BY <1>5, <1>6, <2>2
  <2> QED  BY <2>1, <2>2
<1> QED  BY <1>7, <1>8, <1>9 DEF ResolveInv

\* Every step of the loop, and every error, preserves the invariant.
LEMMA NextResolveInv == ResolveInv /\ [Next]_vars => ResolveInv'
<1> SUFFICES ASSUME ResolveInv, [Next]_vars PROVE ResolveInv'
  OBVIOUS
<1>1. CASE ResolveClient
  BY <1>1, ResolvePreserves
<1>2. CASE ~ResolveClient
  <2>1. /\ UNCHANGED <<clients, out, seenIP, seenKeyIP>>
        /\ result' = "ok" => result = "ok" \/ Len(out) = Len(clients)
    BY <1>2 DEF Next, RefuseConfig, RefuseClient, Finish, Done, vars
  <2>2. AcceptedPrefix'
    BY <2>1 DEF ResolveInv, AcceptedPrefix
  <2>3. SeenIsOut'
    BY <2>1 DEF ResolveInv, SeenIsOut
  <2>4. Distinct'
    BY <2>1 DEF ResolveInv, Distinct
  <2> QED  BY <2>2, <2>3, <2>4 DEF ResolveInv
<1> QED  BY <1>1, <1>2

\* What ResolvedClients has accepted so far always agrees with its two maps of
\* seen addresses and keys.
THEOREM Resolution == Spec => []ResolveInv
BY InitResolveInv, NextResolveInv, PTL DEF Spec

-----------------------------------------------------------------------------
\* The accepted clients are numbered from one.
LEMMA OutDomain == ResolveInv => DOMAIN out = 1..Len(out)
BY DEF ResolveInv, AcceptedPrefix

\* No two accepted clients share an address.
THEOREM NoSharedAddress == Spec => []AddressesAreDisjoint
<1>1. ResolveInv => AddressesAreDisjoint
  BY OutDomain DEF ResolveInv, Distinct, AddressesAreDisjoint
<1> QED  BY <1>1, Resolution, PTL

\* No two accepted clients share a key.
THEOREM NoSharedKey == Spec => []KeysAreDistinct
<1>1. ResolveInv => KeysAreDistinct
  BY OutDomain DEF ResolveInv, Distinct, KeysAreDistinct
<1> QED  BY <1>1, Resolution, PTL

\* Well-formed entries lie inside the server's network.
LEMMA AcceptedAreInside == ResolveInv => ClientsInsideNetwork
<1>1. ASSUME ResolveInv, NEW i \in DOMAIN out
      PROVE  /\ Addresses(out[i]) # {}
             /\ Addresses(out[i]) \subseteq Network \ {Server4, Server6}
  <2>1. out[i] \in Client /\ WellFormed(out[i])
    BY <1>1, OutDomain DEF ResolveInv, AcceptedPrefix
  <2> QED  BY <2>1, ConfigConstants
           DEF WellFormed, Assignable, Addresses, Client, Address
<1> QED  BY <1>1 DEF ClientsInsideNetwork

\* Every accepted client has an address, all of its addresses lie inside the
\* server's tunnel network, and none is the server's own.
THEOREM ClientsAreInside == Spec => []ClientsInsideNetwork
BY AcceptedAreInside, Resolution, PTL

\* Once the list is accepted, both lookups return the entry that has the key.
THEOREM LookupsReturnTheEntry == Spec => []LookupsAgree
<1>1. ASSUME ResolveInv, result = "ok", NEW i \in DOMAIN clients
      PROVE  /\ ByKey(clients[i].key) = clients[i]
             /\ SelectMihomoClient(clients[i].key) = clients[i]
  <2> DEFINE k == clients[i].key
  <2>1. i \in 1..Len(out) /\ out[i] = clients[i] /\ DOMAIN out = 1..Len(out)
    BY <1>1, OutDomain DEF ResolveInv, AcceptedPrefix
  <2>2. HasKey(k) = {i}
    BY <1>1, <2>1 DEF HasKey, ResolveInv, Distinct
  <2> HIDE DEF k
  <2>3. (CHOOSE m \in HasKey(k) : \A j \in HasKey(k) : j <= m) = i
    BY <2>1, <2>2
  <2>4. (CHOOSE m \in HasKey(k) : \A j \in HasKey(k) : m <= j) = i
    BY <2>1, <2>2
  <2>5. ByKey(k) = out[i] /\ SelectMihomoClient(k) = out[i]
    BY <2>3, <2>4 DEF ByKey, SelectMihomoClient
  <2> QED  BY <2>1, <2>5 DEF k
<1>2. ResolveInv => LookupsAgree
  BY <1>1 DEF LookupsAgree
<1> QED  BY <1>2, Resolution, PTL

\* A list is refused only for a fault that can be pointed at.
THEOREM RefusalsHaveCause == Spec => []RefusalHasCause
<1>1. Init => RefusalHasCause
  BY DEF Init, RefusalHasCause
<1>2. ASSUME ResolveInv, RefuseClient PROVE RefusalHasCause'
  <2> DEFINE n == Len(out) + 1
             c == clients[n]
  <2>1. /\ clients \in Seq(Client) /\ out \in Seq(Client)
        /\ Len(out) < Len(clients) /\ clients' = clients
    BY <1>2 DEF ResolveInv, AcceptedPrefix, RefuseClient, Resolving
  <2>2. n \in DOMAIN clients /\ c \in Client
    BY <2>1
  <2>3. \A i \in 1..Len(out) :
          i \in DOMAIN clients /\ i # n /\ out[i] = clients[i]
    BY <1>2, <2>1 DEF ResolveInv, AcceptedPrefix
  <2>4. ~WellFormed(c) \/ DuplicateAddress(c) \/ KeyElsewhere(c)
    BY <1>2 DEF RefuseClient
  <2> HIDE DEF n, c
  <2>5. CASE ~WellFormed(c)
    BY <2>1, <2>2, <2>5 DEF RefusalHasCause, c
  <2>6. CASE DuplicateAddress(c)
    <3>1. PICK i \in 1..Len(out) : Addresses(c) \cap Addresses(out[i]) # {}
      BY <1>2, <2>6 DEF DuplicateAddress, ResolveInv, SeenIsOut
    <3>2. /\ n \in DOMAIN clients /\ i \in DOMAIN clients /\ n # i
          /\ Addresses(clients[n]) \cap Addresses(clients[i]) # {}
      BY <2>2, <2>3, <3>1 DEF c
    <3> QED  BY <2>1, <3>2 DEF RefusalHasCause
  <2>7. CASE KeyElsewhere(c)
    <3>1. PICK i \in 1..Len(out) : out[i].key = c.key
      BY <1>2, <2>7 DEF KeyElsewhere, ResolveInv, SeenIsOut
    <3>2. /\ n \in DOMAIN clients /\ i \in DOMAIN clients /\ n # i
          /\ clients[n].key = clients[i].key
      BY <2>2, <2>3, <3>1 DEF c
    <3> QED  BY <2>1, <3>2 DEF RefusalHasCause
  <2> QED  BY <2>4, <2>5, <2>6, <2>7
<1>3. ResolveInv /\ RefusalHasCause /\ [Next]_vars => RefusalHasCause'
  <2> SUFFICES ASSUME ResolveInv, RefusalHasCause, [Next]_vars, ~RefuseClient
               PROVE  RefusalHasCause'
    BY <1>2
  <2>1. CASE RefuseConfig
    BY <2>1 DEF RefuseConfig, RefusalHasCause
  <2>2. CASE ~RefuseConfig
    <3>1. clients' = clients /\ (result' = "failed" => result = "failed")
      BY <2>2 DEF Next, ResolveClient, Finish, Done, vars
    <3> QED  BY <3>1 DEF RefusalHasCause
  <2> QED  BY <2>1, <2>2
<1> QED  BY <1>1, <1>3, Resolution, PTL DEF Spec

\* The variables of the loop keep their types.
THEOREM ConfigTypes == Spec => []TypeOK
<1>1. Init => TypeOK
  BY ConfigConstants DEF Init, TypeOK
<1>2. ResolveInv /\ TypeOK /\ [Next]_vars => TypeOK'
  <2> SUFFICES ASSUME ResolveInv, TypeOK, [Next]_vars PROVE TypeOK'
    OBVIOUS
  <2>1. CASE ResolveClient
    <3> DEFINE c == clients[Len(out) + 1]
    <3>1. c \in Client /\ WellFormed(c)
      BY <2>1 DEF ResolveInv, AcceptedPrefix, ResolveClient, Resolving
    <3>2. /\ out' = Append(out, c)
          /\ seenIP' = seenIP \cup Addresses(c)
          /\ seenKeyIP' = [seenKeyIP EXCEPT ![c.key] = Primary(c)]
          /\ UNCHANGED <<clients, result>>
      BY <2>1 DEF ResolveClient
    <3> HIDE DEF c
    <3> QED  BY <3>1, <3>2, PrimaryIsAddress DEF TypeOK
  <2>2. CASE ~ResolveClient
    <3>1. /\ UNCHANGED <<clients, out, seenIP, seenKeyIP>>
          /\ result' \in {result, "ok", "failed"}
      BY <2>2 DEF Next, RefuseConfig, RefuseClient, Finish, Done, vars
    <3> QED  BY <3>1 DEF TypeOK
  <2> QED  BY <2>1, <2>2
<1> QED  BY <1>1, <1>2, Resolution, PTL DEF Spec

\* What the server takes for an identity.
Identities == {out[i].key : i \in DOMAIN out}

EntriesAreIdentities ==
  IsFiniteSet(Identities) /\ Cardinality(Identities) = Len(out)

\* NewManager(len(clients)) leaves room for one session of every key: the
\* number of accepted entries is the number of identities, as
\* ConfigAssumption of ConnectIPServer has it.
THEOREM LimitIsIdentities == Spec => []EntriesAreIdentities
<1>1. ASSUME ResolveInv PROVE EntriesAreIdentities
  <2> DEFINE n == Len(out)
             key == [i \in 1..n |-> out[i].key]
  <2>1. n \in Nat /\ DOMAIN out = 1..n
    BY <1>1, OutDomain DEF ResolveInv, AcceptedPrefix
  <2>2. key \in Bijection(1..n, Identities)
    BY <1>1, <2>1
       DEF ResolveInv, Distinct, Identities, Bijection, Injection, Surjection,
           IsInjective
  <2> HIDE DEF n, key
  <2>3. 1 \in Int /\ n \in Int /\ (IF 1 > n THEN 0 ELSE n - 1 + 1) = n
    BY <2>1
  <2>4. IsFiniteSet(1..n) /\ Cardinality(1..n) = n
    BY <2>3, FS_Interval
  <2>5. ExistsBijection(1..n, Identities)
    BY <2>2 DEF ExistsBijection
  <2>6. IsFiniteSet(Identities) /\ Cardinality(Identities) = n
    BY <2>4, <2>5, FS_Bijection
  <2> QED  BY <2>6 DEF EntriesAreIdentities, n
<1>2. ResolveInv => EntriesAreIdentities
  BY <1>1
<1> QED  BY <1>2, Resolution, PTL

=============================================================================
