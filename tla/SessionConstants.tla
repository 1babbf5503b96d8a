--------------------------- MODULE SessionConstants ---------------------------
(***************************************************************************)
(* What the session manager is given: said once, for SessionManager and    *)
(* ConnectIPServer, which assume it, and for ClientAccessProofs, where it  *)
(* is proved of the sessions that handleRequest builds.                    *)
(***************************************************************************)
EXTENDS FiniteSets

\* NewWithAddresses panics unless a session has at least one address and at
\* most one of each family.
AddressSets(sessions, ipv4, ips) ==
  \A s \in sessions :
    /\ ips[s] # {}
    /\ \A a, b \in ips[s] : (a \in ipv4 <=> b \in ipv4) => a = b

\* The address set of a session depends on its identity alone, no two
\* identities share an address, and the limit given to NewManager is the
\* number of identities.
ClientTable(sessions, identities, identity, ips, limit) ==
  /\ IsFiniteSet(identities)
  /\ limit = Cardinality(identities)
  /\ identity \in [sessions -> identities]
  /\ \A s, t \in sessions :
       IF identity[s] = identity[t]
       THEN ips[s] = ips[t]
       ELSE ips[s] \cap ips[t] = {}

=============================================================================
