--------------------------- MODULE SessionRegistry ---------------------------
(***************************************************************************)
(* What session.Manager promises its callers, with the address tables, the *)
(* lock, the generations and the teardown steps left out.                  *)
(*                                                                         *)
(* Every authenticated identity owns at most one session at a time.  A     *)
(* session owns all of its tunnel addresses or none of them, becomes an    *)
(* owner at most once, and loses that role either to a later session of    *)
(* the same identity or for good.                                          *)
(***************************************************************************)
EXTENDS Naturals, FiniteSets

CONSTANTS
  Session,      \* the session objects the process ever builds
  Identity,     \* authenticated client identities (public keys)
  IdentityOf,   \* [Session -> Identity]
  ClientIPs,    \* the set of tunnel addresses of each session
  MaxSessions,  \* the session limit, 0 for none
  NoSession     \* nil

VARIABLES
  owner,        \* [Identity -> Session \cup {NoSession}]
  spent         \* sessions that have been an owner

registryVars == <<owner, spent>>

Active == {owner[i] : i \in Identity} \ {NoSession}

\* The session that receives the packets of address ip.
Resolve(ip) ==
  IF \E s \in Active : ip \in ClientIPs[s]
  THEN CHOOSE s \in Active : ip \in ClientIPs[s]
  ELSE NoSession

-----------------------------------------------------------------------------
Init ==
  /\ owner = [i \in Identity |-> NoSession]
  /\ spent = {}

\* A fresh session takes the place of its identity's owner, if there is one.
Establish(s) ==
  LET others == Active \ {owner[IdentityOf[s]]}
  IN  /\ s \notin spent
      /\ spent' = spent \cup {s}
      /\ \A t \in others : ClientIPs[t] \cap ClientIPs[s] = {}
      /\ MaxSessions > 0 => Cardinality(others) < MaxSessions
      /\ owner' = [owner EXCEPT ![IdentityOf[s]] = s]

\* The owner of an identity is torn down with nothing to replace it.
Retire(i) ==
  /\ UNCHANGED spent
  /\ owner[i] # NoSession
  /\ owner' = [owner EXCEPT ![i] = NoSession]

Next ==
  \/ \E s \in Session : Establish(s)
  \/ \E i \in Identity : Retire(i)

Spec == Init /\ [][Next]_registryVars

=============================================================================
