--------------------------- MODULE MCSessionManager ---------------------------
(***************************************************************************)
(* Four sessions of two identities.  Identity a connects with a dual-stack *)
(* address set, then with another set that shares nothing with it, then    *)
(* again with the first; identity b asks for an address of each.           *)
(***************************************************************************)
EXTENDS SessionManager, TLC

CONSTANTS a, b, a1, a2, a3, b1, p4, q4, p6, q6

MCSession == {a1, a2, a3, b1}
MCIdentity == {a, b}
MCAddr4 == {p4, q4}
MCAddr6 == {p6, q6}
MCIdentityOf == [s \in MCSession |-> IF s = b1 THEN b ELSE a]
MCClientIPs ==
  [s \in MCSession |->
     CASE s = a1 -> {p4, p6}
       [] s = a2 -> {q4}
       [] s = a3 -> {p4, p6}
       [] s = b1 -> {q4, q6}]

\* Three sessions are enough where liveness is checked.
SmallSession == {a1, a2, b1}
SmallIdentityOf == [s \in SmallSession |-> MCIdentityOf[s]]
SmallClientIPs == [s \in SmallSession |-> MCClientIPs[s]]

\* One client that comes back twice.
OneClient == {a1, a2, a3}
OneClientIdentityOf == [s \in OneClient |-> a]
OneClientIPs == [s \in OneClient |-> MCClientIPs[s]]

\* a1 and a3 have the same identity and the same addresses: exchanging them
\* maps behaviours to behaviours and leaves every safety property alone.
SameClient == Permutations({a1, a3})

=============================================================================
