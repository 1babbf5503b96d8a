-------------------------- MODULE MCConnectIPServer --------------------------
(***************************************************************************)
(* Client a connects twice, client b once.  The configuration has these    *)
(* two clients, so the session limit is two.                               *)
(***************************************************************************)
EXTENDS ConnectIPServer, TLC

CONSTANTS a, b, a1, a2, b1, p4, p6, q4

MCSession == {a1, a2, b1}
MCIdentity == {a, b}
MCAddr4 == {q4}
MCAddr6 == {p6}
MCIdentityOf == [s \in MCSession |-> IF s = b1 THEN b ELSE a]
MCClientIPs == [s \in MCSession |-> IF s = b1 THEN {q4} ELSE {p6}]

\* The two sessions of client a differ in nothing.
Symmetric == Permutations({a1, a2})

\* With two clients, shutdown is left to the other runs, and client b sends
\* nothing: its session is there to be written to and closed.
TakeoverBesideBystander ==
  main = "running" /\ reader[b1] \in {"none", "reading"}

\* One client that reconnects.
PairSession == {a1, a2}
PairIdentity == {a}
PairIdentityOf == [s \in PairSession |-> a]
PairClientIPs == [s \in PairSession |-> {p4}]
PairAddr4 == {p4}
PairAddr6 == {p6}

=============================================================================
