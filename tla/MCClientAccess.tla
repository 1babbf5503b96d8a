---------------------------- MODULE MCClientAccess ----------------------------
(***************************************************************************)
(* Client lists of up to two entries over two points, the first of which   *)
(* has two strings; two connections.                                       *)
(***************************************************************************)
EXTENDS ClientAccess, TLC

CONSTANTS k1, k1x, k2, p1, p2, srv4, c4, out4, srv6, c6, n1, n2

MCKey == {k1, k1x, k2}
MCPoint == {p1, p2}
MCPointOf == [k \in MCKey |-> IF k = k2 THEN p2 ELSE p1]
MCCanonical == [p \in MCPoint |-> IF p = p1 THEN k1 ELSE k2]
MCConn == {n1, n2}
MCControllers == {"", "bbr", "reno"}
MCAddr4 == {srv4, c4, out4}
MCAddr6 == {srv6, c6}
MCNetwork == {srv4, c4, srv6, c6}

\* Connections differ in nothing.
Symmetric == Permutations(MCConn)

=============================================================================
