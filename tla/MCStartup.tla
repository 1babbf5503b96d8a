------------------------------ MODULE MCStartup ------------------------------
(***************************************************************************)
(* An IPv4 and an IPv6 server address, with two IPv4 masks.  Persistent    *)
(* interfaces may carry another IPv4 address, the server's with another    *)
(* mask, and IPv6 addresses: another one, the server's with its prefix     *)
(* length or as a single address, and the IPv4 address in mapped form with *)
(* a prefix length that is also an IPv4 one.                               *)
(***************************************************************************)
EXTENDS Startup

CONSTANTS srv4, old4, srv6, old6

MCPrefix4 == {<<srv4, 24>>, <<srv4, 32>>}
MCPrefix6 == {<<srv6, 64>>}
MCForeign4 == {<<old4, 24>>}
MCForeign6 == {<<srv6, 64>>, <<srv6, 128>>, <<old6, 64>>, <<srv4, 24>>}

=============================================================================
