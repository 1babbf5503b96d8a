---------------------------- MODULE MCServerKeygen ----------------------------
(***************************************************************************)
(* Three runs on the same paths, with and without files from before.       *)
(***************************************************************************)
EXTENDS ServerKeygen

CONSTANTS r1, r2, r3

MCRun == {r1, r2, r3}

=============================================================================
