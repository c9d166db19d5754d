------------------------------ MODULE MCBestway ------------------------------
(* Instances of Bestway for TLC.                                            *)
EXTENDS Bestway

CONSTANTS b1, b2, k1, k2, k3
=============================================================================
