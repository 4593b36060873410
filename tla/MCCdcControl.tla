---------------------------- MODULE MCCdcControl ----------------------------
(* Small instances of CdcControl for TLC. *)
EXTENDS CdcControlProofs, TLC

CONSTANTS c1, c2

MCOneClient == {c1}
MCTwoClients == {c1, c2}
Symmetry == Permutations(MCTwoClients)
=============================================================================
