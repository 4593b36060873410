---------------------------- MODULE MCCdcReplica ----------------------------
(* Small instances of CdcReplica for TLC. *)
EXTENDS CdcReplicaProofs, TLC

CONSTANTS k1, k2, v1, v2

MCKeys == {k1, k2}
MCVals == {v1, v2}
MCOneVal == {v1}
Symmetry == Permutations(MCKeys) \cup Permutations(MCVals)
=============================================================================
