---------------------------- MODULE MCMembership ----------------------------
(* Membership instantiated for TLC: four server ids, s1 the leader, s1-s3 *)
(* the bootstrap voters and s4 a server that can be added.               *)
EXTENDS Membership, TLC

CONSTANTS s1, s2, s3, s4

MCServer == {s1, s2, s3, s4}

\* s2 and s3 play the same part in the bootstrap configuration.
MCSymmetry == Permutations({s2, s3})
=============================================================================
