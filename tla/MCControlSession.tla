-------------------------- MODULE MCControlSession --------------------------
(* Instances of ControlSession for TLC. *)
EXTENDS ControlSession, TLC

CONSTANTS s1, s2, a1, h1, h2

MCSessions == {s1, s2}
MCArtifacts == {a1}
MCShards == {h1, h2}
MCSymmetry == Permutations(MCSessions) \cup Permutations(MCShards)

=============================================================================
