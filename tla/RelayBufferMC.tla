---------------------------- MODULE RelayBufferMC ----------------------------
(* Small instances of RelayBuffer for TLC.                                  *)
EXTENDS RelayBuffer

(* Bodies of distinct bytes, and the same with one byte a NUL.              *)
TextBodies == {[i \in 1..n |-> i] : n \in 0..7}
BinaryBodies ==
  {[i \in 1..n |-> IF i = z THEN NUL ELSE i] : n \in 0..7, z \in 1..7}
AllBodies == TextBodies \cup BinaryBodies
=============================================================================
