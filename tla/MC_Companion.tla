---------------------------- MODULE MC_Companion ----------------------------
(* Small instances of Companion for TLC. *)
EXTENDS Companion, TLC

CONSTANTS n1, n2, m1, m2, r1

\* Nodes and messages are interchangeable.
Symmetry == Permutations(Node) \cup Permutations(Message)
=============================================================================
