-------------------------- MODULE MC_NodeRuntime --------------------------
(* Small instances of NodeRuntime for TLC. *)
EXTENDS NodeRuntime, TLC

CONSTANTS n1, n2

\* Commands that return, one of each order of locks; the one that does not; all
\* that return.
Mixed == {"contact_message", "update"}
Returning == {"contact_message", "self_advert", "update"}
Removing == {"remove"}

OneGarbled == {2}
NoneGarbled == {}

Symmetry == Permutations(Node)
=============================================================================
