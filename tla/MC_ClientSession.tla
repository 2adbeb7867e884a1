-------------------------- MODULE MC_ClientSession --------------------------
(* A small instance of ClientSession for TLC. *)
EXTENDS ClientSession

CONSTANTS d1, d2
=============================================================================
