-------------------------- MODULE MC_DirectMessage --------------------------
(* Small instances of DirectMessage for TLC. *)
EXTENDS DirectMessage, TLC

CONSTANTS s1, s2, p1, p2, b1, b2

\* Two messages to one contact, to two contacts, and the same text to two
\* contacts within one second.
OneDest == s1 :> p1 @@ s2 :> p1
TwoDests == s1 :> p1 @@ s2 :> p2
TwoBodies == s1 :> b1 @@ s2 :> b2
SameBody == s1 :> b1 @@ s2 :> b1
=============================================================================
