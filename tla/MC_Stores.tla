------------------------------ MODULE MC_Stores ------------------------------
(* A small instance of Stores for TLC. *)
EXTENDS Stores, FlashBounds, SequencesExt

CONSTANTS k1, k2, p1, public, test, cats, own

\* k1's file comes before k2's, those of the boot's channels before the client's.
KeyOrder == [k \in Key |-> IF k = k1 THEN 1 ELSE 2]
IdxOrder == [i \in Idx |-> i]

\* A secret stands for its channel's name as well; `own` and `test` collide.
Hashes == [s \in Secret |-> IF s = own THEN test ELSE s]

Put(i, s) == [idx |-> i, channel |-> [name |-> s, key |-> s]]
Configured == <<Put(0, public), Put(1, cats)>>
OfLayer == <<Put(0, public), Put(1, test)>>
SetByClient == {Put(1, own), Put(2, own), Put(2, test)}

-----------------------------------------------------------------------------
\* The partition's bounds, in words of six bits.
ASSUME PartitionBounds == AccessStaysInside /\ WholePartitionUsable /\ EraseStaysInside

\* The searches and the bulk insertion, for all short inputs.
Bytes == INSTANCE ByteMaps

SortedMaps == {v \in BoundedSeq({<<k, k>> : k \in 1..3}, 3) : Bytes!Sorted(v)}
NewEntries == {[i \in 1..Len(s) |-> <<s[i], 10 + i>>] : s \in BoundedSeq(1..3, 4)}
ContactKeys == {k \in BoundedSeq([1..3 -> 0..1], 4) : Bytes!InOrder(k)}

ASSUME BulkInsertion == \A old \in SortedMaps, new \in NewEntries : Bytes!ExtendsMap(old, new)
ASSUME PrefixSearch == \A k \in ContactKeys, p \in BoundedSeq(0..1, 3) : Bytes!FindsFirst(k, p)
=============================================================================
