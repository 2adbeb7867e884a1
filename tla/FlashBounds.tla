---------------------------- MODULE FlashBounds ----------------------------
(***************************************************************************)
(* The bounds of a flash partition (chiyo-hal/src/storage.rs, FsPartition):*)
(* offsets of the file system are mapped to addresses of the chip and      *)
(* checked with inclusive bounds, in machine words that wrap around.       *)
(***************************************************************************)
EXTENDS Naturals

CONSTANTS Word,             \* machine words are 0..(Word - 1): 2^32
          partition_offset, \* where the partition begins on the chip
          partition_size    \* how long it is

\* A partition of the partition table lies on the chip (partition_table.rs).
ASSUME PartitionAssumption ==
  /\ Word \in Nat \ {0}
  /\ partition_offset \in Nat /\ partition_size \in Nat
  /\ partition_offset + partition_size < Word

Offsets == 0..(Word - 1)

\* usize addition in the release build.
Plus(a, b) == (a + b) % Word

in_range(address) ==
  address >= partition_offset /\ address <= Plus(partition_offset, partition_size)

\* map_offset, and whether it is Some.
Mapped(offset) == Plus(partition_offset, offset)
Maps(offset) == in_range(Mapped(offset))

\* read and write hand an access to the chip.
Accessible(offset, length) == Maps(offset) /\ in_range(Plus(Mapped(offset), length))

\* erase hands a range to the chip; that `from` comes first is the chip's check.
Erasable(from, to) == Maps(from) /\ Maps(to)

-----------------------------------------------------------------------------
\* The bytes of the partition.
Inside(first, last) ==
  partition_offset <= first /\ first <= last /\ last <= partition_offset + partition_size

\* An access that passes the checks touches the partition only, although the
\* additions may wrap (storage.rs:51-63, 93-105).
AccessStaysInside ==
  \A offset \in Offsets, length \in 0..(Word - partition_size - 1) :
    Accessible(offset, length) => Inside(Mapped(offset), Mapped(offset) + length)

\* Every access to the partition passes, its last byte included.
WholePartitionUsable ==
  \A offset \in Offsets, length \in Offsets :
    offset + length <= partition_size => Accessible(offset, length)

\* An erase that passes the checks touches the partition only
\* (storage.rs:75-91).
EraseStaysInside ==
  \A from \in Offsets, to \in Offsets :
    (from <= to /\ Erasable(from, to)) => Inside(Mapped(from), Mapped(to))
=============================================================================
