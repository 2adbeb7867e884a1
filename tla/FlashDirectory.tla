--------------------------- MODULE FlashDirectory ---------------------------
(***************************************************************************)
(* A directory of the flash file system as its users see it when they come *)
(* one after the other: the names its index lists and the contents of its  *)
(* files.  ChiyoFs has the steps behind it; what is left of them here is   *)
(* that a `set` which fails, or which a power loss cuts short, may have    *)
(* listed the name without storing the file.                               *)
(***************************************************************************)
EXTENDS Naturals

CONSTANT NoFile   \* the file does not exist

Directory(name, value) == [index : SUBSET name, item : [name -> value \cup {NoFile}]]

EmptyDirectory(name) == [index |-> {}, item |-> [n \in name |-> NoFile]]

Listed(d, n) == [d EXCEPT !.index = @ \cup {n}]

Unlisted(d, n) == [d EXCEPT !.index = @ \ {n}]

\* A `set` that is done.
Stored(d, n, v) == [Listed(d, n) EXCEPT !.item[n] = v]

\* What a `set` that is not done leaves.
HalfStored(d, n) == {d, Listed(d, n)}

\* What a `set` leaves that is cut short at any point.
CutShort(d, n, v) == HalfStored(d, n) \cup {Stored(d, n, v)}

\* Faulty variant: the reader leaves out the last entry.
YieldedButLast(d, rank) ==
  {n \in d.index : /\ \A m \in d.index : rank[m] <= rank[n] => d.item[m] # NoFile
                   /\ \E m \in d.index : rank[m] > rank[n]}

\* What a reader yields: it goes through the index in the order of the hashes
\* and ends at the first name without a file.
Yielded(d, rank) ==
  {n \in d.index : \A m \in d.index : rank[m] <= rank[n] => d.item[m] # NoFile}

\* Every listed name has its file.
Whole(d) == \A n \in d.index : d.item[n] # NoFile
=============================================================================
