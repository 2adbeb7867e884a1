----------------------------- MODULE ByteMaps -----------------------------
(***************************************************************************)
(* The sorted vectors the firmware looks things up in: the bulk insertion  *)
(* of the map in external memory (chiyocore/src/psram_vec.rs) and the      *)
(* search of a contact by a prefix of its key (storage/contact.rs).        *)
(* Indices are those of the code plus one.                                 *)
(***************************************************************************)
EXTENDS Integers, SequencesExt

-----------------------------------------------------------------------------
\* Entries of a map are pairs <<key, value>>.
KeyOf(e) == e[1]

Keys(v) == {KeyOf(v[i]) : i \in 1..Len(v)}
Sorted(v) == \A i \in 1..(Len(v) - 1) : KeyOf(v[i]) < KeyOf(v[i + 1])

\* How much of v, whose first n entries are sorted, turns out to be sorted.
SortedLength(v, n) ==
  LET from == Max({n, 1})
      run == CHOOSE c \in 0..Len(v) :
               /\ \A i \in from..(from + c - 1) : KeyOf(v[i]) < KeyOf(v[i + 1])
               /\ from + c < Len(v) => KeyOf(v[from + c]) >= KeyOf(v[from + c + 1])
               /\ from + c <= Max({Len(v), 1})
      counted == n + run
  IN IF counted = 0 /\ v # <<>> THEN 1 ELSE counted

\* The stable sort of the standard library: an entry goes behind those with a
\* lesser key and the earlier ones with its own.
GoesBefore(v, j, i) ==
  KeyOf(v[j]) < KeyOf(v[i]) \/ (KeyOf(v[j]) = KeyOf(v[i]) /\ j <= i)

Rank(v, i) == Cardinality({j \in 1..Len(v) : GoesBefore(v, j, i)})

StableSort(v) == [p \in 1..Len(v) |-> v[CHOOSE i \in 1..Len(v) : Rank(v, i) = p]]

Swap(v, i, j) == [v EXCEPT ![i] = v[j], ![j] = v[i]]

\* The loop over `read`, with the `kept` entries in front.
DedupStep(at, read) ==
  IF KeyOf(at.v[read]) = KeyOf(at.v[at.kept])
  THEN [at EXCEPT !.v = Swap(at.v, read, at.kept)]
  ELSE [v |-> Swap(at.v, read, at.kept + 1), kept |-> at.kept + 1]

Dedup(v) ==
  LET at[read \in 1..Len(v)] ==
        IF read = 1 THEN [v |-> v, kept |-> 1] ELSE DedupStep(at[read - 1], read)
  IN at[Len(v)]

partition_dedup_by(v) ==
  IF Len(v) <= 1 THEN v ELSE SubSeq(Dedup(v).v, 1, Dedup(v).kept)

lm_extend(old, new) ==
  LET v == old \o new
  IN IF SortedLength(v, Len(old)) >= Len(v) THEN v ELSE partition_dedup_by(StableSort(v))

\* However the new entries come, the map stays sorted, has the old and the new
\* keys, and the entry inserted last for each (psram_vec.rs:156-213).
ExtendsMap(old, new) ==
  LET got == lm_extend(old, new)
      v == old \o new
      last(k) == Max({i \in 1..Len(v) : KeyOf(v[i]) = k})
  IN /\ Sorted(got)
     /\ {got[i] : i \in 1..Len(got)} = {v[last(k)] : k \in Keys(v)}

-----------------------------------------------------------------------------
\* Byte strings in the order of the alphabet, a prefix before what it begins.
Before(a, b) ==
  \E i \in 1..Len(b) :
    /\ i <= Len(a) + 1 /\ SubSeq(a, 1, i - 1) = SubSeq(b, 1, i - 1)
    /\ i = Len(a) + 1 \/ a[i] < b[i]

\* The keys of the contacts in memory.
InOrder(keys) == \A i, j \in 1..Len(keys) : i < j => Before(keys[i], keys[j])

\* binary_search_by: where the key is, or the first key behind it would be.
Place(keys, p) == Min({i \in 1..Len(keys) : ~Before(keys[i], p)} \cup {Len(keys) + 1})
IsThere(keys, p) == \E i \in 1..Len(keys) : keys[i] = p

None == 0

find_idx(keys, p) ==
  IF IsThere(keys, p) THEN Place(keys, p)
  ELSE LET i == Min({Max({Len(keys), 1}), Place(keys, p)})
       IN IF keys # <<>> /\ IsPrefix(p, keys[i]) THEN i ELSE None

\* A prefix finds the first of the contacts it fits, and nobody when it fits
\* none (contact.rs:107-123).
FindsFirst(keys, p) ==
  LET fits == {i \in 1..Len(keys) : IsPrefix(p, keys[i])}
  IN find_idx(keys, p) = IF fits = {} THEN None ELSE Min(fits)
=============================================================================
