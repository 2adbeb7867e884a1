--------------------------- MODULE SequenceLemmas ---------------------------
(***************************************************************************)
(* What the proofs need about numbers and sequences: induction and         *)
(* recursion, stated with sets in place of predicates, and what a log      *)
(* against duplicates says of the history behind it.                       *)
(***************************************************************************)
EXTENDS HashLog, WellFoundedInduction, TLAPS

LEMMA LeastNumber ==
  ASSUME NEW T \in SUBSET Nat, T # {}
  PROVE  \E x \in T : \A y \in T : x <= y
<1> DEFINE R == OpToRel(<, Nat)
<1>1. \A x, y \in Nat : x < y => <<x, y>> \in R
  BY Zenon DEF OpToRel
<1>2. IsWellFoundedOn(R, Nat)
  BY NatLessThanWellFounded
<1> HIDE DEF R
<1>3. PICK x \in T : \A y \in T : ~(<<y, x>> \in R)
  BY <1>2, WFMin
<1>4. ASSUME NEW y \in T PROVE x <= y
  <2>1. x \in Nat /\ y \in Nat
    OBVIOUS
  <2>2. ~(y < x)
    BY <1>1, <1>3, <2>1, Zenon
  <2>3. QED
    BY <2>1, <2>2
<1>5. QED
  BY <1>4

\* The natural numbers are the least set with 0 and the successors of its
\* members: induction for what can be written as membership in a set.
LEMMA Induction ==
  ASSUME NEW P, 0 \in P, \A n \in Nat : n \in P => n + 1 \in P
  PROVE  \A n \in Nat : n \in P
<1>1. SUFFICES ASSUME Nat \ P # {} PROVE FALSE
  OBVIOUS
<1>2. PICK x \in Nat \ P : \A y \in Nat \ P : x <= y
  BY <1>1, LeastNumber
<1>3. x - 1 \in Nat /\ x - 1 \in P
  BY <1>2
<1>4. QED
  BY <1>2, <1>3

\* The values f takes from 0 to n when each comes from the one before.
IsRecursion(f, c, g, n) == f[0] = c /\ \A i \in 1..n : f[i] = g[i][f[i - 1]]

LEMMA RecursionExists ==
  ASSUME NEW V, NEW n \in Nat, NEW c \in V, NEW g \in [1..n -> [V -> V]]
  PROVE  \E f \in [0..n -> V] : IsRecursion(f, c, g, n)
<1> DEFINE P == {k \in Nat : k <= n => \E f \in [0..k -> V] : IsRecursion(f, c, g, k)}
<1>1. 0 \in P
  <2>1. [i \in 0..0 |-> c] \in [0..0 -> V] /\ IsRecursion([i \in 0..0 |-> c], c, g, 0)
    BY DEF IsRecursion
  <2>2. QED
    BY <2>1
<1>2. ASSUME NEW k \in Nat, k \in P PROVE k + 1 \in P
  <2>1. SUFFICES ASSUME k + 1 <= n
                 PROVE  \E f \in [0..(k + 1) -> V] : IsRecursion(f, c, g, k + 1)
    OBVIOUS
  <2>2. PICK f \in [0..k -> V] : IsRecursion(f, c, g, k)
    BY <1>2, <2>1
  <2> DEFINE next == g[k + 1][f[k]]
             f1 == [i \in 0..(k + 1) |-> IF i <= k THEN f[i] ELSE next]
  <2>3. next \in V /\ k + 1 \in 1..n
    BY <2>1
  <2>4. f1 \in [0..(k + 1) -> V]
    BY <2>3
  <2>5. f1[0] = c
    BY <2>2 DEF IsRecursion
  <2>6. ASSUME NEW i \in 1..(k + 1) PROVE f1[i] = g[i][f1[i - 1]]
    <3>1. f1[i - 1] = f[i - 1] /\ i - 1 \in 0..k
      OBVIOUS
    <3>2. CASE i <= k
      BY <2>2, <3>1, <3>2 DEF IsRecursion
    <3>3. CASE i = k + 1
      BY <3>1, <3>3
    <3>4. QED
      BY <3>2, <3>3
  <2>7. QED
    BY <2>4, <2>5, <2>6 DEF IsRecursion
<1> HIDE DEF P
<1>3. n \in P
  BY <1>1, <1>2, Induction
<1>4. QED
  BY <1>3 DEF P

LEMMA RecursionUnique ==
  ASSUME NEW n \in Nat, NEW c, NEW g, NEW f, NEW h,
         IsRecursion(f, c, g, n), IsRecursion(h, c, g, n)
  PROVE  \A i \in 0..n : f[i] = h[i]
<1> DEFINE P == {k \in Nat : k <= n => f[k] = h[k]}
<1>1. 0 \in P
  BY DEF IsRecursion
<1>2. ASSUME NEW k \in Nat, k \in P PROVE k + 1 \in P
  <2>1. SUFFICES ASSUME k + 1 <= n PROVE f[k + 1] = h[k + 1]
    OBVIOUS
  <2>2. f[k] = h[k] /\ k + 1 \in 1..n /\ (k + 1) - 1 = k
    BY <1>2, <2>1
  <2>3. QED
    BY <2>2 DEF IsRecursion
<1> HIDE DEF P
<1>3. \A k \in Nat : k \in P
  BY <1>1, <1>2, Induction
<1>4. QED
  BY <1>3 DEF P

-----------------------------------------------------------------------------
\* Nothing comes again before `size` others; histories are newest first.
NoRepeat(history, size) ==
  \A i, j \in 1..Len(history) : (i < j /\ history[i] = history[j]) => j - i > size

\* A log holds the newest part of a history of members of S.
Recent(S, log, history, size) ==
  /\ log \in Seq(S) /\ history \in Seq(S)
  /\ Len(log) = IF Len(history) < size THEN Len(history) ELSE size
  /\ \A i \in 1..Len(log) : log[i] = history[i]

\* ... in which nothing comes twice within the log's size.
Window(S, log, history, size) ==
  Recent(S, log, history, size) /\ NoRepeat(history, size)

\* Where the entries of a log are after a push.
LEMMA PushFrontPlaces ==
  ASSUME NEW S, NEW s \in Seq(S), NEW m \in S, NEW c \in Nat \ {0}
  PROVE  /\ PushFront(s, m, c) \in Seq(S)
         /\ Len(PushFront(s, m, c)) = IF Len(s) >= c THEN Len(s) ELSE Len(s) + 1
         /\ PushFront(s, m, c)[1] = m
         /\ \A i \in 2..Len(PushFront(s, m, c)) : PushFront(s, m, c)[i] = s[i - 1]
<1> DEFINE rest == IF Len(s) >= c THEN SubSeq(s, 1, Len(s) - 1) ELSE s
<1>1. /\ rest \in Seq(S)
      /\ Len(rest) = IF Len(s) >= c THEN Len(s) - 1 ELSE Len(s)
      /\ \A i \in 1..Len(rest) : rest[i] = s[i]
  OBVIOUS
<1>2. PushFront(s, m, c) = <<m>> \o rest
  BY DEF PushFront
<1> HIDE DEF rest
<1>3. QED
  BY <1>1, <1>2

\* A push to the front keeps the log the newest part of its history.
LEMMA PushKeepsRecent ==
  ASSUME NEW S, NEW log, NEW history, NEW size \in Nat \ {0}, NEW m \in S,
         Recent(S, log, history, size)
  PROVE  Recent(S, PushFront(log, m, size), <<m>> \o history, size)
<1> DEFINE log1 == PushFront(log, m, size)
           history1 == <<m>> \o history
<1>1. /\ log \in Seq(S) /\ history \in Seq(S)
      /\ Len(log) = IF Len(history) < size THEN Len(history) ELSE size
      /\ \A i \in 1..Len(log) : log[i] = history[i]
      /\ Len(log) \in Nat /\ Len(history) \in Nat
  BY DEF Recent
<1>2. /\ log1 \in Seq(S)
      /\ Len(log1) = IF Len(log) >= size THEN Len(log) ELSE Len(log) + 1
      /\ log1[1] = m /\ \A i \in 2..Len(log1) : log1[i] = log[i - 1]
  BY <1>1, PushFrontPlaces
<1>3. /\ history1 \in Seq(S) /\ Len(history1) = Len(history) + 1
      /\ history1[1] = m /\ \A i \in 2..Len(history1) : history1[i] = history[i - 1]
  BY <1>1
<1> HIDE DEF log1, history1
<1>4. Len(log1) = IF Len(history1) < size THEN Len(history1) ELSE size
  BY <1>1, <1>2, <1>3
<1>5. ASSUME NEW i \in 1..Len(log1) PROVE log1[i] = history1[i]
  <2>1. CASE i = 1
    BY <1>2, <1>3, <2>1
  <2>2. CASE i # 1
    <3>1. i \in 2..Len(log1) /\ i \in 2..Len(history1) /\ i - 1 \in 1..Len(log)
      BY <1>1, <1>2, <1>3, <1>4, <2>2
    <3>2. QED
      BY <1>1, <1>2, <1>3, <3>1
  <2>3. QED
    BY <2>1, <2>2
<1>6. QED
  BY <1>2, <1>3, <1>4, <1>5 DEF Recent, log1, history1

\* Pushing what the log does not contain keeps the window.
LEMMA PushKeepsWindow ==
  ASSUME NEW S, NEW log, NEW history, NEW size \in Nat \ {0}, NEW m \in S,
         Window(S, log, history, size), ~ContainsHash(log, m)
  PROVE  Window(S, PushFront(log, m, size), <<m>> \o history, size)
<1> DEFINE log1 == PushFront(log, m, size)
           history1 == <<m>> \o history
<1>1. /\ log \in Seq(S) /\ history \in Seq(S)
      /\ Len(log) = IF Len(history) < size THEN Len(history) ELSE size
      /\ \A i \in 1..Len(log) : log[i] = history[i]
      /\ Len(log) \in Nat /\ Len(history) \in Nat
  BY DEF Window, Recent
<1>2. Recent(S, log1, history1, size)
  BY PushKeepsRecent DEF Window
<1>3. /\ history1 \in Seq(S) /\ Len(history1) = Len(history) + 1
      /\ history1[1] = m /\ \A i \in 2..Len(history1) : history1[i] = history[i - 1]
  BY <1>1
<1> HIDE DEF log1, history1
<1>6. ASSUME NEW i \in 1..Len(history1), NEW j \in 1..Len(history1),
             i < j, history1[i] = history1[j], j - i <= size
      PROVE  FALSE
  <2>1. i < j /\ j - i <= size /\ history1[i] = history1[j]
    BY <1>6
  <2>2. j \in 2..Len(history1) /\ j - 1 \in 1..Len(history) /\ history1[j] = history[j - 1]
    BY <1>1, <1>3, <2>1
  <2>3. CASE i = 1
    <3>1. j - 1 \in 1..Len(log)
      BY <1>1, <2>1, <2>2, <2>3
    <3>2. log[j - 1] = m
      BY <1>1, <1>3, <2>1, <2>2, <2>3, <3>1
    <3>3. QED
      BY <3>1, <3>2 DEF ContainsHash
  <2>4. CASE i # 1
    <3>1. i - 1 \in 1..Len(history) /\ history1[i] = history[i - 1]
      BY <1>1, <1>3, <2>1, <2>4
    <3>2. i - 1 < j - 1 /\ (j - 1) - (i - 1) <= size /\ history[i - 1] = history[j - 1]
      BY <1>1, <2>1, <2>2, <3>1
    <3>3. QED
      BY <1>1, <2>2, <3>1, <3>2 DEF Window, NoRepeat
  <2>5. QED
    BY <2>3, <2>4
<1>7. NoRepeat(history1, size)
  BY <1>1, <1>3, <1>6 DEF NoRepeat
<1>8. QED
  BY <1>2, <1>7 DEF Window, log1, history1

LEMMA EmptyWindow ==
  ASSUME NEW S, NEW size \in Nat \ {0}
  PROVE  Window(S, <<>>, <<>>, size)
BY DEF Window, Recent, NoRepeat

\* What a log contains is in its history.
LEMMA ContainedInHistory ==
  ASSUME NEW S, NEW log, NEW history, NEW size \in Nat \ {0}, NEW m,
         Window(S, log, history, size), ContainsHash(log, m)
  PROVE  \E i \in 1..Len(history) : history[i] = m
<1>1. /\ Len(log) \in Nat /\ Len(history) \in Nat /\ Len(log) <= Len(history)
      /\ \A i \in 1..Len(log) : log[i] = history[i]
  BY DEF Window, Recent
<1>2. QED
  BY <1>1 DEF ContainsHash
=============================================================================
