------------------------ MODULE ClientSession_proofs ------------------------
(***************************************************************************)
(* Proofs about ClientSession for pieces of any size and any number of     *)
(* commands and connections.                                               *)
(***************************************************************************)
EXTENDS ClientSession, SequenceLemmas

-----------------------------------------------------------------------------
(***************************************************************************)
(* What Among computes.                                                    *)
(***************************************************************************)

\* The i-th step through the sequence.
Pick(T, s, S) ==
  [i \in 1..Len(s) |-> [v \in Seq(T) |-> IF s[i] \in S THEN Append(v, s[i]) ELSE v]]

LEMMA PickType ==
  ASSUME NEW T, NEW S, NEW s \in Seq(T)
  PROVE  Pick(T, s, S) \in [1..Len(s) -> [Seq(T) -> Seq(T)]]
BY DEF Pick

\* f has what Among has found after each entry of s.
Finds(f, T, s, S) ==
  /\ f \in [0..Len(s) -> Seq(T)] /\ f[0] = <<>> /\ Among(s, S) = f[Len(s)]
  /\ \A i \in 1..Len(s) : f[i] = IF s[i] \in S THEN Append(f[i - 1], s[i]) ELSE f[i - 1]

LEMMA AmongSteps ==
  ASSUME NEW T, NEW S, NEW s \in Seq(T)
  PROVE  \E f : Finds(f, T, s, S)
<1> DEFINE n == Len(s)
           g == Pick(T, s, S)
           Rec(f) == f = [i \in 0..n |-> IF i = 0 THEN <<>>
                                         ELSE IF s[i] \in S THEN Append(f[i - 1], s[i])
                                              ELSE f[i - 1]]
           c == CHOOSE f : Rec(f)
<1>1. n \in Nat /\ <<>> \in Seq(T) /\ g \in [1..n -> [Seq(T) -> Seq(T)]]
  BY PickType
<1>2. PICK f \in [0..n -> Seq(T)] : IsRecursion(f, <<>>, g, n)
  <2> HIDE DEF g, n
  <2>1. QED
    BY <1>1, RecursionExists
<1>3. f[0] = <<>> /\ \A i \in 1..n : f[i] = IF s[i] \in S THEN Append(f[i - 1], s[i]) ELSE f[i - 1]
  <2>1. ASSUME NEW i \in 1..n
        PROVE  f[i] = IF s[i] \in S THEN Append(f[i - 1], s[i]) ELSE f[i - 1]
    <3>1. f[i - 1] \in Seq(T)
      BY <1>1
    <3>2. QED
      BY <1>2, <3>1 DEF IsRecursion, Pick
  <2>2. f[0] = <<>>
    BY <1>2 DEF IsRecursion
  <2>3. QED
    BY <2>1, <2>2
<1>4. Rec(c)
  <2>1. \A i \in 0..n : f[i] = IF i = 0 THEN <<>>
                              ELSE IF s[i] \in S THEN Append(f[i - 1], s[i])
                                   ELSE f[i - 1]
    <3>1. \A i \in 0..n : i # 0 => i \in 1..n
      OBVIOUS
    <3>2. QED
      BY <1>3, <3>1
  <2>2. f = [i \in 0..n |-> f[i]]
    OBVIOUS
  <2>3. Rec(f)
    BY <2>1, <2>2, Zenon
  <2> HIDE DEF Rec
  <2>4. QED
    BY <2>3
<1>5. Among(s, S) = c[n]
  BY DEF Among
<1> HIDE DEF c
<1>6. c[0] = <<>> /\ \A i \in 1..n : c[i] = IF s[i] \in S THEN Append(c[i - 1], s[i]) ELSE c[i - 1]
  <2>1. \A i \in 0..n : c[i] = IF i = 0 THEN <<>>
                              ELSE IF s[i] \in S THEN Append(c[i - 1], s[i])
                                   ELSE c[i - 1]
    BY <1>4, Zenon
  <2>2. 0 \in 0..n /\ \A i \in 1..n : i \in 0..n /\ i # 0
    BY <1>1
  <2> HIDE DEF n
  <2>3. QED
    BY <2>1, <2>2, Zenon
<1>7. c[n] = f[n]
  <2> DEFINE P == {k \in Nat : k <= n => c[k] = f[k]}
  <2>1. 0 \in P
    BY <1>3, <1>6
  <2>2. ASSUME NEW k \in Nat, k \in P PROVE k + 1 \in P
    <3>1. SUFFICES ASSUME k + 1 <= n PROVE c[k + 1] = f[k + 1]
      OBVIOUS
    <3>2. c[k] = f[k] /\ k + 1 \in 1..n /\ (k + 1) - 1 = k
      BY <2>2, <3>1
    <3>3. f[k + 1] = IF s[k + 1] \in S THEN Append(f[k], s[k + 1]) ELSE f[k]
      BY <1>3, <3>2
    <3>4. c[k + 1] = IF s[k + 1] \in S THEN Append(c[k], s[k + 1]) ELSE c[k]
      BY <1>6, <3>2
    <3>5. QED
      BY <3>2, <3>3, <3>4
  <2> HIDE DEF P
  <2>3. n \in P
    BY <1>1, <2>1, <2>2, Induction
  <2>4. QED
    BY <1>1, <2>3 DEF P
<1>8. QED
  BY <1>3, <1>5, <1>7 DEF Finds

LEMMA AmongEmpty == ASSUME NEW S PROVE Among(<<>>, S) = <<>>
<1> DEFINE s == <<>>
<1>1. s \in Seq({}) /\ Len(s) = 0
  OBVIOUS
<1> HIDE DEF s
<1>2. PICK f : Finds(f, {}, s, S)
  BY <1>1, AmongSteps
<1>3. QED
  BY <1>1, <1>2 DEF s, Finds

\* A longer sequence has what the shorter one has, and the new entry if it is in
\* the set.
LEMMA AmongAppend ==
  ASSUME NEW T, NEW S, NEW s \in Seq(T), NEW x \in T
  PROVE  /\ Among(s, S) \in Seq(T)
         /\ Among(Append(s, x), S) = IF x \in S THEN Append(Among(s, S), x)
                                     ELSE Among(s, S)
<1> DEFINE n == Len(s)
           s1 == Append(s, x)
<1>1. /\ n \in Nat /\ s1 \in Seq(T) /\ Len(s1) = n + 1 /\ s1[n + 1] = x
      /\ \A i \in 1..n : s1[i] = s[i]
  OBVIOUS
<1> HIDE DEF n, s1
<1>2. PICK f : Finds(f, T, s, S)
  BY AmongSteps
<1>3. PICK h : Finds(h, T, s1, S)
  BY <1>1, AmongSteps
<1>4. n = Len(s)
  BY DEF n
<1>5. h[n] = f[n]
  <2> DEFINE P == {k \in Nat : k <= n => h[k] = f[k]}
  <2>1. 0 \in P
    BY <1>2, <1>3 DEF Finds
  <2>2. ASSUME NEW k \in Nat, k \in P PROVE k + 1 \in P
    <3>1. SUFFICES ASSUME k + 1 <= n PROVE h[k + 1] = f[k + 1]
      OBVIOUS
    <3>2. /\ h[k] = f[k] /\ k + 1 \in 1..n /\ k + 1 \in 1..(n + 1) /\ (k + 1) - 1 = k
          /\ s1[k + 1] = s[k + 1]
      BY <1>1, <2>2, <3>1
    <3>3. f[k + 1] = IF s[k + 1] \in S THEN Append(f[k], s[k + 1]) ELSE f[k]
      BY <1>2, <1>4, <3>2 DEF Finds
    <3>4. h[k + 1] = IF s1[k + 1] \in S THEN Append(h[k], s1[k + 1]) ELSE h[k]
      BY <1>1, <1>3, <3>2 DEF Finds
    <3>5. QED
      BY <3>2, <3>3, <3>4
  <2> HIDE DEF P
  <2>3. n \in P
    BY <1>1, <2>1, <2>2, Induction
  <2>4. QED
    BY <1>1, <2>3 DEF P
<1>6. n + 1 \in 1..(n + 1) /\ (n + 1) - 1 = n /\ n \in 0..n
  BY <1>1
<1>7. h[n + 1] = IF x \in S THEN Append(h[n], x) ELSE h[n]
  BY <1>1, <1>3, <1>6 DEF Finds
<1>8. QED
  BY <1>1, <1>2, <1>3, <1>4, <1>5, <1>6, <1>7 DEF s1, Finds
-----------------------------------------------------------------------------
(***************************************************************************)
(* The inductive invariant: what has been handled is the beginning of what *)
(* was asked, and what has been read and what has not are the frames       *)
(* behind it, up to where the connection broke.                            *)
(***************************************************************************)

\* The cells that are behind the first n in the frames of these commands.
Follow(cells, commands, n) ==
  /\ n + Len(cells) <= 3 * Len(commands)
  /\ \A i \in 1..Len(cells), k \in 1..Len(commands), p \in Part :
       n + i = 3 * (k - 1) + p => cells[i] = [command |-> commands[k], part |-> p]

StreamInv ==
  /\ Len(handled) <= Len(asked)
  /\ \A i \in 1..Len(handled) : handled[i] = asked[i]
  /\ Follow(recvd, asked, 3 * Len(handled))
  /\ Follow(wire, asked, 3 * Len(handled) + Len(recvd))
  /\ present => 3 * Len(handled) + Len(recvd) + Len(wire) = 3 * Len(asked)
  /\ ~serving => recvd = <<>> /\ wire = <<>>

AnswerInv == CommandsOf(answered) = Among(handled, Loud)

\* A signature started in this connection and not ended is in progress, and
\* over what was sent since.
SignInv ==
  \A s \in 1..Len(answered) :
    Signing(s, Len(answered) + 1) =>
      /\ signing # Unsigned
      /\ signing = DataIn(SubSeq(answered, s + 1, Len(answered)))

Inv == TypeOK /\ StreamInv /\ AnswerInv /\ SignInv /\ SessionSigns

LEMMA Frames ==
  ASSUME NEW c \in Command
  PROVE  /\ Frame(c) \in Seq(Cell) /\ Len(Frame(c)) = 3
         /\ \A p \in Part : Frame(c)[p] = [command |-> c, part |-> p]
<1>1. \A p \in Part : [command |-> c, part |-> p] \in Cell
  BY DEF Cell
<1>2. Frame(c) \in [1..3 -> Cell]
  BY <1>1 DEF Frame, Part
<1>3. QED
  BY <1>2 DEF Frame, Part

\* A sequence from its n-th member on.
LEMMA From ==
  ASSUME NEW S, NEW s \in Seq(S), NEW n \in Nat, 1 <= n, n <= Len(s) + 1
  PROVE  /\ SubSeq(s, n, Len(s)) \in Seq(S)
         /\ Len(SubSeq(s, n, Len(s))) = Len(s) + 1 - n
         /\ \A i \in 1..(Len(s) + 1 - n) : SubSeq(s, n, Len(s))[i] = s[n + i - 1]
OBVIOUS

\* One sequence behind another.
LEMMA Joined ==
  ASSUME NEW S, NEW s \in Seq(S), NEW t \in Seq(S)
  PROVE  /\ Len(s \o t) = Len(s) + Len(t)
         /\ \A i \in 1..Len(s) : (s \o t)[i] = s[i]
         /\ \A i \in 1..Len(t) : (s \o t)[Len(s) + i] = t[i]
OBVIOUS

\* What a command that is handled does to the stream and to the answers.
Answers(c) == IF c \in Loud THEN \E a \in Answer : a.to = c /\ answered' = Append(answered, a)
              ELSE answered' = answered

LEMMA HandleCases ==
  ASSUME TypeOK, NEW c \in Command, Handle(c)
  PROVE  \/ Take(c, {c.kind}) /\ Answers(c) /\ (signing' = Unsigned \/ signing' \in Seq(Data))
         \/ Unfinished(c)
<1> DEFINE a(ok, over) == [to |-> c, ok |-> ok, over |-> over]
<1>1. ASSUME NEW ok \in BOOLEAN, NEW over \in Seq(Data), Reply(c, ok, over), c.kind # "silent"
      PROVE  Answers(c)
  <2>1. a(ok, over) \in Answer /\ a(ok, over).to = c
    BY DEF Answer
  <2>2. answered' = Append(answered, a(ok, over)) /\ c \in Loud
    BY <1>1 DEF Reply, Loud
  <2> HIDE DEF a
  <2>3. QED
    BY <2>1, <2>2 DEF Answers
<1>2. <<>> \in Seq(Data)
  OBVIOUS
<1>3. CASE Query(c)
  BY <1>1, <1>2, <1>3 DEF Query, Take, TypeOK
<1>4. CASE Refused(c)
  BY <1>1, <1>2, <1>4 DEF Refused, Take, TypeOK
<1>5. CASE Silent(c)
  BY <1>5 DEF Silent, Take, TypeOK, Answers, Loud
<1>6. CASE Unfinished(c)
  BY <1>6
<1>7. CASE SignStart(c)
  BY <1>1, <1>2, <1>7 DEF SignStart, Take, TypeOK
<1>8. CASE SignData(c)
  <2>1. Take(c, {c.kind}) /\ c.kind = "data" /\ c.data \in Data
    BY <1>8 DEF SignData, Take, Command
  <2>2. Answers(c)
    BY <1>1, <1>2, <1>8, <2>1 DEF SignData
  <2>3. signing' = Unsigned \/ signing' \in Seq(Data)
    <3>1. CASE signing' = signing
      BY <3>1 DEF TypeOK
    <3>2. CASE signing # Unsigned /\ signing' = Append(signing, c.data)
      BY <2>1, <3>2 DEF TypeOK
    <3>3. QED
      BY <1>8, <3>1, <3>2 DEF SignData
  <2>4. QED
    BY <2>1, <2>2, <2>3
<1>9. CASE SignFinish(c)
  <2>1. Take(c, {c.kind}) /\ c.kind = "finish"
    BY <1>9 DEF SignFinish, Take
  <2>2. Answers(c)
    BY <1>1, <1>2, <1>9, <2>1 DEF SignFinish, TypeOK
  <2>3. signing' = Unsigned \/ signing' \in Seq(Data)
    BY <1>9 DEF SignFinish, TypeOK
  <2>4. QED
    BY <2>1, <2>2, <2>3
<1>10. QED
  BY <1>3, <1>4, <1>5, <1>6, <1>7, <1>8, <1>9 DEF Handle

\* The frame at hand is that of the next command that was asked.
LEMMA AtHand ==
  ASSUME TypeOK, StreamInv, recvd # <<>>
  PROVE  /\ Len(handled) < Len(asked) /\ serving
         /\ recvd[1] = [command |-> asked[Len(handled) + 1], part |-> 1]
         /\ NextCommand = asked[Len(handled) + 1]
<1>1. Len(recvd) >= 1 /\ 1 \in 1..Len(recvd)
  BY DEF TypeOK
<1>2. Len(handled) \in Nat /\ Len(asked) \in Nat
  BY DEF TypeOK
<1>3. 3 * Len(handled) + Len(recvd) <= 3 * Len(asked)
  BY DEF StreamInv, Follow
<1>4. Len(handled) < Len(asked) /\ Len(handled) + 1 \in 1..Len(asked)
  BY <1>1, <1>2, <1>3
<1>5. 1 \in Part /\ 3 * Len(handled) + 1 = 3 * ((Len(handled) + 1) - 1) + 1
  BY <1>2 DEF Part
<1>6. recvd[1] = [command |-> asked[Len(handled) + 1], part |-> 1]
  BY <1>1, <1>4, <1>5 DEF StreamInv, Follow
<1>7. QED
  BY <1>4, <1>6 DEF NextCommand, StreamInv

LEMMA NoCells == <<>> \in Seq(Cell) /\ Len(<<>>) = 0
OBVIOUS

LEMMA TypeInit == Init => TypeOK
<1> SUFFICES ASSUME Init PROVE TypeOK
  OBVIOUS
<1>1. /\ asked \in Seq(Command) /\ handled \in Seq(Command) /\ answered \in Seq(Answer)
      /\ Len(recvd) <= ReadSize /\ connects \in 0..MaxConnect
  BY SessionAssumption, NoCells DEF Init
<1>2. QED
  BY <1>1, NoCells DEF Init, TypeOK

LEMMA TypeStep == ASSUME TypeOK, StreamInv, Next PROVE TypeOK'
<1>1. CASE Connect
  BY <1>1, SessionAssumption DEF Connect, TypeOK
<1>2. CASE ClientLeaves
  BY <1>2, NoCells DEF ClientLeaves, TypeOK
<1>3. ASSUME NEW c \in Command, ClientWrites(c) PROVE TypeOK'
  <2>1. asked' \in Seq(Command) /\ wire' \in Seq(Cell)
    BY <1>3, Frames DEF ClientWrites, TypeOK
  <2>2. QED
    BY <1>3, <2>1 DEF ClientWrites, TypeOK, link
<1>4. CASE Reset
  BY <1>4 DEF Reset, TypeOK
<1>5. CASE Read
  <2>1. PICK n \in 1..Len(wire) :
          /\ n <= ReadSize /\ recvd' = SubSeq(wire, 1, n)
          /\ wire' = SubSeq(wire, n + 1, Len(wire))
    BY <1>5 DEF Read
  <2>2. wire' \in Seq(Cell) /\ recvd' \in Seq(Cell) /\ Len(recvd') = n /\ recvd'[1] = wire[1]
    <3>1. n \in Nat /\ Len(wire) \in Nat /\ wire \in Seq(Cell)
      BY DEF TypeOK
    <3>2. QED
      BY <2>1, <3>1
  <2>3. recvd'[1].part = 1
    <3>1. Len(recvd) = 0 /\ 1 \in 1..Len(wire)
      BY <1>5, <2>1 DEF Read
    <3>2. Len(handled) \in Nat /\ Len(asked) \in Nat /\ Len(wire) \in Nat
      BY DEF TypeOK
    <3>3. 3 * Len(handled) + Len(wire) <= 3 * Len(asked)
      BY <3>1, <3>2 DEF StreamInv, Follow
    <3>4. Len(handled) + 1 \in 1..Len(asked)
      BY <3>1, <3>2, <3>3
    <3>5. 1 \in Part /\ 3 * Len(handled) + Len(recvd) + 1 = 3 * ((Len(handled) + 1) - 1) + 1
      BY <3>1, <3>2 DEF Part
    <3>6. wire[1] = [command |-> asked[Len(handled) + 1], part |-> 1]
      BY <3>1, <3>4, <3>5 DEF StreamInv, Follow
    <3>7. QED
      BY <2>2, <3>6
  <2>4. QED
    BY <1>5, <2>1, <2>2, <2>3 DEF Read, TypeOK, link
<1>6. CASE BrokenRead \/ FrameCut
  <2>1. CASE BrokenRead
    BY <2>1 DEF BrokenRead, TypeOK, link
  <2>2. CASE FrameCut
    BY <2>2 DEF FrameCut, TypeOK, link
  <2>3. QED
    BY <1>6, <2>1, <2>2
<1>7. ASSUME NEW c \in Command, Handle(c) PROVE TypeOK'
  <2>1. CASE Unfinished(c)
    BY <2>1 DEF Unfinished, TypeOK, link
  <2>2. ASSUME Take(c, {c.kind}), Answers(c), signing' = Unsigned \/ signing' \in Seq(Data)
        PROVE  TypeOK'
    <3>1. answered' \in Seq(Answer) /\ handled' \in Seq(Command)
      <4>1. answered' \in Seq(Answer)
        <5>1. answered \in Seq(Answer)
          BY DEF TypeOK
        <5>2. QED
          BY <2>2, <5>1 DEF Answers
      <4>2. QED
        BY <2>2, <4>1 DEF Take, TypeOK
    <3>2. CASE recvd' = SubSeq(recvd, 4, Len(recvd)) /\ UNCHANGED <<serving, wire>>
      <4>1. /\ recvd' \in Seq(Cell) /\ Len(recvd') = Len(recvd) - 3
            /\ Len(recvd') \in Nat
        <5>1. recvd \in Seq(Cell) /\ Len(recvd) >= 3
          BY <2>2 DEF Take, WholeFrame, TypeOK
        <5>2. QED
          <6>1. recvd' = SubSeq(recvd, 4, Len(recvd))
            BY <3>2
          <6>2. 4 \in Nat /\ 1 <= 4 /\ 4 <= Len(recvd) + 1 /\ recvd \in Seq(Cell)
            BY <5>1
          <6>3. /\ SubSeq(recvd, 4, Len(recvd)) \in Seq(Cell)
                /\ Len(SubSeq(recvd, 4, Len(recvd))) = Len(recvd) + 1 - 4
            BY <6>2, From, Zenon
          <6>4. QED
            BY <6>1, <6>2, <6>3
      <4>2. ASSUME recvd' # <<>> PROVE recvd'[1].part = 1
        <5>1. recvd'[1] = recvd[4] /\ 4 \in 1..Len(recvd) /\ Len(recvd) >= 4
          BY <3>2, <4>1, <4>2 DEF TypeOK
        <5>2. Len(handled) \in Nat /\ Len(asked) \in Nat /\ Len(recvd) \in Nat
          BY DEF TypeOK
        <5>3. 3 * Len(handled) + Len(recvd) <= 3 * Len(asked)
          BY DEF StreamInv, Follow
        <5>4. Len(handled) + 2 \in 1..Len(asked)
          BY <5>1, <5>2, <5>3
        <5>5. 1 \in Part /\ 3 * Len(handled) + 4 = 3 * ((Len(handled) + 2) - 1) + 1
          BY <5>2 DEF Part
        <5>6. recvd[4] = [command |-> asked[Len(handled) + 2], part |-> 1]
          BY <5>1, <5>4, <5>5 DEF StreamInv, Follow
        <5>7. QED
          BY <5>1, <5>6
      <4>3. Len(recvd') <= ReadSize
        BY <4>1, SessionAssumption DEF TypeOK
      <4>4. QED
        BY <2>2, <3>1, <3>2, <4>1, <4>2, <4>3 DEF Take, TypeOK
    <3>3. CASE ~present /\ serving' = FALSE /\ recvd' = <<>> /\ wire' = <<>>
      <4>1. Len(recvd') <= ReadSize
        BY <3>3, NoCells, SessionAssumption
      <4>2. QED
        BY <2>2, <3>1, <3>3, <4>1, NoCells DEF Take, TypeOK
    <3>4. QED
      BY <2>2, <3>2, <3>3 DEF Take, Rest
  <2>3. QED
    BY <1>7, <2>1, <2>2, HandleCases
<1>8. QED
  BY <1>1, <1>2, <1>3, <1>4, <1>5, <1>6, <1>7 DEF Next, Serve

LEMMA StreamInit == Init => StreamInv
<1> SUFFICES ASSUME Init PROVE StreamInv
  OBVIOUS
<1>1. /\ Len(handled) = 0 /\ Len(asked) = 0 /\ Len(recvd) = 0 /\ Len(wire) = 0
      /\ ~present /\ recvd = <<>> /\ wire = <<>>
  BY NoCells DEF Init
<1>2. QED
  BY <1>1 DEF StreamInv, Follow

\* The lengths are numbers, whatever the step.
LEMMA Lengths ==
  ASSUME TypeOK
  PROVE  Len(handled) \in Nat /\ Len(asked) \in Nat /\ Len(recvd) \in Nat /\ Len(wire) \in Nat
BY DEF TypeOK

LEMMA WritesKeepStream ==
  ASSUME TypeOK, StreamInv, NEW c \in Command, ClientWrites(c)
  PROVE  StreamInv'
<1> DEFINE h == Len(handled)
           a == Len(asked)
           r == Len(recvd)
           w == Len(wire)
<1>1. /\ h \in Nat /\ a \in Nat /\ r \in Nat /\ w \in Nat
      /\ 3 * h + r + w = 3 * a /\ h <= a
  BY Lengths DEF StreamInv, ClientWrites
<1>2. /\ handled' = handled /\ recvd' = recvd /\ present /\ present' = present
      /\ serving' = serving
  BY DEF ClientWrites, link
<1>3. Len(asked') = a + 1 /\ asked'[a + 1] = c /\ \A k \in 1..a : asked'[k] = asked[k]
  BY DEF ClientWrites, TypeOK
<1>4. /\ Len(wire') = w + 3
      /\ \A i \in 1..w : wire'[i] = wire[i]
      /\ \A p \in 1..3 : wire'[w + p] = [command |-> c, part |-> p]
  <2>1. wire' = wire \o Frame(c) /\ wire \in Seq(Cell)
    BY DEF ClientWrites, TypeOK
  <2>2. Frame(c) \in Seq(Cell) /\ Len(Frame(c)) = 3
    BY Frames
  <2>3. /\ Len(wire \o Frame(c)) = Len(wire) + Len(Frame(c))
        /\ \A i \in 1..Len(wire) : (wire \o Frame(c))[i] = wire[i]
        /\ \A p \in 1..Len(Frame(c)) : (wire \o Frame(c))[Len(wire) + p] = Frame(c)[p]
    <3>1. wire \in Seq(Cell)
      BY <2>1
    <3>2. PICK f : f = Frame(c)
      OBVIOUS
    <3>3. f \in Seq(Cell)
      BY <2>2, <3>2
    <3>4. /\ Len(wire \o f) = Len(wire) + Len(f)
          /\ \A i \in 1..Len(wire) : (wire \o f)[i] = wire[i]
          /\ \A p \in 1..Len(f) : (wire \o f)[Len(wire) + p] = f[p]
      BY <3>1, <3>3
    <3>5. QED
      BY <3>2, <3>4
  <2>4. \A p \in 1..3 : Frame(c)[p] = [command |-> c, part |-> p]
    BY Frames DEF Part
  <2>5. QED
    BY <2>1, <2>2, <2>3, <2>4
<1>5. /\ \A i \in 1..r, k \in 1..a, p \in 1..3 :
            3 * h + i = 3 * (k - 1) + p => recvd[i] = [command |-> asked[k], part |-> p]
      /\ \A i \in 1..w, k \in 1..a, p \in 1..3 :
            3 * h + r + i = 3 * (k - 1) + p => wire[i] = [command |-> asked[k], part |-> p]
  BY DEF StreamInv, Follow, Part
<1>6. \A i \in 1..h : handled[i] = asked'[i]
  BY <1>1, <1>3 DEF StreamInv
<1>7. serving
  BY <1>2 DEF TypeOK
<1> HIDE DEF h, a, r, w
<1>8. ASSUME NEW i \in 1..r, NEW k \in 1..(a + 1), NEW p \in 1..3,
             3 * h + i = 3 * (k - 1) + p
      PROVE  recvd[i] = [command |-> asked'[k], part |-> p]
  <2>1. k \in 1..a
    BY <1>1, <1>8
  <2>2. recvd[i] = [command |-> asked[k], part |-> p]
    BY <1>5, <1>8, <2>1
  <2>3. QED
    BY <1>3, <2>1, <2>2
<1>9. ASSUME NEW i \in 1..(w + 3), NEW k \in 1..(a + 1), NEW p \in 1..3,
             3 * h + r + i = 3 * (k - 1) + p
      PROVE  wire'[i] = [command |-> asked'[k], part |-> p]
  <2>1. CASE i \in 1..w
    <3>1. k \in 1..a
      BY <1>1, <1>9, <2>1
    <3>2. wire[i] = [command |-> asked[k], part |-> p]
      BY <1>5, <1>9, <2>1, <3>1
    <3>3. QED
      BY <1>3, <1>4, <2>1, <3>1, <3>2
  <2>2. CASE i \notin 1..w
    <3>1. k = a + 1 /\ i = w + p
      BY <1>1, <1>9, <2>2
    <3>2. QED
      BY <1>3, <1>4, <3>1
  <2>3. QED
    BY <2>1, <2>2
<1>10. /\ 3 * h + r <= 3 * (a + 1) /\ 3 * h + r + (w + 3) = 3 * (a + 1) /\ h <= a + 1
       /\ 3 * h + r + (w + 3) <= 3 * (a + 1)
  BY <1>1
<1>11. Follow(recvd, asked, 3 * Len(handled))'
  BY <1>2, <1>3, <1>8, <1>10 DEF Follow, Part, h, r
<1>12. Follow(wire, asked, 3 * Len(handled) + Len(recvd))'
  BY <1>2, <1>3, <1>4, <1>9, <1>10 DEF Follow, Part, h, r
<1>13. QED
  BY <1>2, <1>3, <1>4, <1>6, <1>7, <1>10, <1>11, <1>12 DEF StreamInv, h, r

LEMMA ReadKeepsStream ==
  ASSUME TypeOK, StreamInv, Read
  PROVE  StreamInv'
<1>1. PICK n \in 1..Len(wire) :
        recvd' = SubSeq(wire, 1, n) /\ wire' = SubSeq(wire, n + 1, Len(wire))
  BY DEF Read
<1>2. wire \in Seq(Cell) /\ n \in Nat /\ Len(wire) \in Nat /\ Len(handled) \in Nat
  BY Lengths DEF TypeOK
<1>3. /\ Len(recvd') = n /\ Len(wire') = Len(wire) - n
      /\ \A i \in 1..n : recvd'[i] = wire[i]
      /\ \A i \in 1..(Len(wire) - n) : wire'[i] = wire[n + i]
  BY <1>1, <1>2
<1>4. /\ handled' = handled /\ asked' = asked /\ present' = present /\ serving' = serving
      /\ serving /\ Len(recvd) = 0
  BY NoCells DEF Read, link
<1>5. \A i \in 1..Len(wire), k \in 1..Len(asked), p \in Part :
        3 * Len(handled) + i = 3 * (k - 1) + p => wire[i] = [command |-> asked[k], part |-> p]
  BY <1>2, <1>4 DEF StreamInv, Follow
<1>6. 3 * Len(handled) + Len(wire) <= 3 * Len(asked)
  BY <1>2, <1>4 DEF StreamInv, Follow
<1>7. Len(asked) \in Nat
  BY Lengths
<1>8. Follow(recvd, asked, 3 * Len(handled))'
  <2>1. 3 * Len(handled) + n <= 3 * Len(asked)
    BY <1>2, <1>6, <1>7
  <2>2. \A i \in 1..n : i \in 1..Len(wire)
    BY <1>2
  <2>3. ASSUME NEW i \in 1..n, NEW k \in 1..Len(asked), NEW p \in Part,
               3 * Len(handled) + i = 3 * (k - 1) + p
        PROVE  recvd'[i] = [command |-> asked[k], part |-> p]
    <3>1. wire[i] = [command |-> asked[k], part |-> p]
      BY <1>5, <2>2, <2>3
    <3>2. QED
      BY <1>3, <3>1
  <2>4. QED
    <3>1. Follow(recvd', asked, 3 * Len(handled))
      BY <1>3, <2>1, <2>3 DEF Follow
    <3>2. QED
      BY <1>4, <3>1
<1>9. Follow(wire, asked, 3 * Len(handled) + Len(recvd))'
  <2>1. 3 * Len(handled) + n + (Len(wire) - n) <= 3 * Len(asked)
    BY <1>2, <1>6, <1>7
  <2>2. ASSUME NEW i \in 1..(Len(wire) - n), NEW k \in 1..Len(asked), NEW p \in Part,
               3 * Len(handled) + n + i = 3 * (k - 1) + p
        PROVE  wire'[i] = [command |-> asked[k], part |-> p]
    <3>1. n + i \in 1..Len(wire) /\ 3 * Len(handled) + (n + i) = 3 * (k - 1) + p
      BY <1>2, <2>2 DEF Part
    <3>2. QED
      BY <1>3, <1>5, <3>1
  <2>3. QED
    BY <1>3, <1>4, <2>1, <2>2 DEF Follow
<1>10. present' => 3 * Len(handled') + Len(recvd') + Len(wire') = 3 * Len(asked')
  <2>1. SUFFICES ASSUME present
                 PROVE  3 * Len(handled) + n + (Len(wire) - n) = 3 * Len(asked)
    BY <1>3, <1>4
  <2>2. 3 * Len(handled) + Len(recvd) + Len(wire) = 3 * Len(asked)
    BY <2>1 DEF StreamInv
  <2>3. QED
    BY <1>2, <1>4, <1>7, <2>2
<1>11. QED
  BY <1>4, <1>8, <1>9, <1>10 DEF StreamInv

LEMMA TakeKeepsStream ==
  ASSUME TypeOK, StreamInv, NEW c \in Command, Take(c, {c.kind})
  PROVE  StreamInv'
<1>1. /\ Len(recvd) >= 3 /\ recvd # <<>> /\ c = NextCommand /\ handled' = Append(handled, c)
      /\ Rest /\ present' = present /\ asked' = asked
  BY NoCells, Lengths DEF Take, WholeFrame
<1>2. Len(handled) < Len(asked) /\ c = asked[Len(handled) + 1] /\ serving
  BY <1>1, AtHand
<1>3. /\ Len(handled) \in Nat /\ Len(asked) \in Nat /\ Len(recvd) \in Nat
      /\ Len(wire) \in Nat
  BY Lengths
<1>4. /\ Len(handled') = Len(handled) + 1
      /\ \A i \in 1..Len(handled') : handled'[i] = asked[i]
  <2>1. handled \in Seq(Command)
    BY DEF TypeOK
  <2>2. /\ Len(handled') = Len(handled) + 1 /\ handled'[Len(handled) + 1] = c
        /\ \A i \in 1..Len(handled) : handled'[i] = handled[i]
    BY <1>1, <2>1
  <2>3. QED
    BY <1>2, <1>3, <2>2 DEF StreamInv
<1>5. CASE recvd' = SubSeq(recvd, 4, Len(recvd)) /\ UNCHANGED <<serving, wire>>
  <2>1. /\ Len(recvd') = Len(recvd) - 3
        /\ \A i \in 1..(Len(recvd) - 3) : recvd'[i] = recvd[i + 3]
    <3>1. recvd \in Seq(Cell) /\ 4 \in Nat /\ 1 <= 4 /\ 4 <= Len(recvd) + 1
      BY <1>1, <1>3 DEF TypeOK
    <3>2. /\ Len(SubSeq(recvd, 4, Len(recvd))) = Len(recvd) + 1 - 4
          /\ \A i \in 1..(Len(recvd) + 1 - 4) :
               SubSeq(recvd, 4, Len(recvd))[i] = recvd[4 + i - 1]
      BY <3>1, From, Zenon
    <3>3. \A i \in 1..(Len(recvd) - 3) : i \in 1..(Len(recvd) + 1 - 4) /\ 4 + i - 1 = i + 3
      BY <1>3
    <3>4. QED
      BY <1>3, <1>5, <3>2, <3>3
  <2>2. Follow(recvd, asked, 3 * Len(handled))'
    <3>1. 3 * (Len(handled) + 1) + (Len(recvd) - 3) <= 3 * Len(asked)
      BY <1>3 DEF StreamInv, Follow
    <3>2. ASSUME NEW i \in 1..(Len(recvd) - 3), NEW k \in 1..Len(asked), NEW p \in Part,
                 3 * (Len(handled) + 1) + i = 3 * (k - 1) + p
          PROVE  recvd'[i] = [command |-> asked[k], part |-> p]
      <4>1. i + 3 \in 1..Len(recvd) /\ 3 * Len(handled) + (i + 3) = 3 * (k - 1) + p
        BY <1>3, <3>2 DEF Part
      <4>2. recvd[i + 3] = [command |-> asked[k], part |-> p]
        BY <4>1 DEF StreamInv, Follow
      <4>3. QED
        BY <2>1, <4>2
    <3>3. QED
      BY <1>1, <1>4, <2>1, <3>1, <3>2 DEF Follow
  <2>3. Follow(wire, asked, 3 * Len(handled) + Len(recvd))'
    <3>1. 3 * Len(handled') + Len(recvd') = 3 * Len(handled) + Len(recvd)
      BY <1>3, <1>4, <2>1
    <3>2. wire' = wire /\ asked' = asked
      BY <1>1, <1>5
    <3>3. Follow(wire, asked, 3 * Len(handled) + Len(recvd))
      BY DEF StreamInv
    <3>4. QED
      BY <3>1, <3>2, <3>3
  <2>4. /\ present' => 3 * Len(handled') + Len(recvd') + Len(wire') = 3 * Len(asked')
        /\ Len(handled') <= Len(asked')
    <3>1. Len(handled') <= Len(asked')
      BY <1>1, <1>2, <1>3, <1>4
    <3>2. ASSUME present
          PROVE  3 * (Len(handled) + 1) + (Len(recvd) - 3) + Len(wire) = 3 * Len(asked)
      <4>1. 3 * Len(handled) + Len(recvd) + Len(wire) = 3 * Len(asked)
        BY <3>2 DEF StreamInv
      <4>2. QED
        BY <1>3, <4>1
    <3>3. QED
      BY <1>1, <1>4, <1>5, <2>1, <3>1, <3>2
  <2>5. QED
    BY <1>1, <1>2, <1>4, <1>5, <2>2, <2>3, <2>4 DEF StreamInv
<1>6. CASE ~present /\ serving' = FALSE /\ recvd' = <<>> /\ wire' = <<>>
  <2>1. Len(recvd') = 0 /\ Len(wire') = 0
    BY <1>6, NoCells
  <2>2. 3 * Len(handled') <= 3 * Len(asked') /\ Len(handled') <= Len(asked')
    BY <1>1, <1>2, <1>3, <1>4
  <2>3. Follow(recvd, asked, 3 * Len(handled))' /\ Follow(wire, asked, 3 * Len(handled) + Len(recvd))'
    BY <1>3, <1>4, <2>1, <2>2 DEF Follow
  <2>4. QED
    BY <1>1, <1>4, <1>6, <2>2, <2>3 DEF StreamInv
<1>7. QED
  BY <1>1, <1>5, <1>6 DEF Rest

LEMMA StreamStep == ASSUME TypeOK, StreamInv, Next PROVE StreamInv'
<1>1. CASE Connect
  <2>1. Len(handled') = 0 /\ Len(asked') = 0 /\ Len(recvd') = 0 /\ Len(wire') = 0
    BY <1>1, NoCells DEF Connect, StreamInv
  <2>2. Follow(recvd, asked, 3 * Len(handled))' /\ Follow(wire, asked, 3 * Len(handled) + Len(recvd))'
    BY <2>1 DEF Follow
  <2>3. QED
    BY <1>1, <2>1, <2>2 DEF Connect, StreamInv
<1>2. CASE ClientLeaves
  <2>1. CASE wire' = wire
    BY <1>2, <2>1 DEF ClientLeaves, StreamInv
  <2>2. CASE wire' = <<>>
    <3>1. Len(wire') = 0
      BY <2>2, NoCells
    <3>2. Follow(recvd, asked, 3 * Len(handled))'
      BY <1>2 DEF ClientLeaves, StreamInv
    <3>3. 3 * Len(handled) + Len(recvd) + 0 <= 3 * Len(asked)
      BY Lengths DEF StreamInv, Follow
    <3>4. Follow(wire, asked, 3 * Len(handled) + Len(recvd))'
      BY <1>2, <3>1, <3>3 DEF ClientLeaves, Follow
    <3>5. QED
      BY <1>2, <2>2, <3>2, <3>4 DEF ClientLeaves, StreamInv
  <2>3. QED
    BY <1>2, <2>1, <2>2 DEF ClientLeaves
<1>3. ASSUME NEW c \in Command, ClientWrites(c) PROVE StreamInv'
  BY <1>3, WritesKeepStream
<1>4. CASE Reset
  <2>1. Len(wire') = 0 /\ Len(recvd') = 0 /\ Len(recvd) = 0
    BY <1>4, NoCells DEF Reset
  <2>2. 3 * Len(handled) <= 3 * Len(asked)
    BY Lengths DEF StreamInv
  <2>3. Follow(recvd, asked, 3 * Len(handled))' /\ Follow(wire, asked, 3 * Len(handled) + Len(recvd))'
    BY <1>4, <2>1, <2>2, Lengths DEF Follow, Reset
  <2>4. QED
    BY <1>4, <2>3 DEF Reset, StreamInv
<1>5. CASE Read
  BY <1>5, ReadKeepsStream
<1>6. CASE BrokenRead \/ FrameCut
  BY <1>6 DEF BrokenRead, FrameCut, link, StreamInv
<1>7. ASSUME NEW c \in Command, Handle(c) PROVE StreamInv'
  <2>1. CASE Unfinished(c)
    <3>1. /\ handled' = handled /\ asked' = asked /\ recvd' = recvd /\ wire' = wire
          /\ present' = present /\ serving' = serving
      BY <2>1 DEF Unfinished, link
    <3>2. QED
      BY <3>1 DEF StreamInv
  <2>2. CASE Take(c, {c.kind})
    BY <2>2, TakeKeepsStream
  <2>3. QED
    BY <1>7, <2>1, <2>2, HandleCases
<1>8. QED
  BY <1>1, <1>2, <1>3, <1>4, <1>5, <1>6, <1>7 DEF Next, Serve

-----------------------------------------------------------------------------
(***************************************************************************)
(* What a further answer adds to the commands answered and to the data.    *)
(***************************************************************************)

LEMMA CommandsOfAppend ==
  ASSUME NEW answers \in Seq(Answer), NEW a \in Answer
  PROVE  /\ CommandsOf(answers) \in Seq(Command) /\ a.to \in Command
         /\ CommandsOf(Append(answers, a)) = Append(CommandsOf(answers), a.to)
<1>1. \A x \in Answer : x.to \in Command
  BY DEF Answer
<1>2. \A i \in 1..Len(answers) : answers[i] \in Answer
  OBVIOUS
<1>3. CommandsOf(answers) \in Seq(Command) /\ Len(CommandsOf(answers)) = Len(answers)
  BY <1>1, <1>2 DEF CommandsOf
<1>4. Append(answers, a) \in Seq(Answer)
  OBVIOUS
<1>5. CommandsOf(Append(answers, a)) \in Seq(Command)
  BY <1>1, <1>4 DEF CommandsOf
<1>6. Append(CommandsOf(answers), a.to) \in Seq(Command)
  BY <1>1, <1>3
<1>7. /\ Len(CommandsOf(Append(answers, a))) = Len(answers) + 1
      /\ Len(Append(CommandsOf(answers), a.to)) = Len(answers) + 1
  BY <1>3 DEF CommandsOf
<1>8. ASSUME NEW i \in 1..(Len(answers) + 1)
      PROVE  CommandsOf(Append(answers, a))[i] = Append(CommandsOf(answers), a.to)[i]
  BY <1>3 DEF CommandsOf
<1>9. QED
  BY <1>1, <1>3, <1>5, <1>6, <1>7, <1>8

LEMMA NoData == DataIn(<<>>) = <<>>
<1>1. CommandsOf(<<>>) = <<>>
  BY DEF CommandsOf
<1>2. Among(CommandsOf(<<>>), DataCommand) = <<>>
  BY <1>1, AmongEmpty
<1>3. QED
  BY <1>2 DEF DataIn

LEMMA DataInAppend ==
  ASSUME NEW answers \in Seq(Answer), NEW a \in Answer
  PROVE  DataIn(Append(answers, a)) = IF a.to.kind = "data" THEN Append(DataIn(answers), a.to.data)
                                      ELSE DataIn(answers)
<1> DEFINE commands == CommandsOf(answers)
           sent == Among(commands, DataCommand)
           more == Among(CommandsOf(Append(answers, a)), DataCommand)
<1>1. /\ commands \in Seq(Command) /\ a.to \in Command
      /\ CommandsOf(Append(answers, a)) = Append(commands, a.to)
  BY CommandsOfAppend
<1>2. sent \in Seq(Command) /\ more = IF a.to \in DataCommand THEN Append(sent, a.to) ELSE sent
  <2> HIDE DEF commands
  <2>1. /\ Among(commands, DataCommand) \in Seq(Command)
        /\ Among(Append(commands, a.to), DataCommand)
              = IF a.to \in DataCommand THEN Append(Among(commands, DataCommand), a.to)
                ELSE Among(commands, DataCommand)
    BY <1>1, AmongAppend, Zenon
  <2>2. QED
    BY <1>1, <2>1
<1>3. a.to \in DataCommand <=> a.to.kind = "data"
  BY <1>1 DEF DataCommand
<1>4. /\ DataIn(answers) = [i \in 1..Len(sent) |-> sent[i].data]
      /\ DataIn(Append(answers, a)) = [i \in 1..Len(more) |-> more[i].data]
  BY DEF DataIn
<1> HIDE DEF sent, more
<1>5. CASE a.to \notin DataCommand
  BY <1>2, <1>3, <1>4, <1>5
<1>6. CASE a.to \in DataCommand
  <2>1. more = Append(sent, a.to)
    BY <1>2, <1>6
  <2>2. /\ Len(more) = Len(sent) + 1 /\ more[Len(sent) + 1] = a.to
        /\ \A i \in 1..Len(sent) : more[i] = sent[i]
    BY <1>2, <2>1
  <2> DEFINE d == DataIn(answers)
             e == DataIn(Append(answers, a))
  <2>3. d = [i \in 1..Len(sent) |-> sent[i].data] /\ e = [i \in 1..Len(more) |-> more[i].data]
    BY <1>4
  <2> HIDE DEF d, e
  <2>4. ASSUME NEW T, T = {sent[i].data : i \in 1..Len(sent)} \cup {a.to.data}
        PROVE  d \in Seq(T) /\ e \in Seq(T) /\ Append(d, a.to.data) \in Seq(T)
    <3>1. \A i \in 1..Len(sent) : sent[i].data \in T
      BY <2>4
    <3>2. a.to.data \in T
      BY <2>4
    <3>3. d \in [1..Len(sent) -> T]
      BY <2>3, <3>1
    <3>4. \A i \in 1..Len(more) : more[i].data \in T
      BY <1>2, <2>2, <3>1, <3>2
    <3>5. e \in [1..Len(more) -> T]
      BY <2>3, <3>4
    <3>6. Len(sent) \in Nat /\ Len(more) \in Nat
      BY <1>2, <2>2
    <3>7. d \in Seq(T) /\ e \in Seq(T)
      BY <3>3, <3>5, <3>6
    <3>8. QED
      BY <3>2, <3>7
  <2>5. PICK T : d \in Seq(T) /\ e \in Seq(T) /\ Append(d, a.to.data) \in Seq(T)
    BY <2>4
  <2>6. Len(d) = Len(sent) /\ Len(e) = Len(sent) + 1
    BY <1>2, <2>2, <2>3
  <2>7. /\ Len(Append(d, a.to.data)) = Len(sent) + 1
        /\ Append(d, a.to.data)[Len(sent) + 1] = a.to.data
        /\ \A i \in 1..Len(sent) : Append(d, a.to.data)[i] = sent[i].data
    BY <2>3, <2>5, <2>6
  <2>8. /\ e[Len(sent) + 1] = a.to.data
        /\ \A i \in 1..Len(sent) : e[i] = sent[i].data
    BY <1>2, <2>2, <2>3
  <2>9. \A i \in 1..(Len(sent) + 1) : e[i] = Append(d, a.to.data)[i]
    <3>1. \A i \in 1..(Len(sent) + 1) : i \in 1..Len(sent) \/ i = Len(sent) + 1
      BY <1>2
    <3>2. QED
      BY <2>7, <2>8, <3>1
  <2>10. e = Append(d, a.to.data)
    BY <2>5, <2>6, <2>7, <2>9
  <2>11. QED
    BY <1>3, <1>6, <2>10 DEF d, e
<1>7. QED
  BY <1>5, <1>6

\* The end of a longer sequence, and what stays where it was.
LEMMA EndAppend ==
  ASSUME NEW S, NEW s \in Seq(S), NEW a \in S, NEW n \in 0..Len(s)
  PROVE  SubSeq(Append(s, a), n + 1, Len(s) + 1) = Append(SubSeq(s, n + 1, Len(s)), a)
<1> DEFINE e == SubSeq(s, n + 1, Len(s))
           f == SubSeq(Append(s, a), n + 1, Len(s) + 1)
           m == Len(s) - n
<1>1. /\ e \in Seq(S) /\ Len(e) = m /\ m \in Nat
      /\ \A i \in 1..m : e[i] = s[n + i]
  OBVIOUS
<1>2. /\ f \in Seq(S) /\ Len(f) = m + 1
      /\ \A i \in 1..m : f[i] = s[n + i]
      /\ f[m + 1] = a
  OBVIOUS
<1> HIDE DEF e, f, m
<1>3. /\ Append(e, a) \in Seq(S) /\ Len(Append(e, a)) = m + 1
      /\ \A i \in 1..m : Append(e, a)[i] = s[n + i]
      /\ Append(e, a)[m + 1] = a
  BY <1>1
<1>4. \A i \in 1..(m + 1) : f[i] = Append(e, a)[i]
  <2>1. \A i \in 1..(m + 1) : i \in 1..m \/ i = m + 1
    BY <1>1
  <2>2. QED
    BY <1>2, <1>3, <2>1
<1>5. f = Append(e, a)
  BY <1>1, <1>2, <1>3, <1>4
<1>6. QED
  BY <1>5 DEF e, f

LEMMA MiddleAppend ==
  ASSUME NEW S, NEW s \in Seq(S), NEW a \in S, NEW n \in 0..Len(s), NEW k \in 0..Len(s)
  PROVE  SubSeq(Append(s, a), n + 1, k) = SubSeq(s, n + 1, k)
OBVIOUS

LEMMA EndOfAll ==
  ASSUME NEW s
  PROVE  SubSeq(s, Len(s) + 1, Len(s)) = <<>>
OBVIOUS

-----------------------------------------------------------------------------
(***************************************************************************)
(* Each loud command that is handled is answered, each answer is to it.    *)
(***************************************************************************)

LEMMA AnswersInit == Init => AnswerInv /\ SignInv /\ SessionSigns
<1> SUFFICES ASSUME Init PROVE AnswerInv /\ SignInv /\ SessionSigns
  OBVIOUS
<1>1. answered = <<>> /\ handled = <<>> /\ Len(answered) = 0
  BY DEF Init
<1>2. CommandsOf(answered) = <<>>
  BY <1>1 DEF CommandsOf
<1>3. QED
  BY <1>1, <1>2, AmongEmpty DEF AnswerInv, SignInv, SessionSigns

LEMMA TakeKeepsAnswers ==
  ASSUME TypeOK, AnswerInv, NEW c \in Command, Take(c, {c.kind}), Answers(c)
  PROVE  AnswerInv'
<1>1. handled \in Seq(Command) /\ answered \in Seq(Answer) /\ handled' = Append(handled, c)
  BY DEF TypeOK, Take
<1>2. Among(handled', Loud) = IF c \in Loud THEN Append(Among(handled, Loud), c)
                              ELSE Among(handled, Loud)
  <2>1. Among(Append(handled, c), Loud) = IF c \in Loud THEN Append(Among(handled, Loud), c)
                                          ELSE Among(handled, Loud)
    <3>1. handled \in Seq(Command) /\ c \in Command
      BY <1>1
    <3>2. QED
      BY <3>1, AmongAppend
  <2>2. QED
    BY <1>1, <2>1
<1>3. CASE c \in Loud
  <2>1. PICK a \in Answer : a.to = c /\ answered' = Append(answered, a)
    BY <1>3 DEF Answers
  <2>2. CommandsOf(answered') = Append(CommandsOf(answered), c)
    BY <1>1, <2>1, CommandsOfAppend
  <2>3. QED
    BY <1>2, <1>3, <2>2 DEF AnswerInv
<1>4. CASE c \notin Loud
  BY <1>2, <1>4 DEF Answers, AnswerInv
<1>5. QED
  BY <1>3, <1>4

-----------------------------------------------------------------------------
(***************************************************************************)
(* What is signed.                                                         *)
(***************************************************************************)

\* SignInv when an answer is added: to a start, to data, or to neither.
LEMMA SignAppend ==
  ASSUME TypeOK, SignInv, SessionSigns,
         NEW a \in Answer, answered' = Append(answered, a),
         a.to.kind = "start" => signing' = <<>>,
         (a.to.kind = "data" /\ signing # Unsigned) => signing' = Append(signing, a.to.data),
         a.to.kind \notin {"start", "data", "finish"} => signing' = signing,
         (a.to.kind = "finish" /\ a.ok) => a.over = signing
  PROVE  SignInv' /\ SessionSigns'
<1>0. PICK n \in Nat : n = Len(answered)
  BY DEF TypeOK
<1> DEFINE since(s) == SubSeq(answered, s + 1, n)
<1>1. answered \in Seq(Answer) /\ n \in Nat
  BY DEF TypeOK
<1>2. /\ Len(answered') = n + 1 /\ answered'[n + 1] = a
      /\ \A i \in 1..n : answered'[i] = answered[i]
  BY <1>0, <1>1
<1>3. ASSUME NEW s \in 1..n
      PROVE  /\ SubSeq(answered', s + 1, n + 1) = Append(since(s), a)
             /\ since(s) \in Seq(Answer)
             /\ \A k \in 0..n : SubSeq(answered', s + 1, k) = SubSeq(answered, s + 1, k)
  <2>1. s \in 0..n
    BY <1>1
  <2>2. SubSeq(answered', s + 1, n + 1) = Append(since(s), a)
    <3>1. /\ s \in 0..Len(answered)
          /\ SubSeq(Append(answered, a), s + 1, Len(answered) + 1)
               = Append(SubSeq(answered, s + 1, Len(answered)), a)
      BY <1>0, <1>1, <2>1, EndAppend, Zenon
    <3>2. QED
      BY <1>0, <3>1
  <2>3. since(s) \in Seq(Answer)
    BY <1>0, <1>1
  <2>4. \A k \in 0..n : SubSeq(answered', s + 1, k) = SubSeq(answered, s + 1, k)
    <3>1. \A k \in 0..n : SubSeq(Append(answered, a), s + 1, k) = SubSeq(answered, s + 1, k)
      BY <1>0, <1>1, <2>1, MiddleAppend, Zenon
    <3>2. QED
      BY <3>1
  <2>5. QED
    BY <2>2, <2>3, <2>4
\* A signature in progress before is over what was sent until then.
<1>4. ASSUME NEW s \in 1..n, Signing(s, n + 1)
      PROVE  signing # Unsigned /\ signing = DataIn(since(s))
  BY <1>0, <1>4 DEF SignInv
<1> HIDE DEF since
<1>5. ASSUME NEW s \in 1..n, NEW i \in 1..(n + 1), Signing(s, i)'
      PROVE  Signing(s, i)
  <2>1. \A j \in (s + 1)..(i - 1) : j \in 1..n
    BY <1>1
  <2>2. QED
    BY <1>2, <1>5, <2>1 DEF Signing
<1>6. ASSUME NEW s \in 1..(n + 1), Signing(s, n + 2)'
      PROVE  signing' # Unsigned /\ signing' = DataIn(SubSeq(answered', s + 1, n + 1))
  <2>1. CASE s = n + 1
    <3>1. a.to.kind = "start" /\ signing' = <<>>
      BY <1>2, <1>6, <2>1 DEF Signing
    <3>2. SubSeq(answered', s + 1, n + 1) = <<>>
      <4>1. SubSeq(answered', Len(answered') + 1, Len(answered')) = <<>>
        BY EndOfAll, Zenon
      <4>2. QED
        BY <1>2, <2>1, <4>1
    <3>3. <<>> \in Seq(Data)
      OBVIOUS
    <3>4. QED
      BY <3>1, <3>2, <3>3, NoData, SessionAssumption
  <2>2. CASE s \in 1..n
    <3>1. a.to.kind \notin {"start", "finish"} /\ Signing(s, n + 1)'
      <4>1. n + 1 \in (s + 1)..((n + 2) - 1) /\ \A j \in (s + 1)..((n + 1) - 1) : j \in (s + 1)..((n + 2) - 1)
        BY <1>1, <2>2
      <4>2. QED
        BY <1>2, <1>6, <4>1 DEF Signing
    <3>2. signing # Unsigned /\ signing = DataIn(since(s))
      <4>1. n + 1 \in 1..(n + 1)
        BY <1>1
      <4>2. QED
        BY <1>4, <1>5, <2>2, <3>1, <4>1
    <3>3. DataIn(Append(since(s), a)) = IF a.to.kind = "data"
                                        THEN Append(DataIn(since(s)), a.to.data)
                                        ELSE DataIn(since(s))
      BY <1>3, <2>2, DataInAppend
    <3>4. signing' = DataIn(Append(since(s), a))
      BY <3>1, <3>2, <3>3
    <3>5. signing' # Unsigned
      <4>1. signing \in Seq(Data)
        BY <3>2 DEF TypeOK
      <4>2. CASE a.to.kind = "data"
        <5>1. a.to.data \in Data
          BY <4>2 DEF Answer, Command
        <5>2. Append(signing, a.to.data) \in Seq(Data)
          BY <4>1, <5>1
        <5>3. QED
          BY <3>2, <4>2, <5>2, SessionAssumption
      <4>3. CASE a.to.kind # "data"
        BY <3>1, <3>2, <4>3
      <4>4. QED
        BY <4>2, <4>3
    <3>6. QED
      BY <1>3, <2>2, <3>4, <3>5
  <2>3. QED
    BY <1>1, <2>1, <2>2
<1>7. SignInv'
  <2>1. Len(answered') = n + 1 /\ Len(answered') + 1 = n + 2
    BY <1>1, <1>2
  <2>2. QED
    BY <1>6, <2>1 DEF SignInv
<1>8. ASSUME NEW i \in 1..(n + 1), answered'[i].to.kind = "finish" /\ answered'[i].ok,
             NEW s \in 1..(i - 1), Signing(s, i)'
      PROVE  answered'[i].over = DataIn(SubSeq(answered', s + 1, i - 1))
  <2>1. s \in 1..n /\ i - 1 \in 0..n
    BY <1>1
  <2>2. Signing(s, i)
    BY <1>5, <1>8, <2>1
  <2>3. SubSeq(answered', s + 1, i - 1) = SubSeq(answered, s + 1, i - 1)
    BY <1>3, <2>1
  <2>4. CASE i = n + 1
    <3>1. a.over = signing
      BY <1>2, <1>8, <2>4
    <3>2. signing = DataIn(since(s))
      BY <1>4, <2>1, <2>2, <2>4
    <3>3. i - 1 = n
      BY <1>1, <2>4
    <3>4. QED
      BY <1>2, <2>3, <2>4, <3>1, <3>2, <3>3 DEF since
  <2>5. CASE i \in 1..n
    <3>1. answered'[i] = answered[i]
      BY <1>2, <2>5
    <3>2. answered[i].over = DataIn(SubSeq(answered, s + 1, i - 1))
      BY <1>8, <2>2, <2>5, <3>1, <1>0 DEF SessionSigns
    <3>3. QED
      BY <2>3, <3>1, <3>2
  <2>6. i = n + 1 \/ i \in 1..n
    OBVIOUS
  <2>7. QED
    BY <2>4, <2>5, <2>6
<1>9. SessionSigns'
  BY <1>2, <1>8 DEF SessionSigns
<1>10. QED
  BY <1>7, <1>9

LEMMA HandleKeepsSigns ==
  ASSUME TypeOK, SignInv, SessionSigns, NEW c \in Command, Handle(c)
  PROVE  SignInv' /\ SessionSigns'
<1> DEFINE Kept == SignInv' /\ SessionSigns'
           a(ok, over) == [to |-> c, ok |-> ok, over |-> over]
<1>1. ASSUME NEW ok \in BOOLEAN, NEW over \in Seq(Data), Reply(c, ok, over),
             c.kind = "start" => signing' = <<>>,
             (c.kind = "data" /\ signing # Unsigned) => signing' = Append(signing, c.data),
             c.kind \notin {"start", "data", "finish"} => signing' = signing,
             (c.kind = "finish" /\ ok) => over = signing
      PROVE  Kept
  <2>1. /\ a(ok, over) \in Answer /\ a(ok, over).to = c /\ a(ok, over).ok = ok
        /\ a(ok, over).over = over /\ answered' = Append(answered, a(ok, over))
    BY <1>1 DEF Answer, Reply
  <2> HIDE DEF a
  <2>2. QED
    BY <1>1, <2>1, SignAppend
<1>2. ASSUME UNCHANGED <<signing, answered>> PROVE Kept
  BY <1>2 DEF SignInv, SessionSigns, Signing
<1> SUFFICES Kept
  OBVIOUS
<1> HIDE DEF Kept
<1>3. <<>> \in Seq(Data)
  OBVIOUS
<1>4. CASE Query(c)
  BY <1>1, <1>3, <1>4 DEF Query, Take
<1>5. CASE Refused(c)
  BY <1>1, <1>3, <1>5 DEF Refused, Take
<1>6. CASE Silent(c)
  BY <1>2, <1>6 DEF Silent
<1>7. CASE Unfinished(c)
  BY <1>2, <1>7 DEF Unfinished
<1>8. CASE SignStart(c)
  BY <1>1, <1>3, <1>8 DEF SignStart, Take
<1>9. CASE SignData(c)
  <2>1. c.kind = "data"
    BY <1>9 DEF SignData, Take
  <2>2. CASE signing # Unsigned /\ signing' = Append(signing, c.data) /\ Reply(c, TRUE, <<>>)
    BY <1>1, <1>3, <2>1, <2>2
  <2>3. CASE signing = Unsigned /\ UNCHANGED signing /\ Reply(c, FALSE, <<>>)
    BY <1>1, <1>3, <2>1, <2>3
  <2>4. QED
    BY <1>9, <2>2, <2>3 DEF SignData
<1>10. CASE SignFinish(c)
  <2>1. c.kind = "finish"
    BY <1>10 DEF SignFinish, Take
  <2>2. CASE signing # Unsigned /\ signing' = Unsigned /\ Reply(c, TRUE, signing)
    BY <1>1, <2>1, <2>2 DEF TypeOK
  <2>3. CASE signing = Unsigned /\ UNCHANGED signing /\ Reply(c, FALSE, <<>>)
    BY <1>1, <1>3, <2>1, <2>3
  <2>4. QED
    BY <1>10, <2>2, <2>3 DEF SignFinish
<1>11. QED
  BY <1>4, <1>5, <1>6, <1>7, <1>8, <1>9, <1>10 DEF Handle, Kept

LEMMA AnswersStep ==
  ASSUME TypeOK, AnswerInv, SignInv, SessionSigns, Next
  PROVE  AnswerInv' /\ SignInv' /\ SessionSigns'
<1> DEFINE Kept == AnswerInv' /\ SignInv' /\ SessionSigns'
<1>1. ASSUME UNCHANGED <<handled, signing, answered>> PROVE Kept
  BY <1>1 DEF AnswerInv, SignInv, SessionSigns, Signing
<1>2. CASE Connect
  <2>1. answered' = <<>> /\ handled' = <<>> /\ Len(answered') = 0
    BY <1>2 DEF Connect
  <2>2. CommandsOf(answered') = <<>>
    BY <2>1 DEF CommandsOf
  <2>3. QED
    BY <2>1, <2>2, AmongEmpty DEF AnswerInv, SignInv, SessionSigns
<1>3. ASSUME NEW c \in Command, Handle(c) PROVE Kept
  <2>1. SignInv' /\ SessionSigns'
    BY <1>3, HandleKeepsSigns
  <2>2. CASE Unfinished(c)
    BY <1>1, <2>2 DEF Unfinished
  <2>3. CASE Take(c, {c.kind}) /\ Answers(c)
    BY <2>1, <2>3, TakeKeepsAnswers
  <2>4. QED
    BY <1>3, <2>2, <2>3, HandleCases
<1> SUFFICES Kept
  OBVIOUS
<1> HIDE DEF Kept
<1>4. CASE ClientLeaves
  BY <1>1, <1>4 DEF ClientLeaves
<1>5. ASSUME NEW c \in Command, ClientWrites(c) PROVE Kept
  BY <1>1, <1>5 DEF ClientWrites
<1>6. CASE Reset \/ Read \/ BrokenRead \/ FrameCut
  BY <1>1, <1>6 DEF Reset, Read, BrokenRead, FrameCut
<1>7. QED
  BY <1>2, <1>3, <1>4, <1>5, <1>6 DEF Next, Serve, Kept

-----------------------------------------------------------------------------
LEMMA InvHolds == Spec => []Inv
<1>1. Init => Inv
  BY TypeInit, StreamInit, AnswersInit DEF Inv
<1>2. Inv /\ [Next]_vars => Inv'
  <2> SUFFICES ASSUME Inv, [Next]_vars PROVE Inv'
    OBVIOUS
  <2>1. CASE Next
    BY <2>1, TypeStep, StreamStep, AnswersStep DEF Inv
  <2>2. CASE UNCHANGED vars
    <3>1. /\ UNCHANGED <<serving, present, connects, wire, recvd, signing, panicked>>
          /\ UNCHANGED <<asked, handled, answered>>
      BY <2>2 DEF vars, link
    <3>2. TypeOK' /\ StreamInv'
      BY <3>1 DEF Inv, TypeOK, StreamInv
    <3>3. AnswerInv' /\ SignInv' /\ SessionSigns'
      BY <3>1 DEF Inv, AnswerInv, SignInv, SessionSigns, Signing
    <3>4. QED
      BY <3>2, <3>3 DEF Inv
  <2>3. QED
    BY <2>1, <2>2
<1>3. QED
  BY <1>1, <1>2, PTL DEF Spec

\* The types, and that what is left of a piece begins where a frame does: every
\* piece the task goes on with ends with a frame, or the firmware has stopped.
THEOREM SessionTypes == Spec => []TypeOK
BY InvHolds, PTL DEF Inv

\* The stream of a connection whose client is there is exactly the commands not
\* handled yet, and what was handled and answered is the beginning of what was
\* asked, for pieces of any size.
LEMMA InvOnce == Inv => EveryCommandOnce
<1> SUFFICES ASSUME Inv PROVE EveryCommandOnce
  OBVIOUS
<1>1. /\ TypeOK /\ StreamInv /\ AnswerInv /\ asked \in Seq(Command) /\ handled \in Seq(Command)
      /\ recvd \in Seq(Cell) /\ wire \in Seq(Cell)
  BY DEF Inv, TypeOK
<1>2. IsPrefix(handled, asked)
  <2>1. /\ Len(handled) <= Len(asked) /\ Len(handled) \in Nat /\ Len(asked) \in Nat
        /\ \A i \in 1..Len(handled) : handled[i] = asked[i]
    BY <1>1 DEF StreamInv
  <2>2. handled = SubSeq(asked, 1, Len(handled))
    <3>1. /\ SubSeq(asked, 1, Len(handled)) \in Seq(Command)
          /\ Len(SubSeq(asked, 1, Len(handled))) = Len(handled)
          /\ \A i \in 1..Len(handled) : SubSeq(asked, 1, Len(handled))[i] = asked[i]
      BY <1>1, <2>1
    <3>2. QED
      BY <1>1, <2>1, <3>1
  <2>3. QED
    BY <2>1, <2>2 DEF IsPrefix
<1>3. ASSUME present PROVE AreFrames(recvd \o wire, SubSeq(asked, Len(handled) + 1, Len(asked)))
  <2>1. PICK h, n, r \in Nat : h = Len(handled) /\ n = Len(asked) /\ r = Len(recvd)
    BY <1>1
  <2>2. /\ h <= n /\ 3 * h + r + Len(wire) = 3 * n
        /\ Follow(recvd, asked, 3 * h) /\ Follow(wire, asked, 3 * h + r)
    BY <1>1, <1>3, <2>1 DEF StreamInv
  <2>3. PICK rest : rest = SubSeq(asked, h + 1, n)
    OBVIOUS
  <2>4. Len(rest) = n - h /\ \A k \in 1..(n - h) : rest[k] = asked[h + k] /\ asked[h + k] \in Command
    BY <1>1, <2>1, <2>2, <2>3
  <2>5. /\ Len(recvd \o wire) = r + Len(wire)
        /\ \A i \in 1..r : (recvd \o wire)[i] = recvd[i]
        /\ \A i \in 1..Len(wire) : (recvd \o wire)[r + i] = wire[i]
    BY <1>1, <2>1
  <2>6. Len(wire) \in Nat
    BY <1>1
  <2>7. ASSUME NEW k \in 1..(n - h), NEW p \in Part
        PROVE  (recvd \o wire)[3 * (k - 1) + p] = Frame(rest[k])[p]
    <3>1. Frame(rest[k])[p] = [command |-> asked[h + k], part |-> p]
      BY <2>4, <2>7 DEF Frame
    <3>2. PICK i \in Nat : i = 3 * (k - 1) + p /\ 1 <= i /\ i <= r + Len(wire)
      BY <2>1, <2>2, <2>6 DEF Part
    <3>3. h + k \in 1..n /\ 3 * h + i = 3 * ((h + k) - 1) + p
      BY <2>1, <2>2, <3>2 DEF Part
    <3>4. CASE i <= r
      <4>1. i \in 1..r
        BY <3>2, <3>4
      <4>2. recvd[i] = [command |-> asked[h + k], part |-> p]
        BY <2>1, <2>2, <3>3, <4>1 DEF Follow
      <4>3. QED
        BY <2>5, <3>1, <3>2, <4>1, <4>2
    <3>5. CASE r < i
      <4>0. PICK w \in Nat : w = Len(wire)
        BY <2>6
      <4>1. /\ i - r \in 1..Len(wire) /\ r + (i - r) = i
            /\ 3 * h + r + (i - r) = 3 * h + i
        BY <3>2, <3>5, <4>0
      <4>2. wire[i - r] = [command |-> asked[h + k], part |-> p]
        <5>1. 3 * h + r + (i - r) = 3 * ((h + k) - 1) + p
          BY <3>3, <4>1
        <5>2. h + k \in 1..Len(asked) /\ i - r \in 1..Len(wire)
          BY <2>1, <3>3, <4>1
        <5>3. QED
          BY <2>2, <5>1, <5>2 DEF Follow
      <4>3. (recvd \o wire)[i] = wire[i - r]
        BY <2>5, <4>1
      <4>4. QED
        BY <3>1, <3>2, <4>2, <4>3
    <3>6. i <= r \/ r < i
      OBVIOUS
    <3>7. QED
      BY <3>4, <3>5, <3>6
  <2>8. r + Len(wire) = 3 * (n - h)
    BY <2>1, <2>2, <2>6
  <2>9. AreFrames(recvd \o wire, rest)
    BY <2>4, <2>5, <2>7, <2>8 DEF AreFrames
  <2>10. QED
    BY <2>1, <2>3, <2>9
<1>4. QED
  BY <1>1, <1>2, <1>3 DEF EveryCommandOnce, AnswerInv

\* However TCP cuts and joins the frames, each command is handled once, in
\* order, and answered before the next, for every size of a read.
THEOREM CommandsHandledOnce == Spec => []EveryCommandOnce
BY InvHolds, InvOnce, PTL

\* No signature covers what an earlier connection sent, for any number of
\* connections and data of any length.
THEOREM SignaturesAreOwn == Spec => []SessionSigns
BY InvHolds, PTL DEF Inv
=============================================================================
