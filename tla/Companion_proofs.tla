-------------------------- MODULE Companion_proofs --------------------------
(***************************************************************************)
(* Proofs about Companion for any number of nodes, messages, repeaters,    *)
(* logins and reboots, and logs of any size.                               *)
(***************************************************************************)
EXTENDS Companion, SequenceLemmas

-----------------------------------------------------------------------------
(***************************************************************************)
(* Logins.                                                                 *)
(***************************************************************************)

\* A login in progress is a command that has not reported a success.
LoginInv ==
  /\ login = [n \in Node |-> login[n]]
  /\ logins \in [Node -> Nat] /\ successes \in [Node -> Nat]
  /\ \A n \in Node : /\ successes[n] <= logins[n]
                     /\ login[n] # NoRepeater => successes[n] < logins[n]

LEMMA InitLogin == Init => LoginInv
BY DEF Init, LoginInv

\* Every step keeps a login in progress apart from those that succeeded.
LEMMA NextLogin == LoginInv /\ [Next]_vars => LoginInv'
<1> SUFFICES ASSUME LoginInv, [Next]_vars PROVE LoginInv'
  OBVIOUS
<1> USE CompanionAssumption DEF LoginInv
<1>1. ASSUME UNCHANGED access PROVE LoginInv'
  BY <1>1 DEF access
<1>2. ASSUME NEW n \in Node, NEW m \in Message, Receive(n, m) PROVE LoginInv'
  BY <1>1, <1>2 DEF Receive
<1>3. ASSUME NEW n \in Node, Remember(n) \/ Write(n) PROVE LoginInv'
  BY <1>1, <1>3 DEF Remember, Write
<1>4. ASSUME NEW n \in Node, NEW r \in Repeater, Response(n, r) PROVE LoginInv'
  BY <1>4 DEF Response
<1>5. ASSUME NEW n \in Node, NEW r \in Repeater, SendLogin(n, r) PROVE LoginInv'
  BY <1>5 DEF SendLogin
<1>6. ASSUME NEW n \in Node,
             Overhear(n) \/ Connect(n) \/ Disconnect(n) \/ Notified(n) \/ Sync(n)
               \/ Pop(n) \/ Reply(n)
      PROVE  LoginInv'
  BY <1>1, <1>6 DEF Overhear, Connect, Disconnect, Notified, Sync, Pop, Reply
<1>7. CASE Crash
  BY <1>7 DEF Crash
<1>8. CASE UNCHANGED vars
  BY <1>1, <1>8 DEF vars
<1>9. QED
  BY <1>2, <1>3, <1>4, <1>5, <1>6, <1>7, <1>8 DEF Next

\* A login command reports at most one success (companionv2/mod.rs:163), over
\* reboots, repeated answers and logins that replace one another.
THEOREM LoginsAnsweredOnce == Spec => []LoginAnsweredOnce
<1>1. LoginInv => LoginAnsweredOnce
  BY DEF LoginInv, LoginAnsweredOnce
<1>2. QED
  BY <1>1, InitLogin, NextLogin, PTL DEF Spec

-----------------------------------------------------------------------------
(***************************************************************************)
(* The message log.                                                        *)
(***************************************************************************)

\* Whom the message log belongs to, and what it remembers: messages written, or
\* the one that is being written.
LogInv ==
  /\ handling = [n \in Node |-> handling[n]]
  /\ given \in [Node -> SUBSET Message]
  /\ \A n \in Node : handling[n] \in Message \cup {NoMessage}
  /\ storing \in Node \cup {NoNode}
  /\ storing # NoNode => handling[storing] # NoMessage
  /\ written \in Seq(Message) /\ latest \in Seq(Message)
  /\ \A m \in ElementsOf(latest) :
       \/ m \in ElementsOf(written)
       \/ storing # NoNode /\ m = handling[storing]
  /\ GivenIsWritten

\* What a new entry leaves in a log.
LEMMA PushFrontElements ==
  ASSUME NEW S, NEW s \in Seq(S), NEW m \in S, NEW c \in Nat \ {0}
  PROVE  /\ PushFront(s, m, c) \in Seq(S)
         /\ ElementsOf(PushFront(s, m, c)) \subseteq ElementsOf(s) \cup {m}
<1> DEFINE rest == IF Len(s) >= c THEN SubSeq(s, 1, Len(s) - 1) ELSE s
<1>1. rest \in Seq(S) /\ Len(rest) \in Nat /\ Len(rest) <= Len(s)
      /\ \A i \in 1..Len(rest) : rest[i] = s[i]
  OBVIOUS
<1>2. PushFront(s, m, c) = <<m>> \o rest
  BY DEF PushFront
<1>3. QED
  BY <1>1, <1>2 DEF ElementsOf

LEMMA AppendElements ==
  ASSUME NEW S, NEW s \in Seq(S), NEW m \in S
  PROVE  Append(s, m) \in Seq(S) /\ ElementsOf(Append(s, m)) = ElementsOf(s) \cup {m}
BY DEF ElementsOf

LEMMA ContainsElement == \A s, m : ContainsHash(s, m) <=> m \in ElementsOf(s)
BY DEF ContainsHash, ElementsOf

LEMMA InitLog == Init => LogInv
BY CompanionAssumption DEF Init, LogInv, GivenIsWritten, ElementsOf

\* Every step keeps what was given in the hands of a companion or in the log.
LEMMA NextLog == LogInv /\ [Next]_vars => LogInv'
<1> SUFFICES ASSUME LogInv, [Next]_vars PROVE LogInv'
  OBVIOUS
<1> USE CompanionAssumption DEF LogInv, GivenIsWritten
<1>1. ASSUME UNCHANGED <<handling, given, storing, latest, written>> PROVE LogInv'
  BY <1>1
<1>2. ASSUME NEW n \in Node, NEW m \in Message, Receive(n, m) PROVE LogInv'
  <2>1. CASE UNCHANGED <<handling, given>>
    BY <1>1, <1>2, <2>1 DEF Receive, log
  <2>2. CASE /\ handling' = [handling EXCEPT ![n] = m]
             /\ given' = [given EXCEPT ![n] = @ \cup {m}]
    <3>1. handling[n] = NoMessage /\ UNCHANGED <<storing, latest, written>>
      BY <1>2 DEF Receive, CompanionFree, log
    <3>2. storing # n
      BY <3>1
    <3>3. GivenIsWritten'
      BY <2>2, <3>1
    <3>4. QED
      BY <2>2, <3>1, <3>2, <3>3
  <2>3. QED
    BY <1>2, <2>1, <2>2 DEF Receive
<1>3. ASSUME NEW n \in Node, Remember(n) PROVE LogInv'
  <2>1. /\ handling[n] \in Message /\ storing = NoNode
        /\ ElementsOf(latest) \subseteq ElementsOf(written) /\ UNCHANGED <<given, written>>
    BY <1>3 DEF Remember
  <2>2. CASE /\ ContainsHash(latest, handling[n])
             /\ handling' = [handling EXCEPT ![n] = NoMessage]
             /\ UNCHANGED <<storing, latest>>
    <3>1. handling[n] \in ElementsOf(written)
      BY <2>1, <2>2, ContainsElement
    <3>2. GivenIsWritten'
      BY <2>1, <2>2, <3>1
    <3>3. QED
      BY <2>1, <2>2, <3>2
  <2>3. CASE /\ latest' = PushFront(latest, handling[n], LatestSize)
             /\ storing' = n /\ UNCHANGED handling
    <3>1. latest' \in Seq(Message) /\ ElementsOf(latest') \subseteq ElementsOf(latest) \cup {handling[n]}
      BY <2>1, <2>3, PushFrontElements
    <3>2. QED
      BY <1>3, <2>1, <2>3, <3>1 DEF Remember
  <2>4. QED
    BY <1>3, <2>2, <2>3 DEF Remember
<1>4. ASSUME NEW n \in Node, Write(n) PROVE LogInv'
  <2>1. /\ storing = n /\ storing' = NoNode /\ handling[n] \in Message
        /\ written' = Append(written, handling[n])
        /\ handling' = [handling EXCEPT ![n] = NoMessage]
        /\ UNCHANGED <<given, latest>>
    BY <1>4 DEF Write
  <2>2. /\ written' \in Seq(Message)
        /\ ElementsOf(written') = ElementsOf(written) \cup {handling[n]}
    BY <2>1, AppendElements
  <2>3. GivenIsWritten'
    BY <2>1, <2>2
  <2>4. QED
    BY <2>1, <2>2, <2>3
<1>5. ASSUME NEW n \in Node, NEW r \in Repeater, Response(n, r) \/ SendLogin(n, r)
      PROVE  LogInv'
  BY <1>1, <1>5 DEF Response, SendLogin, log
<1>6. ASSUME NEW n \in Node,
             Overhear(n) \/ Connect(n) \/ Disconnect(n) \/ Notified(n) \/ Sync(n)
               \/ Pop(n) \/ Reply(n)
      PROVE  LogInv'
  BY <1>1, <1>6 DEF Overhear, Connect, Disconnect, Notified, Sync, Pop, Reply, log
<1>7. CASE Crash
  BY <1>7 DEF Crash, ElementsOf
<1>8. CASE UNCHANGED vars
  BY <1>1, <1>8 DEF vars, log
<1>9. QED
  BY <1>2, <1>3, <1>4, <1>5, <1>6, <1>7, <1>8 DEF Next

\* A message that a node's layers were given since the last boot is in the log
\* or about to be written (message_log.rs:41).
THEOREM NothingForgotten == Spec => []GivenIsWritten
<1>1. LogInv => GivenIsWritten
  BY DEF LogInv
<1>2. QED
  BY <1>1, InitLog, NextLog, PTL DEF Spec

-----------------------------------------------------------------------------
(***************************************************************************)
(* The window of the message log.                                          *)
(***************************************************************************)

\* 1 while a message that `latest` has is still to be written.
Pending == IF storing = NoNode THEN 0 ELSE 1

\* `latest` is the end of what was written, newest first, after the message that
\* is being written; and that message is none of them.
WindowInv ==
  /\ LogInv
  /\ Len(latest) = IF Len(written) + Pending < LatestSize
                     THEN Len(written) + Pending ELSE LatestSize
  /\ \A i \in 1..Len(latest) :
       i > Pending => latest[i] = written[Len(written) + Pending + 1 - i]
  /\ storing # NoNode =>
       /\ latest[1] = handling[storing]
       /\ \A j \in 1..Len(written) :
            written[j] = handling[storing] => Len(written) + 1 - j > LatestSize
  /\ StoredOnce

LEMMA InitWindow == Init => WindowInv
BY InitLog, CompanionAssumption DEF Init, WindowInv, Pending, StoredOnce

\* Every step keeps the window of the log at the end of what is written.
LEMMA NextWindow == WindowInv /\ [Next]_vars => WindowInv'
<1> SUFFICES ASSUME WindowInv, [Next]_vars PROVE WindowInv'
  OBVIOUS
<1> USE CompanionAssumption
<1>1. LogInv /\ LogInv'
  BY NextLog DEF WindowInv
<1>2. ASSUME UNCHANGED <<storing, latest, written>>,
             storing # NoNode => handling'[storing] = handling[storing]
      PROVE  WindowInv'
  BY <1>1, <1>2 DEF WindowInv, Pending, StoredOnce
<1>3. ASSUME NEW n \in Node, NEW m \in Message, Receive(n, m) PROVE WindowInv'
  <2>1. UNCHANGED <<storing, latest, written>>
    BY <1>3 DEF Receive, log
  <2>2. storing # NoNode => handling'[storing] = handling[storing]
    BY <1>1, <1>3 DEF Receive, CompanionFree, LogInv
  <2>3. QED
    BY <1>2, <2>1, <2>2
<1>4. ASSUME NEW n \in Node, Remember(n) PROVE WindowInv'
  <2>1. handling[n] \in Message /\ storing = NoNode /\ UNCHANGED written
    BY <1>1, <1>4 DEF Remember, LogInv
  <2>2. CASE UNCHANGED <<storing, latest>>
    BY <1>2, <2>1, <2>2
  <2>3. CASE /\ ~ContainsHash(latest, handling[n])
             /\ latest' = PushFront(latest, handling[n], LatestSize)
             /\ storing' = n /\ UNCHANGED handling
    <3>1. /\ Pending = 0 /\ Pending' = 1 /\ n # NoNode /\ Len(written) \in Nat
          /\ latest \in Seq(Message)
      BY <1>1, <2>1, <2>3 DEF Pending, LogInv
    <3>2. /\ Len(latest') = IF Len(latest) >= LatestSize THEN Len(latest)
                            ELSE Len(latest) + 1
          /\ latest'[1] = handling[n]
          /\ \A i \in 2..Len(latest') : latest'[i] = latest[i - 1]
      <4> DEFINE latest1 == PushFront(latest, handling[n], LatestSize)
      <4>1. /\ Len(latest1) = IF Len(latest) >= LatestSize THEN Len(latest)
                              ELSE Len(latest) + 1
            /\ latest1[1] = handling[n]
            /\ \A i \in 2..Len(latest1) : latest1[i] = latest[i - 1]
        BY <2>1, <3>1, PushFrontPlaces
      <4>2. QED
        BY <2>3, <4>1
    <3>3. Len(latest') = IF Len(written) + 1 < LatestSize THEN Len(written) + 1
                         ELSE LatestSize
      BY <3>1, <3>2 DEF WindowInv
    <3>4. \A i \in 2..Len(latest') : latest'[i] = written[Len(written) + 2 - i]
      BY <3>1, <3>2 DEF WindowInv
    <3>5. ASSUME NEW j \in 1..Len(written), written[j] = handling[n]
          PROVE  Len(written) + 1 - j > LatestSize
      <4>1. \A i \in 1..Len(latest) : written[Len(written) + 1 - i] # handling[n]
        <5>1. \A i \in 1..Len(latest) : latest[i] # handling[n]
          BY <2>3 DEF ContainsHash
        <5>2. \A i \in 1..Len(latest) : i > Pending
          BY <3>1
        <5>3. \A i \in 1..Len(latest) : latest[i] = written[Len(written) + 1 - i]
          BY <3>1, <5>2 DEF WindowInv
        <5>4. QED
          BY <5>1, <5>3
      <4>2. Len(written) + 1 - j \notin 1..Len(latest)
        BY <3>1, <3>5, <4>1
      <4>3. QED
        BY <3>1, <4>2 DEF WindowInv
    <3>6. QED
      BY <1>1, <2>1, <2>3, <3>1, <3>2, <3>3, <3>4, <3>5 DEF WindowInv, StoredOnce
  <2>4. QED
    BY <1>4, <2>2, <2>3 DEF Remember
<1>5. ASSUME NEW n \in Node, Write(n) PROVE WindowInv'
  <2>1. /\ storing = n /\ storing' = NoNode /\ handling[n] \in Message
        /\ n # NoNode /\ written' = Append(written, handling[n]) /\ latest' = latest
        /\ written \in Seq(Message) /\ latest \in Seq(Message)
    BY <1>1, <1>5 DEF Write, LogInv
  <2>2. Pending = 1 /\ Pending' = 0
    BY <2>1 DEF Pending
  <2>3. /\ Len(written') = Len(written) + 1
        /\ \A j \in 1..Len(written) : written'[j] = written[j]
        /\ written'[Len(written) + 1] = handling[n]
    BY <2>1
  <2>4. StoredOnce'
    BY <2>1, <2>3 DEF WindowInv, StoredOnce
  <2>5. Len(latest') = IF Len(written') < LatestSize THEN Len(written') ELSE LatestSize
    BY <2>1, <2>2, <2>3 DEF WindowInv
  <2>6. \A i \in 1..Len(latest') : latest'[i] = written'[Len(written') + 1 - i]
    <3>1. latest'[1] = written'[Len(written')]
      BY <2>1, <2>3 DEF WindowInv
    <3>2. ASSUME NEW i \in 2..Len(latest')
          PROVE  latest'[i] = written'[Len(written') + 1 - i]
      <4>1. latest[i] = written[Len(written) + 2 - i]
        BY <2>1, <2>2 DEF WindowInv
      <4>2. Len(written) + 2 - i \in 1..Len(written)
        BY <2>1, <2>3, <2>5
      <4>3. QED
        BY <2>1, <2>3, <4>1, <4>2
    <3>3. Len(written') + 1 - 1 = Len(written')
      BY <2>1, <2>3
    <3>4. SUFFICES ASSUME NEW i \in 1..Len(latest')
                   PROVE  latest'[i] = written'[Len(written') + 1 - i]
      OBVIOUS
    <3>5. CASE i = 1
      BY <3>1, <3>3, <3>5
    <3>6. CASE i # 1
      <4>1. i \in 2..Len(latest')
        BY <2>1, <3>6
      <4>2. QED
        BY <3>2, <4>1
    <3>7. QED
      BY <3>5, <3>6
  <2>7. QED
    BY <1>1, <2>1, <2>2, <2>3, <2>4, <2>5, <2>6 DEF WindowInv
<1>6. ASSUME NEW n \in Node, NEW r \in Repeater, Response(n, r) \/ SendLogin(n, r)
      PROVE  WindowInv'
  BY <1>2, <1>6 DEF Response, SendLogin, log
<1>7. ASSUME NEW n \in Node,
             Overhear(n) \/ Connect(n) \/ Disconnect(n) \/ Notified(n) \/ Sync(n)
               \/ Pop(n) \/ Reply(n)
      PROVE  WindowInv'
  BY <1>2, <1>7 DEF Overhear, Connect, Disconnect, Notified, Sync, Pop, Reply, log
<1>8. CASE Crash
  BY <1>1, <1>8 DEF Crash, WindowInv, Pending, StoredOnce
<1>9. CASE UNCHANGED vars
  BY <1>2, <1>9 DEF vars, log
<1>10. QED
  BY <1>3, <1>4, <1>5, <1>6, <1>7, <1>8, <1>9 DEF Next

\* Among LatestSize + 1 messages stored one after the other no two are alike
\* (message_log.rs:27), whatever number of nodes hear the same message.
THEOREM NeverStoredTwice == Spec => []StoredOnce
<1>1. WindowInv => StoredOnce
  BY DEF WindowInv
<1>2. QED
  BY <1>1, InitWindow, NextWindow, PTL DEF Spec

-----------------------------------------------------------------------------
(***************************************************************************)
(* Types.                                                                  *)
(***************************************************************************)

\* What TypeOK says beside LogInv and LoginInv.
ClientInv ==
  /\ nodeLog \in [Node -> Seq(Message)]
  /\ notify \in [Node -> Seq(Notification)]
  /\ \A n \in Node : Len(notify[n]) <= NotifyCapacity
  /\ stored \in Seq(Message) /\ Len(stored) <= LogCapacity
  /\ client \in [Node -> {"offline", "idle", "pop", "reply"}]
  /\ reply \in [Node -> Message \cup {NoMessage}]
  /\ login \in [Node -> Repeater \cup {NoRepeater}]
  /\ addressed \in [Node -> SUBSET Message]
  /\ fetched \in [Node -> SUBSET Message]
  /\ logins \in [Node -> 0..MaxLogins]
  /\ received \in 0..MaxReceived /\ crashes \in 0..MaxCrash

LEMMA InitClient == Init => ClientInv
BY CompanionAssumption DEF Init, ClientInv

\* A channel takes what it has a slot for and drops the rest.
LEMMA NotifyFits ==
  ASSUME ClientInv, NEW n \in Node, NEW what \in Notification, Notify(n, what)
  PROVE  notify' \in [Node -> Seq(Notification)] /\ \A k \in Node : Len(notify'[k]) <= NotifyCapacity
<1> USE CompanionAssumption
<1>1. /\ notify \in [Node -> Seq(Notification)] /\ Len(notify[n]) \in Nat
      /\ \A k \in Node : Len(notify[k]) <= NotifyCapacity
  BY DEF ClientInv
<1>2. CASE Len(notify[n]) < NotifyCapacity
  <2>1. /\ Append(notify[n], what) \in Seq(Notification)
        /\ Len(Append(notify[n], what)) <= NotifyCapacity
    BY <1>1, <1>2
  <2>2. notify' = [notify EXCEPT ![n] = Append(notify[n], what)]
    BY <1>2 DEF Notify
  <2>3. QED
    BY <1>1, <2>1, <2>2
<1>3. CASE ~(Len(notify[n]) < NotifyCapacity)
  BY <1>1, <1>3 DEF Notify
<1>4. QED
  BY <1>2, <1>3

LEMMA NextClient == ClientInv /\ LogInv /\ [Next]_vars => ClientInv'
<1> SUFFICES ASSUME ClientInv, LogInv, [Next]_vars PROVE ClientInv'
  OBVIOUS
<1> USE CompanionAssumption DEF ClientInv
<1>1. ASSUME FromAir PROVE received' \in 0..MaxReceived
  BY <1>1 DEF FromAir
<1>2. ASSUME NEW n \in Node, NEW m \in Message, Receive(n, m) PROVE ClientInv'
  <2>1. nodeLog' \in [Node -> Seq(Message)]
    <3>1. nodeLog[n] \in Seq(Message)
      OBVIOUS
    <3>2. Push(nodeLog[n], m, NodeLogSize) \in Seq(Message)
      BY <3>1, PushFrontPlaces DEF Push
    <3>3. QED
      BY <1>2, <3>2 DEF Receive
  <2>2. CASE UNCHANGED <<notify, addressed>>
    BY <1>1, <1>2, <2>1, <2>2 DEF Receive, log, sessions, access
  <2>3. CASE /\ Notify(n, [kind |-> "message", of |-> m])
             /\ addressed' = [addressed EXCEPT ![n] = @ \cup {m}]
    <3>1. [kind |-> "message", of |-> m] \in Notification
      BY DEF Notification
    <3>2. addressed' \in [Node -> SUBSET Message]
      BY <2>3
    <3>3. QED
      BY <1>1, <1>2, <2>1, <2>3, <3>1, <3>2, NotifyFits DEF Receive, log, sessions, access
  <2>4. QED
    BY <1>2, <2>2, <2>3 DEF Receive
<1>3. ASSUME NEW n \in Node, Remember(n) PROVE ClientInv'
  BY <1>3 DEF Remember, sessions, access
<1>4. ASSUME NEW n \in Node, Write(n) PROVE ClientInv'
  <2>1. handling[n] \in Message
    BY <1>4 DEF Write, LogInv
  <2>2. PICK k \in IF Len(stored) = LogCapacity THEN 1..Len(stored) ELSE {0} :
          stored' = Append(SubSeq(stored, k + 1, Len(stored)), handling[n])
    BY <1>4 DEF Write
  <2>3. /\ SubSeq(stored, k + 1, Len(stored)) \in Seq(Message)
        /\ Len(SubSeq(stored, k + 1, Len(stored))) = Len(stored) - k
        /\ k \in Nat /\ Len(stored) \in Nat /\ Len(stored) - k + 1 <= LogCapacity
    BY <2>2
  <2>4. stored' \in Seq(Message) /\ Len(stored') <= LogCapacity
    BY <2>1, <2>2, <2>3
  <2>5. QED
    BY <1>4, <2>4 DEF Write, sessions, access
<1>5. ASSUME NEW n \in Node, NEW r \in Repeater, Response(n, r) PROVE ClientInv'
  <2>1. /\ [kind |-> "login", of |-> r] \in Notification
        /\ [kind |-> "response"] \in Notification
    BY DEF Notification
  <2>2. notify' \in [Node -> Seq(Notification)] /\ \A k \in Node : Len(notify'[k]) <= NotifyCapacity
    BY <1>5, <2>1, NotifyFits DEF Response
  <2>3. login' \in [Node -> Repeater \cup {NoRepeater}]
    BY <1>5 DEF Response
  <2>4. QED
    BY <1>1, <1>5, <2>2, <2>3 DEF Response, log, sessions
<1>6. ASSUME NEW n \in Node, NEW r \in Repeater, SendLogin(n, r) PROVE ClientInv'
  <2>1. logins' \in [Node -> 0..MaxLogins]
    BY <1>6 DEF SendLogin
  <2>2. QED
    BY <1>6, <2>1 DEF SendLogin, log, sessions
<1>7. ASSUME NEW n \in Node, Connect(n) \/ Disconnect(n) \/ Sync(n) PROVE ClientInv'
  BY <1>7 DEF Connect, Disconnect, Sync, SetClient, log, access
<1>8. ASSUME NEW n \in Node, Notified(n) PROVE ClientInv'
  <2>1. /\ notify[n] \in Seq(Notification) /\ notify[n] # <<>>
        /\ notify' = [notify EXCEPT ![n] = Tail(notify[n])]
    BY <1>8 DEF Notified
  <2>2. /\ Tail(notify[n]) \in Seq(Notification)
        /\ Len(Tail(notify[n])) = Len(notify[n]) - 1 /\ Len(notify[n]) \in Nat
    BY <2>1
  <2>3. Len(Tail(notify[n])) <= NotifyCapacity
    BY <2>2
  <2>4. QED
    BY <1>8, <2>1, <2>2, <2>3 DEF Notified, log, sessions, access
<1>9. ASSUME NEW n \in Node, Pop(n) PROVE ClientInv'
  <2>1. \/ UNCHANGED <<stored, reply>>
        \/ /\ stored # <<>> /\ stored' = Tail(stored)
           /\ reply' = [reply EXCEPT ![n] = Head(stored)]
    BY <1>9 DEF Pop
  <2>2. /\ stored' \in Seq(Message) /\ Len(stored') <= LogCapacity
        /\ reply' \in [Node -> Message \cup {NoMessage}]
    <3>1. stored # <<>> => /\ Tail(stored) \in Seq(Message) /\ Head(stored) \in Message
                           /\ Len(Tail(stored)) = Len(stored) - 1 /\ Len(stored) \in Nat
      OBVIOUS
    <3>2. stored # <<>> => Len(Tail(stored)) <= LogCapacity
      BY <3>1
    <3>3. CASE UNCHANGED <<stored, reply>>
      BY <3>3
    <3>4. CASE /\ stored # <<>> /\ stored' = Tail(stored)
               /\ reply' = [reply EXCEPT ![n] = Head(stored)]
      <4>1. stored' \in Seq(Message) /\ Len(stored') <= LogCapacity
        BY <3>1, <3>2, <3>4
      <4>2. reply' \in [Node -> Message \cup {NoMessage}]
        BY <3>1, <3>4
      <4>3. QED
        BY <4>1, <4>2
    <3>5. QED
      BY <2>1, <3>3, <3>4
  <2>3. QED
    BY <1>9, <2>2 DEF Pop, SetClient, access
<1>10. ASSUME NEW n \in Node, Reply(n) PROVE ClientInv'
  <2>1. {reply[n]} \ {NoMessage} \subseteq Message
    OBVIOUS
  <2>2. fetched' \in [Node -> SUBSET Message]
    BY <1>10, <2>1 DEF Reply
  <2>3. QED
    BY <1>10, <2>2 DEF Reply, SetClient, log, access
<1>11. CASE Crash
  BY <1>11 DEF Crash
<1>12. CASE UNCHANGED vars
  BY <1>12 DEF vars, log, sessions, access
<1>13. ASSUME NEW n \in Node, Overhear(n) PROVE ClientInv'
  <2>1. [kind |-> "radio"] \in Notification
    BY DEF Notification
  <2>2. notify' \in [Node -> Seq(Notification)] /\ \A k \in Node : Len(notify'[k]) <= NotifyCapacity
    BY <1>13, <2>1, NotifyFits DEF Overhear
  <2>3. QED
    BY <1>13, <2>2 DEF Overhear, log, sessions, access
<1>14. QED
  BY <1>2, <1>3, <1>4, <1>5, <1>6, <1>7, <1>8, <1>9, <1>10, <1>11, <1>12, <1>13 DEF Next

\* Every variable keeps its type; no queue outgrows its slots, and the companion
\* that has the message log has a message to write.
THEOREM TypeCorrect == Spec => []TypeOK
<1>1. WindowInv /\ LoginInv /\ ClientInv => TypeOK
  <2> SUFFICES ASSUME WindowInv, LoginInv, ClientInv PROVE TypeOK
    OBVIOUS
  <2>1. Len(latest) <= LatestSize
    <3>1. /\ written \in Seq(Message) /\ Pending \in {0, 1} /\ LatestSize \in Nat
          /\ Len(latest) = IF Len(written) + Pending < LatestSize
                             THEN Len(written) + Pending ELSE LatestSize
      BY CompanionAssumption DEF WindowInv, LogInv, Pending
    <3>2. QED
      BY <3>1
  <2>2. handling \in [Node -> Message \cup {NoMessage}]
    BY DEF WindowInv, LogInv
  <2>3. QED
    BY <2>1, <2>2 DEF TypeOK, WindowInv, LogInv, LoginInv, ClientInv
<1>2. WindowInv => LogInv
  BY DEF WindowInv
<1>3. QED
  BY <1>1, <1>2, InitWindow, NextWindow, InitLogin, NextLogin, InitClient, NextClient, PTL
     DEF Spec
=============================================================================
