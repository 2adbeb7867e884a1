------------------------- MODULE NodeRuntime_proofs -------------------------
(***************************************************************************)
(* Proofs about NodeRuntime for any number of nodes, queue sizes, frames,  *)
(* commands and driver errors.                                             *)
(***************************************************************************)
EXTENDS NodeRuntime, SequenceLemmas

-----------------------------------------------------------------------------
(***************************************************************************)
(* The radio listens whenever its task waits.                              *)
(***************************************************************************)

\* From the head of the loop on, the radio receives or is about to be told to.
ListenInv ==
  /\ lora \in {"irq", "enqueue", "clear", "select"} => mode = "rx"
  /\ lora = "top" => mode = "rx" \/ restart

LEMMA InitListens == Init => ListenInv
BY DEF Init, ListenInv

\* Every step keeps the radio receiving where the task relies on it.
LEMMA NextListens == ListenInv /\ [Next]_vars => ListenInv'
<1> SUFFICES ASSUME ListenInv, [Next]_vars PROVE ListenInv'
  OBVIOUS
<1> USE DEF ListenInv
<1>1. CASE Hear
  BY <1>1 DEF Hear
<1>2. CASE LoraStart
  BY <1>2 DEF LoraStart, Listen, RadioError
<1>3. CASE LoraTop
  BY <1>3 DEF LoraTop, BeginTx, Listen, RadioError
<1>4. CASE LoraTx
  BY <1>4 DEF LoraTx, RadioError
<1>5. CASE LoraIrq
  BY <1>5 DEF LoraIrq, RadioError
<1>6. CASE LoraEnqueue
  BY <1>6 DEF LoraEnqueue
<1>7. CASE LoraClear
  BY <1>7 DEF LoraClear, RadioError
<1>8. CASE LoraSelect
  BY <1>8 DEF LoraSelect, BeginTx
<1>9. ASSUME UNCHANGED radio PROVE ListenInv'
  BY <1>9 DEF radio
<1>10. ASSUME RxTake \/ RxRelease \/ SendDelayed PROVE UNCHANGED radio
  BY <1>10 DEF RxTake, RxRelease, SendDelayed
<1>11. ASSUME NEW t \in Task, Begin(t) \/ Run(t) PROVE UNCHANGED radio
  BY <1>11 DEF Begin, Run, Acquire, SendPacket, WriteContact, Reply, RxPacket, RxAnswer, RxFinish
<1>12. CASE UNCHANGED vars
  BY <1>12, <1>9 DEF vars
<1>13. QED
  BY <1>1, <1>2, <1>3, <1>4, <1>5, <1>6, <1>7, <1>8, <1>9, <1>10, <1>11, <1>12
     DEF Next, Lora

\* Whenever the radio task waits for an interrupt or a packet to send
\* (lora.rs:362), the radio receives.
THEOREM AlwaysListens == Spec => []RadioListens
<1>1. ListenInv => RadioListens
  BY DEF ListenInv, RadioListens
<1>2. QED
  BY <1>1, InitListens, NextListens, PTL DEF Spec

-----------------------------------------------------------------------------
(***************************************************************************)
(* The locks never deadlock.                                               *)
(***************************************************************************)

\* What each kind of task does.
Does(kind, j) ==
  \/ kind = "rx" /\ j \in {"idle", "packet", "answer", "text", "advert", "done"}
  \/ kind = "tcp" /\ j \in {"idle", "reply", "contact_message", "self_advert",
                            "update", "remove"}
  \/ kind = "retry" /\ j \in {"idle", "resend", "reset_path"}

JobInv ==
  /\ job = [t \in Task |-> job[t]] /\ got \in [Task -> Nat]
  /\ \A t \in Task : Does(t[1], job[t]) /\ got[t] \in 0..Len(LocksOf(t))

\* Two tasks never hold locks that exclude each other.
Exclusive ==
  \A t, u \in Task : t # u =>
    \A l \in Held(t), m \in Held(u) : ~Conflict(l, m)

LockInv == JobInv /\ Exclusive

-----------------------------------------------------------------------------
\* How many locks a job takes, and which.
LEMMA LockOrder ==
  ASSUME NEW n
  PROVE  /\ \A j \in {"idle", "done"} : Len(Locks(j, n)) = 0
         /\ \A j \in {"reply", "resend"} : Len(Locks(j, n)) = 1
         /\ \A j \in {"packet", "answer", "self_advert", "update", "remove", "reset_path"} :
              Len(Locks(j, n)) = 2
         /\ \A j \in {"text", "advert", "contact_message"} : Len(Locks(j, n)) = 3
         /\ \A j \in {"packet", "answer", "text", "advert", "contact_message", "self_advert",
                      "update", "remove", "reply"} : Locks(j, n)[1] = Companion(n)
         /\ \A j \in {"packet", "answer", "text", "advert"} : Locks(j, n)[2] = Mesh(n, "write")
         /\ \A j \in {"resend", "reset_path"} : Locks(j, n)[1] = Mesh(n, "read")
         /\ Locks("self_advert", n)[2] = Mesh(n, "read")
         /\ Locks("contact_message", n)[3] = Mesh(n, "read")
         /\ Locks("text", n)[3] = Contacts("read")
         /\ Locks("advert", n)[3] = Contacts("write")
         /\ Locks("contact_message", n)[2] = Contacts("read")
         /\ \A j \in {"update", "remove", "reset_path"} : Locks(j, n)[2] = Contacts("write")
<1> DEFINE Is1(j, x) == Len(Locks(j, n)) = 1 /\ Locks(j, n)[1] = x
           Is2(j, x, y) == /\ Len(Locks(j, n)) = 2
                           /\ Locks(j, n)[1] = x /\ Locks(j, n)[2] = y
           Is3(j, x, y, z) == /\ Len(Locks(j, n)) = 3
                              /\ Locks(j, n)[1] = x /\ Locks(j, n)[2] = y
                              /\ Locks(j, n)[3] = z
<1>1. \A j \in {"idle", "done"} : Len(Locks(j, n)) = 0
  <2>1. \A j \in {"idle", "done"} : Locks(j, n) = <<>>
    BY DEF Locks
  <2>2. QED
    BY <2>1
<1>2. Is1("reply", Companion(n)) /\ Is1("resend", Mesh(n, "read"))
  BY DEF Locks
<1>3. /\ Is2("packet", Companion(n), Mesh(n, "write"))
      /\ Is2("answer", Companion(n), Mesh(n, "write"))
  BY DEF Locks
<1>4. Is2("self_advert", Companion(n), Mesh(n, "read"))
  BY DEF Locks
<1>5. Is2("update", Companion(n), Contacts("write"))
  BY DEF Locks
<1>6. Is2("remove", Companion(n), Contacts("write"))
  BY DEF Locks
<1>7. Is2("reset_path", Mesh(n, "read"), Contacts("write"))
  BY DEF Locks
<1>8. Is3("text", Companion(n), Mesh(n, "write"), Contacts("read"))
  BY DEF Locks
<1>9. Is3("advert", Companion(n), Mesh(n, "write"), Contacts("write"))
  BY DEF Locks
<1>10. Is3("contact_message", Companion(n), Contacts("read"), Mesh(n, "read"))
  BY DEF Locks
<1>11. QED
  BY <1>1, <1>2, <1>3, <1>4, <1>5, <1>6, <1>7, <1>8, <1>9, <1>10, Zenon

LEMMA CompanionFirst ==
  ASSUME NEW n, NEW j \in {"packet", "answer", "text", "advert", "contact_message", "self_advert",
                          "update", "remove", "reply"}
  PROVE  Locks(j, n)[1] = Companion(n)
BY LockOrder, Zenon

LEMMA LockCount ==
  ASSUME NEW n, NEW kind, NEW j, Does(kind, j)
  PROVE  Len(Locks(j, n)) \in 0..3
<1>1. CASE j \in {"idle", "done"}
  <2>1. Len(Locks(j, n)) = 0
    BY <1>1, LockOrder, Zenon
  <2>2. QED
    BY <2>1
<1>2. CASE j \in {"reply", "resend"}
  <2>1. Len(Locks(j, n)) = 1
    BY <1>2, LockOrder, Zenon
  <2>2. QED
    BY <2>1
<1>3. CASE j \in {"packet", "answer", "self_advert", "update", "remove", "reset_path"}
  <2>1. Len(Locks(j, n)) = 2
    BY <1>3, LockOrder, Zenon
  <2>2. QED
    BY <2>1
<1>4. CASE j \in {"text", "advert", "contact_message"}
  <2>1. Len(Locks(j, n)) = 3
    BY <1>4, LockOrder, Zenon
  <2>2. QED
    BY <2>1
<1>5. QED
  BY <1>1, <1>2, <1>3, <1>4 DEF Does

LEMMA InitLocks == Init => LockInv
<1> SUFFICES ASSUME Init PROVE LockInv
  OBVIOUS
<1>1. \A t \in Task : job[t] = "idle" /\ got[t] = 0
  BY DEF Init
<1>2. JobInv
  <2>1. job = [t \in Task |-> job[t]] /\ got \in [Task -> Nat]
    BY DEF Init
  <2>2. \A t \in Task : Does(t[1], "idle")
    BY DEF Task, Does
  <2>3. \A t \in Task : Len(LocksOf(t)) = 0
    BY <1>1, LockOrder DEF LocksOf
  <2>4. QED
    BY <1>1, <2>1, <2>2, <2>3 DEF JobInv
<1>3. \A t \in Task : Held(t) = {}
  BY <1>1 DEF Held
<1>4. QED
  BY <1>2, <1>3 DEF LockInv, Exclusive

\* Exclusion is kept when no task gets a lock.
LEMMA Releasing ==
  ASSUME Exclusive, \A t \in Task : Held(t)' \subseteq Held(t)
  PROVE  Exclusive'
BY DEF Exclusive

\* A step that moves task t to another job lets it keep locks, never gain one.
LEMMA Moving ==
  ASSUME LockInv, NEW t \in Task, NEW j, Does(t[1], j), NEW k \in Nat,
         k <= Len(Locks(j, t[2])), Goto(t, j, k),
         \A i \in 1..k : i <= got[t] /\ Locks(j, t[2])[i] = LocksOf(t)[i]
  PROVE  LockInv'
<1> USE DEF LockInv, JobInv
<1>1. /\ job'[t] = j /\ got'[t] = k
      /\ \A u \in Task \ {t} : job'[u] = job[u] /\ got'[u] = got[u]
  BY DEF Goto
<1>2. JobInv'
  <2>1. job' = [u \in Task |-> job'[u]] /\ got' \in [Task -> Nat]
    BY DEF Goto
  <2>2. \A u \in Task : LocksOf(u)' = Locks(job'[u], u[2])
    BY DEF LocksOf
  <2>3. \A u \in Task : Does(u[1], job'[u]) /\ got'[u] \in 0..Len(LocksOf(u)')
    BY <1>1, <2>2 DEF LocksOf
  <2>4. QED
    BY <2>1, <2>3
<1>3. \A u \in Task : Held(u)' \subseteq Held(u)
  BY <1>1 DEF Held, LocksOf
<1>4. QED
  BY <1>2, <1>3, Releasing

\* A step that starts the next job of task t, or ends its last.
LEMMA Starting ==
  ASSUME LockInv, NEW t \in Task, NEW j, Does(t[1], j), Goto(t, j, 0)
  PROVE  LockInv'
<1>1. 0 <= Len(Locks(j, t[2]))
  <2>1. Len(Locks(j, t[2])) \in 0..3
    BY LockCount
  <2>2. QED
    BY <2>1
<1>2. \A i \in 1..0 : i <= got[t] /\ Locks(j, t[2])[i] = LocksOf(t)[i]
  OBVIOUS
<1>3. QED
  BY <1>1, <1>2, Moving

\* A client's command is done and its reply is to be written: the companion stays
\* locked.
LEMMA Replying ==
  ASSUME LockInv, NEW t \in Task, t[1] = "tcp", Goto(t, "reply", 1), HasAll(t),
         job[t] \in {"contact_message", "self_advert", "update"}
  PROVE  LockInv'
<1>1. got[t] \in {2, 3} /\ LocksOf(t)[1] = Companion(t[2])
  <2>1. LocksOf(t)[1] = Companion(t[2])
    BY CompanionFirst DEF LocksOf
  <2>2. CASE job[t] = "contact_message"
    <3>1. Len(Locks(job[t], t[2])) = 3
      BY <2>2, LockOrder, Zenon
    <3>2. QED
      BY <2>1, <3>1 DEF HasAll, LocksOf
  <2>3. CASE job[t] \in {"self_advert", "update"}
    <3>1. Len(Locks(job[t], t[2])) = 2
      BY <2>3, LockOrder, Zenon
    <3>2. QED
      BY <2>1, <3>1 DEF HasAll, LocksOf
  <2>4. QED
    BY <2>2, <2>3
<1>2. Len(Locks("reply", t[2])) = 1 /\ Locks("reply", t[2])[1] = Companion(t[2])
  BY LockOrder, Zenon
<1>3. Does(t[1], "reply")
  BY DEF Does
<1>4. 1 \in Nat /\ 1 <= got[t] /\ 1 <= Len(Locks("reply", t[2]))
  BY <1>1, <1>2
<1>5. \A i \in 1..1 : i <= got[t] /\ Locks("reply", t[2])[i] = LocksOf(t)[i]
  <2>1. \A i \in 1..1 : i = 1
    OBVIOUS
  <2>2. QED
    BY <1>1, <1>2, <1>4, <2>1, Zenon
<1>6. QED
  BY <1>3, <1>4, <1>5, Moving, Zenon

\* A step that gives a receive task the job j keeps what it holds, none.
LEMMA Handing ==
  ASSUME LockInv, NEW j \in {"idle", "packet"}, job' = RxJobs(j), UNCHANGED got,
         \A t \in Task : t[1] = "rx" => got[t] = 0
  PROVE  LockInv'
<1> USE DEF LockInv, JobInv
<1>1. \A t \in Task : job'[t] = IF t[1] = "rx" THEN j ELSE job[t]
  BY DEF RxJobs
<1>2. \A t \in Task : LocksOf(t)' = Locks(job'[t], t[2])
  BY DEF LocksOf
<1>3. \A n : Len(Locks(j, n)) \in {0, 2}
  BY LockOrder, Zenon
<1>4. JobInv'
  <2>1. job' = [t \in Task |-> job'[t]] /\ got' \in [Task -> Nat]
    BY DEF RxJobs
  <2>2. \A t \in Task : Does(t[1], job'[t])
    BY <1>1 DEF Does
  <2>3. \A t \in Task : got'[t] \in 0..Len(LocksOf(t)')
    BY <1>1, <1>2, <1>3 DEF LocksOf
  <2>4. QED
    BY <2>1, <2>2, <2>3
<1>5. \A t \in Task : Held(t)' \subseteq Held(t)
  BY <1>1, <1>2 DEF Held, LocksOf
<1>6. QED
  BY <1>4, <1>5, Releasing

\* Every step keeps the locks exclusive.
LEMMA NextLocks == LockInv /\ [Next]_vars => LockInv'
<1> SUFFICES ASSUME LockInv, [Next]_vars PROVE LockInv'
  OBVIOUS
<1>1. ASSUME NEW t \in Task, Acquire(t) PROVE LockInv'
  <2> USE DEF LockInv, JobInv
  <2>1. /\ got' = [got EXCEPT ![t] = @ + 1] /\ job' = job
        /\ got[t] \in Nat /\ got[t] + 1 <= Len(LocksOf(t))
    BY <1>1 DEF Acquire, HasAll
  <2>2. \A u \in Task : LocksOf(u)' = LocksOf(u)
    BY <2>1 DEF LocksOf
  <2>3. \A u \in Task \ {t} : Held(u)' = Held(u)
    BY <2>1, <2>2 DEF Held
  <2>4. Held(t)' = Held(t) \cup {LocksOf(t)[got[t] + 1]}
    BY <2>1, <2>2 DEF Held
  <2>5. \A u \in Task \ {t} : \A l \in Held(u) : ~Conflict(LocksOf(t)[got[t] + 1], l)
    BY <1>1 DEF Acquire, WaitsFor
  <2>6. \A u \in Task \ {t} : \A l \in Held(t)', m \in Held(u)' :
          ~Conflict(l, m) /\ ~Conflict(m, l)
    BY <2>3, <2>4, <2>5 DEF Exclusive, Conflict
  <2>7. \A u, v \in Task \ {t} : u # v =>
          \A l \in Held(u)', m \in Held(v)' : ~Conflict(l, m)
    BY <2>3 DEF Exclusive
  <2>8. Exclusive'
    BY <2>6, <2>7 DEF Exclusive
  <2>9. JobInv'
    BY <2>1, <2>2
  <2>10. QED
    BY <2>8, <2>9
<1>2. ASSUME NEW t \in Task, Begin(t) PROVE LockInv'
  <2>1. PICK j \in IF t[1] = "tcp" THEN Command ELSE {"resend", "reset_path"} : Goto(t, j, 0)
    BY <1>2 DEF Begin
  <2>2. Does(t[1], j)
    BY <1>2, RuntimeAssumption DEF Begin, Task, Does
  <2>3. QED
    BY <2>1, <2>2, Starting
<1>3. ASSUME NEW t \in Task, SendPacket(t) PROVE LockInv'
  <2>1. CASE t[1] = "tcp" /\ Goto(t, "reply", 1)
    <3>1. job[t] \in {"contact_message", "self_advert"} /\ HasAll(t)
      BY <1>3, <2>1 DEF SendPacket, Sending, LockInv, JobInv, Does
    <3>2. QED
      BY <2>1, <3>1, Replying
  <2>2. CASE t[1] = "retry" /\ Goto(t, "idle", 0)
    BY <2>2, Starting DEF Does
  <2>3. QED
    BY <1>3, <2>1, <2>2 DEF SendPacket
<1>4. ASSUME NEW t \in Task, WriteContact(t) PROVE LockInv'
  <2>1. CASE t[1] = "tcp" /\ Goto(t, "reply", 1)
    <3>1. job[t] = "update" /\ HasAll(t)
      BY <1>4, <2>1 DEF WriteContact, LockInv, JobInv, Does
    <3>2. QED
      BY <2>1, <3>1, Replying
  <2>2. CASE t[1] = "retry" /\ Goto(t, "idle", 0)
    BY <2>2, Starting DEF Does
  <2>3. QED
    BY <1>4, <2>1, <2>2 DEF WriteContact
<1>5. ASSUME NEW t \in Task, Reply(t) PROVE LockInv'
  <2>1. Does(t[1], "idle") /\ Goto(t, "idle", 0)
    BY <1>5 DEF Reply, Task, Does
  <2>2. QED
    BY <2>1, Starting
<1>6. ASSUME NEW t \in Task, t[1] = "rx", RxPacket(t[2]) PROVE LockInv'
  <2>1. t = <<"rx", t[2]>>
    BY <1>6 DEF Task
  <2>2. /\ job[t] = "packet" /\ HasAll(t)
        /\ \/ Goto(t, "done", 0)
           \/ \E j \in {"answer", "text", "advert"} : Goto(t, j, 2)
    BY <1>6, <2>1 DEF RxPacket
  <2>3. CASE Goto(t, "done", 0)
    BY <1>6, <2>3, Starting DEF Does
  <2>4. ASSUME NEW j \in {"answer", "text", "advert"}, Goto(t, j, 2) PROVE LockInv'
    <3>1. got[t] = 2
      BY <2>2, LockOrder DEF HasAll, LocksOf
    <3>2. /\ LocksOf(t)[1] = Companion(t[2]) /\ LocksOf(t)[2] = Mesh(t[2], "write")
          /\ Locks(j, t[2])[1] = Companion(t[2]) /\ Locks(j, t[2])[2] = Mesh(t[2], "write")
      BY <2>2, LockOrder DEF LocksOf
    <3>3. \A i \in 1..2 : i <= got[t] /\ Locks(j, t[2])[i] = LocksOf(t)[i]
      BY <3>1, <3>2
    <3>4. Len(Locks(j, t[2])) \in {2, 3}
      BY LockOrder, Zenon
    <3>5. 2 <= Len(Locks(j, t[2])) /\ Does(t[1], j)
      BY <1>6, <3>4 DEF Does
    <3>6. QED
      BY <2>4, <3>3, <3>5, Moving
  <2>5. QED
    BY <2>2, <2>3, <2>4
<1>7. ASSUME NEW t \in Task, t[1] = "rx", RxAnswer(t[2]) \/ RxFinish(t[2]) PROVE LockInv'
  <2>1. t = <<"rx", t[2]>>
    BY <1>7 DEF Task
  <2>2. Goto(t, "done", 0) /\ Does(t[1], "done")
    BY <1>7, <2>1 DEF RxAnswer, RxFinish, Does
  <2>3. QED
    BY <2>2, Starting
<1>8. ASSUME NEW j \in {"idle", "done"}, \A n \in Node : job[<<"rx", n>>] = j
      PROVE  \A t \in Task : t[1] = "rx" => got[t] = 0
  <2>1. \A t \in Task : t[1] = "rx" => job[t] = j
    BY <1>8 DEF Task
  <2>2. \A t \in Task : t[1] = "rx" => Len(LocksOf(t)) = 0
    BY <2>1, LockOrder DEF LocksOf
  <2>3. QED
    BY <2>2 DEF LockInv, JobInv
<1>9. ASSUME UNCHANGED tasks PROVE LockInv'
  BY <1>9 DEF tasks, LockInv, JobInv, Exclusive, Held, LocksOf
<1>10. CASE RxTake
  <2>1. UNCHANGED tasks \/ (job' = RxJobs("packet") /\ UNCHANGED got)
    BY <1>10 DEF RxTake, tasks
  <2>2. \A t \in Task : t[1] = "rx" => got[t] = 0
    BY <1>8, <1>10 DEF RxTake
  <2>3. QED
    BY <2>1, <2>2, <1>9, Handing
<1>11. CASE RxRelease
  BY <1>8, <1>11, Handing DEF RxRelease
<1>12. CASE Hear \/ Lora \/ SendDelayed \/ UNCHANGED vars
  BY <1>12, <1>9
     DEF Hear, Lora, LoraStart, LoraTop, LoraTx, LoraIrq, LoraEnqueue, LoraClear,
         LoraSelect, SendDelayed, vars
<1>13. QED
  BY <1>1, <1>2, <1>3, <1>4, <1>5, <1>6, <1>7, <1>10, <1>11, <1>12 DEF Next, Run

-----------------------------------------------------------------------------
\* The kind of the next lock of a task.
NextLock(t) == LocksOf(t)[got[t] + 1].lock

\* What a task may still have to wait for: companions come before meshes, meshes
\* before contacts.  A contact message takes the last two the other way round,
\* but once it has the contacts it waits for nothing.
Rank(t) ==
  IF HasAll(t) \/ (job[t] = "contact_message" /\ got[t] = 2) THEN 0
  ELSE IF NextLock(t) = "companion" THEN 3
  ELSE IF NextLock(t) = "mesh" THEN 2
  ELSE 1

LEMMA LockKinds ==
  ASSUME NEW n
  PROVE  /\ \A j \in {"packet", "answer", "text", "advert", "contact_message", "self_advert",
                      "update", "remove", "reply"} : Locks(j, n)[1].lock = "companion"
         /\ \A j \in {"packet", "answer", "text", "advert", "self_advert"} :
              Locks(j, n)[2].lock = "mesh"
         /\ \A j \in {"resend", "reset_path"} : Locks(j, n)[1].lock = "mesh"
         /\ Locks("contact_message", n)[3].lock = "mesh"
         /\ \A j \in {"text", "advert"} : Locks(j, n)[3].lock = "contacts"
         /\ \A j \in {"contact_message", "update", "remove", "reset_path"} :
              Locks(j, n)[2].lock = "contacts"
<1>1. /\ Companion(n).lock = "companion"
      /\ Mesh(n, "read").lock = "mesh" /\ Mesh(n, "write").lock = "mesh"
      /\ Contacts("read").lock = "contacts" /\ Contacts("write").lock = "contacts"
  BY DEF Companion, Mesh, Contacts
<1>2. QED
  BY <1>1, LockOrder, ZenonT(30)

\* Only a received packet locks a mesh for writing, as its second lock.
LEMMA MeshWriter ==
  ASSUME JobInv, NEW u \in Task, NEW i \in 1..got[u],
         LocksOf(u)[i].lock = "mesh", LocksOf(u)[i].mode = "write"
  PROVE  job[u] \in {"packet", "answer", "text", "advert"} /\ i = 2 /\ LocksOf(u)[i].of = u[2]
<1> DEFINE n == u[2]
<1>1. /\ LocksOf(u) = Locks(job[u], n) /\ i \in 1..Len(Locks(job[u], n))
      /\ Does(u[1], job[u])
  BY DEF JobInv, LocksOf
<1>2. Mesh(n, "read").mode = "read" /\ Mesh(n, "write").of = n
  BY DEF Mesh
<1>3. CASE job[u] \in {"idle", "done", "reply", "update", "remove"}
  <2>1. CASE job[u] \in {"idle", "done"}
    <3>1. Len(Locks(job[u], n)) = 0
      BY <2>1, LockOrder, Zenon
    <3>2. QED
      BY <1>1, <3>1
  <2>2. CASE job[u] = "reply"
    <3>1. Len(Locks(job[u], n)) = 1 /\ Locks(job[u], n)[1].lock = "companion"
      <4>1. Len(Locks(job[u], n)) = 1
        BY <2>2, LockOrder, Zenon
      <4>2. Locks(job[u], n)[1].lock = "companion"
        BY <2>2, LockKinds
      <4>3. QED
        BY <4>1, <4>2
    <3>2. QED
      BY <1>1, <3>1
  <2>3. CASE job[u] \in {"update", "remove"}
    <3>1. /\ Len(Locks(job[u], n)) = 2 /\ Locks(job[u], n)[1].lock = "companion"
          /\ Locks(job[u], n)[2].lock = "contacts"
      <4>1. Len(Locks(job[u], n)) = 2
        BY <2>3, LockOrder, Zenon
      <4>2. Locks(job[u], n)[1].lock = "companion"
        BY <2>3, LockKinds
      <4>3. Locks(job[u], n)[2].lock = "contacts"
        BY <2>3, LockKinds
      <4>4. QED
        BY <4>1, <4>2, <4>3
    <3>2. QED
      BY <1>1, <3>1
  <2>4. QED
    BY <1>3, <2>1, <2>2, <2>3
<1>4. CASE job[u] \in {"resend", "self_advert", "reset_path"}
  BY <1>1, <1>2, <1>4, LockOrder, LockKinds
<1>5. CASE job[u] = "contact_message"
  <2>1. Len(Locks(job[u], n)) = 3
    BY <1>5, LockOrder, Zenon
  <2>2. i = 1 \/ i = 2 \/ i = 3
    BY <1>1, <2>1
  <2>3. QED
    BY <1>1, <1>2, <1>5, <2>2, LockOrder, LockKinds
<1>6. CASE job[u] \in {"packet", "answer", "text", "advert"}
  <2>1. CASE job[u] \in {"packet", "answer"}
    <3>1. Len(Locks(job[u], n)) = 2
      BY <2>1, LockOrder, Zenon
    <3>2. i = 1 \/ i = 2
      BY <1>1, <3>1
    <3>3. QED
      BY <1>1, <1>2, <2>1, <3>2, LockOrder, LockKinds
  <2>2. CASE job[u] \in {"text", "advert"}
    <3>1. Len(Locks(job[u], n)) = 3
      BY <2>2, LockOrder, Zenon
    <3>2. i = 1 \/ i = 2 \/ i = 3
      BY <1>1, <3>1
    <3>3. QED
      BY <1>1, <1>2, <2>2, <3>2, LockOrder, LockKinds
  <2>3. QED
    BY <1>6, <2>1, <2>2
<1>7. QED
  BY <1>1, <1>3, <1>4, <1>5, <1>6 DEF Does

\* The node's companion keeps its received packet and its client apart.
LEMMA ContactMessageGoesOn ==
  ASSUME LockInv, NEW t \in Task, NEW u \in Task,
         job[t] = "contact_message", got[t] = 2
  PROVE  ~WaitsFor(t, u)
<1> SUFFICES ASSUME WaitsFor(t, u) PROVE FALSE
  OBVIOUS
<1> USE DEF LockInv, JobInv
<1>1. Companion(t[2]) \in Held(t)
  BY LockOrder DEF Held, LocksOf
<1>2. PICK i \in 1..got[u] : Conflict(Mesh(t[2], "read"), LocksOf(u)[i])
  BY LockOrder DEF WaitsFor, Held, LocksOf
<1>3. job[u] \in {"packet", "answer", "text", "advert"} /\ i = 2 /\ u[2] = t[2]
  <2>1. /\ LocksOf(u)[i].lock = "mesh" /\ LocksOf(u)[i].mode = "write"
        /\ LocksOf(u)[i].of = t[2]
    BY <1>2 DEF Conflict, Mesh
  <2>2. QED
    BY <2>1, MeshWriter
<1>4. Companion(t[2]) \in Held(u)
  <2>1. LocksOf(u)[1] = Companion(t[2])
    BY <1>3, CompanionFirst DEF LocksOf
  <2>2. 1 \in 1..got[u]
    BY <1>2, <1>3
  <2>3. QED
    BY <2>1, <2>2 DEF Held
<1>5. t # u /\ Conflict(Companion(t[2]), Companion(t[2]))
  BY DEF WaitsFor, Conflict, Companion
<1>6. QED
  BY <1>1, <1>4, <1>5 DEF Exclusive

\* A task that holds a lock has to wait for later kinds only.
LEMMA RankOfHolder ==
  ASSUME JobInv, NEW u \in Task, NEW i \in 1..got[u]
  PROVE  /\ LocksOf(u)[i].lock = "companion" => Rank(u) <= 2
         /\ LocksOf(u)[i].lock = "mesh" => Rank(u) <= 1
         /\ LocksOf(u)[i].lock = "contacts" => Rank(u) = 0
<1> DEFINE n == u[2]
<1>1. /\ LocksOf(u) = Locks(job[u], n) /\ got[u] \in 0..Len(LocksOf(u))
      /\ Does(u[1], job[u])
  BY DEF JobInv, LocksOf
<1>2. CASE job[u] \in {"idle", "done"}
  BY <1>1, <1>2, LockOrder
<1>3. CASE job[u] \in {"reply", "resend"}
  <2>1. Len(Locks(job[u], n)) = 1
    BY <1>3, LockOrder, Zenon
  <2>2. QED
    BY <1>1, <2>1 DEF Rank, HasAll
<1>4. CASE job[u] \in {"packet", "answer", "self_advert", "update", "remove", "reset_path"}
  <2>1. Len(Locks(job[u], n)) = 2
    BY <1>4, LockOrder, Zenon
  <2>2. got[u] \in 1..2 /\ i \in 1..got[u]
    BY <1>1, <2>1
  <2>3. CASE got[u] = 2
    BY <1>1, <2>1, <2>3 DEF Rank, HasAll
  <2>4. CASE got[u] = 1
    BY <1>1, <1>4, <2>1, <2>2, <2>4, LockKinds DEF Rank, HasAll, NextLock
  <2>5. QED
    BY <2>2, <2>3, <2>4
<1>5. CASE job[u] \in {"text", "advert", "contact_message"}
  <2>1. Len(Locks(job[u], n)) = 3
    BY <1>5, LockOrder, Zenon
  <2>2. got[u] \in 1..3 /\ i \in 1..got[u]
    BY <1>1, <2>1
  <2>3. CASE got[u] = 3
    BY <1>1, <2>1, <2>3 DEF Rank, HasAll
  <2>4. CASE got[u] = 2
    BY <1>1, <1>5, <2>1, <2>2, <2>4, LockKinds DEF Rank, HasAll, NextLock
  <2>5. CASE got[u] = 1
    BY <1>1, <1>5, <2>1, <2>2, <2>5, LockKinds DEF Rank, HasAll, NextLock
  <2>6. QED
    BY <2>2, <2>3, <2>4, <2>5
<1>6. QED
  BY <1>1, <1>2, <1>3, <1>4, <1>5 DEF Does

\* A task waits only for tasks of a lower rank.
LEMMA WaitsForLower ==
  ASSUME LockInv, NEW t \in Task, NEW u \in Task, WaitsFor(t, u)
  PROVE  Rank(u) < Rank(t)
<1>1. ~(job[t] = "contact_message" /\ got[t] = 2) /\ ~HasAll(t)
  BY ContactMessageGoesOn DEF WaitsFor
<1>2. PICK i \in 1..got[u] : NextLock(t) = LocksOf(u)[i].lock
  BY DEF WaitsFor, Held, Conflict, NextLock
<1>3. LocksOf(u)[i].lock \in {"companion", "mesh", "contacts"}
  <2>1. i \in 1..Len(Locks(job[u], u[2])) /\ Does(u[1], job[u])
    BY DEF LockInv, JobInv, LocksOf
  <2>2. QED
    <3>1. CASE job[u] \in {"idle", "done"}
      <4>1. Len(Locks(job[u], u[2])) = 0
        BY <3>1, LockOrder, Zenon
      <4>2. QED
        BY <2>1, <4>1
    <3>2. CASE job[u] \in {"reply", "resend"}
      <4>1. /\ Len(Locks(job[u], u[2])) = 1
            /\ Locks(job[u], u[2])[1].lock \in {"companion", "mesh"}
        <5>1. Len(Locks(job[u], u[2])) = 1
          BY <3>2, LockOrder, Zenon
        <5>2. Locks(job[u], u[2])[1].lock \in {"companion", "mesh"}
          BY <3>2, LockKinds
        <5>3. QED
          BY <5>1, <5>2
      <4>2. QED
        BY <2>1, <4>1 DEF LocksOf
    <3>3. CASE job[u] \in {"packet", "answer", "self_advert", "update", "remove", "reset_path"}
      <4>1. /\ Len(Locks(job[u], u[2])) = 2
            /\ Locks(job[u], u[2])[1].lock \in {"companion", "mesh"}
            /\ Locks(job[u], u[2])[2].lock \in {"mesh", "contacts"}
        <5>1. Len(Locks(job[u], u[2])) = 2
          BY <3>3, LockOrder, Zenon
        <5>2. Locks(job[u], u[2])[1].lock \in {"companion", "mesh"}
          BY <3>3, LockKinds
        <5>3. Locks(job[u], u[2])[2].lock \in {"mesh", "contacts"}
          BY <3>3, LockKinds
        <5>4. QED
          BY <5>1, <5>2, <5>3
      <4>2. QED
        BY <2>1, <4>1 DEF LocksOf
    <3>4. CASE job[u] \in {"text", "advert", "contact_message"}
      <4>1. /\ Len(Locks(job[u], u[2])) = 3
            /\ Locks(job[u], u[2])[1].lock = "companion"
            /\ Locks(job[u], u[2])[2].lock \in {"mesh", "contacts"}
            /\ Locks(job[u], u[2])[3].lock \in {"mesh", "contacts"}
        <5>1. Len(Locks(job[u], u[2])) = 3
          BY <3>4, LockOrder, Zenon
        <5>2. Locks(job[u], u[2])[1].lock = "companion"
          BY <3>4, LockKinds
        <5>3. Locks(job[u], u[2])[2].lock \in {"mesh", "contacts"}
          BY <3>4, LockKinds
        <5>4. Locks(job[u], u[2])[3].lock \in {"mesh", "contacts"}
          BY <3>4, LockKinds
        <5>5. QED
          BY <5>1, <5>2, <5>3, <5>4
      <4>2. QED
        BY <2>1, <4>1 DEF LocksOf
    <3>5. QED
      BY <2>1, <3>1, <3>2, <3>3, <3>4 DEF Does
<1>4. /\ NextLock(t) = "companion" => Rank(t) = 3
      /\ NextLock(t) = "mesh" => Rank(t) = 2
      /\ NextLock(t) = "contacts" => Rank(t) = 1
  BY <1>1 DEF Rank
<1>5. /\ NextLock(t) = "companion" => Rank(u) <= 2
      /\ NextLock(t) = "mesh" => Rank(u) <= 1
      /\ NextLock(t) = "contacts" => Rank(u) = 0
  BY <1>2, RankOfHolder DEF LockInv
<1>6. Rank(u) \in Int
  BY DEF Rank
<1>7. QED
  BY <1>2, <1>3, <1>4, <1>5, <1>6

\* Whatever is waited for, a task of least rank waits for none of the set.
LEMMA NoCycle == LockInv => NoLockCycle
<1> SUFFICES ASSUME LockInv, NEW S \in SUBSET Task, S # {},
                    \A t \in S : \E u \in S : WaitsFor(t, u)
             PROVE  FALSE
  BY DEF NoLockCycle
<1>1. \A t \in S : Rank(t) \in 0..3
  BY DEF Rank
<1>2. \A t \in S : \E u \in S : Rank(u) < Rank(t)
  BY WaitsForLower
<1>3. QED
  BY <1>1, <1>2

\* No tasks wait for each other's locks in a circle, whatever clients, received
\* packets and retries of the nodes do (lora.rs:558, tcp.rs:85, layer.rs:277).
THEOREM NeverLockCycle == Spec => []NoLockCycle
BY InitLocks, NextLocks, NoCycle, PTL DEF Spec

-----------------------------------------------------------------------------
(***************************************************************************)
(* Frames reach the layers in order, and again only after others.          *)
(***************************************************************************)

AtMost(s, f) == \A i \in 1..Len(s) : s[i] <= f

\* Frames are numbered as they are heard; the radio task may read one twice, but
\* never after a later one.
FrameInv ==
  /\ heard \in 0..MaxHeard /\ inbox \in Frame \cup {0} /\ received \in Frame \cup {0}
  /\ rxQueue \in Seq(Frame) /\ Len(rxQueue) <= RxCapacity
  /\ \A i, j \in 1..Len(rxQueue) : i < j => rxQueue[i] <= rxQueue[j]
  /\ inbox <= heard /\ AtMost(rxQueue, heard)
  /\ inbox # 0 => AtMost(rxQueue, inbox)
  /\ lora = "enqueue" => /\ received # 0 /\ inbox # 0 /\ received <= inbox
                         /\ AtMost(rxQueue, received)

Entry == Frame \cup {Own}

\* What a node was given is no later than what is still to come, and its log is
\* the newest part of it.
GivenInv(n) ==
  /\ Recent(Entry, seen[n], handled[n], PacketLogSize)
  /\ InOrder(handled[n]) /\ AtMost(handled[n], heard)
  /\ \A k \in 1..Len(rxQueue) : AtMost(handled[n], rxQueue[k])
  /\ inbox # 0 => AtMost(handled[n], inbox)
  /\ lora = "enqueue" => AtMost(handled[n], received)
  /\ job[<<"rx", n>>] # "idle" => rxQueue # <<>>

OrderInv ==
  /\ FrameInv
  /\ seen = [n \in Node |-> seen[n]] /\ handled = [n \in Node |-> handled[n]]
  /\ \A n \in Node : GivenInv(n)

LEMMA InitOrder == Init => OrderInv
<1> SUFFICES ASSUME Init PROVE OrderInv
  OBVIOUS
<1> USE RuntimeAssumption DEF Init, AtMost
<1>1. FrameInv
  BY DEF FrameInv, Frame
<1>2. ASSUME NEW n \in Node PROVE GivenInv(n)
  <2>1. seen[n] = <<>> /\ handled[n] = <<>> /\ <<"rx", n>> \in Task
    BY DEF Task
  <2>2. job[<<"rx", n>>] = "idle"
    BY <2>1
  <2>3. Recent(Entry, <<>>, <<>>, PacketLogSize) /\ InOrder(<<>>)
    BY EmptyWindow DEF Window, InOrder
  <2>4. QED
    BY <2>1, <2>2, <2>3 DEF GivenInv
<1>3. QED
  BY <1>1, <1>2 DEF OrderInv

LEMMA AtMostLater ==
  ASSUME NEW s, \A i \in 1..Len(s) : s[i] \in Int, NEW f \in Int, NEW g \in Int, f <= g, AtMost(s, f)
  PROVE  AtMost(s, g)
<1>1. \A i \in 1..Len(s) : s[i] \in Int /\ s[i] <= f
  BY DEF AtMost
<1>2. QED
  BY <1>1 DEF AtMost

\* Steps of the radio and its task that leave the queue alone.
LEMMA RadioKeepsOrder ==
  ASSUME OrderInv,
         Hear \/ LoraStart \/ LoraTop \/ LoraTx \/ LoraIrq \/ LoraClear \/ LoraSelect
  PROVE  OrderInv'
<1> USE RuntimeAssumption
<1>1. /\ UNCHANGED <<seen, handled, job, rxQueue>>
      /\ heard' \in 0..MaxHeard /\ heard <= heard'
      /\ inbox' \in Frame \cup {0} /\ received' \in Frame \cup {0} /\ inbox' <= heard'
      /\ inbox' # 0 => inbox' = inbox \/ inbox' = heard + 1
      /\ lora' = "enqueue" => \/ lora = "enqueue" /\ received' = received /\ inbox' = heard + 1
                              \/ inbox # 0 /\ received' = inbox /\ inbox' = inbox
  <2>1. CASE Hear
    BY <2>1 DEF OrderInv, FrameInv, Hear, Frame, queues, tasks, meshes
  <2>2. CASE LoraStart
    BY <2>2 DEF OrderInv, FrameInv, LoraStart, Listen, RadioError, Frame, queues, tasks, meshes
  <2>3. CASE LoraTop
    BY <2>3 DEF OrderInv, FrameInv, LoraTop, BeginTx, Listen, RadioError, Frame, queues, tasks, meshes
  <2>4. CASE LoraTx
    BY <2>4 DEF OrderInv, FrameInv, LoraTx, RadioError, Frame, tasks, meshes
  <2>5. CASE LoraIrq
    BY <2>5 DEF OrderInv, FrameInv, LoraIrq, RadioError, Frame, queues, tasks, meshes
  <2>6. CASE LoraClear
    BY <2>6 DEF OrderInv, FrameInv, LoraClear, RadioError, Frame, queues, tasks, meshes
  <2>7. CASE LoraSelect
    BY <2>7 DEF OrderInv, FrameInv, LoraSelect, BeginTx, Frame, queues, tasks, meshes, counters
  <2>8. QED
    BY <2>1, <2>2, <2>3, <2>4, <2>5, <2>6, <2>7
<1>2. /\ heard \in Int /\ inbox \in Int /\ received \in Int /\ heard' \in Int /\ heard + 1 \in Int
      /\ heard <= heard + 1
  BY <1>1 DEF OrderInv, FrameInv, Frame
<1>0. /\ \A i \in 1..Len(rxQueue) : rxQueue[i] \in Int
      /\ \A n \in Node : \A i \in 1..Len(handled[n]) : handled[n][i] \in Int
  <2>1. \A s \in Seq(Entry) : \A i \in 1..Len(s) : s[i] \in Int
    BY DEF Entry, Own, Frame
  <2>2. \A n \in Node : handled[n] \in Seq(Entry)
    BY DEF OrderInv, GivenInv, Recent
  <2>3. \A i \in 1..Len(rxQueue) : rxQueue[i] \in Int
    BY DEF OrderInv, FrameInv, Frame
  <2>4. QED
    BY <2>1, <2>2, <2>3
<1>3. ASSUME NEW s, \A i \in 1..Len(s) : s[i] \in Int, AtMost(s, heard), inbox # 0 => AtMost(s, inbox),
             lora = "enqueue" => AtMost(s, received)
      PROVE  /\ AtMost(s, heard')
             /\ inbox' # 0 => AtMost(s, inbox')
             /\ lora' = "enqueue" => AtMost(s, received')
  BY <1>1, <1>2, <1>3, AtMostLater
<1>4. FrameInv'
  <2>1. /\ AtMost(rxQueue, heard')
        /\ inbox' # 0 => AtMost(rxQueue, inbox')
        /\ lora' = "enqueue" => AtMost(rxQueue, received')
    BY <1>0, <1>3 DEF OrderInv, FrameInv
  <2>2. lora' = "enqueue" => received' # 0 /\ inbox' # 0 /\ received' <= inbox'
    BY <1>1 DEF OrderInv, FrameInv, Frame
  <2>3. QED
    BY <1>1, <2>1, <2>2 DEF OrderInv, FrameInv, AtMost
<1>5. ASSUME NEW n \in Node PROVE GivenInv(n)'
  <2>1. GivenInv(n)
    BY DEF OrderInv
  <2>2. /\ AtMost(handled[n], heard')
        /\ inbox' # 0 => AtMost(handled[n], inbox')
        /\ lora' = "enqueue" => AtMost(handled[n], received')
    BY <1>0, <1>3, <2>1 DEF GivenInv
  <2>3. QED
    BY <1>1, <2>1, <2>2 DEF GivenInv, AtMost
<1>6. QED
  BY <1>1, <1>4, <1>5 DEF OrderInv

LEMMA EnqueueKeepsOrder ==
  ASSUME OrderInv, LoraEnqueue PROVE OrderInv'
<1> USE RuntimeAssumption
<1>1. /\ lora = "enqueue" /\ lora' = "clear" /\ Len(rxQueue) < RxCapacity
      /\ rxQueue' = Append(rxQueue, received)
      /\ received' = 0 /\ UNCHANGED <<seen, handled, job, inbox, heard>>
  BY DEF LoraEnqueue, tasks, meshes, counters
<1>2. /\ rxQueue \in Seq(Frame) /\ received \in Frame /\ inbox # 0 /\ received <= inbox
      /\ AtMost(rxQueue, received) /\ inbox <= heard /\ heard \in Nat /\ inbox \in Nat /\ received \in Nat
  BY <1>1 DEF OrderInv, FrameInv, Frame
<1>3. /\ rxQueue' \in Seq(Frame) /\ Len(rxQueue') = Len(rxQueue) + 1 /\ Len(rxQueue) \in Nat
      /\ \A i \in 1..Len(rxQueue) : rxQueue'[i] = rxQueue[i] /\ rxQueue[i] <= received
      /\ rxQueue'[Len(rxQueue) + 1] = received
  BY <1>1, <1>2 DEF AtMost
<1>4. \A i \in 1..Len(rxQueue') : i \in 1..Len(rxQueue) \/ (i = Len(rxQueue) + 1 /\ rxQueue'[i] = received)
  BY <1>3
<1>5. /\ \A i, j \in 1..Len(rxQueue') : i < j => rxQueue'[i] <= rxQueue'[j]
      /\ AtMost(rxQueue', received)
  <2>1. ASSUME NEW i \in 1..Len(rxQueue'), NEW j \in 1..Len(rxQueue'), i < j
        PROVE  rxQueue'[i] <= rxQueue'[j]
    <3>1. i \in 1..Len(rxQueue)
      BY <1>3, <2>1
    <3>2. CASE j \in 1..Len(rxQueue)
      BY <1>3, <2>1, <3>1, <3>2 DEF OrderInv, FrameInv
    <3>3. QED
      BY <1>3, <1>4, <3>1, <3>2
  <2>2. AtMost(rxQueue', received)
    BY <1>2, <1>3, <1>4 DEF AtMost
  <2>3. QED
    BY <2>1, <2>2
<1>6. AtMost(rxQueue', inbox) /\ AtMost(rxQueue', heard)
  <2>1. \A i \in 1..Len(rxQueue') : rxQueue'[i] \in Int
    BY <1>3 DEF Frame
  <2>2. QED
    BY <1>2, <1>5, <2>1, AtMostLater
<1>7. FrameInv'
  BY <1>1, <1>3, <1>5, <1>6 DEF OrderInv, FrameInv
<1>8. ASSUME NEW n \in Node PROVE GivenInv(n)'
  <2>1. GivenInv(n) /\ AtMost(handled[n], received)
    BY <1>1 DEF OrderInv, GivenInv
  <2>2. \A k \in 1..Len(rxQueue') : AtMost(handled[n], rxQueue'[k])
    BY <1>3, <1>4, <2>1 DEF GivenInv
  <2>3. rxQueue' # <<>>
    BY <1>3
  <2>4. QED
    BY <1>1, <2>1, <2>2, <2>3 DEF GivenInv, AtMost
<1>9. QED
  BY <1>1, <1>7, <1>8 DEF OrderInv

\* The frame at the head of the queue is dropped.
LEMMA DroppingKeepsOrder ==
  ASSUME OrderInv, rxQueue # <<>>, rxQueue' = Tail(rxQueue),
         \A n \in Node : job'[<<"rx", n>>] = "idle",
         UNCHANGED <<seen, handled, inbox, received, heard, lora>>
  PROVE  OrderInv'
<1>1. /\ rxQueue' \in Seq(Frame) /\ Len(rxQueue') = Len(rxQueue) - 1 /\ Len(rxQueue) \in Nat
      /\ \A i \in 1..Len(rxQueue') : i + 1 \in 1..Len(rxQueue) /\ rxQueue'[i] = rxQueue[i + 1]
  BY DEF OrderInv, FrameInv
<1>2. \A f : AtMost(rxQueue, f) => AtMost(rxQueue', f)
  BY <1>1 DEF AtMost
<1>3. ASSUME NEW i \in 1..Len(rxQueue'), NEW j \in 1..Len(rxQueue'), i < j
      PROVE  rxQueue'[i] <= rxQueue'[j]
  <2>1. i + 1 \in 1..Len(rxQueue) /\ j + 1 \in 1..Len(rxQueue) /\ i + 1 < j + 1
    BY <1>1, <1>3
  <2>2. rxQueue[i + 1] <= rxQueue[j + 1]
    BY <2>1 DEF OrderInv, FrameInv
  <2>3. QED
    BY <1>1, <2>2
<1>4. Len(rxQueue') <= RxCapacity
  BY <1>1, RuntimeAssumption DEF OrderInv, FrameInv
<1>5. FrameInv'
  BY <1>1, <1>2, <1>3, <1>4 DEF OrderInv, FrameInv
<1>6. ASSUME NEW n \in Node PROVE GivenInv(n)'
  BY <1>1 DEF OrderInv, GivenInv, AtMost
<1>7. QED
  BY <1>5, <1>6 DEF OrderInv

\* What a node takes for new leaves its history in order: a packet of its own, or a
\* frame that nothing in the history is later than and that the log does not have.
LEMMA TakingKeepsOrder ==
  ASSUME NEW log, NEW history, NEW p \in Entry,
         Recent(Entry, log, history, PacketLogSize), InOrder(history),
         p # Own => AtMost(history, p) /\ ~ContainsHash(log, p)
  PROVE  /\ Recent(Entry, PushFront(log, p, PacketLogSize), <<p>> \o history, PacketLogSize)
         /\ InOrder(<<p>> \o history)
<1> DEFINE history1 == <<p>> \o history
<1> USE RuntimeAssumption
<1>1. Recent(Entry, PushFront(log, p, PacketLogSize), history1, PacketLogSize)
  BY PushKeepsRecent
<1>2. /\ log \in Seq(Entry) /\ history \in Seq(Entry)
      /\ Len(log) = IF Len(history) < PacketLogSize THEN Len(history) ELSE PacketLogSize
      /\ \A i \in 1..Len(log) : log[i] = history[i]
      /\ Len(log) \in Nat /\ Len(history) \in Nat
  BY DEF Recent
<1>3. /\ Len(history1) = Len(history) + 1
      /\ history1[1] = p /\ \A i \in 2..Len(history1) : history1[i] = history[i - 1]
  BY <1>2
<1> HIDE DEF history1
<1>4. \A i \in 1..Len(history) : history[i] \in Int
  BY <1>2 DEF Entry, Own, Frame
<1>5. ASSUME NEW i \in 1..Len(history1), NEW j \in 1..Len(history1), i < j,
             history1[i] # Own, history1[j] # Own
      PROVE  \/ history1[j] < history1[i]
             \/ history1[j] = history1[i] /\ j - i > PacketLogSize
  <2>1. /\ j \in 2..Len(history1) /\ j - 1 \in 1..Len(history)
        /\ history1[j] = history[j - 1] /\ history[j - 1] # Own /\ history[j - 1] \in Int
    BY <1>2, <1>3, <1>4, <1>5
  <2>2. CASE i = 1
    <3>1. p # Own /\ history1[i] = p /\ p \in Int
      BY <1>3, <1>5, <2>2 DEF Entry, Own, Frame
    <3>2. history[j - 1] <= p
      BY <2>1, <3>1 DEF AtMost
    <3>3. ASSUME history[j - 1] = p, j - 1 <= PacketLogSize PROVE FALSE
      <4>1. j - 1 \in 1..Len(log)
        BY <1>2, <2>1, <3>3
      <4>2. log[j - 1] = p
        BY <1>2, <3>3, <4>1
      <4>3. QED
        BY <3>1, <4>1, <4>2 DEF ContainsHash
    <3>4. QED
      BY <2>1, <2>2, <3>1, <3>2, <3>3
  <2>3. CASE i # 1
    <3>1. /\ i \in 2..Len(history1) /\ i - 1 \in 1..Len(history)
          /\ history1[i] = history[i - 1] /\ history[i - 1] # Own /\ i - 1 < j - 1
      BY <1>2, <1>3, <1>5, <2>1, <2>3
    <3>2. \/ history[j - 1] < history[i - 1]
          \/ history[j - 1] = history[i - 1] /\ (j - 1) - (i - 1) > PacketLogSize
      BY <2>1, <3>1 DEF InOrder
    <3>3. QED
      BY <2>1, <3>1, <3>2
  <2>4. QED
    BY <2>2, <2>3
<1>6. InOrder(history1)
  BY <1>5 DEF InOrder
<1>7. QED
  BY <1>1, <1>6 DEF history1

\* A node takes p for new, one of its own packets or the frame it is given.
LEMMA NewKeepsOrder ==
  ASSUME OrderInv, NEW n \in Node, NEW p \in Entry, TakeNew(n, p),
         p # Own => rxQueue # <<>> /\ p = Head(rxQueue) /\ ~ContainsHash(seen[n], p),
         UNCHANGED <<lora, inbox, received, rxQueue, heard>>,
         \A m \in Node : job'[<<"rx", m>>] # "idle" => rxQueue # <<>>
  PROVE  OrderInv'
<1> USE RuntimeAssumption
<1> DEFINE given == handled[n]
           given1 == <<p>> \o given
           log1 == PushFront(seen[n], p, PacketLogSize)
<1>1. FrameInv /\ FrameInv' /\ GivenInv(n) /\ \A m \in Node : GivenInv(m)
  BY DEF OrderInv, FrameInv, AtMost
<1>2. /\ seen' = [m \in Node |-> seen'[m]] /\ handled' = [m \in Node |-> handled'[m]]
      /\ seen'[n] = log1 /\ handled'[n] = given1
      /\ \A m \in Node : m # n => seen'[m] = seen[m] /\ handled'[m] = handled[m]
  BY DEF TakeNew, OrderInv
<1>3. ASSUME NEW m \in Node, m # n PROVE GivenInv(m)'
  BY <1>1, <1>2, <1>3 DEF GivenInv, AtMost
<1>4. p # Own => 1 \in 1..Len(rxQueue) /\ p = rxQueue[1]
  BY <1>1 DEF FrameInv
<1>5. p # Own => AtMost(given, p) /\ ~ContainsHash(seen[n], p)
  BY <1>1, <1>4 DEF GivenInv
<1>6. Recent(Entry, log1, given1, PacketLogSize) /\ InOrder(given1)
  BY <1>1, <1>5, TakingKeepsOrder DEF GivenInv
<1>7. given \in Seq(Entry) /\ p \in Int
  BY <1>1 DEF GivenInv, Recent, Entry, Own, Frame
<1>8. /\ Len(given1) = Len(given) + 1 /\ Len(given) \in Nat
      /\ given1[1] = p /\ \A i \in 2..Len(given1) : i - 1 \in 1..Len(given) /\ given1[i] = given[i - 1]
  BY <1>7
<1> HIDE DEF given1, log1, given
<1>9. ASSUME NEW g \in Int, AtMost(given, g), p <= g PROVE AtMost(given1, g)
  <2>1. ASSUME NEW i \in 1..Len(given1) PROVE given1[i] <= g
    <3>1. CASE i = 1
      BY <1>8, <1>9, <3>1
    <3>2. CASE i # 1
      <4>1. i \in 2..Len(given1)
        BY <1>8, <3>2
      <4>2. QED
        BY <1>8, <1>9, <4>1 DEF AtMost
    <3>3. QED
      BY <3>1, <3>2
  <2>2. QED
    BY <2>1 DEF AtMost
<1>10. /\ heard \in Nat /\ inbox \in Nat /\ received \in Nat
       /\ \A k \in 1..Len(rxQueue) : rxQueue[k] \in Nat
  BY <1>1 DEF FrameInv, Frame
<1>11. /\ p <= heard /\ \A k \in 1..Len(rxQueue) : p <= rxQueue[k]
       /\ inbox # 0 => p <= inbox
       /\ lora = "enqueue" => p <= received
  <2>1. CASE p = Own
    BY <1>10, <2>1 DEF Own
  <2>2. CASE p # Own
    <3>1. /\ rxQueue \in Seq(Frame) /\ Len(rxQueue) \in Nat /\ 1 \in 1..Len(rxQueue)
          /\ p = rxQueue[1]
      BY <1>1, <1>4, <2>2 DEF FrameInv
    <3>2. \A k \in 1..Len(rxQueue) : p <= rxQueue[k]
      <4>1. ASSUME NEW k \in 1..Len(rxQueue) PROVE p <= rxQueue[k]
        <5>1. CASE k = 1
          BY <1>7, <3>1, <5>1
        <5>2. CASE k # 1
          <6>1. 1 < k
            BY <3>1, <5>2
          <6>2. QED
            BY <1>1, <3>1, <6>1 DEF FrameInv
        <5>3. QED
          BY <5>1, <5>2
      <4>2. QED
        BY <4>1
    <3>3. QED
      BY <1>1, <3>1, <3>2 DEF FrameInv, AtMost
  <2>3. QED
    BY <2>1, <2>2
<1>12. /\ AtMost(given1, heard)
       /\ \A k \in 1..Len(rxQueue) : AtMost(given1, rxQueue[k])
       /\ inbox # 0 => AtMost(given1, inbox)
       /\ lora = "enqueue" => AtMost(given1, received)
  BY <1>1, <1>9, <1>10, <1>11 DEF GivenInv, given
<1>13. GivenInv(n)'
  BY <1>2, <1>6, <1>12 DEF GivenInv, AtMost
<1>14. QED
  BY <1>1, <1>2, <1>3, <1>13 DEF OrderInv

\* Other steps only move tasks on.
LEMMA MovingKeepsOrder ==
  ASSUME OrderInv, UNCHANGED <<lora, inbox, received, rxQueue, heard, seen, handled>>,
         \A n \in Node : job'[<<"rx", n>>] # "idle" => rxQueue # <<>>
  PROVE  OrderInv'
<1>1. FrameInv'
  BY DEF OrderInv, FrameInv, AtMost
<1>2. ASSUME NEW n \in Node PROVE GivenInv(n)'
  BY DEF OrderInv, GivenInv, AtMost
<1>3. QED
  BY <1>1, <1>2 DEF OrderInv

\* A node logs a packet of its own, or leaves its log alone.
LEMMA SentKeepsOrder ==
  ASSUME OrderInv, NEW n \in Node, LogSent(n) \/ UNCHANGED meshes,
         UNCHANGED <<lora, inbox, received, rxQueue, heard>>,
         \A m \in Node : job'[<<"rx", m>>] # "idle" => rxQueue # <<>>
  PROVE  OrderInv'
<1>1. CASE TakeNew(n, Own)
  <2>1. Own \in Entry
    BY DEF Entry
  <2>2. QED
    BY <1>1, <2>1, NewKeepsOrder
<1>2. CASE UNCHANGED meshes
  BY <1>2, MovingKeepsOrder DEF meshes
<1>3. QED
  BY <1>1, <1>2 DEF LogSent

\* The layers of a node are given the frame at the head of the queue, unless its
\* log knows it.
LEMMA PacketKeepsOrder ==
  ASSUME OrderInv, JobInv, NEW n \in Node, RxPacket(n) PROVE OrderInv'
<1> DEFINE f == Head(rxQueue)
<1>1. /\ job[<<"rx", n>>] = "packet"
      /\ UNCHANGED meshes \/ (~ContainsHash(seen[n], f) /\ TakeNew(n, f))
      /\ UNCHANGED <<lora, inbox, received, rxQueue, heard>>
  BY DEF RxPacket, radio, queues, counters
<1>2. rxQueue # <<>> /\ f \in Entry
  BY <1>1, RuntimeAssumption DEF OrderInv, GivenInv, FrameInv, Entry
<1>3. CASE UNCHANGED meshes
  BY <1>1, <1>2, <1>3, MovingKeepsOrder DEF meshes
<1>4. CASE ~ContainsHash(seen[n], f) /\ TakeNew(n, f)
  <2> HIDE DEF f
  <2>1. f = Head(rxQueue)
    BY DEF f
  <2>2. QED
    BY <1>1, <1>2, <1>4, <2>1, NewKeepsOrder
<1>5. QED
  BY <1>1, <1>3, <1>4

LEMMA NextOrder == Node # {} /\ OrderInv /\ JobInv /\ [Next]_vars => OrderInv'
<1> SUFFICES ASSUME Node # {}, OrderInv, JobInv, [Next]_vars PROVE OrderInv'
  OBVIOUS
<1>1. \A n \in Node : /\ <<"rx", n>> \in Task
                      /\ job[<<"rx", n>>] # "idle" => rxQueue # <<>>
  BY DEF OrderInv, GivenInv, Task
<1>2. CASE RxTake
  <2>1. CASE Head(rxQueue) \in Garbled /\ rxQueue' = Tail(rxQueue) /\ UNCHANGED job
    BY <1>2, <2>1, DroppingKeepsOrder DEF RxTake, radio, meshes, counters
  <2>2. CASE UNCHANGED rxQueue
    BY <1>2, <2>2, MovingKeepsOrder DEF RxTake, radio, meshes, counters
  <2>3. QED
    BY <1>2, <2>1, <2>2 DEF RxTake
<1>3. CASE RxRelease
  <2>1. rxQueue # <<>>
    BY <1>1, <1>3 DEF RxRelease
  <2>2. \A n \in Node : job'[<<"rx", n>>] = "idle"
    BY <1>1, <1>3 DEF RxRelease, RxJobs
  <2>3. QED
    BY <1>3, <2>1, <2>2, DroppingKeepsOrder DEF RxRelease, radio, meshes, counters
<1>4. CASE SendDelayed
  BY <1>1, <1>4, MovingKeepsOrder DEF SendDelayed, radio, tasks, meshes, counters
<1>5. ASSUME NEW t \in Task, Acquire(t) PROVE OrderInv'
  <2>1. t[2] \in Node /\ (LogSent(t[2]) \/ UNCHANGED meshes)
    BY <1>5 DEF Acquire, Task
  <2>2. UNCHANGED <<lora, inbox, received, rxQueue, heard, job>>
    BY <1>5 DEF Acquire, radio, queues, counters
  <2>3. QED
    BY <1>1, <2>1, <2>2, SentKeepsOrder
<1>6. ASSUME NEW t \in Task, NEW j, NEW k, Goto(t, j, k), j = "idle" \/ t[1] # "rx",
             UNCHANGED <<lora, inbox, received, rxQueue, heard, seen, handled>>
      PROVE  OrderInv'
  <2>1. \A n \in Node : job'[<<"rx", n>>] # "idle" => job[<<"rx", n>>] # "idle"
    BY <1>1, <1>6 DEF Goto, JobInv
  <2>2. QED
    BY <1>1, <1>6, <2>1, MovingKeepsOrder
<1>7. ASSUME NEW t \in Task, Begin(t) PROVE OrderInv'
  <2>1. PICK j : Goto(t, j, 0)
    BY <1>7 DEF Begin
  <2>2. QED
    BY <1>6, <1>7, <2>1 DEF Begin, radio, queues, meshes
<1>8. ASSUME NEW t \in Task, SendPacket(t) \/ WriteContact(t) \/ Reply(t) PROVE OrderInv'
  <2>1. PICK j, k : Goto(t, j, k) /\ (j = "idle" \/ t[1] # "rx")
    BY <1>8 DEF SendPacket, WriteContact, Reply
  <2>2. UNCHANGED <<lora, inbox, received, rxQueue, heard, seen, handled>>
    BY <1>8 DEF SendPacket, WriteContact, Reply, radio, queues, meshes, counters
  <2>3. QED
    BY <1>6, <2>1, <2>2
<1>9. ASSUME NEW n \in Node, RxFinish(n) PROVE OrderInv'
  <2>1. rxQueue # <<>>
    BY <1>1, <1>9 DEF RxFinish
  <2>2. UNCHANGED <<lora, inbox, received, rxQueue, heard, seen, handled>>
    BY <1>9 DEF RxFinish, radio, meshes, counters
  <2>3. QED
    BY <2>1, <2>2, MovingKeepsOrder
<1>10. ASSUME NEW n \in Node, RxPacket(n) \/ RxAnswer(n) PROVE OrderInv'
  <2>1. CASE RxPacket(n)
    BY <2>1, PacketKeepsOrder
  <2>2. CASE RxAnswer(n)
    <3>1. rxQueue # <<>> /\ LogSent(n) /\ UNCHANGED <<lora, inbox, received, rxQueue, heard>>
      BY <1>1, <2>2 DEF RxAnswer, radio, counters
    <3>2. QED
      BY <3>1, SentKeepsOrder
  <2>3. QED
    BY <1>10, <2>1, <2>2
<1>11. CASE UNCHANGED vars
  BY <1>1, <1>11, MovingKeepsOrder DEF vars, radio, queues, tasks, meshes, counters
<1>12. CASE Hear \/ Lora
  BY <1>12, RadioKeepsOrder, EnqueueKeepsOrder DEF Lora
<1>13. ASSUME NEW t \in Task, Run(t) PROVE OrderInv'
  <2>1. t[2] \in Node
    BY DEF Task
  <2>2. QED
    BY <1>5, <1>8, <1>9, <1>10, <1>13, <2>1 DEF Run
<1>14. QED
  BY <1>2, <1>3, <1>4, <1>7, <1>11, <1>12, <1>13 DEF Next

\* The layers of a node get the frames in the order they were heard, although the
\* radio task may read a frame again after a driver error (lora.rs:325-360); they
\* get it again only after PacketLogSize packets that the node took for new, heard
\* or sent (mod.rs:204, 295, 311, 839).
THEOREM FramesInOrder == Spec => []HandledInOrder
<1>1. CASE Node = {}
  <2>1. HandledInOrder
    BY <1>1 DEF HandledInOrder
  <2>2. QED
    BY <2>1, PTL
<1>2. CASE Node # {}
  <2>1. OrderInv => HandledInOrder
    BY DEF OrderInv, GivenInv, HandledInOrder
  <2>2. LockInv => JobInv
    BY DEF LockInv
  <2>3. QED
    BY <1>2, <2>1, <2>2, InitOrder, InitLocks, NextOrder, NextLocks, PTL DEF Spec
<1>3. QED
  BY <1>1, <1>2

-----------------------------------------------------------------------------
(***************************************************************************)
(* Types: what is left of TypeOK beside the frames and the locks.          *)
(***************************************************************************)

Job == {"idle", "packet", "answer", "text", "advert", "done", "reply", "resend",
        "reset_path"} \cup Command

\* A packet keeps its slot while it is sent, so the queue is not empty when it
\* gives the slot back.
SendInv ==
  /\ lora \in {"start", "top", "irq", "enqueue", "clear", "select", "tx"}
  /\ mode \in {"rx", "standby"} /\ restart \in BOOLEAN /\ panicked \in BOOLEAN
  /\ txQueue \in 0..TxCapacity /\ (lora = "tx" => txQueue > 0)
  /\ delayed \in 0..DelayPool
  /\ calls \in 0..MaxCalls /\ fails \in 0..MaxFail
  /\ job \in [Task -> Job]

LEMMA InitSend == Init => SendInv
<1> SUFFICES ASSUME Init PROVE SendInv
  OBVIOUS
<1>1. /\ txQueue \in 0..TxCapacity /\ delayed \in 0..DelayPool
      /\ calls \in 0..MaxCalls /\ fails \in 0..MaxFail
  BY RuntimeAssumption DEF Init
<1>2. job \in [Task -> Job] /\ lora = "start" /\ mode = "standby"
  BY DEF Init, Job
<1>3. restart \in BOOLEAN /\ panicked \in BOOLEAN
  BY DEF Init
<1>4. QED
  BY <1>1, <1>2, <1>3 DEF SendInv

LEMMA NextSend == SendInv /\ [Next]_vars => SendInv'
<1> SUFFICES ASSUME SendInv, [Next]_vars PROVE SendInv'
  OBVIOUS
<1> USE RuntimeAssumption DEF SendInv
<1>0. ASSUME RadioError \/ UNCHANGED fails PROVE fails' \in 0..MaxFail
  BY <1>0 DEF RadioError
<1>1. CASE Hear \/ Lora
  <2>1. CASE Hear
    BY <2>1 DEF Hear, queues, tasks
  <2>2. CASE LoraStart
    <3>1. /\ lora' \in {"top", "start"} /\ mode' \in {"rx", mode}
          /\ restart' = FALSE \/ UNCHANGED restart
          /\ UNCHANGED <<panicked, txQueue, delayed, calls, job>>
      BY <2>2 DEF LoraStart, Listen, RadioError, queues, tasks
    <3>2. fails' \in 0..MaxFail
      BY <1>0, <2>2 DEF LoraStart
    <3>3. QED
      BY <3>1, <3>2
  <2>3. CASE LoraTop
    BY <2>3 DEF LoraTop, BeginTx, Listen, RadioError, queues, tasks
  <2>4. CASE LoraTx
    <3>1. /\ lora' \in {"top", "start"}
          /\ restart' = TRUE \/ UNCHANGED restart
          /\ UNCHANGED <<mode, panicked, delayed, calls, job>>
      BY <2>4 DEF LoraTx, RadioError, tasks
    <3>2. fails' \in 0..MaxFail
      BY <1>0, <2>4 DEF LoraTx
    <3>3. txQueue' \in 0..TxCapacity
      BY <2>4 DEF LoraTx
    <3>4. QED
      BY <3>1, <3>2, <3>3
  <2>5. CASE LoraIrq
    <3>1. /\ lora' \in {"select", "enqueue", "start"}
          /\ restart' = FALSE \/ UNCHANGED restart
          /\ UNCHANGED <<mode, panicked, txQueue, delayed, calls, job>>
      BY <2>5 DEF LoraIrq, RadioError, queues, tasks
    <3>2. fails' \in 0..MaxFail
      BY <1>0, <2>5 DEF LoraIrq
    <3>3. QED
      BY <3>1, <3>2
  <2>6. CASE LoraEnqueue
    BY <2>6 DEF LoraEnqueue, tasks, counters
  <2>7. CASE LoraClear
    <3>1. /\ lora' \in {"select", "start"}
          /\ restart' = TRUE \/ UNCHANGED restart
          /\ UNCHANGED <<mode, panicked, txQueue, delayed, calls, job>>
      BY <2>7 DEF LoraClear, RadioError, queues, tasks
    <3>2. fails' \in 0..MaxFail
      BY <1>0, <2>7 DEF LoraClear
    <3>3. QED
      BY <3>1, <3>2
  <2>8. CASE LoraSelect
    BY <2>8 DEF LoraSelect, BeginTx, queues, tasks, counters
  <2>9. QED
    BY <1>1, <2>1, <2>2, <2>3, <2>4, <2>5, <2>6, <2>7, <2>8 DEF Lora
<1>2. CASE RxTake
  <2>1. job' \in [Task -> Job]
    BY <1>2 DEF RxTake, RxJobs, Job
  <2>2. QED
    BY <1>2, <2>1 DEF RxTake, radio, counters
<1>3. CASE RxRelease
  <2>1. job' \in [Task -> Job]
    BY <1>3 DEF RxRelease, RxJobs, Job
  <2>2. QED
    BY <1>3, <2>1 DEF RxRelease, radio, counters
<1>4. CASE SendDelayed
  BY <1>4 DEF SendDelayed, radio, tasks, counters
<1>5. ASSUME NEW t \in Task, Begin(t) PROVE SendInv'
  <2>1. job' \in [Task -> Job]
    BY <1>5 DEF Begin, Goto, Job
  <2>2. QED
    BY <1>5, <2>1 DEF Begin, radio, queues
<1>6. ASSUME NEW t \in Task, Run(t) PROVE SendInv'
  <2>1. CASE Acquire(t)
    BY <2>1 DEF Acquire, radio, queues, counters
  <2>2. CASE SendPacket(t)
    <3>1. job' \in [Task -> Job]
      BY <2>2 DEF SendPacket, Goto, Job
    <3>2. QED
      BY <2>2, <3>1 DEF SendPacket, radio, counters
  <2>3. CASE WriteContact(t) \/ Reply(t)
    <3>1. job' \in [Task -> Job]
      BY <2>3 DEF WriteContact, Reply, Goto, Job
    <3>2. QED
      BY <2>3, <3>1 DEF WriteContact, Reply, radio, queues, counters
  <2>4. CASE RxPacket(t[2])
    <3>1. job' \in [Task -> Job]
      BY <2>4 DEF RxPacket, Goto, Job
    <3>2. QED
      BY <2>4, <3>1 DEF RxPacket, radio, queues, counters
  <2>5. CASE RxAnswer(t[2]) \/ RxFinish(t[2])
    <3>1. job' \in [Task -> Job]
      BY <2>5 DEF RxAnswer, RxFinish, Goto, Job
    <3>2. delayed' \in 0..DelayPool
      BY <2>5 DEF RxAnswer, RxFinish, SpawnDelayed
    <3>3. /\ panicked' = TRUE \/ UNCHANGED panicked
          /\ UNCHANGED <<lora, mode, restart, txQueue, calls, fails>>
      BY <2>5 DEF RxAnswer, RxFinish, SpawnDelayed, radio, counters
    <3>4. QED
      BY <3>1, <3>2, <3>3
  <2>6. QED
    BY <1>6, <2>1, <2>2, <2>3, <2>4, <2>5 DEF Run
<1>7. CASE UNCHANGED vars
  BY <1>7 DEF vars, radio, queues, tasks, counters
<1>8. QED
  BY <1>1, <1>2, <1>3, <1>4, <1>5, <1>6, <1>7 DEF Next

\* On a device with at least one node, the queues hold what they have slots for,
\* tasks hold locks of their job and no more, and counters stay in range.
THEOREM TypeCorrect == ASSUME Node # {} PROVE Spec => []TypeOK
<1>1. SendInv /\ OrderInv /\ JobInv => TypeOK
  <2> SUFFICES ASSUME SendInv, OrderInv, JobInv PROVE TypeOK
    OBVIOUS
  <2>1. \A n \in Node : /\ seen[n] \in Seq(Entry) /\ handled[n] \in Seq(Entry)
                        /\ Len(seen[n]) <= PacketLogSize
    <3>1. ASSUME NEW n \in Node
          PROVE  /\ seen[n] \in Seq(Entry) /\ handled[n] \in Seq(Entry)
                 /\ Len(seen[n]) <= PacketLogSize
      <4>1. Recent(Entry, seen[n], handled[n], PacketLogSize)
        BY DEF OrderInv, GivenInv
      <4>2. Len(handled[n]) \in Nat /\ PacketLogSize \in Nat
        BY <4>1, RuntimeAssumption DEF Recent
      <4>3. QED
        BY <4>1, <4>2 DEF Recent
    <3>2. QED
      BY <3>1
  <2>2. seen \in [Node -> Seq(Entry)] /\ handled \in [Node -> Seq(Entry)]
    BY <2>1 DEF OrderInv
  <2>3. QED
    BY <2>1, <2>2 DEF TypeOK, SendInv, OrderInv, FrameInv, JobInv, Job, Entry
<1>2. LockInv => JobInv
  BY DEF LockInv
<1>3. QED
  BY <1>1, <1>2, InitSend, NextSend, InitOrder, NextOrder, InitLocks, NextLocks, PTL DEF Spec
=============================================================================
