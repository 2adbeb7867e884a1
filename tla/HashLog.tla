------------------------------ MODULE HashLog ------------------------------
(***************************************************************************)
(* HashLog<CAPACITY> (firmware/chiyocore/src/simple_mesh/storage/          *)
(* packet_log.rs): the hashes of the last CAPACITY new messages, newest    *)
(* first.  A hash stands for what hash_into feeds to SHA-1.                *)
(***************************************************************************)
EXTENDS Naturals, Sequences

\* contains_hash.
ContainsHash(log, hash) == \E i \in 1..Len(log) : log[i] = hash

\* Faulty variant: the oldest is dropped one entry too late.
PushFrontLate(log, hash, capacity) ==
  <<hash>> \o (IF Len(log) > capacity THEN SubSeq(log, 1, Len(log) - 1) ELSE log)

\* The second half of `push`: pop_back when full, push_front.
PushFront(log, hash, capacity) ==
  <<hash>> \o (IF Len(log) >= capacity THEN SubSeq(log, 1, Len(log) - 1) ELSE log)

\* `push`: the log afterwards; a message that is contained leaves it alone.
Push(log, hash, capacity) ==
  IF ContainsHash(log, hash) THEN log ELSE PushFront(log, hash, capacity)
=============================================================================
