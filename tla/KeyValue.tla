------------------------------ MODULE KeyValue ------------------------------
(***************************************************************************)
(* What the flash file system promises the rest of the firmware, whatever  *)
(* records it keeps for its directories: a map from file to value.  A call *)
(* takes effect completely or not at all, a call that answers "ok" has     *)
(* taken effect, one that answers "err" has not, and a power loss forgets  *)
(* the calls in progress and nothing else.                                 *)
(***************************************************************************)

CONSTANTS Task,     \* the firmware tasks that call the file system
          Dir,      \* directories (DirKey)
          Name,     \* file hashes within a directory (second half of FileKey)
          Request,  \* the calls a task may make
          NoRequest,
          Value,    \* contents of a file
          NoValue   \* the file does not exist

VARIABLES store,    \* the map
          request,  \* the call each task makes
          pending,  \* whether that call is in progress
          answer,   \* how the last finished call of a task ended
          got       \* what the last get of a task returned

vars == <<store, request, pending, answer, got>>

Init == /\ store = [f \in Dir \X Name |-> NoValue]
        /\ request = [t \in Task |-> NoRequest]
        /\ pending = [t \in Task |-> FALSE]
        /\ answer = [t \in Task |-> "none"]
        /\ got = [t \in Task |-> NoValue]

Call(t) == /\ ~pending[t]
           /\ \E r \in Request : request' = [request EXCEPT ![t] = r]
           /\ pending' = [pending EXCEPT ![t] = TRUE]
           /\ answer' = [answer EXCEPT ![t] = "none"]
           /\ got' = [got EXCEPT ![t] = NoValue]
           /\ UNCHANGED store

\* The effect of a finished call on the map and on what the caller receives.
Effect(t) == LET r == request[t] IN
  \/ /\ r.kind \in {"set", "delete"}
     /\ store' = [store EXCEPT ![<<r.dir, r.name>>] = r.value]
     /\ UNCHANGED got
  \/ /\ r.kind = "get"
     /\ got' = [got EXCEPT ![t] = store[<<r.dir, r.name>>]]
     /\ UNCHANGED store
  \/ /\ r.kind = "list"
     /\ UNCHANGED <<store, got>>

Finish(t) == /\ pending[t]
             /\ Effect(t)
             /\ pending' = [pending EXCEPT ![t] = FALSE]
             /\ answer' = [answer EXCEPT ![t] = "ok"]
             /\ UNCHANGED request

Error(t) == /\ pending[t]
            /\ pending' = [pending EXCEPT ![t] = FALSE]
            /\ answer' = [answer EXCEPT ![t] = "err"]
            /\ UNCHANGED <<store, request, got>>

PowerLoss == /\ request' = [t \in Task |-> NoRequest]
             /\ pending' = [t \in Task |-> FALSE]
             /\ answer' = [t \in Task |-> "none"]
             /\ got' = [t \in Task |-> NoValue]
             /\ UNCHANGED store

Next == \/ \E t \in Task : Call(t) \/ Finish(t) \/ Error(t)
        \/ PowerLoss

Spec == Init /\ [][Next]_vars
=============================================================================
