--------------------------- MODULE MessagePromise ---------------------------
(***************************************************************************)
(* What sending a direct message promises: it ends, either as acknowledged *)
(* or as given up, and a message that ends as acknowledged has reached the *)
(* contact it was sent to.                                                 *)
(***************************************************************************)
CONSTANTS Send,     \* the messages being sent
          Peer,     \* the contacts
          DestOf,   \* the contact each message is for
          BodyOf    \* its timestamp and text

VARIABLES status,   \* "idle", "sending", "acked" or "failed", per message
          reached   \* the bodies each contact has got

vars == <<status, reached>>

Init == /\ status = [s \in Send |-> "idle"]
        /\ reached = [p \in Peer |-> {}]

Begin(s) == /\ status[s] = "idle"
            /\ status' = [status EXCEPT ![s] = "sending"]
            /\ UNCHANGED reached

Reach(s) == /\ status[s] # "idle"
            /\ reached' = [reached EXCEPT ![DestOf[s]] = @ \cup {BodyOf[s]}]
            /\ UNCHANGED status

Acknowledge(s) == /\ status[s] = "sending"
                  /\ BodyOf[s] \in reached[DestOf[s]]
                  /\ status' = [status EXCEPT ![s] = "acked"]
                  /\ UNCHANGED reached

GiveUp(s) == /\ status[s] = "sending"
             /\ status' = [status EXCEPT ![s] = "failed"]
             /\ UNCHANGED reached

Next == \E s \in Send : Begin(s) \/ Reach(s) \/ Acknowledge(s) \/ GiveUp(s)

Spec == Init /\ [][Next]_vars
=============================================================================
