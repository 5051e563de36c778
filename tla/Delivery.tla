-------------------------------- MODULE Delivery --------------------------------
(***************************************************************************)
(* What a run's callback comes to, as JobLifecycle uses it (its actions    *)
(* Report, Blocked, Arrives, Post and Crash): the payload is read once, it *)
(* may reach the initiating host at any time after, and the verdict that   *)
(* goes into the record says "delivered" only of a payload that arrived.   *)
(* Callback, with its attempts and its network, implements this.           *)
(***************************************************************************)
VARIABLES
  phase,    \* where the run is: "reading", "posting" or "over"
  arrived,  \* the host received the payload
  verdict   \* callback_status

dvars == <<phase, arrived, verdict>>

Init == phase = "reading" /\ arrived = FALSE /\ verdict = "none"

Read == phase = "reading" /\ phase' = "posting" /\ UNCHANGED <<arrived, verdict>>

Block ==
  /\ phase = "reading" /\ phase' = "over"
  /\ verdict' = "blocked"
  /\ UNCHANGED arrived

Arrive ==
  /\ phase # "reading" /\ verdict # "blocked"
  /\ arrived' = TRUE
  /\ UNCHANGED <<phase, verdict>>

Settle ==
  /\ phase = "posting" /\ phase' = "over"
  /\ verdict' \in {"delivered", "failed"}
  /\ verdict' = "delivered" => arrived
  /\ UNCHANGED arrived

Die == phase # "over" /\ phase' = "over" /\ UNCHANGED <<arrived, verdict>>

Next == Read \/ Block \/ Arrive \/ Settle \/ Die

Spec == Init /\ [][Next]_dvars
================================================================================
