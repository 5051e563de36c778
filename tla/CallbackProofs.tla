----------------------------- MODULE CallbackProofs -----------------------------
(* What Callback does for every configured number of attempts. *)
EXTENDS Callback, TLAPS

(* How far the attempts are, and what each verdict rests on. *)
IInv ==
  /\ TypeOK
  /\ \A n \in Attempt : request[n] = "unsent" <=> n > attempt
  /\ \A n \in Attempt : answer[n] # "none" => request[n] = "received"
  /\ \A n \in Attempt : answer[n] = "accept" => n \in processed
  /\ pc = "check" => attempt = 0
  /\ pc = "await" => attempt > 0
  /\ callback_status # "none" => pc = "left"
  /\ callback_status = "blocked" => attempt = 0
  /\ callback_status = "failed" => attempt = retries
  /\ callback_status = "delivered" => attempt > 0 /\ answer[attempt] \in {"accept", "redirect"}

(* max(1, ...) is a positive number. *)
LEMMA RetriesType == retries \in Nat \ {0}
  BY RetriesAssumption DEF retries

(* The invariant holds at the start. *)
LEMMA InitInv == Init => IInv
  BY RetriesType DEF Init, IInv, TypeOK, Attempt

(* Every step keeps the invariant. *)
LEMMA Inductive == ASSUME IInv, [Next]_vars PROVE IInv'
<1>. USE RetriesType DEF IInv, TypeOK, Attempt
<1>1. CASE Allowed
  BY <1>1 DEF Allowed
<1>2. CASE Blocked
  BY <1>2 DEF Blocked
<1>3. CASE Send
  BY <1>3 DEF Send
<1>4. CASE GiveUp
  BY <1>4 DEF GiveUp
<1>5. CASE Answered
  BY <1>5 DEF Answered, Delivered
<1>6. CASE TimesOut
  BY <1>6 DEF TimesOut
<1>7. CASE Crash
  BY <1>7 DEF Crash
<1>8. ASSUME NEW n \in Attempt, Lose(n) PROVE IInv'
  BY <1>8 DEF Lose
<1>9. ASSUME NEW n \in Attempt, NEW a \in {"accept", "redirect", "error"}, HostAnswers(n, a)
      PROVE  IInv'
  <2>1. answer[n] \in {"none", "trickle"} /\ n <= attempt
    BY <1>9 DEF HostAnswers
  <2>2. TypeOK'
    BY <1>9 DEF HostAnswers
  <2>3. \A m \in Attempt : (request[m] = "unsent" <=> m > attempt)'
    BY <1>9, <2>1 DEF HostAnswers
  <2>4. \A m \in Attempt : (answer[m] # "none" => request[m] = "received")'
    BY <1>9 DEF HostAnswers
  <2>5. callback_status = "delivered" => attempt # n
    BY <2>1
  <2>6. callback_status' = "delivered" =>
          attempt' > 0 /\ answer'[attempt'] \in {"accept", "redirect"}
    BY <1>9, <2>5 DEF HostAnswers
  <2>7. \A m \in Attempt : (answer[m] = "accept" => m \in processed)'
    BY <1>9 DEF HostAnswers
  <2>. QED BY <1>9, <2>1, <2>2, <2>3, <2>4, <2>6, <2>7 DEF HostAnswers
<1>10. ASSUME NEW n \in Attempt, Trickles(n) PROVE IInv'
  BY <1>10 DEF Trickles
<1>11. ASSUME NEW n \in Attempt, FallsSilent(n) PROVE IInv'
  BY <1>11 DEF FallsSilent
<1>12. CASE UNCHANGED vars
  BY <1>12 DEF vars
<1>. QED BY <1>1, <1>2, <1>3, <1>4, <1>5, <1>6, <1>7, <1>8, <1>9, <1>10, <1>11, <1>12
     DEF Next, Worker

(* The invariant holds in every reachable state. *)
LEMMA Invariant == Spec => []IInv
<1>1. IInv /\ [Next]_vars => IInv'
  BY Inductive
<1>. QED BY InitInv, <1>1, PTL DEF Spec

(* The variables always have the values their comments say. *)
THEOREM TypeCorrect == Spec => []TypeOK
<1>1. IInv => TypeOK
  BY DEF IInv
<1>. QED BY Invariant, <1>1, PTL

(* Whatever number of attempts is configured, and whatever the network and  *)
(* the host do, each callback_status is written only with what it claims    *)
(* (send_callback, notify.py:168-191).                                      *)
THEOREM VerdictCorrect == Spec => []VerdictIsEarned
<1>1. ASSUME IInv PROVE VerdictIsEarned
  <2>1. callback_status = "failed" => Sent = Attempt
    BY <1>1, RetriesType DEF IInv, TypeOK, Attempt, Sent
  <2>2. callback_status = "blocked" => Sent = {}
    BY <1>1, RetriesType DEF IInv, TypeOK, Attempt, Sent
  <2>3. callback_status = "delivered" =>
          attempt \in Received /\ (attempt \in processed \/ answer[attempt] = "redirect")
    BY <1>1, RetriesType DEF IInv, TypeOK, Attempt, Received
  <2>. QED BY <2>1, <2>2, <2>3 DEF VerdictIsEarned
<1>. QED BY Invariant, <1>1, PTL

--------------------------------------------------------------------------------
(* Callback implements Delivery. *)

(* What the host has received only grows, and starts with a sent attempt. *)
LEMMA DeliveryStep == ASSUME IInv, [Next]_vars PROVE [Abstract!Next]_(Abstract!dvars)
<1>. USE DEF Abstract!Next, Abstract!dvars
<1>1. CASE Allowed
  BY <1>1 DEF Allowed, IInv, Received, Abstract!Read
<1>2. CASE Blocked
  BY <1>2 DEF Blocked, IInv, Received, Abstract!Block
<1>3. CASE Send
  <2>1. Received' = Received
    BY <1>3, RetriesType DEF Send, IInv, TypeOK, Attempt, Received
  <2>. QED BY <1>3, <2>1 DEF Send
<1>4. CASE GiveUp
  BY <1>4 DEF GiveUp, Received, Abstract!Settle
<1>5. CASE Answered
  <2>1. attempt \in Received
    BY <1>5, RetriesType DEF Answered, IInv, TypeOK, Attempt, Received
  <2>2. Received' = Received
    BY <1>5 DEF Answered, Received
  <2>. QED BY <1>5, <2>1, <2>2 DEF Answered, IInv, Abstract!Settle
<1>6. CASE TimesOut
  BY <1>6 DEF TimesOut, Received
<1>7. CASE Crash
  BY <1>7 DEF Crash, IInv, TypeOK, Received, Abstract!Die
<1>8. ASSUME NEW n \in Attempt, Lose(n) PROVE UNCHANGED Abstract!dvars
  <2>1. Received' = Received
    BY <1>8 DEF Lose, IInv, TypeOK, Received
  <2>. QED BY <1>8, <2>1 DEF Lose
<1>9. ASSUME NEW n \in Attempt, NEW a \in {"accept", "redirect", "error"}, HostAnswers(n, a)
      PROVE  Abstract!Arrive
  <2>1. n \in Received'
    BY <1>9 DEF HostAnswers, IInv, TypeOK, Received
  <2>2. attempt > 0
    BY <1>9, RetriesType DEF HostAnswers, IInv, TypeOK, Attempt
  <2>3. pc # "check" /\ callback_status # "blocked"
    BY <2>2 DEF IInv
  <2>. QED BY <1>9, <2>1, <2>3 DEF HostAnswers, IInv, TypeOK, Abstract!Arrive
<1>10. ASSUME NEW n \in Attempt, Trickles(n) PROVE Abstract!Arrive
  <2>1. n \in Received'
    BY <1>10 DEF Trickles, IInv, TypeOK, Received
  <2>2. attempt > 0
    BY <1>10, RetriesType DEF Trickles, IInv, TypeOK, Attempt
  <2>. QED BY <1>10, <2>1, <2>2 DEF Trickles, IInv, TypeOK, Abstract!Arrive
<1>11. ASSUME NEW n \in Attempt, FallsSilent(n) PROVE UNCHANGED Abstract!dvars
  BY <1>11 DEF FallsSilent, Received
<1>12. CASE UNCHANGED vars
  BY <1>12 DEF vars, Received
<1>. QED BY <1>1, <1>2, <1>3, <1>4, <1>5, <1>6, <1>7, <1>8, <1>9, <1>10, <1>11, <1>12
     DEF Next, Worker

(* With every number of attempts, the callback is what JobLifecycle takes   *)
(* it for: read once, arriving at any time, "delivered" only if it arrived. *)
THEOREM DeliveryCorrect == Spec => ImplementsDelivery
<1>1. Init => Abstract!Init
  BY DEF Init, Received, Abstract!Init
<1>2. IInv /\ [Next]_vars => [Abstract!Next]_(Abstract!dvars)
  BY DeliveryStep
<1>. QED BY <1>1, <1>2, Invariant, PTL DEF Spec, Abstract!Spec, ImplementsDelivery
================================================================================
