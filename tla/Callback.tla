-------------------------------- MODULE Callback --------------------------------
(***************************************************************************)
(* send_callback (notify.py) for one finished run: the check of the URL,   *)
(* the attempts, the network between the worker and the initiating host,   *)
(* and the callback_status that is left in the record.                     *)
(*                                                                         *)
(* A POST is known by the number of its attempt.  It may be lost, or reach *)
(* the host after the worker stopped waiting for its answer.               *)
(***************************************************************************)
EXTENDS Integers, FiniteSets

CONSTANTS
  CallbackRetries,  \* settings.callback_retries, as configured
  Faults            \* "crash": the worker dies.  "network": POSTs get lost.

ASSUME RetriesAssumption == CallbackRetries \in Int
ASSUME FaultsAssumption == Faults \subseteq {"crash", "network"}

VARIABLES
  pc,               \* the next step of send_callback
  attempt,          \* the attempt it is at
  request,          \* request[n]: the POST of attempt n, as the network has it
  answer,           \* answer[n]: the host's answer to it; "trickle" while its
                    \* bytes come in, each before requests' timeout
  processed,        \* the attempts whose payload the host has acted on
  callback_status   \* the record's field

vars == <<pc, attempt, request, answer, processed, callback_status>>

(* retries = max(1, settings.callback_retries) *)
retries == IF CallbackRetries < 1 THEN 1 ELSE CallbackRetries

Attempt == 1 .. retries

Init ==
  /\ pc = "check"
  /\ attempt = 0
  /\ request = [n \in Attempt |-> "unsent"]
  /\ answer = [n \in Attempt |-> "none"]
  /\ processed = {}
  /\ callback_status = "none"

(* is_allowed_callback_url passes once more, and the payload is built. *)
Allowed ==
  /\ pc = "check"
  /\ pc' = "attempt"
  /\ UNCHANGED <<attempt, request, answer, processed, callback_status>>

(* ... or does not: nothing is sent. *)
Blocked ==
  /\ pc = "check"
  /\ pc' = "left"
  /\ callback_status' = "blocked"
  /\ UNCHANGED <<attempt, request, answer, processed>>

(* Mutant: one attempt too many. *)
SendAgain ==
  /\ pc = "attempt" /\ attempt <= retries
  /\ attempt' = attempt + 1
  /\ request' = [request EXCEPT ![attempt + 1] = "sent"]
  /\ pc' = "await"
  /\ UNCHANGED <<answer, processed, callback_status>>

(* The next round of the loop: requests.post sends the body. *)
Send ==
  /\ pc = "attempt" /\ attempt < retries
  /\ attempt' = attempt + 1
  /\ request' = [request EXCEPT ![attempt + 1] = "sent"]
  /\ pc' = "await"
  /\ UNCHANGED <<answer, processed, callback_status>>

(* The loop is exhausted. *)
GiveUp ==
  /\ pc = "attempt" /\ attempt = retries
  /\ pc' = "left"
  /\ callback_status' = "failed"
  /\ UNCHANGED <<attempt, request, answer, processed>>

(* The host receives a POST and begins an answer that takes its time. *)
Trickles(n) ==
  /\ request[n] = "sent"
  /\ request' = [request EXCEPT ![n] = "received"]
  /\ answer' = [answer EXCEPT ![n] = "trickle"]
  /\ UNCHANGED <<pc, attempt, processed, callback_status>>

(* It says no more, whether it acted on the payload or not. *)
FallsSilent(n) ==
  /\ answer[n] = "trickle"
  /\ answer' = [answer EXCEPT ![n] = "none"]
  /\ processed' \in {processed, processed \cup {n}}
  /\ UNCHANGED <<pc, attempt, request, callback_status>>

(* The host receives a POST and answers, or comes to the end of its answer.  *)
(* It accepts, redirects elsewhere without reading, or fails -- before or    *)
(* after it acted on the payload.                                            *)
HostAnswers(n, a) ==
  /\ request[n] = "sent" \/ answer[n] = "trickle"
  /\ request' = [request EXCEPT ![n] = "received"]
  /\ answer' = [answer EXCEPT ![n] = a]
  /\ \/ a # "redirect" /\ processed' = processed \cup {n}
     \/ a # "accept" /\ UNCHANGED processed
  /\ UNCHANGED <<pc, attempt, callback_status>>

(* The network drops a POST. *)
Lose(n) ==
  /\ "network" \in Faults
  /\ request[n] = "sent"
  /\ request' = [request EXCEPT ![n] = "lost"]
  /\ UNCHANGED <<pc, attempt, answer, processed, callback_status>>

(* Mutant: an error status is taken for a delivery. *)
AnyAnswer(a) == a # "none"

(* resp.raise_for_status() raises for 4xx and 5xx only: with redirects not   *)
(* followed, a 3xx counts as delivered.                                      *)
Delivered(a) == a \in {"accept", "redirect"}

(* The answer to the current attempt comes back. *)
Answered ==
  /\ pc = "await" /\ answer[attempt] \notin {"none", "trickle"}
  /\ IF Delivered(answer[attempt])
     THEN pc' = "left" /\ callback_status' = "delivered"
     ELSE pc' = "attempt" /\ UNCHANGED callback_status
  /\ UNCHANGED <<attempt, request, answer, processed>>

(* Mutant: the POST is made without a timeout. *)
NoTimeout == FALSE

(* Mutant: a timeout is taken for a slow success. *)
TimesOutDelivered ==
  /\ pc = "await"
  /\ pc' = "left"
  /\ callback_status' = "delivered"
  /\ UNCHANGED <<attempt, request, answer, processed>>

(* except requests.RequestException: no connection, or not a byte of an      *)
(* answer, for callback_timeout, whatever became of the POST.  The timeout   *)
(* is one of each wait for the host, not of the whole POST: while an answer  *)
(* trickles in, nothing times out.                                           *)
TimesOut ==
  /\ pc = "await" /\ answer[attempt] # "trickle"
  /\ pc' = "attempt"
  /\ UNCHANGED <<attempt, request, answer, processed, callback_status>>

(* The worker dies, or RQ's timeout for the whole job raises in it. *)
Crash ==
  /\ "crash" \in Faults
  /\ pc # "left"
  /\ pc' = "left"
  /\ UNCHANGED <<attempt, request, answer, processed, callback_status>>

Worker == Allowed \/ Blocked \/ Send \/ GiveUp \/ Answered \/ TimesOut

Next ==
  \/ Worker
  \/ Crash
  \/ \E n \in Attempt : Lose(n) \/ Trickles(n) \/ FallsSilent(n)
  \/ \E n \in Attempt, a \in {"accept", "redirect", "error"} : HostAnswers(n, a)

Spec == Init /\ [][Next]_vars

(* The worker runs.  That a silent wait ends is requests' timeout; the host  *)
(* owes nothing, and that RQ ends the job some day is not used.              *)
FairSpec == Spec /\ WF_vars(Worker)

--------------------------------------------------------------------------------
(* What is checked. *)

Sent == {n \in Attempt : request[n] # "unsent"}
Received == {n \in Attempt : request[n] = "received"}

TypeOK ==
  /\ pc \in {"check", "attempt", "await", "left"}
  /\ attempt \in 0 .. retries
  /\ request \in [Attempt -> {"unsent", "sent", "lost", "received"}]
  /\ answer \in [Attempt -> {"none", "trickle", "accept", "redirect", "error"}]
  /\ processed \subseteq Attempt
  /\ callback_status \in {"none", "blocked", "delivered", "failed"}

(* "failed" is recorded only after every configured attempt was made,       *)
(* "blocked" only if nothing was ever sent, and "delivered" only if the     *)
(* host answered the last attempt and has acted on what that one sent,      *)
(* unless it redirected it (send_callback).                                 *)
VerdictIsEarned ==
  /\ callback_status = "failed" => Sent = Attempt
  /\ callback_status = "blocked" => Sent = {}
  /\ callback_status = "delivered" =>
       attempt \in Received /\ (attempt \in processed \/ answer[attempt] = "redirect")

(* The callback that JobLifecycle takes for granted. *)
Abstract == INSTANCE Delivery WITH
  phase <- CASE pc = "check" -> "reading" [] pc = "left" -> "over" [] OTHER -> "posting",
  arrived <- Received # {},
  verdict <- callback_status

ImplementsDelivery == Abstract!Spec

(* The host's answer to the current attempt trickles in. *)
HeldUp == pc = "await" /\ answer[attempt] = "trickle"

(* No host that falls silent holds a worker up for ever, and so none does    *)
(* but by an answer that never ends: that one only RQ's timeout stops        *)
(* (notify.py:180).                                                          *)
CallbackSettles == <>(pc = "left") \/ <>[]HeldUp

(* "A failing callback is recorded on the job" (notify.py:18): "delivered"  *)
(* is recorded only if the host has acted on the payload.  It does not      *)
(* hold: see the README.                                                    *)
FailuresAreRecorded == callback_status = "delivered" => processed # {}
================================================================================
