---------------------------- MODULE StatusPolling ---------------------------
(***************************************************************************)
(* poll_activity of app/integrations/fortyguard/client.py: a bounded number*)
(* of status checks of one activity that was already submitted, through    *)
(* HttpFortyGuardTransport.get.                                            *)
(*                                                                         *)
(* The activity is external.  It is hidden at first ("temporarily          *)
(* unavailable immediately after submission"), then runs, and ends; it     *)
(* moves on at any time.  A status check may also meet a transient answer  *)
(* (408, 429, 5xx), an answer that ends the polling, or no answer.         *)
(***************************************************************************)
EXTENDS Integers

CONSTANTS MaxPolls,  \* max_polls
          Grace,     \* status_404_grace_checks
          None       \* no outcome yet

Transient == {"timeout", "rate_limit", "server"}

\* What poll_activity returns or raises.
Outcomes ==
  Transient \cup {"result", "malformed", "task_failure", "not_found", "polled_out",
                  "authentication", "unanswered"}

\* What is assumed of the constants.
PollsAssumption == MaxPolls \in Nat \ {0} /\ Grace \in Nat /\ None \notin Outcomes

VARIABLES stage,     \* what the activity is doing at the provider
          poll,      \* the status checks answered so far
          sawNon404, \* the local saw_non_404
          sleeping,  \* between two checks
          outcome,   \* what poll_activity returned or raised
          transients,\* transient answers met so far
          visibleAt  \* the checks answered before the activity was visible

vars == <<stage, poll, sawNon404, sleeping, outcome, transients, visibleAt>>
localVars == <<poll, sawNon404, sleeping, outcome, transients>>

-----------------------------------------------------------------------------
Init ==
  /\ stage = "hidden"
  /\ poll = 0
  /\ sawNon404 = FALSE
  /\ sleeping = FALSE
  /\ outcome = None
  /\ transients = 0
  /\ visibleAt = None

\* The provider makes the activity visible, or ends it.
Progress ==
  /\ \/ stage = "hidden" /\ stage' = "running"
     \/ stage = "running" /\ stage' \in {"completed", "failed"}
  /\ visibleAt' = IF stage = "hidden" THEN poll ELSE visibleAt
  /\ UNCHANGED localVars

Checking == outcome = None /\ ~ sleeping

Last == poll + 1 = MaxPolls

\* The loop goes on to the next check, or has no check left.
GoOn ==
  /\ sleeping' = ~ Last
  /\ outcome' = IF Last THEN "polled_out" ELSE None

Stop(kind) == outcome' = kind /\ UNCHANGED sleeping

\* 408, 429 or 5xx: another check if one is left, else that answer is the error.
TransientAnswer ==
  /\ Checking
  /\ poll' = poll + 1
  /\ sawNon404' = TRUE
  /\ transients' = transients + 1
  /\ IF Last THEN \E kind \in Transient : Stop(kind)
             ELSE sleeping' = TRUE /\ UNCHANGED outcome
  /\ UNCHANGED <<stage, visibleAt>>

TooLateFaulty == sawNon404 \/ poll + 1 >= Grace \* one check too few

TooLateToBeMissing == sawNon404 \/ poll + 1 > Grace

MissingAnswer404 ==
  /\ Checking /\ stage = "hidden"
  /\ poll' = poll + 1
  /\ IF TooLateToBeMissing THEN Stop("not_found") ELSE GoOn
  /\ UNCHANGED <<stage, visibleAt, sawNon404, transients>>

RunningAnswerEndless == \* a running activity is polled without being counted
  /\ Checking /\ stage = "running"
  /\ sawNon404' = TRUE
  /\ sleeping' = TRUE
  /\ UNCHANGED <<stage, visibleAt, poll, transients, outcome>>

RunningAnswer ==
  /\ Checking /\ stage = "running"
  /\ poll' = poll + 1
  /\ sawNon404' = TRUE
  /\ GoOn
  /\ UNCHANGED <<stage, visibleAt, transients>>

\* "Completed" with a result mapping, or without one; "Failed".
FinalAnswer ==
  /\ Checking /\ stage \in {"completed", "failed"}
  /\ poll' = poll + 1
  /\ sawNon404' = TRUE
  /\ \E kind \in (IF stage = "completed" THEN {"result", "malformed"} ELSE {"task_failure"}) :
       Stop(kind)
  /\ UNCHANGED <<stage, visibleAt, transients>>

\* Any other HTTP error, a timeout or a broken connection: the transport raises,
\* and nothing in the loop catches it.
RaisingAnswer ==
  /\ Checking
  /\ \E kind \in {"authentication", "malformed", "unanswered"} : Stop(kind)
  /\ UNCHANGED <<stage, visibleAt, poll, sawNon404, transients>>

WakeUp ==
  /\ sleeping
  /\ sleeping' = FALSE
  /\ UNCHANGED <<stage, visibleAt, poll, sawNon404, transients, outcome>>

Ended == outcome # None /\ stage \in {"completed", "failed"} /\ UNCHANGED vars

Loop ==
  \/ TransientAnswer \/ MissingAnswer404 \/ RunningAnswer \/ FinalAnswer \/ RaisingAnswer
  \/ WakeUp

Next == Progress \/ Loop \/ Ended

\* The transport has a timeout and sleep() returns, so the loop does not stall.
\* Nothing is assumed of the provider: an activity may run for ever.
Spec == Init /\ [][Next]_vars /\ WF_vars(Loop)

-----------------------------------------------------------------------------
(***************************************************************************)
(* ADR 0003, the grace window: an activity that becomes visible before     *)
(* Grace checks have missed it is never given up as nonexistent, unless a  *)
(* transient answer closed the window early; and outside the window a      *)
(* missing one is given up at once: a nonexistent activity costs Grace + 1 *)
(* checks (all MaxPolls of them if those are fewer).                       *)
(***************************************************************************)
MissingJudgedByGrace ==
  /\ outcome = "not_found" => transients > 0 \/ visibleAt = None \/ visibleAt > Grace
  /\ stage = "hidden" /\ transients = 0 => poll <= Grace + 1

\* A call is never still polling for ever, whatever the provider answers.
PollingEnds == <>(outcome # None)
=============================================================================
