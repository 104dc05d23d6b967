---------------------------- MODULE Endings_proofs ----------------------------
(***************************************************************************)
(* Why poll_activity judges a missing activity by the grace window, for    *)
(* every number of checks and every length of the window, and why it has   *)
(* ever fewer checks left.  That it and the others end is not proved here: *)
(* that takes fairness.                                                    *)
(*                                                                         *)
(* The activity may become visible after it was given up: what was known   *)
(* when it was given up has to be kept until then.  GraceInv says it of a  *)
(* hidden activity: without a transient answer the window is still open as *)
(* long as the loop runs, and is over when the activity is given up.       *)
(***************************************************************************)
EXTENDS MCEndings, TLAPS

Untroubled == stage = "hidden" /\ transients = 0

GraceInv ==
  /\ poll \in Nat /\ transients \in Nat
  /\ stage = "hidden" => visibleAt = None
  /\ Untroubled => ~ sawNon404 /\ poll <= Grace + 1
  /\ Untroubled /\ outcome = None => poll <= Grace
  /\ Untroubled /\ outcome = "not_found" => poll > Grace
  /\ outcome = "not_found" => transients > 0 \/ visibleAt = None \/ visibleAt > Grace

\* An outcome of the polling is never taken for none.
LEMMA OutcomesTold ==
  ASSUME Polling!PollsAssumption
  PROVE  /\ None \notin {"result", "malformed", "task_failure", "not_found", "polled_out",
                         "authentication", "unanswered"}
         /\ None \notin Polling!Transient
BY DEF Polling!PollsAssumption, Polling!Outcomes

\* At first nothing has been missed.
LEMMA GraceInit == ASSUME Polling!PollsAssumption, Polling!Init PROVE GraceInv
BY OutcomesTold DEF Polling!PollsAssumption, Polling!Init, GraceInv, Untroubled

\* A 404 inside the window leaves it open; the one after it ends the polling.
LEMMA MissingStep ==
  ASSUME Polling!PollsAssumption, GraceInv, Polling!MissingAnswer404
  PROVE  GraceInv'
<1>1. /\ stage = "hidden" /\ stage' = stage /\ visibleAt' = None /\ transients' = transients
      /\ poll' = poll + 1 /\ outcome = None /\ sawNon404' = sawNon404
  BY DEF Polling!MissingAnswer404, Polling!Checking, GraceInv
<1>2. (Untroubled' <=> Untroubled) /\ (~ sawNon404' <=> ~ sawNon404)
  BY <1>1 DEF Untroubled
<1>3. CASE Polling!TooLateToBeMissing
  <2>1. outcome' = "not_found"
    BY <1>3 DEF Polling!MissingAnswer404, Polling!Stop
  <2>2. Untroubled => poll + 1 > Grace
    BY <1>3 DEF Polling!TooLateToBeMissing, GraceInv
  <2>3. Untroubled' => ~ sawNon404' /\ poll' <= Grace + 1 /\ poll' > Grace
    BY <1>1, <1>2, <2>2 DEF Polling!PollsAssumption, GraceInv, Untroubled
  <2> QED BY <1>1, <2>1, <2>3 DEF Polling!PollsAssumption, GraceInv, Untroubled
<1>4. CASE ~ Polling!TooLateToBeMissing
  <2>1. outcome' # "not_found"
    BY <1>4, OutcomesTold DEF Polling!MissingAnswer404, Polling!GoOn
  <2>2. poll + 1 <= Grace
    BY <1>4 DEF Polling!TooLateToBeMissing, Polling!PollsAssumption, GraceInv
  <2> QED BY <1>1, <1>2, <2>1, <2>2 DEF Polling!PollsAssumption, GraceInv, Untroubled
<1> QED BY <1>3, <1>4

\* Whatever the provider and the loop do next, GraceInv stays.
LEMMA GraceStep ==
  ASSUME Polling!PollsAssumption, GraceInv, [Polling!Next]_Polling!vars
  PROVE  GraceInv'
<1> USE DEF GraceInv, Untroubled
<1>0. MaxPolls \in Nat \ {0} /\ Grace \in Nat /\ None # "not_found"
  BY OutcomesTold DEF Polling!PollsAssumption
<1> USE <1>0
<1>1. CASE Polling!Progress
  BY <1>1 DEF Polling!Progress, Polling!localVars
<1>2. CASE Polling!TransientAnswer
  <2>1. outcome' # "not_found"
    BY <1>2 DEF Polling!TransientAnswer, Polling!Checking, Polling!Stop, Polling!Transient
  <2> QED BY <1>2, <2>1 DEF Polling!TransientAnswer
<1>3. CASE Polling!MissingAnswer404
  BY <1>3, MissingStep
<1>4. CASE Polling!RunningAnswer
  BY <1>4 DEF Polling!RunningAnswer, Polling!GoOn
<1>5. CASE Polling!FinalAnswer
  BY <1>5 DEF Polling!FinalAnswer, Polling!Stop
<1>6. CASE Polling!RaisingAnswer
  <2>1. outcome = None /\ outcome' \in {"authentication", "malformed", "unanswered"}
    BY <1>6 DEF Polling!RaisingAnswer, Polling!Checking, Polling!Stop
  <2> QED BY <1>6, <2>1 DEF Polling!RaisingAnswer
<1>7. CASE Polling!WakeUp
  BY <1>7 DEF Polling!WakeUp
<1>8. CASE Polling!Ended \/ UNCHANGED Polling!vars
  BY <1>8 DEF Polling!Ended, Polling!vars
<1> QED BY <1>1, <1>2, <1>3, <1>4, <1>5, <1>6, <1>7, <1>8 DEF Polling!Next, Polling!Loop

(***************************************************************************)
(* ADR 0003: an activity visible within the grace window is never given up *)
(* as nonexistent, and a nonexistent one costs at most Grace + 1 checks    *)
(* (MissingJudgedByGrace).                                                 *)
(***************************************************************************)
THEOREM GraceHonoured == FairPartSpec => []MissingJudgedByGrace
<1>1. Polling!Init => GraceInv
  BY GraceInit, PollingAssumption
<1>2. GraceInv /\ [Polling!Next]_Polling!vars => GraceInv'
  BY GraceStep, PollingAssumption
<1>3. GraceInv => MissingJudgedByGrace
  BY PollingAssumption DEF Polling!PollsAssumption, GraceInv, Untroubled,
     Polling!MissingJudgedByGrace, MissingJudgedByGrace
<1>4. PartInit => Polling!Init
  BY DEF PartInit
<1>5. [PartNext]_partVars => [Polling!Next]_Polling!vars
  BY DEF PartNext, partVars, AnalysesNext, ClientNext, PollingNext, pollVars, Polling!vars,
         Polling!localVars
<1> QED BY <1>1, <1>2, <1>3, <1>4, <1>5, PTL DEF FairPartSpec

-----------------------------------------------------------------------------
(***************************************************************************)
(* What the end of the polling rests on besides fairness: the checks and   *)
(* the pauses it still has.                                                *)
(***************************************************************************)
PollsLeft ==
  IF outcome # None THEN 0 ELSE 2 * (MaxPolls - poll) + (IF sleeping THEN 1 ELSE 0)

CheckInv ==
  /\ poll \in Nat /\ sleeping \in BOOLEAN
  /\ outcome = None => poll < MaxPolls
  /\ sleeping => outcome = None

\* The checks left are a number.
LEMMA PollsLeftCounted ==
  ASSUME Polling!PollsAssumption, CheckInv
  PROVE  PollsLeft \in Nat /\ (outcome = None => PollsLeft > 0)
BY DEF Polling!PollsAssumption, CheckInv, PollsLeft

\* An answer ends the polling, or is paused upon while a check is left.
LEMMA AnswerCounts ==
  ASSUME Polling!PollsAssumption, CheckInv, Polling!Checking,
         \/ outcome' # None /\ sleeping' = sleeping /\ poll' \in {poll, poll + 1}
         \/ poll' = poll + 1 /\ (sleeping' = ~ Polling!Last)
            /\ (outcome' = None <=> ~ Polling!Last)
  PROVE  CheckInv' /\ PollsLeft' < PollsLeft
<1>1. outcome = None /\ sleeping = FALSE /\ poll \in Nat /\ poll < MaxPolls /\ MaxPolls \in Nat
  BY DEF Polling!Checking, Polling!PollsAssumption, CheckInv
<1>2. PollsLeft = 2 * (MaxPolls - poll)
  BY <1>1 DEF PollsLeft
<1>3. CASE outcome' # None /\ sleeping' = FALSE /\ poll' \in {poll, poll + 1}
  BY <1>1, <1>2, <1>3 DEF CheckInv, PollsLeft
<1>4. CASE poll' = poll + 1 /\ sleeping' = TRUE /\ outcome' = None /\ ~ Polling!Last
  BY <1>1, <1>2, <1>4 DEF CheckInv, PollsLeft, Polling!Last
<1>5. CASE poll' = poll + 1 /\ sleeping' = FALSE /\ outcome' # None
  BY <1>1, <1>2, <1>5 DEF CheckInv, PollsLeft
<1> QED BY <1>1, <1>3, <1>4, <1>5 DEF Polling!Last

\* Every step of the loop leaves fewer checks and pauses.
LEMMA LoopCounts ==
  ASSUME Polling!PollsAssumption, CheckInv, Polling!Loop
  PROVE  CheckInv' /\ PollsLeft' < PollsLeft
<1>1. CASE Polling!TransientAnswer
  BY <1>1, AnswerCounts, OutcomesTold DEF Polling!TransientAnswer, Polling!Stop, Polling!Checking
<1>2. CASE Polling!MissingAnswer404
  BY <1>2, AnswerCounts, OutcomesTold DEF Polling!MissingAnswer404, Polling!Stop, Polling!GoOn
<1>3. CASE Polling!RunningAnswer
  BY <1>3, AnswerCounts, OutcomesTold DEF Polling!RunningAnswer, Polling!GoOn
<1>4. CASE Polling!FinalAnswer
  BY <1>4, AnswerCounts, OutcomesTold DEF Polling!FinalAnswer, Polling!Stop
<1>5. CASE Polling!RaisingAnswer
  BY <1>5, AnswerCounts, OutcomesTold DEF Polling!RaisingAnswer, Polling!Stop
<1>6. CASE Polling!WakeUp
  <2>1. sleeping = TRUE /\ sleeping' = FALSE /\ poll' = poll /\ outcome' = outcome
    BY <1>6 DEF Polling!WakeUp, CheckInv
  <2>2. outcome = None /\ poll \in Nat /\ poll < MaxPolls /\ MaxPolls \in Nat
    BY <2>1 DEF CheckInv, Polling!PollsAssumption
  <2>3. PollsLeft = 2 * (MaxPolls - poll) + 1 /\ PollsLeft' = 2 * (MaxPolls - poll)
    BY <2>1, <2>2 DEF PollsLeft
  <2>4. CheckInv'
    BY <2>1, <2>2 DEF CheckInv
  <2> HIDE DEF PollsLeft
  <2> QED BY <2>2, <2>3, <2>4
<1> QED BY <1>1, <1>2, <1>3, <1>4, <1>5, <1>6 DEF Polling!Loop

(***************************************************************************)
(* No activity is polled without end: whatever the provider answers, each  *)
(* check and each pause of poll_activity leaves fewer of the at most       *)
(* MaxPolls checks, and while no outcome is known one is left              *)
(* (client.py:226-309).                                                    *)
(***************************************************************************)
THEOREM PollingRunsDown ==
  FairPartSpec => /\ [](PollsLeft \in Nat /\ (outcome = None => PollsLeft > 0))
                  /\ [][/\ PollsLeft' <= PollsLeft
                        /\ Polling!Loop => PollsLeft' < PollsLeft]_pollVars
<1> DEFINE Left == PollsLeft \in Nat /\ (outcome = None => PollsLeft > 0)
           Down == /\ PollsLeft' <= PollsLeft
                   /\ Polling!Loop => PollsLeft' < PollsLeft
<1>0. Polling!PollsAssumption
  BY PollingAssumption
<1>1. PartInit => CheckInv
  <2>1. PartInit => Polling!Init
    BY DEF PartInit
  <2>2. Polling!Init => CheckInv
    <3>1. 0 < MaxPolls
      BY <1>0 DEF Polling!PollsAssumption
    <3>2. Polling!Init => poll = 0 /\ sleeping = FALSE /\ outcome = None
      BY DEF Polling!Init
    <3>3. sleeping = FALSE => sleeping \in BOOLEAN /\ ~ sleeping
      OBVIOUS
    <3>4. poll = 0 => poll \in Nat /\ poll < MaxPolls
      BY <3>1
    <3> QED BY <3>2, <3>3, <3>4 DEF CheckInv
  <2> QED BY <2>1, <2>2
<1>2. CheckInv => Left
  BY <1>0, PollsLeftCounted
<1>3. CheckInv' => PollsLeft' \in Nat
  <2>1. MaxPolls \in Nat
    BY <1>0 DEF Polling!PollsAssumption
  <2>2. CASE outcome' # None
    BY <2>2 DEF PollsLeft
  <2>3. ASSUME CheckInv', outcome' = None PROVE PollsLeft' \in Nat
    <3>1. poll' \in Nat /\ poll' < MaxPolls
      BY <2>3 DEF CheckInv
    <3>2. \A m, n \in Nat : n < m => 2 * (m - n) \in Nat
      OBVIOUS
    <3>3. 2 * (MaxPolls - poll') \in Nat
      BY <2>1, <3>1, <3>2
    <3> QED BY <2>3, <3>3 DEF PollsLeft
  <2> QED BY <2>2, <2>3
<1>4. CheckInv /\ [PartNext]_partVars => CheckInv' /\ [Down]_pollVars
  <2> SUFFICES ASSUME CheckInv, [PartNext]_partVars PROVE CheckInv' /\ [Down]_pollVars
    OBVIOUS
  <2>1. CASE Polling!Loop
    <3>1. CheckInv' /\ PollsLeft' < PollsLeft
      BY <2>1, LoopCounts, PollingAssumption
    <3>2. PollsLeft \in Nat /\ PollsLeft' \in Nat
      BY <1>2, <1>3, <3>1
    <3> HIDE DEF PollsLeft
    <3> QED BY <3>1, <3>2
  <2>2. CASE ~ Polling!Loop
    <3>1. UNCHANGED <<poll, sleeping, outcome>>
      BY <2>2 DEF PartNext, partVars, AnalysesNext, ClientNext, PollingNext, pollVars,
                  Polling!Next, Polling!Progress, Polling!Ended, Polling!vars, Polling!localVars
    <3>2. CheckInv' /\ PollsLeft' = PollsLeft
      BY <3>1 DEF CheckInv, PollsLeft
    <3>3. PollsLeft \in Nat
      BY <1>2
    <3> HIDE DEF PollsLeft
    <3> QED BY <2>2, <3>2, <3>3
  <2> QED BY <2>1, <2>2
<1> HIDE DEF Left, Down
<1>5. FairPartSpec => []Left /\ [][Down]_pollVars
  BY <1>1, <1>2, <1>4, PTL DEF FairPartSpec
<1> QED BY <1>5 DEF Left, Down
=============================================================================
