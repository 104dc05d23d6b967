-------------------------- MODULE StagedAcquisition --------------------------
(***************************************************************************)
(* The maintainer's acquisition of committed provider fixtures             *)
(* (app/services/issue23_acquisition.py, app/services/acquisition.py): a   *)
(* staged plan of paid activities, each of which ends in a fixture file    *)
(* and a sidecar beside it, and two narrower ways to go on after a plan    *)
(* has stopped half-way.  One maintainer runs one of them at a time; the   *)
(* run may be killed, or end with an exception, between any two effects.   *)
(*                                                                         *)
(* Scenario i of 1 .. Scenarios has a TCM heatmap and, anchored in it,     *)
(* environment parameters; the hotel district has heatmaps of its own.     *)
(* Scenario 1 is the canonical one, the last one is the weak one.  A       *)
(* server that replays fixtures (HeatmapExecution) may read at any moment. *)
(***************************************************************************)
EXTENDS Integers, FiniteSets, Sequences

CONSTANTS Scenarios,      \* number of trip scenarios (three in the code)
          Hotels,         \* number of hotel heatmaps (three in the code)
          CallBudget,     \* calls of the ledger
          MaxActivities   \* activities the provider starts (bounds the model)

\* What is assumed of the constants.
PlanAssumption ==
  Scenarios \in Nat \ {0} /\ Hotels \in Nat /\ CallBudget \in Nat /\ MaxActivities \in Nat

VARIABLES fixture,    \* the activity a target's fixture file holds, Missing or Torn
          sidecar,    \* the activity and the anchor its sidecar names
          ledgerFile, \* the ledger's lines: activity, target, whether it completed
          elevated,   \* whether the weak scenario's TCM reaches the framing threshold
          run,        \* which entry point is running
          queue,      \* the targets it has still to do, the current one first
          phase,      \* where it is with the current one
          current,    \* the activity of the current one
          reading,    \* what a server has read of a pair so far
          billed      \* the provider's activities, one per submission it has started

files == <<fixture, sidecar>>
process == <<run, queue, phase, current>>
acquisitionVars == <<files, ledgerFile, elevated, process, reading, billed>>

Missing == 0
Torn == -1
NoRecord == [id |-> Missing, anchor |-> Missing]

Tcm(i) == [kind |-> "tcm", nr |-> i]
Env(i) == [kind |-> "env", nr |-> i]
Hotel(i) == [kind |-> "hotel", nr |-> i]

\* issue23_activities(): three stages, in this order.
Activities ==
  [i \in 1 .. Scenarios |-> Tcm(i)] \o [i \in 1 .. Scenarios |-> Env(i)]
                                    \o [i \in 1 .. Hotels |-> Hotel(i)]
Targets == {Activities[k] : k \in DOMAIN Activities}
HotelActivities == [i \in 1 .. Hotels |-> Hotel(i)]

Init ==
  /\ fixture = [t \in Targets |-> Missing]
  /\ sidecar = [t \in Targets |-> NoRecord]
  /\ ledgerFile = {}
  /\ elevated \in BOOLEAN
  /\ run = "none" /\ queue = <<>> /\ phase = "idle" /\ current = Missing
  /\ reading = <<>>
  /\ billed = {}

-----------------------------------------------------------------------------
WholePair(t) == fixture[t] > Missing /\ sidecar[t].id > Missing

AbsentFaulty(t) == fixture[t] = Missing \/ sidecar[t].id = Missing \* half a pair may be completed

\* Neither file of the pair exists.
Absent(t) == fixture[t] = Missing /\ sidecar[t].id = Missing

CallsLeft == CallBudget - Cardinality(ledgerFile)

Begin(entry, targets) ==
  /\ run = "none"
  /\ run' = entry /\ queue' = targets /\ phase' = "idle"
  /\ UNCHANGED <<files, ledgerFile, elevated, current, reading, billed>>

\* execute_issue23_plan: a complete TCM pair is replayed, anything else that exists stops
\* the run before it spends, and so does a ledger without a call for every submission.
BeginPlan ==
  /\ \A t \in Targets : Absent(t) \/ (t.kind = "tcm" /\ WholePair(t))
  /\ CallsLeft >= Cardinality({t \in Targets : Absent(t)})
  /\ Begin("plan", Activities)

\* execute_issue23_hotels_resume: the hotel activities, which need no prerequisite.
BeginHotels ==
  /\ Hotels > 0 /\ \A k \in 1 .. Hotels : Absent(Hotel(k))
  /\ CallsLeft >= Hotels
  /\ Begin("hotels", HotelActivities)

\* recover_issue23_canonical_env: any completed env-params call of the ledger, by status
\* lookups only, for the canonical scenario.
BeginRecovery(line) ==
  /\ run = "none" /\ WholePair(Tcm(1)) /\ Absent(Env(1))
  /\ line \in ledgerFile /\ line.target.kind = "env" /\ line.completed
  /\ run' = "recovery" /\ queue' = <<Env(1)>> /\ phase' = "answered" /\ current' = line.id
  /\ UNCHANGED <<files, ledgerFile, elevated, reading, billed>>

-----------------------------------------------------------------------------
Target == Head(queue)
Goes(place) == phase' = place /\ UNCHANGED <<run, queue, current>>

\* On to the next target; the run ends with the last one.
TargetDone ==
  /\ queue' = Tail(queue)
  /\ run' = IF Len(queue) = 1 THEN "none" ELSE run
  /\ phase' = "idle" /\ current' = Missing

\* A stored TCM is read and normalized again instead of submitted.
ReplayPrerequisite ==
  /\ run = "plan" /\ phase = "idle" /\ Target.kind = "tcm" /\ WholePair(Target)
  /\ TargetDone
  /\ UNCHANGED <<files, ledgerFile, elevated, reading, billed>>

GateOpenFaulty(t) == TRUE \* the dependents are acquired whatever the weak scenario shows

\* After the TCM stage the weak scenario must reach the threshold, or the plan stops there.
GateOpen(t) == run = "plan" /\ t.kind # "tcm" => elevated

\* FortyGuardClient.submit_and_poll: the ledger lets it through, the provider starts it.
\* An environment's observed time zone is either the canonical one or a foreign one.
Submit(zone) ==
  /\ run \in {"plan", "hotels"} /\ phase = "idle"
  /\ Absent(Target) /\ GateOpen(Target)
  /\ Target.kind = "env" \/ zone = "canonical"
  /\ CallsLeft > 0 /\ Cardinality(billed) < MaxActivities
  /\ current' = Cardinality(billed) + 1
  /\ billed' = billed \cup {[id |-> current', target |-> Target, zone |-> zone]}
  /\ phase' = "polling"
  /\ UNCHANGED <<files, ledgerFile, elevated, run, queue, reading>>

Line(completed) == [id |-> current, target |-> Target, completed |-> completed]

PollCompletes ==
  /\ phase = "polling"
  /\ ledgerFile' = ledgerFile \cup {Line(TRUE)}
  /\ Goes("answered")
  /\ UNCHANGED <<files, elevated, reading, billed>>

\* The plan takes the canonical zone only; a recovery takes the canonical scenario's hours
\* under the foreign zone only, and of this plan's calls only Env(1) has those hours.
Accepted(activity) ==
  IF run = "recovery" THEN activity.target = Env(1) /\ activity.zone = "foreign"
  ELSE activity.zone = "canonical"

\* The result is normalized and validated first; then the fixture is written ...
WriteFixture ==
  /\ phase = "answered"
  /\ \E activity \in billed : activity.id = current /\ Accepted(activity)
  /\ fixture' = [fixture EXCEPT ![Target] = current]
  /\ Goes(IF run = "recovery" THEN "described" ELSE "written")
  /\ UNCHANGED <<sidecar, ledgerFile, elevated, reading, billed>>

\* ... and its sidecar, which of a TCM is final.
WriteSidecar ==
  /\ phase = "written"
  /\ sidecar' = [sidecar EXCEPT ![Target] = [id |-> current, anchor |-> Missing]]
  /\ IF Target.kind = "tcm" THEN TargetDone ELSE Goes("described")
  /\ UNCHANGED <<fixture, ledgerFile, elevated, reading, billed>>

AnchorFaulty(t) == \* the scenario the gate looked at last
  IF t.kind = "env" THEN sidecar[Tcm(Scenarios)].id ELSE Missing

\* What the sidecar of an environment says it is anchored in.
Anchor(t) == IF t.kind = "env" THEN sidecar[Tcm(t.nr)].id ELSE Missing

\* _replace_sidecar: the same fixture bytes with the sidecar that says where they come from.
Describe ==
  /\ phase = "described"
  /\ sidecar' = [sidecar EXCEPT ![Target] = [id |-> current, anchor |-> Anchor(Target)]]
  /\ TargetDone
  /\ UNCHANGED <<fixture, ledgerFile, elevated, reading, billed>>

(***************************************************************************)
(* The run ends early: an exception of any of the steps above, a rejected  *)
(* result, the closed gate, or a kill.  A failed poll is in the ledger; a  *)
(* kill may leave the file that was being written incomplete.              *)
(***************************************************************************)
Stopped == run' = "none" /\ queue' = <<>> /\ phase' = "idle" /\ current' = Missing

PollFails ==
  /\ phase = "polling"
  /\ ledgerFile' = ledgerFile \cup {Line(FALSE)}
  /\ Stopped
  /\ UNCHANGED <<files, elevated, reading, billed>>

Stop ==
  /\ run # "none"
  /\ Stopped
  /\ UNCHANGED <<files, ledgerFile, elevated, reading, billed>>

StopWriting ==
  /\ \/ /\ phase = "answered"
        /\ fixture' = [fixture EXCEPT ![Target] = Torn] /\ UNCHANGED sidecar
     \/ /\ phase = "written"
        /\ sidecar' = [sidecar EXCEPT ![Target].id = Torn] /\ UNCHANGED fixture
  /\ Stopped
  /\ UNCHANGED <<ledgerFile, elevated, reading, billed>>

-----------------------------------------------------------------------------
\* A server replays a fixture: it reads the sidecar to match the request, then the file.
ReadSidecar(t) ==
  /\ reading = <<>> /\ sidecar[t].id > Missing
  /\ reading' = <<t, sidecar[t].id>>
  /\ UNCHANGED <<files, ledgerFile, elevated, process, billed>>

ReadFixture ==
  /\ reading # <<>>
  /\ reading' = <<>>
  /\ UNCHANGED <<files, ledgerFile, elevated, process, billed>>

Next ==
  \/ BeginPlan \/ BeginHotels \/ \E line \in ledgerFile : BeginRecovery(line)
  \/ ReplayPrerequisite \/ \E zone \in {"canonical", "foreign"} : Submit(zone)
  \/ PollCompletes \/ WriteFixture \/ WriteSidecar \/ Describe
  \/ PollFails \/ Stop \/ StopWriting
  \/ \E t \in Targets : ReadSidecar(t)
  \/ ReadFixture

Spec == Init /\ [][Next]_acquisitionVars

-----------------------------------------------------------------------------
(***************************************************************************)
(* Wherever a run was stopped, and whatever was resumed or recovered       *)
(* after it, a sidecar on disk describes the fixture beside it, that       *)
(* fixture is a result of its own target, an environment names the TCM on  *)
(* disk that it is anchored in, and a server between its two reads of a    *)
(* pair will find the fixture it matched (acquisition.py:390, 443;         *)
(* issue23_acquisition.py:247-326, 704).                                   *)
(***************************************************************************)
PairsBelongTogether ==
  /\ \A t \in Targets : sidecar[t].id > Missing =>
       /\ fixture[t] = sidecar[t].id
       /\ \E b \in billed : b.id = fixture[t] /\ b.target = t
       /\ sidecar[t].anchor \in {Missing, fixture[Tcm(t.nr)]}
  /\ reading # <<>> => fixture[reading[1]] = reading[2]

(***************************************************************************)
(* No environment is paid for before the weak scenario has passed its gate *)
(* and its own TCM pair is on disk, whichever run of the plan wrote that   *)
(* pair; and a plan that has begun is never stopped by the ledger in the   *)
(* middle, so its preflight asks for enough                                *)
(* (issue23_acquisition.py:357-360, 382-387, 584).                         *)
(***************************************************************************)
DependentsWait ==
  /\ \A b \in billed : b.target.kind = "env" => elevated /\ WholePair(Tcm(b.target.nr))
  /\ run \in {"plan", "hotels"} /\ phase = "idle" =>
       CallsLeft >= Cardinality({k \in DOMAIN queue : Absent(queue[k])})

\* A stored observation is never replaced or removed, by no later run and by no recovery,
\* and no activity is submitted for a target that has one (issue23_acquisition.py:357).
ObservationsKept ==
  [][/\ \A t \in Targets : fixture[t] > Missing => fixture'[t] = fixture[t]
     /\ \A b \in billed' \ billed : fixture[b.target] <= Missing]_acquisitionVars
=============================================================================
