------------------------------- MODULE MCEndings -------------------------------
(***************************************************************************)
(* What must end, for TLC: trip analyses (TripAnalysis), calls of the      *)
(* client (FortyGuardClient) and the polling of one activity               *)
(* (StatusPolling), each under its own fairness.  Every behaviour is of    *)
(* one of them, chosen at the start; the others stay in their initial      *)
(* state.                                                                  *)
(***************************************************************************)
EXTENDS MCTripAnalysis

CONSTANTS Calls, PastCalls, MaxPolls, Grace,
          MaxFaults \* products without a live result (bounds the model)

VARIABLES part,
          \* of FortyGuardClient
          records, reservations, nextReservation, file, torn, up, today, location, slot, hold,
          activity, attempted, pending, billed, lost,
          \* of StatusPolling
          stage, poll, sawNon404, sleeping, outcome, transients, visibleAt

clientVars == <<records, reservations, nextReservation, file, torn, up, today, location, slot,
                hold, activity, attempted, pending, billed, lost>>
pollVars == <<stage, poll, sawNon404, sleeping, outcome, transients, visibleAt>>
partVars == <<part, vars, clientVars, pollVars>>

\* Without a core budget, so that calls that reserve nothing occur.
Client == INSTANCE FortyGuardClient WITH
  pc <- location, Budget <- None, EnrichmentBudget <- 1, Days <- 2

Polling == INSTANCE StatusPolling

ASSUME PollingAssumption == Polling!PollsAssumption

PartInit ==
  /\ part \in {"analyses", "client", "polling"}
  /\ Init /\ Client!Init /\ Polling!Init
  /\ part # "client" => records = {}

\* The bound never holds an analysis up: a call that may not fail may complete.
FewFaults ==
  Cardinality({ap \in Analyses \X Products :
                 task[ap[1]][ap[2]] \in {"failed", "cache", "fixture", "unavailable"}})
    <= MaxFaults

AnalysesNext ==
  part = "analyses" /\ Next /\ FewFaults' /\ UNCHANGED <<part, clientVars, pollVars>>
ClientNext == part = "client" /\ Client!Next /\ UNCHANGED <<part, vars, pollVars>>
PollingNext == part = "polling" /\ Polling!Next /\ UNCHANGED <<part, vars, clientVars>>
PartNext == AnalysesNext \/ ClientNext \/ PollingNext

\* The fairness of TripAnalysis!FairSpec, FortyGuardClient!FairSpec and StatusPolling!Spec.
Fairness ==
  /\ \A a \in Analyses : WF_vars(part = "analyses" /\ RunsOn(a))
  /\ \A c \in Client!NewCalls : WF_clientVars(part = "client" /\ Client!Proceed(c))
  /\ WF_pollVars(part = "polling" /\ Polling!Loop)

FairPartSpec == PartInit /\ [][PartNext]_partVars /\ Fairness

-----------------------------------------------------------------------------
\* What FortyGuardClient and StatusPolling say under these names.
CallsEnd == Client!CallsEnd
MissingJudgedByGrace == Polling!MissingJudgedByGrace
PollingEnds == part = "polling" => Polling!PollingEnds
=============================================================================
