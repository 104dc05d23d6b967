------------------------------ MODULE MCAnalyses ------------------------------
(***************************************************************************)
(* The two analyses that share the ledger's core budget and the heatmap    *)
(* cache, for TLC: two hotel rankings (HotelEvidence) or two trip analyses *)
(* (TripAnalysis).  Every behaviour is of one kind, chosen at the start;   *)
(* the other stays in its initial state.  The interchangeable rankings are *)
(* also the interchangeable trip analyses.                                 *)
(***************************************************************************)
EXTENDS HotelEvidence, TLC

CONSTANTS Hours, TripBudget, MaxConcurrency, Fixtures, \* of the trip analyses
          MaxFaults \* loads that are degraded (bounds the model)

VARIABLES part,
          tripPc, tripTask, tripCache, tripSpent, tripHeld, overlapped \* of TripAnalysis

tripVars == <<tripPc, tripTask, tripCache, tripSpent, tripHeld, overlapped>>
partVars == <<part, vars, tripVars>>

Trips == INSTANCE TripAnalysis_proofs WITH
  pc <- tripPc, task <- tripTask, cache <- tripCache, spent <- tripSpent, held <- tripHeld,
  Analyses <- Rankings, Budget <- TripBudget

ASSUME TripsAssumption == Trips!TripAssumption

\* A committed fixture for the first hour and for the environment.
HourFixture == {<<"hour", 1>>, <<"env", 0>>}

PartInit == part \in {"rankings", "trips"} /\ Init /\ Trips!Init

\* The loads of all rankings, and the products of all trip analyses, without a live result.
FewFaults ==
  /\ Cardinality({rc \in Rankings \X Components :
                    LET load == task[rc[1]][rc[2]]
                    IN  \/ load.stage \in {"failed", "missing"}
                        \/ load.stage = "served" /\ load.evidence.source # "provider"}) <= MaxFaults
  /\ Cardinality({ap \in Rankings \X Trips!Products :
                    tripTask[ap[1]][ap[2]] \in {"failed", "cache", "fixture", "unavailable"}})
       <= MaxFaults

RankingsNext == part = "rankings" /\ Next /\ UNCHANGED <<part, tripVars>> /\ FewFaults'
TripsNext == part = "trips" /\ Trips!Next /\ UNCHANGED <<part, vars>> /\ FewFaults'

PartNext == RankingsNext \/ TripsNext
PartSpec == PartInit /\ [][PartNext]_partVars

RankingSymmetry == Permutations(Rankings)

-----------------------------------------------------------------------------
\* What TripAnalysis says under these names.
TripUnitsMatchCalls == Trips!UnitsMatchCalls
AdmittedAloneFinishes == Trips!AdmittedAloneFinishes
NoCallOutlivesAnalysis == Trips!NoCallOutlivesAnalysis
FreshMeansLive == Trips!FreshMeansLive
=============================================================================
