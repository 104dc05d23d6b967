------------------------------- MODULE MCResults -------------------------------
(***************************************************************************)
(* What the server answers and from which files, for TLC: the decision of  *)
(* a trip analysis (TripDecision), the score of a hotel ranking            *)
(* (HotelScore), the replay of evidence (EvidenceReplay), the acquisition  *)
(* of fixtures (StagedAcquisition) and the replacement of the snapshots    *)
(* (FixturePair).  Every behaviour is of one of them, chosen at the start; *)
(* the others stay in their initial state.                                 *)
(***************************************************************************)
EXTENDS MCTripDecision, HotelCases, ReplayCases

CONSTANTS Listings, Places, Weightings, Scale, MinimumUsable, MinimumComplete,
          Requests, Answers, Fixtures, Scenarios, Hotels, CallBudget, MaxActivities,
          Snapshots, MaxVersion, Days

VARIABLES part,
          \* of HotelScore
          hotelStage, listing, candidates, assignments, outcome,
          \* of EvidenceReplay
          today, stored, answer,
          \* of StagedAcquisition
          fixture, sidecar, ledgerFile, elevated, run, queue, phase, current, reading, billed,
          \* of FixturePair
          disk, version, generator, killed, loader, loaded

hotelVars == <<hotelStage, listing, candidates, assignments, outcome>>
replayVars == <<today, stored, answer>>
acquisitionVars == <<fixture, sidecar, ledgerFile, elevated, run, queue, phase, current,
                     reading, billed>>
pairVars == <<disk, version, generator, killed, loader, loaded>>
partVars == <<part, tripVars, hotelVars, replayVars, acquisitionVars, pairVars>>

Hotel == INSTANCE HotelScore
Replay == INSTANCE EvidenceReplay
Acquisition == INSTANCE StagedAcquisition_proofs
Pair == INSTANCE FixturePair

ASSUME PlansAssumption ==
  Acquisition!PlanAssumption /\ Pair!SnapshotsAssumption /\ Replay!ReplayAssumption
  /\ Hotel!HotelsAssumption

PartInit ==
  /\ part \in {"trip", "hotels", "replay", "acquisition", "snapshots"}
  /\ Init /\ Hotel!Init /\ Replay!Init /\ Acquisition!Init /\ Pair!Init
  /\ part # "acquisition" => ~ elevated

TripNext ==
  /\ part = "trip" /\ Next
  /\ UNCHANGED <<part, hotelVars, replayVars, acquisitionVars, pairVars>>
HotelsNext ==
  /\ part = "hotels" /\ Hotel!Next
  /\ UNCHANGED <<part, tripVars, replayVars, acquisitionVars, pairVars>>
ReplayNext ==
  /\ part = "replay" /\ Replay!Next
  /\ UNCHANGED <<part, tripVars, hotelVars, acquisitionVars, pairVars>>
AcquisitionNext ==
  /\ part = "acquisition" /\ Acquisition!Next
  /\ UNCHANGED <<part, tripVars, hotelVars, replayVars, pairVars>>
SnapshotsNext ==
  /\ part = "snapshots" /\ Pair!Next
  /\ UNCHANGED <<part, tripVars, hotelVars, replayVars, acquisitionVars>>

PartNext == TripNext \/ HotelsNext \/ ReplayNext \/ AcquisitionNext \/ SnapshotsNext
PartSpec == PartInit /\ [][PartNext]_partVars

-----------------------------------------------------------------------------
\* What the other modules say under these names.
OneCandidatePerHotel == Hotel!OneCandidatePerHotel
CoolerNeverBehind == Hotel!CoolerNeverBehind
ReplaysLabelled == Replay!ReplaysLabelled
ReplayedForThisRequest == Replay!ReplayedForThisRequest
PairsBelongTogether == Acquisition!PairsBelongTogether
DependentsWait == Acquisition!DependentsWait
ObservationsKept == Acquisition!ObservationsKept
PairsReplacedTogether == Pair!PairsReplacedTogether
=============================================================================
