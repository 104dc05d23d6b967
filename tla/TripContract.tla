----------------------------- MODULE TripContract -----------------------------
(***************************************************************************)
(* What the product contract accepts (app/domain/contracts.py), and the    *)
(* alignment with the request that the codec asks for                      *)
(* (app/services/trip_contract_v2.py).  The code checks each result when   *)
(* it is built and once more when the response is decoded.                 *)
(***************************************************************************)
EXTENDS RouteDecision

\* RouteOption; coverage is the building coverage in percent, shade None where not modelled.
RouteOptionAccepted(option) ==
  /\ option.distance > 0
  /\ HeatInterpretationAccepted(option.heat)
  /\ option.shade # None => option.shade.percent \in 0 .. 100
                         /\ option.shade.coverage \in 0 .. 100

\* RouteComparisonResult with explicit route states.
RouteComparisonAccepted(r) ==
  LET ids == {r.alternatives[i].id : i \in DOMAIN r.alternatives}
      recommended == {i \in DOMAIN r.alternatives : r.alternatives[i].recommended}
  IN
  /\ \A i \in DOMAIN r.alternatives : RouteOptionAccepted(r.alternatives[i])
  /\ r.setState = NoSuitable => r.alternatives = <<>> /\ r.state = NoSuitable
  /\ r.setState # NoSuitable => r.alternatives # <<>> /\ Cardinality(ids) = Len(r.alternatives)
  /\ r.setState = "single_route" => Len(r.alternatives) = 1
  /\ r.setState = "alternatives_returned" => Len(r.alternatives) >= 2
  /\ r.lowest # None => r.lowest \in ids
  /\ IF r.state \in Recommending
     THEN \E i \in recommended : recommended = {i} /\ r.alternatives[i].id = r.recommended
     ELSE r.recommended = None /\ recommended = {}
  /\ r.state = Mild => \A i \in recommended, k \in DOMAIN r.alternatives :
                         r.alternatives[i].distance <= r.alternatives[k].distance
  /\ r.state = HeatUnavailable => \A i \in DOMAIN r.alternatives :
       r.alternatives[i].heat.value = None /\ r.alternatives[i].source = None

\* BestTimeResult: b with the hourly profiles it was chosen from.
BestTimeAccepted(b, profiles) ==
  /\ \E p \in profiles : p.hour = b.hour /\ p.metric = b.interpretation.metric
  /\ Cardinality({p.hour : p \in profiles}) = Cardinality(profiles)
  /\ HeatInterpretationAccepted(b.interpretation)
  /\ (b.evidence = "exact") = (b.time # None)

\* The present sections whose own fields say they are degraded.
DegradedSections(best, routes) ==
  (IF best.evidence = "inconsistent" THEN {"best_time"} ELSE {}) \cup
  (IF \/ routes.confidence = "insufficient"
      \/ routes.state \in {ShadeRequired, Shadiest, OnlyRoute, Nighttime, Insufficient,
                           HeatUnavailable, NoSuitable}
      \/ routes.setState = "single_route"
   THEN {"routes"} ELSE {})

\* TripAnalysisResponse, a degraded one without hotels: a reason for every missing section
\* and for every degraded one, and for no other.
DegradedResponseAccepted(best, routes, reasons) ==
  reasons = {"hotels"} \cup DegradedSections(best, routes)

\* _validate_request_alignment.
RequestAligned(best, routes, date) ==
  /\ best.date = date /\ routes.date = date
  /\ best.evidence = "exact" => best.time = [date |-> date, hour |-> best.hour]
=============================================================================
