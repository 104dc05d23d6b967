----------------------------- MODULE TripDecision -----------------------------
(***************************************************************************)
(* One live trip analysis seen as data: how what the providers answer, or  *)
(* fail to answer, becomes the published best time and route comparison    *)
(* (TemporalTripAnalysisAdapter.analyze, _best_time_result, _publish in    *)
(* app/services/trip_adapters.py, app/services/route_analysis.py and       *)
(* _trip_result in app/api.py).                                            *)
(* Calls, budgets and threads are TripAnalysis's subject.                  *)
(*                                                                         *)
(* A result's date is "trip", the date asked for, or another one: "today"  *)
(* where the trip is not today, "other" for replayed evidence of an        *)
(* earlier day.  UTC offsets are hours; the trip's zone is America/Chicago *)
(* in summer.                                                              *)
(***************************************************************************)
EXTENDS BestTime, TripContract, TimeWindow

CONSTANTS Bodies,    \* requests a client may post
          Hours,     \* hours of the traveler window
          Tcms,      \* TCM values of an hour, and of a corridor
          Readings,  \* parameter readings of an hour
          RouteSets, \* sequences of routes OSRM may return
          Shades     \* shade evidence of a route by day

VARIABLES request,     \* the accepted request
          stage,       \* what the analysis does next
          heat,        \* the merged hourly series
          profiles,    \* the hours the best time was chosen from
          best,        \* the best time
          routing,     \* the routes and their date
          routeHeat,   \* their heat evidence and its date
          routes,      \* the route comparison
          response     \* what the caller gets

tripVars == <<request, stage, heat, profiles, best, routing, routeHeat, routes, response>>

representative_distance_m == 1500
ChicagoOffset == -5
\* What RouteExecution stamps on a live answer.
Today == IF request.day = 0 THEN "trip" ELSE "today"

Unavailable(code) == [state |-> "unavailable", code |-> code]
BadRequest == [state |-> "bad_request", code |-> "value_error"] \* HTTP 400

(***************************************************************************)
(* What stands for a missing value is no answer.  Hours, temperatures and  *)
(* readings are numbers, and the routes of a set have lengths and          *)
(* identities of their own (app/domain/routing.py, RouteSet).              *)
(***************************************************************************)
ASSUME NoneAssumption == None # Unavailable("contract_violation")
ASSUME HourAssumption ==
  /\ Hours \subseteq Nat /\ IsFiniteSet(Hours) /\ Tcms \subseteq Int
  /\ Readings \subseteq [Parameters -> Int \cup {None}]
ASSUME RouteAssumption ==
  /\ RouteSets \subseteq Seq([id : Int, distance : Int])
  /\ \A returned \in RouteSets : \A i, k \in DOMAIN returned :
       returned[i].id = returned[k].id => i = k
ASSUME ShadeAssumption == \A shade \in Shades : shade.percent \in Int

Init ==
  /\ request = None /\ stage = "request"
  /\ heat = None /\ profiles = {} /\ best = None /\ routing = None
  /\ routeHeat = None /\ routes = None /\ response = None

Answered(r) == response' = r /\ stage' = "done"

-----------------------------------------------------------------------------
\* _execution_mode and _parse_trip_request: live is allowed, no field is missing,
\* mistyped, of the legacy contract or the server's own, and the window is one.
TripRequestAccepted(body) ==
  body.live /\ body.wellFormed /\ TimeWindowAccepted(body.window)

\* _validate_trip_mode: a curated trip is the canonical one.
ScenarioAccepted(body) == body.mode = "curated" => body.canonical

\* The heatmap of a later day than tomorrow is refused where nothing catches it.
Forecastable(body) == body.day <= 1

\* _trip_result up to the first provider call.
Post(body) ==
  /\ stage = "request"
  /\ request' = body
  /\ IF ~(TripRequestAccepted(body) /\ ScenarioAccepted(body)) THEN Answered(BadRequest)
     ELSE IF ~body.unitedStates THEN Answered(Unavailable("unsupported_geography"))
     ELSE IF ~Forecastable(body) THEN Answered(BadRequest)
     ELSE stage' = "heat" /\ UNCHANGED response
  /\ UNCHANGED <<heat, profiles, best, routing, routeHeat, routes>>

-----------------------------------------------------------------------------
(***************************************************************************)
(* _hourly_heatmap: the hours that answered, the date of the first, and    *)
(* the UTC offsets the tiles of an hour are stamped with.  A live tile is  *)
(* stamped with the local hour and +00:00 (live.py _tile_valid_time), a    *)
(* replayed one with what its fixture says.                                *)
(***************************************************************************)
HourlyHeat(tcm, date, offsets) ==
  /\ stage = "heat"
  /\ IF \A h \in Hours : tcm[h] = None
     THEN Answered(Unavailable("provider_data_missing")) /\ UNCHANGED heat
     ELSE /\ heat' = [tcm |-> tcm, date |-> date, offsets |-> offsets]
          /\ stage' = "best_time" /\ UNCHANGED response
  /\ UNCHANGED <<request, profiles, best, routing, routeHeat, routes>>

\* A zone that cannot be parsed falls back to America/Chicago.
ZoneOffset(zone) == IF zone = "UTC" THEN 0 ELSE ChicagoOffset

\* The recommendation is exact when all tiles of its hour name one instant and that
\* instant, in the zone of the environment series, is the requested date and hour.
TemporalEvidence(offsets, zone, date) ==
  IF \A o \in offsets : offsets = {o} /\ o = ZoneOffset(zone) /\ date = "trip"
  THEN "exact" ELSE "inconsistent"

(***************************************************************************)
(* The environment series, None if it failed, and _best_time_result: its   *)
(* zone, its date (that of its first timestamp) and its readings by hour.  *)
(***************************************************************************)
ChooseBestTime(environment) ==
  LET readings(h) == IF environment = None THEN NothingReported ELSE environment.readings[h]
      zone == IF environment = None THEN "America/Chicago" ELSE environment.zone
      assessed == {assess_hour(h, heat.tcm[h], readings(h)) :
                     h \in {k \in Hours : heat.tcm[k] # None}}
      chosen == select_best_time(assessed, request.cautious)
      evidence == TemporalEvidence(heat.offsets, zone, heat.date)
  IN
  /\ stage = "best_time"
  /\ profiles' = assessed
  /\ best' = [hour     |-> chosen.hour,
              tcm      |-> heat.tcm[chosen.hour],
              interpretation |-> classify_heat(chosen.value, chosen.metric, request.cautious),
              reason   |-> Reason(chosen, assessed),
              evidence |-> evidence,
              time     |-> IF evidence = "exact"
                           THEN [date |-> heat.date, hour |-> chosen.hour] ELSE None,
              date     |-> IF environment = None THEN heat.date ELSE environment.date]
  /\ IF BestTimeAccepted(best', profiles') THEN stage' = "routing" /\ UNCHANGED response
     ELSE Answered(Unavailable("provider_data_missing"))
  /\ UNCHANGED <<request, heat, routing, routeHeat, routes>>

-----------------------------------------------------------------------------
\* A comparison is built, which may raise ValueError; nothing catches that.
Compared(result, next) ==
  IF RouteComparisonAccepted(result)
  THEN routes' = result /\ stage' = next /\ UNCHANGED response
  ELSE Answered(BadRequest) /\ UNCHANGED routes

Decided(night, shade) ==
  decide_route_comparison(routing.routes, routeHeat, request.cautious, night, shade,
                          routeHeat.date)

\* The series and its profiles are not read again.
RoutesUnavailable ==
  /\ stage = "routing"
  /\ Compared(decide_route_comparison(<<>>, HeatLost, request.cautious, FALSE, None, "trip"),
              "publish")
  /\ heat' = None /\ profiles' = {}
  /\ UNCHANGED <<request, best, routing, routeHeat>>

\* Routes fit to reuse the landmark's heat, or long enough to need a shared corridor.
RoutesReturned(returned, date) ==
  /\ stage = "routing"
  /\ routing' = [routes |-> returned, date |-> date]
  /\ IF \E i \in DOMAIN returned : returned[i].distance > representative_distance_m
     THEN stage' = "corridor" /\ UNCHANGED routeHeat
     ELSE /\ stage' = "gate"
          /\ routeHeat' = [source |-> "landmark_reuse", date |-> best.date,
                           values |-> [i \in DOMAIN returned |-> best.tcm]]
  /\ heat' = None /\ profiles' = {}
  /\ UNCHANGED <<request, best, routes, response>>

\* The corridor's heat is of the request's date; a route covered too thinly has none.
CorridorHeat(values) ==
  /\ stage = "corridor"
  /\ routeHeat' = [source |-> "shared_corridor", date |-> "trip", values |-> values]
  /\ stage' = "gate"
  /\ UNCHANGED <<request, heat, profiles, best, routing, routes, response>>

\* Without heat the decision's provenance, and so its date, is the routing's.
CorridorLost ==
  /\ stage = "corridor"
  /\ Compared(decide_route_comparison(routing.routes, HeatLost, request.cautious, FALSE,
                                      None, routing.date), "publish")
  /\ UNCHANGED <<request, heat, profiles, best, routing, routeHeat>>

\* The first decision is final unless it asks for shade.
HeatGate ==
  /\ stage = "gate"
  /\ LET first == Decided(FALSE, None) IN
     Compared(first,
              IF first.state # ShadeRequired THEN "publish"
              ELSE IF best.evidence = "exact" THEN "sun" ELSE "untimed")
  /\ UNCHANGED <<request, heat, profiles, best, routing, routeHeat>>

\* The second decision: without an exact time no route has evidence ...
Untimed ==
  /\ stage = "untimed"
  /\ Compared(Decided(FALSE, NoShade), "publish")
  /\ UNCHANGED <<request, heat, profiles, best, routing, routeHeat>>

\* ... at night the coolest route wins ...
Night ==
  /\ stage = "sun"
  /\ Compared(Decided(TRUE, None), "publish")
  /\ UNCHANGED <<request, heat, profiles, best, routing, routeHeat>>

\* ... and by day the buildings decide; a failed analysis is one that has no evidence.
Day(shade) ==
  /\ stage = "sun"
  /\ Compared(Decided(FALSE, shade), "publish")
  /\ UNCHANGED <<request, heat, profiles, best, routing, routeHeat>>

-----------------------------------------------------------------------------
RouteReasonFaulty(r) == \* a decision at night is taken for a whole one
  \/ r.state \in {ShadeRequired, Insufficient, HeatUnavailable, NoSuitable, Shadiest, OnlyRoute}
  \/ r.setState = "single_route" \/ r.confidence = "insufficient"

\* _route_degradation_reason finds something to say.
RouteReason(r) ==
  \/ r.state \in {ShadeRequired, Insufficient, HeatUnavailable, NoSuitable,
                  Shadiest, OnlyRoute, Nighttime}
  \/ r.setState = "single_route" \/ r.confidence = "insufficient"

\* degraded_reasons, of which the hotels are always one.
DegradedReasons ==
  {"hotels"} \cup (IF best.evidence = "inconsistent" THEN {"best_time"} ELSE {})
             \cup (IF RouteReason(routes) THEN {"routes"} ELSE {})

\* _publish: a response the contract or the codec rejects becomes an unavailable one.
Publish ==
  /\ stage = "publish"
  /\ Answered(
       IF /\ DegradedResponseAccepted(best, routes, DegradedReasons)
          /\ RequestAligned(best, routes, "trip")
       THEN [state |-> "degraded", best |-> best, routes |-> routes]
       ELSE Unavailable("contract_violation"))
  /\ UNCHANGED <<request, heat, profiles, best, routing, routeHeat, routes>>

LiveOffsets == {0}
Series == [date : {"trip"}, offsets : {LiveOffsets}] \cup
          [date : {"trip", "other"}, offsets : {{ChicagoOffset}, {0, ChicagoOffset}}]
Environments == [zone : {"America/Chicago", "UTC", "GMT-7"}, date : {"trip", "other"},
                 readings : [Hours -> Readings]]
\* The hottest tile on each of n corridors, or none where the tiles cover too little of it.
CorridorValues(n) == [1 .. n -> Tcms \cup {None}]
ShadeResults(n) == UNION {[S -> Shades] : S \in {{}, 1 .. n}}

Next ==
  \/ \E body \in Bodies : Post(body)
  \/ stage = "heat" /\ \E tcm \in [Hours -> Tcms \cup {None}], s \in Series :
       HourlyHeat(tcm, s.date, s.offsets)
  \/ stage = "best_time" /\ \E environment \in Environments \cup {None} :
       ChooseBestTime(environment)
  \/ RoutesUnavailable
  \/ stage = "routing" /\ \E returned \in RouteSets, date \in {Today, "other"} :
       RoutesReturned(returned, date)
  \/ stage = "corridor" /\ \E values \in CorridorValues(Len(routing.routes)) :
       CorridorHeat(values)
  \/ CorridorLost \/ HeatGate \/ Untimed \/ Night
  \/ stage = "sun" /\ \E shade \in ShadeResults(Len(routing.routes)) : Day(shade)
  \/ Publish

Spec == Init /\ [][Next]_tripVars

-----------------------------------------------------------------------------
Criteria(p) == <<Count(p, "high"), IF ActionRequired(p, request.cautious) THEN 1 ELSE 0,
                 Count(p, "elevated"), p.value>>
Dominates(p, q) == /\ \A i \in 1 .. 4 : Criteria(p)[i] <= Criteria(q)[i]
                   /\ Criteria(p) # Criteria(q)

(***************************************************************************)
(* The recommended hour is one that answered, and no other hour that did   *)
(* is as good in high concerns, action threshold, elevated concerns and    *)
(* temperature and better in one of them; a reason that speaks of all      *)
(* periods is true of all of them (best_time.py:98-169).                   *)
(***************************************************************************)
RecommendedHourUndominated ==
  profiles # {} =>
    \E chosen \in profiles :
      /\ chosen.hour = best.hour /\ heat.tcm[best.hour] = best.tcm
      /\ \A p \in profiles : ~Dominates(p, chosen)
      /\ best.reason = "all elevated" => \A p \in profiles : Criteria(p)[1] + Criteria(p)[3] > 0

Published == response # None /\ response.state = "degraded"

(***************************************************************************)
(* A published recommendation is backed by the evidence published with it: *)
(* every returned route has comparable heat; if none of it requires action *)
(* no route is shorter; if some does, either the time is exact and it is   *)
(* night and no route is cooler, or the shade of every returned route was  *)
(* modelled sufficiently and none has more (route_decision.py:116-250,     *)
(* route_analysis.py:204-287).                                             *)
(***************************************************************************)
RecommendationSound ==
  Published /\ response.routes.recommended # None =>
    LET options == {response.routes.alternatives[i] : i \in DOMAIN response.routes.alternatives}
    IN \E r \in options : r.id = response.routes.recommended /\ \A o \in options :
         /\ o.heat.value # None
         /\ (\A x \in options : ~x.heat.action) => r.distance <= o.distance
         /\ (\E x \in options : x.heat.action) =>
              /\ response.best.evidence = "exact"
              /\ \/ o.shade = NightShade /\ r.heat.value <= o.heat.value
                 \/ o.shade.confidence = "sufficient" /\ r.shade.percent >= o.shade.percent

(***************************************************************************)
(* An analysis that got as far as a best time is withheld for a contract   *)
(* violation only when the best time's or the routes' date is not the      *)
(* trip's: whatever branch decided, the reasons it gives are those the     *)
(* contract derives from the sections (trip_adapters.py:417-473, 774-814). *)
(***************************************************************************)
PublishedUnlessDatesDiffer ==
  response = Unavailable("contract_violation") => best.date # "trip" \/ routes.date # "trip"

(***************************************************************************)
(* docs/design/design-doc.md:274: missing route heat "produces             *)
(* no_suitable_returned_route or heat_unavailable with an explicit         *)
(* degraded reason", so it does not cost the traveler the best time.       *)
(***************************************************************************)
CorridorLossKeepsBestTime ==
  stage = "done" /\ routes # None /\ routes.state = HeatUnavailable /\ best.date = "trip"
    => Published

(***************************************************************************)
(* docs/adr/0007-exact-time-modeled-shade-decisions.md:18: "BestTimeResult *)
(* retains the unique timezone-aware TCM valid_time for the recommended    *)
(* period as its exact recommendation timestamp": tiles of a live hour     *)
(* name one instant, so that the recommendation is exact.                  *)
(***************************************************************************)
LiveHourIsExact ==
  best # None /\ heat # None /\ heat.offsets = LiveOffsets => best.evidence = "exact"
=============================================================================
