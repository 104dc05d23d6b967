----------------------------- MODULE RouteDecision -----------------------------
(***************************************************************************)
(* The heat-gated choice among the returned walking routes                 *)
(* (app/domain/route_decision.py).  Routes come in OSRM's order, each with *)
(* an identity and a length in metres; heat.values holds the TCM of each,  *)
(* None where its corridor is covered too thinly; shade is None before any *)
(* shade analysis, else evidence for some of the routes by position.       *)
(***************************************************************************)
EXTENDS HeatPolicy, TupleOrder

NoSuitable      == "no_suitable_returned_route"
HeatUnavailable == "heat_unavailable"
Mild            == "mild_shortest_recommended"
Nighttime       == "nighttime_coolest_recommended"
ShadeRequired   == "shade_required"
Insufficient    == "insufficient_shade_comparison_required"
OnlyRoute       == "shade_only_route_recommended"
Shadiest        == "shade_shadiest_recommended"
Recommending    == {Mild, Nighttime, OnlyRoute, Shadiest}

HeatLost == [source |-> "unavailable", values |-> <<>>]
NoShade == <<>>   \* an analysis that has evidence for no route

Elevated(values, cautious) ==
  \E i \in DOMAIN values : classify_heat(values[i], TCM, cautious).action

AllShadedFaulty(routes, shade) == \* the evidence of one route decides
  \E i \in DOMAIN shade : shade[i].confidence = "sufficient"

AllShaded(routes, shade) ==
  \A i \in DOMAIN routes : i \in DOMAIN shade /\ shade[i].confidence = "sufficient"

DecisionState(routes, heat, cautious, night, shade) ==
  IF routes = <<>> THEN NoSuitable
  ELSE IF heat = HeatLost THEN HeatUnavailable
  ELSE IF \E i \in DOMAIN routes : heat.values[i] = None THEN NoSuitable
  ELSE IF ~Elevated(heat.values, cautious) THEN Mild
  ELSE IF night THEN Nighttime
  ELSE IF shade = None THEN ShadeRequired
  ELSE IF ~AllShaded(routes, shade) THEN Insufficient
  ELSE IF Len(routes) = 1 THEN OnlyRoute
  ELSE Shadiest

\* The position of the recommended route.  At night the coolest, with shade the shadiest,
\* both with ties broken by length and then identity; else the first of the shortest.
Recommended(state, routes, heat, shade) ==
  LET Key(i) ==
        CASE state = Nighttime -> <<heat.values[i], routes[i].distance, routes[i].id>>
          [] state \in {OnlyRoute, Shadiest} ->
               <<-shade[i].percent, routes[i].distance, routes[i].id>>
          [] state = Mild -> <<routes[i].distance, i>>
  IN LeastBy(DOMAIN routes, Key)

\* A night makes shade not applicable, which every option then says.
NightShade == [percent |-> 0, coverage |-> 0, confidence |-> "not_applicable"]
ShadeOf(i, night, shade) ==
  IF night THEN NightShade
  ELSE IF shade # None /\ i \in DOMAIN shade THEN shade[i] ELSE None

\* _options.
Options(routes, heat, cautious, state, night, shade) ==
  LET value(i) == IF heat = HeatLost THEN None ELSE heat.values[i] IN
  [i \in DOMAIN routes |->
    [id          |-> routes[i].id,
     distance    |-> routes[i].distance,
     heat        |-> classify_heat(value(i), TCM, cautious),
     source      |-> IF heat = HeatLost THEN None ELSE heat.source,
     shade       |-> ShadeOf(i, night, shade),
     recommended |-> state \in Recommending /\ i = Recommended(state, routes, heat, shade)]]

\* decide_route_comparison; of its provenances only the date matters.
decide_route_comparison(routes, heat, cautious, night, shade, date) ==
  LET state   == DecisionState(routes, heat, cautious, night, shade)
      decided == state \notin {NoSuitable, HeatUnavailable}
      Heat(i) == <<heat.values[i], i>>
  IN [state        |-> state,
      setState     |-> CASE Len(routes) = 0 -> NoSuitable
                         [] Len(routes) = 1 -> "single_route"
                         [] OTHER -> "alternatives_returned",
      alternatives |-> Options(routes, heat, cautious, state, night, shade),
      recommended  |-> IF state \in Recommending
                       THEN routes[Recommended(state, routes, heat, shade)].id ELSE None,
      lowest       |-> IF decided THEN routes[LeastBy(DOMAIN routes, Heat)].id ELSE None,
      confidence   |-> IF state \in {NoSuitable, HeatUnavailable, Insufficient}
                       THEN "insufficient" ELSE "sufficient",
      elevated     |-> IF decided THEN state # Mild ELSE None,
      date         |-> date]
=============================================================================
