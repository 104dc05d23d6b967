---------------------------- MODULE MCTripDecision ----------------------------
(* TripDecision for TLC: two hours, at most two routes, one reading per case. *)
EXTENDS TripDecision

TwoHours == {10, 11}

\* Requests that are served, of either day, and one for each refusal.
Served == [live |-> TRUE, wellFormed |-> TRUE, window |-> <<10, 12>>, mode |-> "exploratory",
           canonical |-> FALSE, unitedStates |-> TRUE, day |-> 0, cautious |-> FALSE]
CaseBodies ==
  {Served, [Served EXCEPT !.day = 1, !.cautious = TRUE],
   [Served EXCEPT !.live = FALSE], [Served EXCEPT !.wellFormed = FALSE],
   [Served EXCEPT !.window = <<10, 23>>], [Served EXCEPT !.window = <<12, 10>>],
   [Served EXCEPT !.mode = "curated"], [Served EXCEPT !.unitedStates = FALSE],
   [Served EXCEPT !.day = 2]}

\* Below and above the cautious threshold, and above the standard one.
BoundaryTcms == {2900, 3200, 3600}

With(parameters) == [p \in Parameters |-> IF p \in DOMAIN parameters THEN parameters[p] ELSE None]

\* Nothing; caution by NOAA yet below the product's concern; high; elevated air
\* without a heat index; a cool hour with high air.
CaseReadings ==
  {NothingReported,
   With([heat_index_celsius |-> 2668]),
   With([heat_index_celsius |-> 4100]), With([air_quality |-> 6000]),
   With([heat_index_celsius |-> 2500, air_quality |-> 11000])}

Route(id, distance) == [id |-> id, distance |-> distance]
CaseRoutes == {<<Route(1, 800)>>, <<Route(1, 1600)>>, <<Route(2, 800), Route(1, 800)>>,
               <<Route(1, 800), Route(2, 1600)>>, <<Route(1, 1600), Route(2, 1500)>>}

\* Percentages; a coverage of 101 is a sum of two rounded fractions just above one.
Evidence(percent, coverage, confidence) ==
  [percent |-> percent, coverage |-> coverage, confidence |-> confidence]
CaseShades == {Evidence(60, 69, "insufficient"),
               Evidence(30, 100, "sufficient"), Evidence(60, 70, "sufficient"),
               Evidence(40, 101, "sufficient")}
=============================================================================
