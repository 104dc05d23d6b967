------------------------------ MODULE ReplayCases ------------------------------
(* The requests, payloads and fixtures TLC checks EvidenceReplay with: a few requests of *)
(* each kind, with fixtures that fit, that are of another day or of a window of it, that *)
(* cannot be read, and that no provider retrieved. *)
EXTENDS Integers, Optional

HeatmapOf(date, forecast) ==
  [kind |-> "heatmap", analytic |-> "tcm", date |-> date, forecast |-> forecast,
   threshold |-> None]
SeriesOf(date) == [kind |-> "env", date |-> date, anchor |-> 30, hour |-> None]
Windows(r, first, last) == [f \in DOMAIN r \cup {"window"} |->
                              IF f = "window" THEN <<first, last>> ELSE r[f]]

CaseRequests ==
  {HeatmapOf(2, TRUE), Windows(HeatmapOf(1, FALSE), 10, 12), HeatmapOf(1, FALSE),
   [HeatmapOf(1, FALSE) EXCEPT !.analytic = "exceedance"],
   SeriesOf(1), Windows(SeriesOf(2), 8, 21), [kind |-> "route"], [kind |-> "building"]}

Raw(n) == [raw |-> TRUE, mode |-> None, date |-> None,
           tiles |-> IF n = 0 THEN {} ELSE {[metric |-> None, unit |-> None, day |-> None]}]
Internal(r, day, units) ==
  [raw |-> FALSE, mode |-> IF r.forecast THEN "forecast" ELSE "historical", date |-> day,
   tiles |-> {[metric |-> r.analytic, unit |-> u, day |-> day] : u \in units}]
Hourly(shape, days, zone, aligned) ==
  [shape |-> shape, days |-> days, zone |-> zone, aligned |-> aligned]

Routes(code, lengths) ==
  [code |-> code, routes |-> {[distance |-> n, duration |-> 600, line |-> TRUE] : n \in lengths}]

CaseAnswers ==
  [heatmap  |-> {Raw(0), Raw(1)},
   env      |-> {Hourly("documented", <<1, 1>>, "z", TRUE), Hourly("list", <<0, 1>>, "z", TRUE),
                 Hourly("single", <<0>>, "z", TRUE), Hourly("documented", <<>>, "z", TRUE),
                 Hourly("list", <<1>>, None, TRUE)},
   route    |-> {Routes("Ok", {1}), Routes("Ok", {0, 1}), Routes("Ok", {}), Routes("NoRoute", {})},
   building |-> {[date |-> None], [date |-> 0]}]

Fixture(r, day, payload) ==
  [identity |-> r, origin |-> "provider", date |-> day, retrieved |-> day, status |-> "ok", current |-> TRUE,
   payload |-> payload]
Synthesized(f) == [f EXCEPT !.origin = "synthesized", !.retrieved = None]

CaseFixtures ==
  [heatmap  |-> <<Fixture(HeatmapOf(0, TRUE), 0, None),
                  [Fixture(HeatmapOf(1, FALSE), 1, Raw(1)) EXCEPT !.status = "empty"],
                  Fixture(HeatmapOf(1, FALSE), 1, Internal(HeatmapOf(1, FALSE), 1, {"C", "F"})),
                  Fixture(HeatmapOf(0, TRUE), 0, Raw(1)),
                  Fixture(Windows(HeatmapOf(1, FALSE), 10, 12), 1, Raw(1)),
                  Synthesized(Fixture(HeatmapOf(1, FALSE), 1,
                                      Internal(HeatmapOf(1, FALSE), 1, {"F"})))>>,
   env      |-> <<Fixture(SeriesOf(0), 0, Hourly("documented", <<0>>, "z", TRUE)),
                  Fixture(Windows(SeriesOf(1), 8, 21), 1, Hourly("list", <<1, 1>>, "z", TRUE)),
                  Fixture(SeriesOf(1), 1, Hourly("documented", <<1, 1>>, "z", TRUE))>>,
   route    |-> <<Synthesized(Fixture([kind |-> "route"], 0, Routes("Ok", {1}))),
                  Fixture([kind |-> "route"], 0, Routes("Ok", {1, 2}))>>,
   building |-> <<Synthesized(Fixture([kind |-> "building"], 0, [date |-> 0]))>>]
=============================================================================
