---------------------------- MODULE EvidenceReplay ----------------------------
(***************************************************************************)
(* Where evidence comes from when a provider fails: live, then the exact   *)
(* cache entry, then a committed fixture, then explicit unavailability,    *)
(* for heatmaps and environment series (app/services/execution.py), routes *)
(* (app/services/routing.py) and buildings                                 *)
(* (app/services/building_execution.py), with the validation of requests   *)
(* and payloads (app/integrations/fortyguard/contracts.py, live.py).       *)
(*                                                                         *)
(* A request is a record of the fields of its payload, in which a day with *)
(* no hours has no "window".  A payload is what its checks look at: tiles  *)
(* are their metric, unit and day; a raw payload is the provider's own,    *)
(* without metrics, units or days.  Dates are whole days; `today' is when  *)
(* the program asks and stamps what it retrieves.                          *)
(***************************************************************************)
EXTENDS TimeWindow, Sequences, SequencesExt

CONSTANTS Requests,    \* the requests clients make, on whatever day
          Answers,     \* payloads a provider may answer
          Fixtures,    \* kind -> sequence of committed fixtures, in the order tried
          Days,        \* the server is up on days 1 .. Days
          None

\* What is assumed of the constants: a request is of one of four kinds, a heatmap is a forecast
\* or is not, and a provider's heatmap has a place for its day.  There are finitely many
\* fixtures, each made for some request of its kind, and a heatmap's sidecar is of the day it
\* was made for; what an acquisition adds to an identity no request asks for.
ReplayAssumption ==
  \A r \in Requests :
    /\ r.kind \in {"heatmap", "env", "route", "building"}
    /\ r.kind = "heatmap" =>
         r.forecast \in BOOLEAN /\ \A payload \in Answers[r.kind] : "date" \in DOMAIN payload
    /\ Len(Fixtures[r.kind]) \in Nat
    /\ \A i \in 1 .. Len(Fixtures[r.kind]) :
         LET f == Fixtures[r.kind][i] IN
           /\ DOMAIN f.identity \subseteq DOMAIN r \cup {"window"}
           /\ r.kind = "heatmap" => "date" \in DOMAIN r /\ f.date = f.identity.date

VARIABLES today,
          stored,   \* CacheService: request -> entry, or None
          answer    \* the outcome of the last request

replayVars == <<today, stored, answer>>

Unavailable == [source |-> "unavailable"]
Rejected    == [source |-> "value_error"]

-----------------------------------------------------------------------------
Windowed(r) == "window" \in DOMAIN r

\* HeatmapRequest; an analytic of hours needs a threshold and a direction.
HeatmapRequestAccepted(r) ==
  /\ r.forecast => r.date \in today .. today + 1
  /\ r.analytic # "tcm" => r.threshold # None
  /\ Windowed(r) => TimeWindowAccepted(r.window)

\* EnvParamsRequest; a single hour and a window exclude each other.
EnvParamsRequestAccepted(r) ==
  /\ r.anchor # None
  /\ r.hour # None => r.hour \in 0 .. 23 /\ ~Windowed(r)
  /\ Windowed(r) => TimeWindowAccepted(r.window)

Accepted(r) == CASE r.kind = "heatmap" -> HeatmapRequestAccepted(r)
                 [] r.kind = "env"     -> EnvParamsRequestAccepted(r)
                 [] OTHER              -> TRUE

\* Dates the provider documents; others are refused before anything is submitted, and
\* a forecast for tomorrow, which HeatmapRequest accepts, is one of them.
Documented(r) == CASE r.kind = "heatmap" -> IF r.forecast THEN r.date = today ELSE r.date <= today
                   [] r.kind = "env"     -> r.date <= today
                   [] OTHER              -> TRUE

-----------------------------------------------------------------------------
Unit(analytic) == IF analytic = "tcm" THEN "C" ELSE "hours"
Mode(r) == IF r.forecast THEN "forecast" ELSE "historical"

\* translate_heatmap_response: what a raw payload does not say is taken from the request.
Translated(payload, r) ==
  [payload EXCEPT !.raw = FALSE, !.mode = Mode(r), !.date = r.date,
                  !.tiles = {[metric |-> r.analytic, unit |-> Unit(r.analytic),
                              day |-> r.date] : t \in @}]

\* normalize_heatmap_response: one kind of tile, in one unit that it can convert.
HeatmapPayloadAccepted(payload, r) ==
  /\ payload.tiles # {}
  /\ payload.mode \in {None, Mode(r)}
  /\ \A t \in payload.tiles :
       /\ t.metric = r.analytic /\ t.day # None
       /\ t.unit \in {Unit(r.analytic)} \cup (IF r.analytic = "tcm" THEN {"F"} ELSE {})
  /\ \A s, t \in payload.tiles : s.unit = t.unit

\* normalize_env_params_response, of the two shapes the provider answers in.
EnvPayloadAccepted(payload) ==
  /\ payload.days # <<>> /\ payload.zone # None /\ payload.aligned
  /\ payload.shape = "single" => Len(payload.days) = 1

\* _env_data_date: the first timestamp, but not of a flat list of them.
EnvDataDate(payload, r) ==
  IF payload.shape = "list" THEN r.date ELSE payload.days[1]

\* normalize_response: every route OSRM returns is a line with a length and a duration.
RoutePayloadAccepted(payload) ==
  /\ payload.code = "Ok" /\ payload.routes # {}
  /\ \A x \in payload.routes : x.distance > 0 /\ x.duration > 0 /\ x.line

\* osm_source_timestamp.
BuildingPayloadAccepted(payload) == payload.date # None

Usable(payload, r) ==
  CASE r.kind = "heatmap"  -> HeatmapPayloadAccepted(payload, r)
    [] r.kind = "env"      -> EnvPayloadAccepted(payload)
    [] r.kind = "route"    -> RoutePayloadAccepted(payload)
    [] r.kind = "building" -> TRUE \* a fixture's timestamp is not read again

-----------------------------------------------------------------------------
MatchesFaulty(identity, r, relaxed) == \* every replay is date-relaxed
  \A f \in DOMAIN r \ {"date"} : f \in DOMAIN identity /\ identity[f] = r[f]

\* _request_identity_matches: only the fields of the request are compared.
Matches(identity, r, relaxed) ==
  \A f \in DOMAIN r \ (IF relaxed THEN {"date"} ELSE {}) :
    f \in DOMAIN identity /\ identity[f] = r[f]

\* AcquisitionRecord: only a provider retrieves, and what is replayed has a date.
RecordAccepted(f) ==
  /\ (f.origin = "provider") = (f.retrieved # None)
  /\ f.status = "ok" => f.date # None

\* A forecast is replayed for any day.
HeatmapReplayable(f, r) == Matches(f.identity, r, r.forecast)
EnvReplayable(f, r)     == Matches(f.identity, r, FALSE)

\* Recorded by this version from this endpoint, for this very request, by the provider ...
RouteReplayable(f, r) == f.current /\ f.identity = r /\ f.retrieved # None
\* ... or synthesized.
BuildingReplayable(f, r) == f.current /\ f.identity = r

Replayable(f, r) ==
  /\ RecordAccepted(f) /\ f.status = "ok"
  /\ CASE r.kind = "heatmap"  -> HeatmapReplayable(f, r)
       [] r.kind = "env"      -> EnvReplayable(f, r)
       [] r.kind = "route"    -> RouteReplayable(f, r)
       [] r.kind = "building" -> BuildingReplayable(f, r)

\* What a fixture is read as; a heatmap that no provider retrieved is retrieved now.
ReplayOf(f, r) ==
  LET raw == r.kind = "heatmap" /\ f.payload.raw IN
  [source    |-> "fixture",
   payload   |-> IF raw THEN Translated(f.payload, r) ELSE f.payload,
   retrieved |-> IF r.kind = "heatmap" /\ f.retrieved = None THEN today ELSE f.retrieved,
   date      |-> f.date,
   of        |-> f.identity]

\* The first fixture that matches and can be read; unreadable ones are skipped.
FixtureReplay(r) ==
  LET Fits(f) == f.payload # None /\ Replayable(f, r) /\ Usable(ReplayOf(f, r).payload, r)
      i == SelectInSeq(Fixtures[r.kind], Fits)
  IN IF i = 0 THEN None ELSE ReplayOf(Fixtures[r.kind][i], r)

AnsweredWith(replay, r, stale) ==
  IF replay = None THEN Unavailable
  ELSE [source |-> replay.source, stale |-> stale, retrieved |-> replay.retrieved,
        date |-> replay.date, of |-> replay.of, for |-> r]

\* _fallback: the exact entry, which was usable when it was kept, then a fixture.
FallBack(r) ==
  IF stored[r] # None THEN AnsweredWith(stored[r], r, TRUE)
  ELSE AnsweredWith(FixtureReplay(r), r, TRUE)

-----------------------------------------------------------------------------
Init == today = 1 /\ stored = [r \in Requests |-> None] /\ answer = None

Reject(r) ==
  /\ ~Accepted(r)
  /\ answer' = Rejected
  /\ UNCHANGED <<today, stored>>

\* CacheService.put, and the answer as it came.
Kept(r, payload, date) ==
  /\ stored' = [stored EXCEPT ![r] = [source |-> "cache", payload |-> payload,
                                      retrieved |-> today, date |-> date, of |-> r]]
  /\ answer' = [source |-> "provider", stale |-> FALSE, retrieved |-> today,
                date |-> date, of |-> r, for |-> r]
  /\ UNCHANGED today

RunHeatmap(r, raw) ==
  /\ r.kind = "heatmap" /\ HeatmapRequestAccepted(r) /\ Documented(r)
  /\ LET payload == Translated(raw, r) IN
     HeatmapPayloadAccepted(payload, r) /\ Kept(r, payload, payload.date)

RunEnv(r, payload) ==
  /\ r.kind = "env" /\ EnvParamsRequestAccepted(r) /\ Documented(r)
  /\ EnvPayloadAccepted(payload) /\ Kept(r, payload, EnvDataDate(payload, r))

\* A route is of the day it was asked for ...
RunRoute(r, payload) ==
  r.kind = "route" /\ RoutePayloadAccepted(payload) /\ Kept(r, payload, today)

\* ... and buildings are of the day their source is.
RunBuilding(r, payload) ==
  r.kind = "building" /\ BuildingPayloadAccepted(payload) /\ Kept(r, payload, payload.date)

\* No answer, an undocumented date, or an answer that cannot be used.
RunLiveFails(r) ==
  /\ Accepted(r)
  /\ answer' = FallBack(r)
  /\ UNCHANGED <<today, stored>>

\* Without live execution; a forecast is always stale then.  Buildings have no such mode:
\* without a loader they fall back.
RunFixture(r) ==
  /\ Accepted(r)
  /\ answer' = IF r.kind = "building" THEN FallBack(r)
               ELSE AnsweredWith(FixtureReplay(r), r, r.kind = "heatmap" /\ r.forecast)
  /\ UNCHANGED <<today, stored>>

Tomorrow == today < Days /\ today' = today + 1 /\ UNCHANGED <<stored, answer>>

Next ==
  \/ \E r \in Requests :
       \/ Reject(r) \/ RunLiveFails(r) \/ RunFixture(r)
       \/ \E payload \in Answers[r.kind] :
            RunHeatmap(r, payload) \/ RunEnv(r, payload) \/ RunRoute(r, payload)
              \/ RunBuilding(r, payload)
  \/ Tomorrow

Spec == Init /\ [][Next]_replayVars

-----------------------------------------------------------------------------
\* Where what evidence was acquired for and what was asked for are not the same.
Unlike(identity, r) ==
  {f \in DOMAIN identity \cup DOMAIN r :
     ~ (f \in DOMAIN identity /\ f \in DOMAIN r /\ identity[f] = r[f])}

Answered == answer # None /\ answer.source \in {"provider", "cache", "fixture"}

(***************************************************************************)
(* How far an answer can be from what was asked for, over the whole chain  *)
(* of degradation.  What a provider answers, what is replayed from the     *)
(* cache, a route and buildings were acquired for this very request, field *)
(* by field in either direction.  A fixture of heat or of an environment   *)
(* series may differ in two fields: in its day, for a forecast only, which *)
(* is marked stale then; and in having been acquired for a window when the *)
(* whole day is asked for, which nothing marks (ReplayedForThisRequest).   *)
(* Heat that is not marked stale is dated the day asked for.  A replay     *)
(* from the cache is stale and keeps the day it was retrieved and the day  *)
(* it is of, however often it is replayed (execution.py:146-193, 278-286,  *)
(* routing.py:115, ADR 0004 section 4).                                    *)
(***************************************************************************)
ReplaysLabelled ==
  Answered =>
    LET unlike == Unlike(answer.of, answer.for) IN
    /\ unlike \subseteq {"date", "window"}
    /\ unlike # {} => answer.source = "fixture" /\ answer.for.kind \in {"heatmap", "env"}
    /\ "date" \in unlike => answer.stale /\ answer.for.kind = "heatmap" /\ answer.for.forecast
    /\ "window" \in unlike => ~ Windowed(answer.for)
    /\ answer.for.kind = "heatmap" /\ ~ answer.stale => answer.date = answer.for.date
    /\ answer.source = "cache" =>
         /\ answer.stale
         /\ stored[answer.for].retrieved = answer.retrieved
         /\ stored[answer.for].date = answer.date
    /\ answer.source = "provider" => ~ answer.stale

(***************************************************************************)
(* What the documentation says, and does not hold: the payload of a        *)
(* request is its complete identity, also when fixtures are matched        *)
(* (execution.py:290, 484), and a sidecar's configuration is the single    *)
(* authoritative one (ADR 0004 section 2).  A replay is then of this very  *)
(* request, but for the day of a forecast.  The code asks whether what the *)
(* request has is in the sidecar and not the converse (execution.py:278):  *)
(* what was acquired for a window answers a request for the whole day.     *)
(***************************************************************************)
ReplayedForThisRequest ==
  Answered => LET ofForecast == answer.for.kind = "heatmap" /\ answer.for.forecast IN
    Unlike(answer.of, answer.for) \subseteq (IF ofForecast THEN {"date"} ELSE {})
=============================================================================
