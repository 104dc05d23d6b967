# Verification of the heat-aware tourism guide

A TLA+ development for the Python service of this repository (`app/`): what it may
never do with the provider calls it pays for, and what it may say on the evidence it
gets for them, whatever threads, crashes, lost answers and replays do. TLC checks
small instances of the models; TLAPS checks proofs that hold for every value of the constants.

## 1. The system

The service advises a visitor when and by which route to walk between two places in the
heat. Heat data come from a paid, slow, asynchronous provider (FortyGuard); routes come
from OSRM, buildings and hotels from OpenStreetMap. The server is one process in which
FastAPI runs each request in a thread of its pool, and a trip analysis adds a thread
pool of its own.

| Component | State | Operations | Interacts with |
|---|---|---|---|
| `CreditLedger` (`domain/ledger.py`) | call records, reservations, next reservation number, one lock | authorise (core or enrichment), release, record, remaining, reconcile | called by the client in every thread; `on_record` appends to the store after the lock is released |
| `JsonlLedgerStore` (`services/ledger_store.py`) | an append-only JSONL file | append, read back once at start-up | loaded by `wiring.build_ledger` |
| `FortyGuardClient` (`integrations/fortyguard/client.py`) | only locals of one call | `submit_and_poll`, `poll_activity`, `poll_existing_activity` | the ledger, the HTTP transport |
| `HeatmapExecution`, `EnvParamsExecution` (`services/execution.py`) | none | live call, else cache entry, else fixture, else `UnavailableError` | client, cache, fixture files with sidecars |
| `CacheService` (`services/cache.py`) | entries keyed by endpoint, versions and request, for the life of the process | put, get, fresh and stale reads | executions, enrichment, hotels |
| `TemporalTripAnalysisAdapter` (`services/trip_adapters.py`) | locals and futures of one analysis | one analysis: budget check, one heatmap per hour through the pool, parameters, framing products, best time, routes, publication | executions, route analysis, `ledger.remaining` |
| `RouteAnalysisService`, route decision (`services/route_analysis.py`, `domain/route_*.py`) | none | one OSRM call, at most one corridor heat call, the decision ladder | client, OSRM, Overpass |
| Best time, heat policy (`domain/best_time.py`, `domain/heat_policy.py`) | none | concern profiles and the choice of the hour | trip adapter |
| Trip contract (`domain/contracts.py`, `services/trip_contract_v2.py`) | none | which sections and reasons a response may have | every adapter, snapshots, HTTP |
| `EnrichmentService`, result tokens | cache entries with a TTL | one optional drill-down | client (daily budget), cache |
| Hotel discovery, hotel heat score, live hotel wiring | the shared TCM evidence, cache | rank hotels by four components | client, cache, Overpass |
| Acquisition, sidecars, snapshots | fixture and sidecar files | acquire, replace a pair, promote | client, file system |
| HTTP API, wiring, settings | the assembled application | handlers, start-up validation | everything above |
| Frontend | asynchronous view state | fetch and show | HTTP API |

What is hard here:

- one ledger is shared by all threads, while a call takes minutes and ends in a dozen ways;
- a submission may be billed although its answer was lost, and it must not be repeated;
- memory and file of the ledger are updated at different moments, and the process may die between them;
- the enrichment budget is per UTC day and a call may span midnight;
- concurrent analyses check one budget before and spend it call by call later;
- parts of one decision may be live and others replayed, and the label must say so;
- what a trip analysis publishes is decided twice, before and after the shade of buildings is known,
  and is then compared with a contract that derives its own reasons;
- fixtures and their sidecars are two files, written by programs that may be killed, and read one
  after the other.

What makes each component correct: the ledger never lets more be submitted than budgeted
and never forgets what was; the store gives back what was written; the client ends and
accounts for every call once; polling is bounded and tolerates the documented 404s; an
analysis is refused before it spends, stays within its estimate, waits for its calls, and
labels replays; the decision modules are total and agree with the contract; a fixture and
its sidecar belong together; an enrichment never outlives its TTL; a hotel component is
not paid for again once it is shared.

## 2. The modules

| Module | Models |
|---|---|
| `CreditLedger` | the three variables of the ledger and its locked methods, as guards and updates |
| `LedgerStore` | extends it by the JSONL file, torn lines and loading |
| `FortyGuardClient` | extends that by any number of concurrent `submit_and_poll` calls |
| `CallBudget` | the abstract account: reserve, then spend or refund |
| `ClientRestarts` | extends `FortyGuardClient` by kills and restarts |
| `StatusPolling` | `poll_activity` against a provider that may answer anything |
| `Enrichment` | drill-down requests: token, cache with a time to live, two ways of reserving, a clock |
| `TripAnalysis` | several trip analyses as calls: one account, one cache, the degradation chain |
| `TripDecision` | one trip analysis as data: from the posted body to the published response |
| `BestTime`, `RouteDecision`, `TripContract` | its decisions and what the contract accepts, as operators |
| `HeatPolicy`, `TimeWindow`, `TupleOrder`, `Optional` | bands and thresholds, the window, Python's order of tuples, `None` |
| `HotelEvidence` | several hotel rankings: discovery, four loads each, the shared TCM heatmap, cache, midnight |
| `HotelScore` | one ranking as data: deduplication, the join with the tiles, scores, re-ranking |
| `EvidenceReplay` | the executions: validation, live, cache, fixtures, for four kinds of evidence |
| `StagedAcquisition` | the acquisition plan, hotel resume and recovery over the files they leave |
| `FixturePair` | snapshot generation with `replace_pair`, and a server that loads the pairs |
| `MCClient`, `MCAnalyses`, `MCResults`, `MCEndings` | compose the above for TLC |
| `MCTripAnalysis`, `MCTripDecision`, `HotelCases`, `ReplayCases` | values of the constants for TLC |
| `..._proofs` | theorems (section 4) |

How they fit together: `FortyGuardClient` builds on `LedgerStore` on `CreditLedger`;
`Enrichment` and `ClientRestarts` reuse the ledger's operators; `FortyGuardClient` implements
`CallBudget`, and `TripAnalysis` uses `CallBudget` as its account, so that it need not repeat
the client. `TripDecision` takes up where `TripAnalysis` ends: there a product settles as
served or not, here it has a value, a date and a time zone. `HotelScore` continues
`HotelEvidence` in the same way.

### CreditLedger, LedgerStore, FortyGuardClient, ClientRestarts

`records`, `reservations` and `nextReservation` are the fields of the object. A slot is a
key of `_reservations`: core, or the enrichment of one day. Each method runs under the
lock, so it is one operator. `Popped(None)` is the youngest reservation, because that is
what `record` and `release_call` pop when they are given none.

`pc[c]` is where call `c` stands in `submit_and_poll`; `slot`, `hold`, `activity` and
`attempted` are its locals. The locations follow the code between two effects another
thread can see: authorisation with the attempt (`Start`), the answer to the POST
(`PostAnswered`, `PostAmbiguous`, `PostRejected`), the end of polling (`PollEnds`), one
`record` or `release_call` (`RecordCompleted`, `RecordSubmitted`, `RecordUnknown`,
`ReleaseRejected`), and the append to the file (`Persist`, `PersistFails`), which happens
after the lock is released. `Midnight` moves the clock. A kill (`ClientRestarts`) takes the
memory and may tear the last line; a restart loads the file or fails on it.

The provider is external: it may start an activity or not when the answer is lost, and may
answer with an id of an earlier activity of the same scope. The ghost variables `billed`
(what it started) and `lost` (ids without a line in the file) are read by properties only.

Abstracted: endpoints, credits, events, request payloads; the clock of the reservation and
of the attempt is read once (two consecutive reads in the code); a record's day is the day
it is recorded, or that of the attempt for an unknown submission, as in the code.

### StatusPolling

`poll`, `sawNon404` and `sleeping` are the loop's state, `outcome` what it returns or
raises. The activity is hidden, running, completed or failed and moves by itself.

### Enrichment

`at[r]` is where request `r` stands between two effects another request can see: the check
of its token in `api.py` (`TurnAway`, `Admit`), the two looks at the cache in `run()`
(`ServeFresh`, `MissFresh`, `RefuseStale`, `MissStale`), the dispatch with the service's own
reservation if it makes one, the call of the client with its reservation (`Submit`,
`Exhausted`), its end, and the write of the entry (`Store`). `config` is which of the three
constructions of the service is in use. An entry has the tick it was retrieved, the date it
is labelled with, and the date it is of; the last differs after a call over midnight. The
client is taken as `CreditLedger` lets it through: how a call ends in detail is the subject
of `FortyGuardClient`.

### TripAnalysis

`task[a][p]` follows one product of one analysis through the execution chain: running,
paid, failed, then where its data came from. `pc[a]` is the phase of `analyze`. The budget
is the account of `CallBudget` (`INSTANCE`), which the client implements, so that a call
here is three steps: reserve, settle, normalize. Every analysis asks for the same place
and window, so they share cache keys as much as they can.

### TripDecision and its operators

`stage` is what `analyze` does next: `Post` is the endpoint up to the first call,
`HourlyHeat` the merged series, `ChooseBestTime` the environment and `_best_time_result`,
`RoutesReturned` and `RoutesUnavailable` OSRM's answer, `CorridorHeat` and `CorridorLost` the
shared corridor, `HeatGate` the first decision, `Untimed`, `Night` and `Day` the second, and
`Publish` is `_publish` with the checks of contract and codec. Every early return, every
`ValueError` that becomes HTTP 400 and every `unavailable` outcome is an answer.
Temperatures are integers in hundredths of a degree; offsets are hours; dates are "the
trip's" or another. `assess_hour`, `select_best_time`, `decide_route_comparison` and
`classify_heat` are the functions of those names; all parameters of the environment are
there except that one air-quality index stands for the seven, which have equal thresholds.
The minimum by a sort key is `LeastBy`, a `CHOOSE` that the proofs show to be determined.
Corridor geometry, footprints and the position of the sun are the values the evidence
takes. Variables that the code does not read again are cleared on the way, which loses
nothing. The model lets a live answer exist for the heat of tomorrow, which the adapter refuses in
fact (section 3), so it has more behaviours than the code. No finding rests on that: `CorridorLoss`
is the same for a trip of a past day, whose routing is of the day of the call too, and `LiveHour`
for one of today.

### HotelEvidence and HotelScore

`pc[r]` is where `analyze` stands, `task[r][c]` one `load(component)` in its pool thread:
idle, running (with the day it asked for), failed, or settled with evidence, as missing or
as refused. `shared` is `shared_tcm["evidence"]`, `cache` maps a heatmap key (product and
day) to the day the payload is really of, `overpass` says whether the cached discovery
answer names enough hotels. Evidence has the day it is of and the data date it claims,
which differ after a call over midnight, because the date is read a second time. Recording a
call and using its answer are one step, since a unit held and a unit spent count alike
against the budget. `night` and `day` share one product; `began` and the `of` of evidence
are read by properties only.

`HotelScore` is what `HotelEvidence` leaves out: `Grouped` takes the objects of the answer
one by one and joins the groups each of them matches, as `_deduplicate` does, `Deduplicated`
names what has a name and a place, `join_point_to_tiles` and `Agreed` read one value off the
tiles of a hotel, `Score` ranks the complete candidates, and `Rerank` uses what `analyze`
retained. `Accepted` is what `score` raises for otherwise: weights that do not add up, and two
candidates of one identity. Groups, candidates and scores are sets, because the order in which
the code lists them decides nothing. Geometry is the view the join has of a place. A percentile
is a number of parts of `Scale`, which is exact when the steps divide it. `MinimumUsable` and
`MinimumComplete` are both 5 in the code.

### EvidenceReplay

A request is the record of its payload's fields, the cache maps requests to entries, and
a fixture has the identity, origin, dates and payload of its sidecar and file. `RunHeatmap`,
`RunEnv`, `RunRoute` and `RunBuilding` are the four live paths with their validation,
`RunLiveFails` the degradation chain, `RunFixture` the execution without live mode. `Matches`
compares the fields the request has and no others, without the date for a forecast. A request for
the whole day has no window, so a fixture made for a window of that day answers it too, with
nothing to tell (`stale` is about the day). `ReplaysLabelled` compares whole identities, says
which two fields may differ and where, and `WindowReplay` shows that the second of them does,
against ADR 0004. Routes and buildings are compared as a whole. The windowed fixtures committed today
(`fixtures/providers/fortyguard`) are not among the names a server looks for (`wiring.py:554`,
`:561`); the first one acquired under such a name would be.

### StagedAcquisition, FixturePair

Files are functions from targets to the activity they hold, `Missing` or `Torn`; a
sidecar also names the TCM its environment is anchored in. `run`, `queue`, `phase` and
`current` are the process, which may stop between any two effects (`Stop`) or in the middle
of a file (`StopWriting`). `Accepted` asks a recovered activity for its target; the code for its
date, hours and zone (`issue23_acquisition.py:690-701`), which of the plan's own calls only the
canonical environment has. A ledger shared with other calls of that day and those hours is not modelled. `elevated` is what the gate finds in the weak scenario. A server
reads a sidecar and then its fixture (`ReadSidecar`, `ReadFixture`).

`FixturePair` replaces pairs through `replace_pair`: remember both files, replace one, replace
the other; a failure restores both, also in two steps; a kill does not. `version` numbers
the runs, so a mixed pair is one with two versions. The server loads fixture and sidecar of
each pair one after the other and keeps them until it restarts.

### The composition modules

TLC checks the parts through four modules whose variables are those of several parts. Every
behaviour is of one part, chosen in the initial state (`part`); the others stay in their
initial state. This adds nothing to a part and removes nothing from it. It lets parts that
ask one kind of question share one configuration. A property of an instance is given a name
there.

## 3. The runs

### What must hold

**`Client`** (`MCClient`), who spends the budgets. Three parts:
`FortyGuardClient` with three new calls and the enrichment of an earlier process, core budget 2,
enrichment budget 1, two days; `ClientRestarts` with the same calls, inheriting a record of
either scope or none, both budgets 1, one day and any number of crashes; `Enrichment` with three
requests, at most two of them in progress at a time and one asking for a refresh, enrichment
budget 1, three days of one tick, entries and tokens good for one tick.

| Property | Says |
|---|---|
| `CoreBudgetRespected`, `EnrichmentBudgetRespected` | no more is started than budgeted, in total and per day |
| `ReservationsMatchCalls`, `NoUnseenActivity` | reservations are those of the calls that hold one; what was started is recorded or reserved |
| `OneRecordPerActivity`, `FileCompleteAtRest`, `AppendOnly` | ids are counted once; memory and file agree at rest; nothing is rewritten |
| `ImplementsCallBudget` | the core account implements `CallBudget` |
| `OnlyLostForgotten`, `OverspendBoundedByLoss` | a crash forgets only what was in flight or unwritten, and the overspend is bounded by it |
| `UncountedOnlyAfterFailure` | an enrichment that was charged is in the ledger, except when the service's own reservation was released by its `except` clause |
| `UnaskedPaymentNeedsRace` | nobody pays over a cached entry without asking for a refresh, unless the entry appeared or changed between the two looks |
| `FreshAnswersAreRecent` | an answer is labelled with its day or the next, and served at most two days later |

**`Analyses`** (`MCAnalyses`), who shares one budget and one cache. Two parts: `HotelEvidence` with
two rankings of three components (`night`, `day`, `hot_hours`), budget 2, two days and a fixture;
`TripAnalysis` with two analyses of two hours, two workers, budget 7, fixtures for the first hour
and the environment. At most two loads, or products, of all are degraded (`MaxFaults`).

| Property | Says |
|---|---|
| `UnitsMatchCalls`, `TripUnitsMatchCalls` | a unit is held for each running call and the budget is kept |
| `WarmRankingPaysNoTcm`, `PaidEvidenceIsKept` | no TCM is paid for twice once shared; paid evidence stays in the cache |
| `SharedIsLive`, `OnlySharedTcmIsOld` | the shared TCM is never a replay; old evidence is marked, outside the shared TCM |
| `RefusalSurfaces`, `NoCallOutlivesRanking`, `NoCallOutlivesAnalysis` | a refusal is reported and nothing is left running |
| `AdmittedAloneFinishes` | an admitted analysis that runs alone is never refused by the ledger |
| `FreshMeansLive` | a decision is labelled fresh only if every hour and the parameters are the provider's, just now, and all of them are in the cache |

**`Results`** (`MCResults`), what is answered and from which files. Five parts: `TripDecision` with
two hours, three TCM values around the thresholds, five readings, five route sets, four shades, and
one body for each refusal; `HotelScore` with every listing of at most three of seven objects, two of one identity, eight
places, three weightings beside the default, percentiles in sixtieths and two hotels making a
ranking (`Scale`, `MinimumUsable`, `MinimumComplete`); `EvidenceReplay` with
eight requests, two days, and fixtures that fit, are of another day or of a window of it, cannot
be read or were synthesized; `StagedAcquisition` with two scenarios, one hotel heatmap, six calls, five activities;
`FixturePair` with two snapshots and three runs of the generator. The parts end, so deadlock
is not checked.

| Property | Says |
|---|---|
| `RecommendedHourUndominated` | no hour that answered is as good in every criterion and better in one |
| `RecommendationSound` | a published recommendation rests on complete evidence and is the shortest, coolest or shadiest it claims to be |
| `PublishedUnlessDatesDiffer` | only a date can make the contract withhold a paid analysis |
| `OneCandidatePerHotel` | one candidate per hotel in whatever order the objects come, each with an identity of its own, so that no score is refused |
| `CoolerNeverBehind` | a hotel nowhere hotter than another is not ranked behind it |
| `ReplaysLabelled` | what is answered was acquired for this very request, compared in both directions, except a fixture's day (forecasts only, marked stale) and its window (when none was asked for); heat not marked stale is of the day asked for; a replay from the cache keeps its dates |
| `PairsBelongTogether`, `ObservationsKept`, `DependentsWait` | sidecars describe the fixtures beside them; nothing paid for is overwritten or bought again; the gate holds across re-runs |
| `PairsReplacedTogether` | only a kill leaves a mixed snapshot pair; a server holds one only if it read it while a generator ran |

**`Endings`** (`MCEndings`), what must end, under fairness. `TripAnalysis` with two analyses of
one hour, budget 6 and at most two degraded products; `FortyGuardClient` with two new calls and
one old, no core budget, enrichment budget 1, two days; `StatusPolling` with 8 checks and grace
3.

| Property | Says |
|---|---|
| `AnalysesEnd` | every admitted analysis answers |
| `CallsEnd` | every call ends, also one without a reservation; what was started under one is counted |
| `PollingEnds`, `MissingJudgedByGrace` | polling ends whatever the provider answers, and a 404 ends it exactly after its grace |

### What does not hold

| Run | Bounds | Shows |
|---|---|---|
| `RecordOnlySteals` | three new calls, no core budget, enrichment budget 1, one day | a recorded core call frees the unit of an enrichment in flight |
| `MidnightCharge` | two new calls, no core budget, enrichment budget 1, two days | an enrichment settled after midnight occupies the next day |
| `AnalysisRace` | two analyses of two hours, budget 7 | both pass the up-front check, one is stopped half-way |
| `FramingReplay` | one analysis, budget 8, fixtures for the framing products | a replayed framing value in a decision labelled fresh |
| `HotelReplayUnmarked` | two rankings, budget 3, two days | a ranking presents the TCM heatmap of the day before as current |
| `CorridorLoss` | as `TripDecision` in `Results` | losing the corridor's heat for a trip of tomorrow costs the best time as well |
| `LiveHour` | the same | no live hour of a trip in America/Chicago is exact, so shade is never decided for one |
| `WindowReplay` | as `EvidenceReplay` in `Results` | what was acquired for a window of a day is replayed for the whole day |

Each checks one sentence of the repository's documentation; `findings` in `PROJECT.json` quotes it.

### Why the bounds are enough

A budget is exceeded by two calls that both see the last unit, with a third that changes
the ledger between their steps: three calls and limits of one and two. Two days are one
midnight, and a call spans at most one in practice; three days are enough for an enrichment
to be stored on one, served on the next and expired on the third. Two hours are the smallest
window in which one hour can fail and another survive, or one be replayed and the other live;
two analyses are the smallest race. Budget 7 is the estimate of one two-hour analysis, so
that the second is refused up front, in its hours, later, or not at all. 8 checks with
grace 3 leave room for transient answers before and after the window. Two rankings with both TCM
components and one other are the smallest case in which components of one ranking, and of
two, race for the shared heatmap; `persistence` behaves as `hot_hours`. Budget 2 runs out in
either ranking, or pays for one. Crashes and midnights are not bounded otherwise than by the
finite state.

Two degraded products are both hours of an analysis, or an hour and the parameters, or one of
each of two analyses; a ranking degrades one load of each kind, or both of its TCM loads. The bound
restricts failures, not what is bought: a call that may not fail may still complete, so it
holds nothing up. Three requests are needed for one to find an entry that
another replaces between its two looks after a third had stored it; two of them are then in
progress. What the client inherits matters to the theorems of section 4 only through the
limits that are left, and they hold for any.

The readings of `TripDecision` are one for each kind of rank in the sort key, and one at which
the two heat scales disagree; TCM values lie below, between and above both thresholds; the route
sets have one and two routes, tied and not, on either side of the length from which a corridor
is needed. Of the seven hotel objects four are one hotel by address, by operator and by
membership, in chains of three that a grouping dependent on the order of the answer would break, and
two have one identity and different names. Two scenarios
are the canonical and the weak one; a plan has five activities, and six calls let one that
failed be repeated.

Symmetry is used over calls and over rankings and analyses, in runs without liveness
properties only.

### Fairness

`MCEndings` states the fairness of each part. Weak fairness of `Proceed(c)`: a thread inside
`submit_and_poll` continues. The transport has a timeout, the number of checks is bounded
(`PollingEnds`), and the ledger's lock is held over a few statements only. Nothing is
assumed of `Start`. `StatusPolling` assumes weak fairness of the loop and nothing of the
provider. Of an analysis, weak fairness of `RunsOn(a)`, that is of its calls and of the
orchestration, justified by `CallsEnd`.

### Further divergences met while modelling, without a run of their own

- Without a core budget an ambiguous submission is not recorded at all (`client.py:169`),
  although ADR 0004 section 5 calls recording unconditional.
- `call_count` counts both scopes, the enforced unit is core calls (`ledger.py:122`, `:159`).
- Reservations are not persistent: after a crash the budget forgets the calls in flight
  (`OverspendBoundedByLoss` gives the bound).
- `docs/reference/environment-variables.md:41` calls an unset enrichment budget record-only;
  the ledger then refuses every enrichment (`ledger.py:86-101`).
- `BudgetExceededError` in one hour ends an analysis whose other hours survived
  (`trip_adapters.py:385-388` against the docstring at 360).
- A series whose first hour is live and a later hour replayed is published with source
  `provider` (stale), and with parameters present the decision takes its date from them even
  when its source is the replayed heat (`trip_adapters.py:102`, `:639`).
- The building coverage of a route is a sum of rounded fractions and may exceed one
  (`route_shade.py:149`); `RouteOption` then raises (`contracts.py:874`), nothing catches it
  before `_publish`, and a paid analysis ends as HTTP 400.
- The heatmap of a later day than tomorrow raises outside the `try` of the analysis, and is a
  400 as well; one of tomorrow is accepted by `HeatmapRequest` and then refused by the live
  adapter (`live.py:160`), so that a forecast for tomorrow is always a replay.
- `docs/design/design-doc.md:219-221` orders hours by the action threshold first; the code counts
  high concerns first (`best_time.py:138`).
- An hour of which the series reports nothing counts no concern and, when selected, is called the
  "coolest period with no environmental concerns" (`best_time.py:158`), although
  `docs/explanation/heat-metrics.md:75` says that missing parameters are never assumed safe. That
  they do not count against an hour in the selection is documented; the divergence is one of wording.
- `load` of the hotel wiring and `HotelEvidence`: a heatmap asked for before midnight and
  answered after it is labelled and cached as the next day's (`wiring.py:265`, `:297-313`); the
  caveat of a shared TCM names the window of the component that loaded it, also when the other
  one takes it (`wiring.py:180`); `night` and `day` both miss a cold `shared_tcm` and both pay.
- `HotelRanker` puts hotels of exactly equal scores in one tie group (`trip.py:62`), while the contract
  also compares scores with `isclose` (`contracts.py:805`): two scores that differ by rounding only
  make it reject the ranking.
- A heatmap fixture that no provider retrieved is replayed as retrieved now.
- OSRM's answer that there is no route is treated as a failure, so that routes
  cached earlier for the same request are replayed instead.
- An environment result rejected for its time zone stays paid: a further plan submits it again.
- A kill during the very first generation of snapshots leaves files that make the generator
  refuse to run until it is told to overwrite.

## 4. The proofs

Eight modules hold theorems. They hold for every value of the constants that the named
assumptions allow.

| Module | Theorem | States | Assumes |
|---|---|---|---|
| `FortyGuardClient_proofs` | `TypeCorrect` | `TypeOK` of the client | |
| | `CoreBudgetSafe` | `CoreBudgetRespected` | |
| | `EnrichmentBudgetSafe` | `EnrichmentBudgetRespected` | a core budget; `RecordOnlySteals` refutes it otherwise |
| | `ReservationsSettled` | `ReservationsMatchCalls` | a core budget, for the same reason |
| | `NothingUnseen` | `NoUnseenActivity` | a core budget |
| | `ClientRefinesCallBudget` | `ImplementsCallBudget` | a core budget |
| | `OneRecord`, `FileComplete`, `LedgerAppendOnly` | the properties of records and file | |
| | `CallsRunDown` | each step of a call brings it nearer to its end | |
| | `EndedAreCounted` | the safety half of `CallsEnd`: what was started under a reservation is counted when the call has ended | |
| `Client_proofs` | `ForgottenAreLost` | `OnlyLostForgotten` | a core budget |
| | `OverspendIsLoss` | `OverspendBoundedByLoss` | |
| | `EnrichmentsCounted`, `UnaskedAfterRace` | `UncountedOnlyAfterFailure`, `UnaskedPaymentNeedsRace` | |
| | `FreshIsRecent` | `FreshAnswersAreRecent` | entries live no longer than a day |
| `Enrichment_proofs` | `EnrichmentInvariance` | the invariant of the enrichments | |
| `Analyses_proofs` | `HotelTypeCorrect`, `HotelAccountSafe`, `RefusalNeverDegraded`, `NothingLeftLoading`, `SharedAlwaysLive`, `PaidAlwaysKept`, `WarmRankingIsCheap`, `OldEvidenceMarked` | the eight properties of rankings | |
| | `TripUnitsKept`, `NothingLeftInThePool`, `AdmissionSuffices` | `TripUnitsMatchCalls`, `NoCallOutlivesAnalysis`, `AdmittedAloneFinishes` | |
| | `FreshIsLiveAndKept` | `FreshMeansLive` | |
| `TripAnalysis_proofs` | what the four rest on | | |
| | `AnalysesRunDown` | each step of an analysis takes one of finitely many moves away | |
| `Results_proofs` | `HourUndominated`, `RecommendationBacked` | `RecommendedHourUndominated`, `RecommendationSound` | |
| | `PublishedUnlessDated` | `PublishedUnlessDatesDiffer` | |
| | `RankedOnce` | `OneCandidatePerHotel` | |
| | `OrderIrrelevant` | two answers with the same objects are grouped alike | |
| | `CoolerRankedBefore` | `CoolerNeverBehind` | |
| | `ReplacedTogether` | `PairsReplacedTogether` | |
| | `LabelledReplays` | `ReplaysLabelled` | |
| | `AcquiredPairs`, `AcquiredInOrder`, `AcquiredIsKept` | `PairsBelongTogether`, `DependentsWait`, `ObservationsKept` | |
| `StagedAcquisition_proofs` | `AcquisitionInvariance` | the invariant of the acquisition | |
| `Endings_proofs` | `GraceHonoured` | `MissingJudgedByGrace` | |
| | `PollingRunsDown` | each check and pause leaves fewer of them | |

**From a part to the whole.** The runs check compositions, so the theorems are about the
specification of the composition. Where a part is an instance (`Restarts`, `Enriching`, `Trips`,
`Acquisition`, `Pair`, `Replay`, `Hotel`, `Polling`), one lemma shows that every step of the composition
is a step of the part or leaves its variables alone (`PartsAreRuns`, `TripsAreRuns`). What is
proved of the part's own specification is then proved of the composition. An instance of a module
that assumes something of its constants brings the assumption along as a hypothesis, so
`RestartConstants`, `RequestConstants` and `TripConstants` derive it from what the composition
assumes, and TLC evaluates the latter on each run.

**The client.** `DaysAssumption` (at least one day), `NoneAssumption` and `IdAssumption` (`None`
is neither a number nor an activity id), `BudgetAssumption` (a budget is a number or `None`) and
`PastCallsAssumption` (finitely many calls, of which the past ones are some). A theorem
that needs a configured core budget says so with `ASSUME Budget \in Nat`.

*Types* (chapter I of `FortyGuardClient_proofs`). `TypeOK` is not inductive: a record is well formed
because a call being polled knows its activity, and a line is, because a call that writes
has a record to write. `TypeInv` adds both.

*Budgets* (chapter II). Counting records and reservations is not enough for
an induction: an enrichment settled after midnight adds a record to a day without having
reserved there, so `|records| + |reservations|` of a day may exceed its limit although the
limit on what is started holds. The induction is on the calls *committed* to a slot
instead: those that hold a reservation of it, and those whose activity is billed to it
(`CommittedInv`). Only `authorize()` commits a call. When it does, records and
reservations of that slot are fewer than the limit, and they cover every committed call
(`CommittedIsCounted`). That they cover them is the agreement `AccountInv`:

- `HoldInv`: reservations and calls in flight match one to one, except for a call whose
  completed record is in memory and failed to reach the file; it comes back with a number
  that is no longer reserved;
- `CallInv`: what a call was authorised against, and that the activity it was answered with
  is billed in the same scope;
- `BillInv`: an activity is billed once, to the slot its call was authorised against;
- `RecordInv`: a record is of a billed activity, on its day or later, or of a call whose
  answer was lost, on its day;
- `SeenInv`: a billed activity is recorded, or its call is still in flight.

The proof that a step keeps `AccountInv` has one lemma per kind of step: `StartAccount`,
`PostAccount`, `RecordAccount`, `ReleaseAccount` and `MoveAccount` (no effect on ledger or
provider). The refinement follows from the same invariant: `StepRefines` maps `Start` to
`Reserve`, the three recording steps to `Spend` or, when the activity id is already recorded,
`Refund`, and everything else to a stutter.

*File* (chapter I). `FileInv` says that the file is part of the memory, that
ids are unique, and that a record is in the file, lost, or on its way (`OnItsWay`): the
append happens after the lock is released, so without the last case nothing is inductive.

*Restarts* (chapter III). `HoldInv` does not survive a crash: the ledger of the new process
numbers its reservations from one again, so a dead call may hold the number of a live one. What
remains true is `UnitInv`: the numbers of calls *in flight* differ, and a process that is down
has none. `authorize()` counts after a restart what was read from the file, so `ScopeInv` says of
lines what it says of records, and `WrittenInv` that what a restart would not find is lost or on
its way. `KnownInv` is the property without its guard `up`: a started activity is forgotten, or
counted by the process that runs, or its call is in flight, or the file will count it; a torn file
is a case of its own, since no process starts from it. `OverspendBounded` is again an
induction on the calls that use a unit of the core slot, but only over the ones that are not
forgotten (`InUse`): a crash moves calls out of that set and a restart none into it, so only
`authorize()` enlarges it (`OnlyStartUses`), and it does so only while the records and
reservations that cover it are fewer than the limit.

**The enrichments** (`Enrichment_proofs`), for any number of requests, any daily budget, each
way of constructing the service and any clock (`ClockAssumption`). `UnitInv` says whose a
reservation is: the service's own from the authorisation on, or its client's while the call
runs. `ChargeInv` follows a started activity to its record; the case that the except clause
gave back is the one the property admits. `LookInv` keeps what the first look at the cache
found until the second: it was stale and stays so unless it is replaced. `DateInv` needs that a
request spans two ticks at most, which is the model's bound on how long a request takes.

**Hotel rankings** (chapter I of `Analyses_proofs`), for any number of rankings and days, any
budget, any of the four components, with or without a fixture; `EvidenceAssumption` says that
`None` is not evidence. `LoadOutcome` says once what a step of a load can do, and the invariants
are proved against it. `PhaseInv` (no load before a ranking begins or after it has answered)
gives the refusals. `EvidenceInv` gives the rest: `PaidEvidenceIsKept` is not inductive, because
a load that takes the shared heatmap never cached it itself, so `SharedInv` adds that the shared
heatmap is in the cache; `WarmInv` that sharing is never undone; `DayInv` that a call asks for a
day on which its ranking had begun. The account is an induction on the set of running calls.

**The trip decision** (chapter I of `Results_proofs`), for any window, series, environment,
routes and shade. The assumptions are `NoneAssumption` (`None` is no answer), `HourAssumption`
(finitely many hours; temperatures and readings are integers), `RouteAssumption` (routes have
lengths and identities that differ) and `ShadeAssumption` (percentages are integers).

- Sort keys: `Precedes` is a strict total order on integer tuples of one length, by the
  first component that differs, and so a finite nonempty set with distinct keys has a least
  element (`LeastExists`). This is what makes `LeastBy` mean Python's `min`.
- Hours: the hour with the least selection key is not dominated
  (`LeastIsUndominated`), and `HourInv` says that as long as profiles are kept they are
  those the best time was chosen from. Cardinalities of concern sets are numbers because the
  parameters are finitely many.
- Routes: `RouteInv` says what each gate knows when it is passed: heat for
  exactly the returned routes, an exact time before the sun is asked for, and of a comparison that
  waits to be published that it is backed. The property speaks of two decisions, before and after
  shade, and is not inductive without what was known in between.
- Publication: the adapter's reasons and the contract's are two different enumerations of route
  states. `ReasonsAgree` shows them equal whatever was decided; `ExactTime` that an exact
  best time has the requested date and hour, so that the alignment check has only dates left.

**Trip analyses** (`TripAnalysis_proofs`), for any number of analyses, hours and workers, any budget
and any fixtures (`TripAssumption`). `StepOutcome` says once which of a few kinds of step there
are. `PhaseInv` says that nothing is underway but what the phase of its analysis asks for, so
that nothing is once it has answered; the account is an induction on the set of running calls.
`EstimateSuffices` is a counting argument: as long as an analysis has the server to itself the
account moves by its own calls only, of which it has at most one for each product (`AloneInv`);
the products are one fewer than the estimate (`ProductsCounted`), so a unit is left whenever it
asks for one. That a decision called fresh rests on live answers follows from the definitions of
the label and the merge; that all of them are in the cache does not, because the entry may be the
work of another analysis: `KeptInv` says that what the provider answered any analysis is kept, and
that nothing leaves the cache.

**Polling** (`Endings_proofs`), for any number of checks and any grace (`PollingAssumption`, by
which `None` is none of the outcomes either). An activity may become visible after it
was given up, so `GraceInv` keeps what was known at that moment: of a hidden activity without a
transient answer, that the window is open while the loop runs and over when it gives up.

**Snapshots** (chapter II of `Results_proofs`), for any number of snapshots and runs
(`SnapshotsAssumption`). `PairInv` says, unless there was a kill, that a pair other than the one
the generator is at is whole (`PairsWhole`), that what it remembered of that one was whole
(`Remembered`), so that both replacements, or both restorations, make it whole again, and that a
load no generator overlapped has read what is still on disk (`Undisturbed`).

**Replay** (chapter III), for any requests, provider answers and committed fixtures
(`ReplayAssumption`: a request is of one of the four kinds; there are finitely many fixtures, each
made for some request of its kind, and a heatmap's sidecar is of the day it was made for, which the
acquisition takes from the same request; a provider's heatmap has a field for its day). `KeptInv`
says that a cache entry is of the very request it is kept under. A fixture's replay is the first of a
sequence that fits (`ReplayedFixture`, by the least place, `LeastOfPlaces`). Fields that match in the
direction the code compares leave the other direction open; that an identity has at most a window
besides leaves exactly two fields that may differ (`MatchedIsNear`), and a route or a building none
(`UnlikeItself`). That heat not marked stale is of its day is for live answers a fact about the
translation (`LiveDay`), for fixtures one about the sidecar. `AnswerInv` carries the label on: an
answer stays true of the cache until the next one is given.

**Acquisition** (`StagedAcquisition_proofs`, chapter IV of `Results_proofs`), for any number of
scenarios and hotels, any budget, and kills anywhere (`PlanAssumption`). A pair is
written in two or three effects, any of which may be the last, so `PairsBelongTogether` is not
inductive. What makes it so is `PhaseInv`: a run touches only the target at the head of its
queue, and it began that one when neither file was there; a later run begins with no target of
which either is. `FilesInv` says what the files say of each other, `BilledInv` that activity numbers
are unique. `QueueInv` says that a plan has its heatmaps first and the others on disk; with
`WaitInv` that gives the order of payments. `CallsInv` is a counting argument over the places of
the queue nothing is known of (`Open`): a run asked for enough calls at its start and each
target takes one away on both sides.

**Hotel score** (chapter V of `Results_proofs`), for any answer of Overpass, any evidence and any
weights, any `Scale` and both minimums (`HotelsAssumption`).

- Deduplication. `Grouped` is a recursive function of the length of the answer. That it is what its
  equation says is an instance of the library's induction theorems, which no prover here can
  instantiate; `NumbersCovered` does the induction by hand, by the least number that a set of numbers
  leaves out, and `GroupingExists` builds the function from its beginnings.
  Two facts then hold of every beginning of the answer. The groups are `Separate`: no object in two,
  all in one, and same hotels together (`JoinedSeparate`). And they are `Linked`: what is in a group
  with an object cannot be told from it by any set closed under "same hotel" (`JoinedLinked`). A
  division into groups that is separate and linked is the only one (`OneDivision`), which is
  `OrderIrrelevant`. `RankedOnce` needs only that it is separate, and that each group names at
  most one candidate, by an identity of its own (`RepresentativeNamed`); from which it also
  follows that identities differ, and `score` does not raise.
- Ranks. No sorting is needed: the warmth of a hotel in a component counts the values below its own,
  a rank counts the hotels with a smaller sum, and both counts are monotone (`WarmthMonotone`,
  `AggregateMonotone`, `ScoreRanks`). The invariant says of every outcome that it ranks what
  was retained for it (`ScoreInv`), since a re-ranking replaces the outcome and keeps the rest.

**What ending rests on** (`CallsRunDown`, chapter IV of `FortyGuardClient_proofs`; `AnalysesRunDown`;
`PollingRunsDown`). Liveness is out of the prover's reach, but not that a process has only so many
steps to take. `StepsLeft` of a call, `PollsLeft` of the polling, and the finite set of moves an
analysis has left (`Left`: the states and phases are ordered, and each step moves one on) go down
with every step of their own and are not raised by any other. So a behaviour in which something never
ends is one in which its step, though possible, is not taken: which the fairness excludes, and
which TLC checks. What ends has also to be settled: `SettledBy` follows an activity from its
submission to its record without a word of the reservations, so `EndedAreCounted`
holds also where there is no core budget and `RecordOnlySteals` breaks the reservations.

Only model-checked is liveness (`AnalysesEnd`, `CallsEnd`, `PollingEnds`): that a possible step is
taken is a matter of fairness and of `ENABLED`, about which the prover does not reason. Every
invariant and every action property of the passing runs is proved.

## 5. What is left

1. Proofs: that a step of a call, an analysis or the polling is possible until it has ended, in
   place of `ENABLED` (a predicate per step, shown equivalent to its guard); that every settled
   call was settled once (an action property of `Client`, which no run checks yet).
2. Two processes that write one ledger file, as a variant of `ClientRestarts`.
3. The fixture response with hotels and the codec's round trip.
4. The asynchronous state of the frontend, which needs modules of its own.

A new component should join one of the composed runs; a run of its own is for a new kind of
question.

## 6. Not modelled

- Value types, unit conversion, key scrubbing, static places, geometry, corridors, building
  shadows and solar position: numeric and sequential, covered by unit tests. Where a decision
  depends on them, the model takes every value they can give.
- Payload formats, parsing and serialisation, the request handlers without state,
  authentication, the usage endpoint, the street-view and canopy payloads, which nothing
  validates yet.
- The committed fixture trips' normalisation and the content of snapshots; their files are
  modelled.
- The ledger's reconciliation entries, which the enforcement never reads.
- The frontend, and operator scripts around acquisition and reconciliation.
- Two processes writing one ledger file, which the documented deployment (one instance, one
  worker) excludes.
