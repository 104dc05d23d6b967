---------------------------- MODULE HotelEvidence ----------------------------
(***************************************************************************)
(* The live hotel ranking: HotelHeatAnalysisService                        *)
(* (app/services/hotel_heat_score.py) over the component loader that       *)
(* build_live_hotel_heat_analysis_service (app/wiring.py) closes over, for *)
(* several rankings at once in the threads of one server that stays up     *)
(* over midnight.                                                          *)
(*                                                                         *)
(* A ranking discovers the hotels, loads one district product for each     *)
(* component in a pool with a thread per component, and ranks when it has  *)
(* them all.  "night" and "day" are the same product, a TCM heatmap of the *)
(* day, which the loader keeps in `shared_tcm'.  Tiles and scores are left *)
(* out; evidence is where it came from, of which day it is, which day it   *)
(* is said to be of, and whether it is marked stale.                       *)
(*                                                                         *)
(* The provider calls are charged to the account of CallBudget, which      *)
(* FortyGuardClient implements.                                            *)
(***************************************************************************)
EXTENDS Integers, FiniteSets

CONSTANTS Rankings,    \* the requests for a ranking
          Components,  \* of "night", "day", "hot_hours" and "persistence"
          Days,        \* the days 1 .. Days on which the server is up
          Budget,      \* the core call budget, or None
          HasFixture,  \* if the canonical district fixture is configured
          None

ASSUME HotelAssumption ==
  /\ IsFiniteSet(Rankings)
  /\ Components \subseteq {"night", "day", "hot_hours", "persistence"} /\ Components # {}
  /\ Days \in Nat \ {0}
  /\ Budget \in Nat \cup {None} /\ None \notin Int
  /\ HasFixture \in BOOLEAN

VARIABLES today,     \* the server's date
          pc,        \* how far each ranking is
          began,     \* the day a ranking began to load, and what was shared then
          task,      \* what became of the load of each component
          shared,    \* shared_tcm["evidence"], or None
          cache,     \* the heatmaps CacheService holds: key -> day they are of
          overpass,  \* if CacheService holds a discovery answer with enough hotels
          spent,     \* core calls recorded
          held       \* core calls reserved

account == <<spent, held>>
vars == <<today, pc, began, task, shared, cache, overpass, account>>

Account == INSTANCE CallBudget WITH Units <- Budget

-----------------------------------------------------------------------------
Tcm == {"night", "day"}

Product(c) == IF c \in Tcm THEN "tcm" ELSE c

\* The cache key of a heatmap holds the day that was asked for, among values that
\* are the same for every ranking.
Keys == {Product(c) : c \in Components} \X (1 .. Days)

\* The data date of the fixture lies before anything the server can ask for.
FixtureDay == 0

Evidence == [source : {"provider", "cache", "fixture"}, of : 0 .. Days,
             dataDate : 0 .. Days, stale : BOOLEAN]

ASSUME EvidenceAssumption == None \notin Evidence

Live(of, dataDate) ==
  [source |-> "provider", of |-> of, dataDate |-> dataDate, stale |-> FALSE]

ReplayedFaulty(source, of, dataDate) == \* a replay without its mark
  [source |-> source, of |-> of, dataDate |-> dataDate, stale |-> FALSE]

Replayed(source, of, dataDate) ==
  [source |-> source, of |-> of, dataDate |-> dataDate, stale |-> TRUE]

\* A load whose call is running knows the day it asked for.
Loading == [stage : {"running"}, day : 1 .. Days]
Served  == [stage : {"served"}, evidence : Evidence]
Plain   == [stage : {"idle", "failed", "missing", "refused"}]

Stage(r, c) == task[r][c].stage
Settled == {"served", "missing", "refused"}
Over    == {"ranked", "unavailable", "overspent"}

Init ==
  /\ today = 1
  /\ pc = [r \in Rankings |-> "idle"]
  /\ began = [r \in Rankings |-> [day |-> 1, warm |-> FALSE]]
  /\ task = [r \in Rankings |-> [c \in Components |-> [stage |-> "idle"]]]
  /\ shared = None
  /\ cache = [k \in {} |-> 1]
  /\ overpass = FALSE
  /\ spent = 0 /\ held = 0

Midnight ==
  /\ today < Days
  /\ today' = today + 1
  /\ UNCHANGED <<pc, began, task, shared, cache, overpass, account>>

-----------------------------------------------------------------------------
(***************************************************************************)
(* HotelDiscoveryService.discover behind _live_discovery_with_fixture: the *)
(* answer of Overpass is cached whether it names enough hotels or not, an  *)
(* Overpass error replays it, and the fixture stands in for either if it   *)
(* leaves too few hotels.                                                  *)
(***************************************************************************)
Proceed(r, enough) ==
  IF enough \/ HasFixture
  THEN /\ pc' = [pc EXCEPT ![r] = "loading"]
       /\ began' = [began EXCEPT ![r] = [day |-> today, warm |-> shared # None]]
  ELSE pc' = [pc EXCEPT ![r] = "unavailable"] /\ UNCHANGED began

Discover(r) ==
  /\ pc[r] = "idle"
  /\ \E enough \in BOOLEAN : overpass' = enough /\ Proceed(r, enough)
  /\ UNCHANGED <<today, task, shared, cache, account>>

DiscoverOffline(r) ==
  /\ pc[r] = "idle"
  /\ Proceed(r, overpass)
  /\ UNCHANGED <<today, task, shared, cache, overpass, account>>

-----------------------------------------------------------------------------
(***************************************************************************)
(* load(component), in a thread of the ranking's pool.                     *)
(***************************************************************************)
Becomes(r, c, state) == task' = [task EXCEPT ![r][c] = state]

SharesFaulty(c) == c = "night" /\ shared # None \* only the first TCM component looks

Shares(c) == c \in Tcm /\ shared # None

\* Evidence another thread stored is taken as it is, `component' apart.
TakeShared(r, c) ==
  /\ pc[r] = "loading" /\ Stage(r, c) = "idle"
  /\ Shares(c)
  /\ Becomes(r, c, [stage |-> "served", evidence |-> shared])
  /\ UNCHANGED <<today, pc, began, shared, cache, overpass, account>>

AskFaulty(r, c) == \* reserves without looking at the budget
  /\ pc[r] = "loading" /\ Stage(r, c) = "idle"
  /\ ~ Shares(c)
  /\ held' = held + 1 /\ UNCHANGED spent
  /\ Becomes(r, c, [stage |-> "running", day |-> today])
  /\ UNCHANGED <<today, pc, began, shared, cache, overpass>>

\* adapter.load(start_date=date.today()): the budget is charged before submission.
Ask(r, c) ==
  /\ pc[r] = "loading" /\ Stage(r, c) = "idle"
  /\ ~ Shares(c)
  /\ Account!Reserve
  /\ Becomes(r, c, [stage |-> "running", day |-> today])
  /\ UNCHANGED <<today, pc, began, shared, cache, overpass>>

\* BudgetExceededError is in no except clause of the loader.
Refused(r, c) ==
  /\ pc[r] = "loading" /\ Stage(r, c) = "idle"
  /\ ~ Shares(c)
  /\ Budget # None /\ spent + held >= Budget
  /\ Becomes(r, c, [stage |-> "refused"])
  /\ UNCHANGED <<today, pc, began, shared, cache, overpass, account>>

CallFailsFaulty(r, c) == \* gives back its reservation and that of another call
  /\ Stage(r, c) = "running"
  /\ held' = held - 2 /\ UNCHANGED spent
  /\ Becomes(r, c, [stage |-> "failed"])
  /\ UNCHANGED <<today, pc, began, shared, cache, overpass>>

\* It fails after the submission was accepted, or may have been, or is rejected.
CallFails(r, c) ==
  /\ Stage(r, c) = "running"
  /\ Account!Spend \/ Account!Refund
  /\ Becomes(r, c, [stage |-> "failed"])
  /\ UNCHANGED <<today, pc, began, shared, cache, overpass>>

CachePut(k, day) == cache' = [j \in DOMAIN cache \cup {k} |-> IF j = k THEN day ELSE cache[j]]

(***************************************************************************)
(* The provider completes the activity, the ledger records it and the      *)
(* loader goes on to use the answer.  Recording turns a held unit into a   *)
(* spent one, which no other thread can tell apart, so it is one step with *)
(* what follows.                                                           *)
(*                                                                         *)
(* The date is read again when the answer is there: the evidence, and the  *)
(* cache key with it, is said to be of the day on which the call came back.*)
(***************************************************************************)
KeepFaulty(r, c) == \* forgets to cache
  /\ Stage(r, c) = "running"
  /\ Account!Spend
  /\ LET evidence == Live(task[r][c].day, today)
     IN  /\ Becomes(r, c, [stage |-> "served", evidence |-> evidence])
         /\ shared' = IF c \in Tcm THEN evidence ELSE shared
  /\ UNCHANGED <<today, pc, began, cache, overpass>>

Keep(r, c) ==
  /\ Stage(r, c) = "running"
  /\ Account!Spend
  /\ LET evidence == Live(task[r][c].day, today)
     IN  /\ Becomes(r, c, [stage |-> "served", evidence |-> evidence])
         /\ shared' = IF c \in Tcm THEN evidence ELSE shared
  /\ CachePut(<<Product(c), today>>, task[r][c].day)
  /\ UNCHANGED <<today, pc, began, overpass>>

\* normalize_heatmap_response is called outside the loader's try: its ValueError
\* leaves the loader, and _load_components counts the component as missing.
Reject(r, c) ==
  /\ Stage(r, c) = "running"
  /\ Account!Spend
  /\ Becomes(r, c, [stage |-> "missing"])
  /\ UNCHANGED <<today, pc, began, shared, cache, overpass>>

FallBackFaulty(r, c) == \* what is replayed is shared too
  /\ Stage(r, c) = "failed"
  /\ LET k == <<Product(c), today>>
         evidence == IF k \in DOMAIN cache THEN Replayed("cache", cache[k], today)
                     ELSE Replayed("fixture", FixtureDay, FixtureDay)
     IN  /\ Becomes(r, c, [stage |-> "served", evidence |-> evidence])
         /\ shared' = IF c \in Tcm THEN evidence ELSE shared
  /\ UNCHANGED <<today, pc, began, cache, overpass, account>>

\* The entry under today's key, else the fixture, else nothing.
FallBack(r, c) ==
  /\ Stage(r, c) = "failed"
  /\ LET k == <<Product(c), today>>
     IN  Becomes(r, c,
           IF k \in DOMAIN cache
           THEN [stage |-> "served", evidence |-> Replayed("cache", cache[k], today)]
           ELSE IF HasFixture
           THEN [stage |-> "served", evidence |-> Replayed("fixture", FixtureDay, FixtureDay)]
           ELSE [stage |-> "missing"])
  /\ UNCHANGED <<today, pc, began, shared, cache, overpass, account>>

-----------------------------------------------------------------------------
(***************************************************************************)
(* _load_components leaves its `with' block, by the exception of a refused *)
(* load too, when every thread of the pool has ended.                      *)
(***************************************************************************)
AnyIs(r, stage) == \E c \in Components : Stage(r, c) = stage

FinishDegraded(r) == \* a refused load counts as a missing component
  /\ pc[r] = "loading"
  /\ \A c \in Components : Stage(r, c) \in Settled
  /\ pc' = [pc EXCEPT ![r] = IF AnyIs(r, "served") THEN "ranked" ELSE "unavailable"]
  /\ UNCHANGED <<today, began, task, shared, cache, overpass, account>>

FinishFaulty(r) == \* answers as soon as one load is refused
  /\ pc[r] = "loading"
  /\ \/ \A c \in Components : Stage(r, c) \in Settled
     \/ AnyIs(r, "refused")
  /\ pc' = [pc EXCEPT ![r] = IF AnyIs(r, "refused") THEN "overspent" ELSE "ranked"]
  /\ UNCHANGED <<today, began, task, shared, cache, overpass, account>>

\* analyze: without every component, or with fewer than five complete hotels, there
\* is no ranking.
Finish(r) ==
  /\ pc[r] = "loading"
  /\ \A c \in Components : Stage(r, c) \in Settled
  /\ \E end \in IF AnyIs(r, "refused") THEN {"overspent"}
                ELSE IF AnyIs(r, "missing") THEN {"unavailable"}
                ELSE {"ranked", "unavailable"} :
       pc' = [pc EXCEPT ![r] = end]
  /\ UNCHANGED <<today, began, task, shared, cache, overpass, account>>

Idle == (\A r \in Rankings : pc[r] \in Over) /\ UNCHANGED vars

Load(r, c) ==
  \/ TakeShared(r, c) \/ Ask(r, c) \/ Refused(r, c)
  \/ Keep(r, c) \/ Reject(r, c) \/ CallFails(r, c) \/ FallBack(r, c)

Next ==
  \/ \E r \in Rankings :
       \/ Discover(r) \/ DiscoverOffline(r) \/ Finish(r)
       \/ \E c \in Components : Load(r, c)
  \/ Midnight
  \/ Idle

Spec == Init /\ [][Next]_vars

-----------------------------------------------------------------------------
TypeOK ==
  /\ today \in 1 .. Days
  /\ pc \in [Rankings -> {"idle", "loading"} \cup Over]
  /\ began \in [Rankings -> [day : 1 .. Days, warm : BOOLEAN]]
  /\ task \in [Rankings -> [Components -> Plain \cup Loading \cup Served]]
  /\ shared \in {None} \cup Evidence
  /\ DOMAIN cache \subseteq Keys /\ \A k \in DOMAIN cache : cache[k] \in 1 .. Days
  /\ overpass \in BOOLEAN
  /\ spent \in Nat
  /\ held \in Nat

\* Failures, refusals and fallbacks in the threads of several rankings leak no unit of
\* the budget: one is held for each call that is running, and the budget is kept.
UnitsMatchCalls ==
  /\ held = Cardinality({rc \in Rankings \X Components : Stage(rc[1], rc[2]) = "running"})
  /\ Budget # None => spent + held <= Budget

\* Once a TCM heatmap is shared, no ranking that starts later pays for one: its night
\* and its day component both take the shared evidence.
WarmRankingPaysNoTcm ==
  \A r \in Rankings : began[r].warm =>
    \A c \in Components \cap Tcm :
      /\ Stage(r, c) \in {"idle", "served"}
      /\ Stage(r, c) = "served" => task[r][c].evidence.source = "provider"

\* What a ranking got from the provider outlives it, even if another of its loads is
\* refused and it answers with an error: a later failure on that day can replay it.
PaidEvidenceIsKept ==
  \A r \in Rankings, c \in Components :
    Stage(r, c) = "served" /\ task[r][c].evidence.source = "provider" =>
      <<Product(c), task[r][c].evidence.dataDate>> \in DOMAIN cache

\* One ranking's degraded answer is not handed to the next as the provider's.
SharedIsLive == shared # None => shared.source = "provider" /\ ~ shared.stale

\* The replays of the degradation chain are marked: unmarked evidence older than its
\* ranking can only be a TCM heatmap another ranking shared (see PresentedAsCurrent).
OnlySharedTcmIsOld ==
  \A r \in Rankings, c \in Components :
    Stage(r, c) = "served" /\ ~ task[r][c].evidence.stale /\ c \notin Tcm =>
      task[r][c].evidence.of >= began[r].day

\* A ranking that has answered left no call behind in the pool, charged to nobody.
NoCallOutlivesRanking ==
  \A r \in Rankings : pc[r] \in Over =>
    \A c \in Components : Stage(r, c) \notin {"running", "failed"}

\* "Budget exhaustion is an HTTP 503 and is never degraded": one refused load decides
\* the answer, whatever the other threads of the ranking bring back.
RefusalSurfaces ==
  \A r \in Rankings : pc[r] \in {"ranked", "unavailable"} => ~ AnyIs(r, "refused")

-----------------------------------------------------------------------------
(***************************************************************************)
(* What the documentation says of replays and the code does not do.        *)
(***************************************************************************)

\* "Every replay is labelled (source="cache"/"fixture", stale=True, true data date) and
\* never presented as a current forecast": in a ranking, evidence that is not marked
\* stale is of the day the ranking was asked for, or a later one.
PresentedAsCurrent ==
  \A r \in Rankings, c \in Components :
    pc[r] = "ranked" /\ Stage(r, c) = "served" /\ ~ task[r][c].evidence.stale =>
      task[r][c].evidence.of >= began[r].day
=============================================================================
