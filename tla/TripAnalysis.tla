---------------------------- MODULE TripAnalysis ----------------------------
(***************************************************************************)
(* TemporalTripAnalysisAdapter (app/services/trip_adapters.py) and the     *)
(* degradation chain it calls, HeatmapExecution and EnvParamsExecution     *)
(* (app/services/execution.py), for several trip analyses running at once  *)
(* in the threads of one server, against one call budget and one cache.    *)
(*                                                                         *)
(* An analysis checks that the budget can afford it, asks for one heatmap  *)
(* per hour of the window through a thread pool, then for environmental    *)
(* parameters, for two framing products and, for long routes, for the heat *)
(* of the shared route corridor, and publishes what it has.                *)
(*                                                                         *)
(* The budget is the account of CallBudget, which FortyGuardClient         *)
(* implements.  All analyses are about the same place, date and window, so *)
(* that they share every cache key.                                        *)
(***************************************************************************)
EXTENDS Integers, FiniteSets

CONSTANTS Analyses,        \* the trip analyses
          Hours,           \* the hours of the traveler's window
          Budget,          \* the core call budget, or None
          MaxConcurrency,  \* worker threads of one analysis
          Fixtures,        \* the products a committed fixture matches
          None

ASSUME TripAssumption ==
  /\ IsFiniteSet(Analyses)
  /\ Hours \subseteq Int /\ Hours # {} /\ IsFiniteSet(Hours)
  /\ Budget \in Nat \cup {None} /\ None \notin Int
  /\ MaxConcurrency \in Nat \ {0}

VARIABLES pc,         \* how far each analysis is
          task,       \* what became of each product it asks for
          cache,      \* the products CacheService holds
          spent,      \* core calls recorded
          held,       \* core calls reserved
          overlapped  \* the analyses that ran while another one ran

vars == <<pc, task, cache, spent, held, overlapped>>

Account == INSTANCE CallBudget WITH Units <- Budget

HourProducts == {<<"hour", h>> : h \in Hours}
Env          == <<"env", 0>>
Exceedance   == <<"exceedance", 0>>
Persistence  == <<"persistence", 0>>
Corridor     == <<"corridor", 0>>
Products     == HourProducts \cup {Env, Exceedance, Persistence, Corridor}

\* Of the two framing products, the five calls _FIXED_CALL_ALLOWANCE allows for
\* and the window, _budget_refusal computes the cost of an analysis.
FixedCallAllowance == 5
Needed == Cardinality(Hours) + FixedCallAllowance

Served    == {"provider", "cache", "fixture"}
Replayed  == {"cache", "fixture"}
Underway  == {"running", "paid", "failed"}
Settled   == Served \cup {"unavailable", "refused"}
Phases == <<"hours", "env", "exceedance", "persistence", "routes">>
Active == {Phases[i] : i \in DOMAIN Phases}
Over   == {"published", "unavailable", "refused", "overspent"}

-----------------------------------------------------------------------------
Init ==
  /\ pc = [a \in Analyses |-> "idle"]
  /\ task = [a \in Analyses |-> [p \in Products |-> "idle"]]
  /\ cache = {}
  /\ spent = 0
  /\ held = 0
  /\ overlapped = {}

Goto(a, phase) == pc' = [pc EXCEPT ![a] = phase]
Becomes(a, p, state) == task' = [task EXCEPT ![a][p] = state]

Affordable == Budget = None \/ Needed <= Budget - spent - held

\* _budget_refusal: read the ledger's `remaining' once, before anything is asked for.
BeginFaulty(a) == \* does not look at the budget
  /\ pc[a] = "idle"
  /\ Goto(a, "hours")
  /\ LET others == {b \in Analyses : pc[b] \in Active}
     IN  overlapped' = IF others = {} THEN overlapped ELSE overlapped \cup others \cup {a}
  /\ UNCHANGED <<task, cache, spent, held>>

Begin(a) ==
  /\ pc[a] = "idle" /\ Affordable
  /\ Goto(a, "hours")
  /\ LET others == {b \in Analyses : pc[b] \in Active}
     IN  overlapped' = IF others = {} THEN overlapped ELSE overlapped \cup others \cup {a}
  /\ UNCHANGED <<task, cache, spent, held>>

RefuseUpFront(a) ==
  /\ pc[a] = "idle" /\ ~ Affordable
  /\ Goto(a, "refused")
  /\ UNCHANGED <<task, cache, spent, held, overlapped>>

-----------------------------------------------------------------------------
(***************************************************************************)
(* One live call, FortyGuardClient.submit_and_poll behind live_loader.  A  *)
(* worker thread of the pool or the analysis' own thread runs it.          *)
(***************************************************************************)
Wanted(a) ==
  CASE pc[a] = "hours"       -> HourProducts
    [] pc[a] = "env"         -> {Env}
    [] pc[a] = "exceedance"  -> {Exceedance}
    [] pc[a] = "persistence" -> {Persistence}
    [] pc[a] = "routes"      -> {Corridor}
    [] OTHER                 -> {}

FreeWorker(a) == Cardinality({p \in Products : task[a][p] \in Underway}) < MaxConcurrency

StartCall(a, p) ==
  /\ p \in Wanted(a) /\ task[a][p] = "idle" /\ FreeWorker(a)
  /\ Account!Reserve
  /\ Becomes(a, p, "running")
  /\ UNCHANGED <<pc, cache, overlapped>>

\* BudgetExceededError: "never caught by the chain".
RefuseCall(a, p) ==
  /\ p \in Wanted(a) /\ task[a][p] = "idle" /\ FreeWorker(a)
  /\ Budget # None /\ spent + held >= Budget
  /\ Becomes(a, p, "refused")
  /\ UNCHANGED <<pc, cache, spent, held, overlapped>>

\* The provider completes the activity; the result is not normalized yet.
CallCompletes(a, p) ==
  /\ task[a][p] = "running"
  /\ Account!Spend
  /\ Becomes(a, p, "paid")
  /\ UNCHANGED <<pc, cache, overlapped>>

CallFailsFaulty(a, p) == \* a failed call keeps its reservation
  /\ task[a][p] = "running"
  /\ Becomes(a, p, "failed")
  /\ UNCHANGED <<pc, cache, overlapped, spent, held>>

\* It fails after the submission was accepted, or may have been, or is rejected.
CallFails(a, p) ==
  /\ task[a][p] = "running"
  /\ Account!Spend \/ Account!Refund
  /\ Becomes(a, p, "failed")
  /\ UNCHANGED <<pc, cache, overlapped>>

Keep(a, p) ==
  /\ task[a][p] = "paid"
  /\ Becomes(a, p, "provider")
  /\ cache' = IF p = Corridor THEN cache ELSE cache \cup {p}
  /\ UNCHANGED <<pc, spent, held, overlapped>>

\* ... or it raises ValueError or ProviderError: the live result is unusable.
Reject(a, p) ==
  /\ task[a][p] = "paid"
  /\ Becomes(a, p, "failed")
  /\ UNCHANGED <<pc, cache, spent, held, overlapped>>

(***************************************************************************)
(* _fallback: a cache entry under the exact key, else a matching fixture,  *)
(* else UnavailableError.  The key of the environmental parameters has the *)
(* temperature anchor of this analysis in it, so an entry may not match.   *)
(* The shared corridor heat has no fallback.                               *)
(***************************************************************************)
CacheHits(p) == IF p = Env /\ p \in cache THEN {TRUE, FALSE} ELSE {p \in cache}

FallBackFaulty(a, p) == \* asks the provider again
  /\ task[a][p] = "failed"
  /\ Becomes(a, p, "idle")
  /\ UNCHANGED <<pc, cache, spent, held, overlapped>>

FallBack(a, p) ==
  /\ task[a][p] = "failed"
  /\ \E hit \in CacheHits(p) :
       Becomes(a, p, IF hit THEN "cache"
                     ELSE IF p \in Fixtures \ {Corridor} THEN "fixture" ELSE "unavailable")
  /\ UNCHANGED <<pc, cache, spent, held, overlapped>>

-----------------------------------------------------------------------------
RefusedAny(a) == \E p \in Wanted(a) : task[a][p] = "refused"

CollectedFaulty(a) == \* the first refusal ends the wait
  RefusedAny(a) \/ \A p \in Wanted(a) : task[a][p] \in Settled

Collected(a) == \A p \in Wanted(a) : task[a][p] \in Settled

SurvivingHours(a) == {p \in HourProducts : task[a][p] \in Served}

\* A refused call makes the whole analysis raise, once the pool has been shut
\* down: the workers that run, and the calls still queued, are waited for.
Overspend(a) ==
  /\ pc[a] \in Active /\ Collected(a) /\ RefusedAny(a)
  /\ Goto(a, "overspent")
  /\ UNCHANGED <<task, cache, spent, held, overlapped>>

\* Every hour failed, or select_anchor_celsius finds no usable temperature.
HoursUnavailable(a) ==
  /\ pc[a] = "hours" /\ Collected(a) /\ ~ RefusedAny(a)
  /\ Goto(a, "unavailable")
  /\ UNCHANGED <<task, cache, spent, held, overlapped>>

HoursMerged(a) ==
  /\ pc[a] = "hours" /\ Collected(a) /\ ~ RefusedAny(a)
  /\ SurvivingHours(a) # {}
  /\ Goto(a, "env")
  /\ UNCHANGED <<task, cache, spent, held, overlapped>>

\* Environmental parameters and framing products may be missing.
NextPhase(a) ==
  /\ Collected(a) /\ ~ RefusedAny(a)
  /\ \E i \in 2 .. 4 : pc[a] = Phases[i] /\ Goto(a, Phases[i + 1])
  /\ UNCHANGED <<task, cache, spent, held, overlapped>>

\* _best_time_result raises ValueError: no temperature falls in the window.
DecisionUnavailable(a) ==
  /\ pc[a] = "persistence" /\ Collected(a) /\ ~ RefusedAny(a)
  /\ Goto(a, "unavailable")
  /\ UNCHANGED <<task, cache, spent, held, overlapped>>

\* Routes are missing, or short enough for the landmark's own heat, or the
\* corridor heat has been settled; the contract may still reject the result.
Publish(a) ==
  /\ pc[a] = "routes"
  /\ task[a][Corridor] \in {"idle"} \cup Served \cup {"unavailable"}
  /\ \E end \in {"published", "unavailable"} : Goto(a, end)
  /\ UNCHANGED <<task, cache, spent, held, overlapped>>

Idle == (\A a \in Analyses : pc[a] \in Over) /\ UNCHANGED vars

Call(a, p) ==
  \/ StartCall(a, p) \/ RefuseCall(a, p)
  \/ CallCompletes(a, p) \/ CallFails(a, p) \/ Keep(a, p) \/ Reject(a, p) \/ FallBack(a, p)

Orchestrate(a) ==
  \/ Overspend(a) \/ HoursUnavailable(a) \/ HoursMerged(a) \/ NextPhase(a)
  \/ DecisionUnavailable(a) \/ Publish(a)

Next ==
  \/ \E a \in Analyses :
       \/ Begin(a) \/ RefuseUpFront(a) \/ Orchestrate(a)
       \/ \E p \in Products : Call(a, p)
  \/ Idle

Spec == Init /\ [][Next]_vars

\* A started analysis runs on, in one thread or another: its threads are never blocked
\* for good, because every call ends (CallsEnd of FortyGuardClient).
RunsOn(a) == Orchestrate(a) \/ \E p \in Products : Call(a, p)
FairSpec == Spec /\ \A a \in Analyses : WF_vars(RunsOn(a))

-----------------------------------------------------------------------------
(***************************************************************************)
(* What _merge_heatmap_results, _environment_result, _best_time_result and *)
(* _best_time_provenance say about the published decision: if it is fresh. *)
(***************************************************************************)
FirstHour(a) ==
  CHOOSE p \in SurvivingHours(a) : \A q \in SurvivingHours(a) : p[2] <= q[2]

HeatSource(a) == task[a][FirstHour(a)]

HeatStaleFaulty(a) == HeatSource(a) \in Replayed \* the first hour speaks for all

HeatStale(a) == \E p \in SurvivingHours(a) : task[a][p] \in Replayed

HasEnv(a) == task[a][Env] \in Served

Fresh(a) == ~ HeatStale(a) /\ (HasEnv(a) => task[a][Env] \notin Replayed)

-----------------------------------------------------------------------------
(***************************************************************************)
(* The account holds a unit for each call that is running and no other, so *)
(* failures, refusals and fallbacks of many threads leak none, and the     *)
(* budget is kept.                                                         *)
(***************************************************************************)
UnitsMatchCalls ==
  /\ held = Cardinality({ap \in Analyses \X Products : task[ap[1]][ap[2]] = "running"})
  /\ Budget # None => spent + held <= Budget

\* The up-front check is worth its name for an analysis that has the server to
\* itself: once admitted it is never stopped half-way by the budget.
AdmittedAloneFinishes ==
  \A a \in Analyses : pc[a] = "overspent" => a \in overlapped

StartedCalls(a) == {p \in Products : task[a][p] \notin {"idle", "refused"}}

\* An analysis that has answered left no call behind: nothing of it is running in
\* the pool, and nothing of it is charged to the budget afterwards.
NoCallOutlivesAnalysis ==
  \A a \in Analyses : pc[a] \in Over => \A p \in Products : task[a][p] \notin Underway

\* A decision is labelled fresh only if every hour it compares and the parameters it
\* weighs came from the provider just now: one replayed hour makes it stale.  And all
\* of it is kept, so that a later failure can replay it.
FreshMeansLive ==
  \A a \in Analyses :
    pc[a] = "published" /\ Fresh(a) =>
      \A p \in SurvivingHours(a) \cup {Env} :
        task[a][p] \in Served => task[a][p] = "provider" /\ p \in cache

\* An admitted analysis answers, whatever the provider and the other analyses do.
AnalysesEnd == \A a \in Analyses : pc[a] \in Active ~> pc[a] \in Over

-----------------------------------------------------------------------------
(***************************************************************************)
(* What the documentation says of an analysis and the code does not do.    *)
(***************************************************************************)

\* _budget_refusal: "Refuse before spending anything when the window cannot be
\* afforded."
RefusedBeforeSpending ==
  \A a \in Analyses : pc[a] = "overspent" => StartedCalls(a) = {}

\* CONTEXT.md, degradation rule: "Every replay is labelled".  The framing values
\* of a published decision are part of it.
FramingReplayLabelled ==
  \A a \in Analyses :
    pc[a] = "published" /\ Fresh(a) =>
      task[a][Exceedance] \notin Replayed /\ task[a][Persistence] \notin Replayed
=============================================================================
