---------------------------- MODULE Analyses_proofs ---------------------------
(***************************************************************************)
(* Why the two analyses that share the core budget keep their promises:    *)
(* hotel rankings (chapter I), for any number of rankings, components,     *)
(* days and any budget, with and without a fixture; and trip analyses      *)
(* (chapter II), whose own proof is TripAnalysis_proofs, for any number of *)
(* analyses and hours, any budget and any size of the pool.                *)
(***************************************************************************)
EXTENDS MCAnalyses, FiniteSetTheorems, TLAPS

-----------------------------------------------------------------------------
(* Chapter I.  The hotel rankings. *)

(***************************************************************************)
(* Every action of a load replaces the state of one component.             *)
(***************************************************************************)
TaskStates == Plain \cup Loading \cup Served

\* Replacing one component by a well-formed state keeps the table well formed.
LEMMA TaskUpdate ==
  ASSUME NEW r \in Rankings, NEW c \in Components, NEW state \in TaskStates,
         task \in [Rankings -> [Components -> TaskStates]],
         Becomes(r, c, state)
  PROVE  /\ task' \in [Rankings -> [Components -> TaskStates]]
         /\ task'[r][c] = state
         /\ \A q \in Rankings, d \in Components :
              <<q, d>> # <<r, c>> => task'[q][d] = task[q][d]
  BY DEF Becomes

\* The states the actions of a load put a component into are well formed, and the
\* stage of each is the one it is named after.
LEMMA StatesFormed ==
  ASSUME NEW d \in 1 .. Days, NEW e \in Evidence
  PROVE  /\ [stage |-> "running", day |-> d] \in TaskStates
         /\ [stage |-> "served", evidence |-> e] \in TaskStates
         /\ [stage |-> "failed"] \in TaskStates
         /\ [stage |-> "missing"] \in TaskStates
         /\ [stage |-> "refused"] \in TaskStates
  BY DEF TaskStates, Plain, Loading, Served

\* The two makers of evidence make evidence.
LEMMA EvidenceFormed ==
  ASSUME NEW s \in {"cache", "fixture"}, NEW a \in 0 .. Days, NEW b \in 0 .. Days
  PROVE  Replayed(s, a, b) \in Evidence /\ Live(a, b) \in Evidence
  BY DEF Replayed, Live, Evidence

\* Only a component whose call is running has a day to speak of.
LEMMA RunningDay ==
  ASSUME TypeOK, NEW r \in Rankings, NEW c \in Components, Stage(r, c) = "running"
  PROVE  task[r][c].day \in 1 .. Days
  BY DEF TypeOK, Stage, Plain, Loading, Served

-----------------------------------------------------------------------------
\* A server that has just started has well-formed state.
LEMMA TypeInit == Init => TypeOK
<1> SUFFICES ASSUME Init PROVE TypeOK
  OBVIOUS
<1>1. [day |-> 1, warm |-> FALSE] \in [day : 1 .. Days, warm : BOOLEAN]
  BY HotelAssumption
<1>2. began \in [Rankings -> [day : 1 .. Days, warm : BOOLEAN]]
  BY <1>1 DEF Init
<1>3. [stage |-> "idle"] \in TaskStates
  BY DEF TaskStates, Plain
<1>4. task \in [Rankings -> [Components -> TaskStates]]
  BY <1>3 DEF Init
<1>5. DOMAIN cache \subseteq Keys /\ \A k \in DOMAIN cache : cache[k] \in 1 .. Days
  BY DEF Init
<1>6. today \in 1 .. Days /\ spent \in Nat /\ held \in Nat
  BY HotelAssumption DEF Init
<1>7. /\ pc \in [Rankings -> {"idle", "loading"} \cup Over]
      /\ shared \in {None} \cup Evidence
      /\ overpass \in BOOLEAN
  BY DEF Init
<1> QED
  BY <1>2, <1>4, <1>5, <1>6, <1>7 DEF TypeOK, TaskStates

\* Every step keeps it so: one case per action of a load, then the ranking's own steps.
LEMMA TypeNext == TypeOK /\ [Next]_vars => TypeOK'
<1> SUFFICES ASSUME TypeOK, [Next]_vars PROVE TypeOK'
  OBVIOUS
<1>t. task \in [Rankings -> [Components -> TaskStates]]
  BY DEF TypeOK, TaskStates
<1>a. CASE \E r \in Rankings, c \in Components : Load(r, c)
  <2> PICK r \in Rankings, c \in Components : Load(r, c)
    BY <1>a
  <2>1. CASE TakeShared(r, c)
    <3>1. shared \in Evidence
      BY <2>1 DEF TypeOK, TakeShared, Shares
    <3>2. task' \in [Rankings -> [Components -> TaskStates]]
      BY <1>t, <2>1, <3>1, TaskUpdate, StatesFormed DEF TakeShared, TypeOK
    <3> QED
      BY <2>1, <3>2 DEF TakeShared, TypeOK, account, TaskStates
  <2>2. CASE Ask(r, c)
    <3>1. task' \in [Rankings -> [Components -> TaskStates]]
      <4>1. [stage |-> "running", day |-> today] \in TaskStates
        BY DEF TypeOK, TaskStates, Loading
      <4> QED
        BY <1>t, <2>2, <4>1, TaskUpdate DEF Ask
    <3> QED
      BY <2>2, <3>1 DEF Ask, TypeOK, TaskStates, Account!Reserve
  <2>3. CASE Refused(r, c)
    <3>1. task' \in [Rankings -> [Components -> TaskStates]]
      <4>1. [stage |-> "refused"] \in TaskStates
        BY DEF TaskStates, Plain
      <4> QED
        BY <1>t, <2>3, <4>1, TaskUpdate DEF Refused
    <3> QED
      BY <2>3, <3>1 DEF Refused, TypeOK, account, TaskStates
  <2>4. CASE Keep(r, c)
    <3> DEFINE e == Live(task[r][c].day, today)
    <3>1. task[r][c].day \in 1 .. Days /\ today \in 1 .. Days
      BY <2>4, RunningDay DEF Keep, TypeOK
    <3>2. e \in Evidence
      BY <3>1 DEF Live, Evidence
    <3>3. task' \in [Rankings -> [Components -> TaskStates]]
      BY <1>t, <2>4, <3>1, <3>2, TaskUpdate, StatesFormed DEF Keep
    <3>4. shared' \in {None} \cup Evidence
      BY <2>4, <3>2 DEF Keep, TypeOK
    <3>5. /\ DOMAIN cache' \subseteq Keys
          /\ \A k \in DOMAIN cache' : cache'[k] \in 1 .. Days
      <4>1. <<Product(c), today>> \in Keys
        BY <3>1 DEF Keys
      <4> QED
        BY <2>4, <3>1, <4>1 DEF Keep, CachePut, TypeOK
    <3>6. spent' \in Nat /\ held' \in Nat
      BY <2>4 DEF Keep, TypeOK, Account!Spend
    <3> QED
      BY <2>4, <3>3, <3>4, <3>5, <3>6 DEF Keep, TypeOK, TaskStates
  <2>5. CASE Reject(r, c)
    <3>1. task' \in [Rankings -> [Components -> TaskStates]]
      <4>1. [stage |-> "missing"] \in TaskStates
        BY DEF TaskStates, Plain
      <4> QED
        BY <1>t, <2>5, <4>1, TaskUpdate DEF Reject
    <3> QED
      BY <2>5, <3>1 DEF Reject, TypeOK, TaskStates, Account!Spend
  <2>6. CASE CallFails(r, c)
    <3>1. task' \in [Rankings -> [Components -> TaskStates]]
      <4>1. [stage |-> "failed"] \in TaskStates
        BY DEF TaskStates, Plain
      <4> QED
        BY <1>t, <2>6, <4>1, TaskUpdate DEF CallFails
    <3> QED
      BY <2>6, <3>1 DEF CallFails, TypeOK, TaskStates, Account!Spend, Account!Refund
  <2>7. CASE FallBack(r, c)
    <3>1. task' \in [Rankings -> [Components -> TaskStates]]
      <4> DEFINE k == <<Product(c), today>>
      <4>1. CASE k \in DOMAIN cache
        <5>1. cache[k] \in 0 .. Days /\ today \in 0 .. Days
          BY <4>1 DEF TypeOK
        <5>2. [stage |-> "served", evidence |-> Replayed("cache", cache[k], today)] \in TaskStates
          BY <5>1, EvidenceFormed DEF TaskStates, Served
        <5> QED
          BY <1>t, <2>7, <4>1, <5>2, TaskUpdate DEF FallBack
      <4>2. CASE k \notin DOMAIN cache /\ HasFixture
        <5>1. FixtureDay \in 0 .. Days
          BY HotelAssumption DEF FixtureDay
        <5>2. [stage |-> "served", evidence |-> Replayed("fixture", FixtureDay, FixtureDay)]
                \in TaskStates
          BY <5>1, EvidenceFormed DEF TaskStates, Served
        <5> QED
          BY <1>t, <2>7, <4>2, <5>2, TaskUpdate DEF FallBack
      <4>3. CASE k \notin DOMAIN cache /\ ~ HasFixture
        <5>1. [stage |-> "missing"] \in TaskStates
          BY DEF TaskStates, Plain
        <5> QED
          BY <1>t, <2>7, <4>3, <5>1, TaskUpdate DEF FallBack
      <4> QED
        BY <4>1, <4>2, <4>3
    <3> QED
      BY <2>7, <3>1 DEF FallBack, TypeOK, account, TaskStates
  <2> QED
    BY <2>1, <2>2, <2>3, <2>4, <2>5, <2>6, <2>7 DEF Load
<1>b. CASE \E r \in Rankings : Discover(r) \/ DiscoverOffline(r)
  <2> PICK r \in Rankings : Discover(r) \/ DiscoverOffline(r)
    BY <1>b
  <2> PICK enough \in BOOLEAN : Proceed(r, enough) /\ overpass' \in BOOLEAN
    BY DEF Discover, DiscoverOffline, TypeOK
  <2>1. UNCHANGED <<today, task, shared, cache, account>>
    BY DEF Discover, DiscoverOffline
  <2>2. /\ pc' \in [Rankings -> {"idle", "loading"} \cup Over]
        /\ began' \in [Rankings -> [day : 1 .. Days, warm : BOOLEAN]]
    <3>1. [day |-> today, warm |-> shared # None] \in [day : 1 .. Days, warm : BOOLEAN]
      <4>1. (shared # None) \in BOOLEAN
        OBVIOUS
      <4> QED
        BY <4>1 DEF TypeOK
    <3>2. CASE enough \/ HasFixture
      BY <3>1, <3>2 DEF Proceed, TypeOK
    <3>3. CASE ~ (enough \/ HasFixture)
      BY <3>3 DEF Proceed, TypeOK, Over
    <3> QED
      BY <3>2, <3>3
  <2> QED
    BY <2>1, <2>2 DEF TypeOK, account
<1>c. CASE \E r \in Rankings : Finish(r)
  BY <1>c DEF Finish, TypeOK, Over, account
<1>d. CASE Midnight
  BY <1>d, HotelAssumption DEF Midnight, TypeOK, account
<1>e. CASE UNCHANGED vars
  BY <1>e DEF vars, TypeOK, account
<1> QED
  BY <1>a, <1>b, <1>c, <1>d, <1>e DEF Next, Idle

(***************************************************************************)
(* Rankings, tasks, shared evidence, cache and account keep well-formed    *)
(* state, whatever the loads of build_live_hotel_heat_analysis_service do. *)
(***************************************************************************)
THEOREM HotelTypeCorrect == Spec => []TypeOK
  BY TypeInit, TypeNext, PTL DEF Spec
-----------------------------------------------------------------------------
(***************************************************************************)
(* What one step of load(component) can do.  A load starts only while its  *)
(* ranking waits for it; it takes the shared evidence, asks, gives up,     *)
(* comes back with the provider's evidence, or replays.                    *)
(***************************************************************************)
Takes(r, c) ==
  /\ Stage(r, c) = "idle" /\ Shares(c)
  /\ task'[r][c] = [stage |-> "served", evidence |-> shared]
  /\ UNCHANGED <<shared, cache>>

Asks(r, c) ==
  /\ Stage(r, c) = "idle" /\ ~ Shares(c)
  /\ task'[r][c] = [stage |-> "running", day |-> today]
  /\ UNCHANGED <<shared, cache>>

GivesUp(r, c) ==
  /\ Stage(r, c) \in {"running", "failed"} \/ ~ Shares(c)
  /\ Stage(r, c)' \in {"failed", "missing", "refused"}
  /\ UNCHANGED <<shared, cache>>

Brings(r, c) ==
  /\ Stage(r, c) = "running"
  /\ task'[r][c] = [stage |-> "served", evidence |-> Live(task[r][c].day, today)]
  /\ shared' = IF c \in Tcm THEN Live(task[r][c].day, today) ELSE shared
  /\ CachePut(<<Product(c), today>>, task[r][c].day)

Replays(r, c) ==
  /\ Stage(r, c) = "failed"
  /\ \E s \in {"cache", "fixture"}, a \in 0 .. Days, b \in 0 .. Days :
       task'[r][c] = [stage |-> "served", evidence |-> Replayed(s, a, b)]
  /\ UNCHANGED <<shared, cache>>

\* Every action of a load is one of these, and leaves every other load alone.
LEMMA LoadOutcome ==
  ASSUME TypeOK, NEW r \in Rankings, NEW c \in Components, Load(r, c)
  PROVE  /\ UNCHANGED <<today, pc, began>>
         /\ \A q \in Rankings, d \in Components :
              <<q, d>> # <<r, c>> => task'[q][d] = task[q][d]
         /\ Stage(r, c) \in {"idle", "running", "failed"}
         /\ Stage(r, c) = "idle" => pc[r] = "loading"
         /\ Takes(r, c) \/ Asks(r, c) \/ GivesUp(r, c) \/ Brings(r, c) \/ Replays(r, c)
<1>t. task \in [Rankings -> [Components -> TaskStates]]
  BY DEF TypeOK, TaskStates
<1>u. ASSUME NEW state, Becomes(r, c, state)
      PROVE  /\ task'[r][c] = state
             /\ \A q \in Rankings, d \in Components :
                  <<q, d>> # <<r, c>> => task'[q][d] = task[q][d]
  BY <1>t, <1>u DEF Becomes
<1>1. CASE TakeShared(r, c)
  BY <1>1, <1>u DEF TakeShared, Takes
<1>2. CASE Ask(r, c)
  BY <1>2, <1>u DEF Ask, Asks
<1>3. CASE Refused(r, c)
  BY <1>3, <1>u DEF Refused, GivesUp, Stage
<1>4. CASE Keep(r, c)
  BY <1>4, <1>u DEF Keep, Brings
<1>5. CASE Reject(r, c)
  BY <1>5, <1>u DEF Reject, GivesUp, Stage
<1>6. CASE CallFails(r, c)
  BY <1>6, <1>u DEF CallFails, GivesUp, Stage
<1>7. CASE FallBack(r, c)
  <2> DEFINE k == <<Product(c), today>>
  <2>1. CASE k \in DOMAIN cache
    <3>1. task'[r][c] = [stage |-> "served", evidence |-> Replayed("cache", cache[k], today)]
      BY <1>7, <1>u, <2>1 DEF FallBack
    <3>2. cache[k] \in 0 .. Days /\ today \in 0 .. Days
      BY <2>1 DEF TypeOK
    <3>3. Replays(r, c)
      BY <1>7, <3>1, <3>2 DEF FallBack, Replays
    <3> QED
      BY <1>7, <1>u, <3>3 DEF FallBack
  <2>2. CASE k \notin DOMAIN cache /\ HasFixture
    <3>1. task'[r][c] = [stage |-> "served",
                         evidence |-> Replayed("fixture", FixtureDay, FixtureDay)]
      BY <1>7, <1>u, <2>2 DEF FallBack
    <3>2. FixtureDay \in 0 .. Days
      BY HotelAssumption DEF FixtureDay
    <3>3. Replays(r, c)
      BY <1>7, <3>1, <3>2 DEF FallBack, Replays
    <3> QED
      BY <1>7, <1>u, <3>3 DEF FallBack
  <2>3. CASE k \notin DOMAIN cache /\ ~ HasFixture
    BY <1>7, <1>u, <2>3 DEF FallBack, GivesUp, Stage
  <2> QED
    BY <2>1, <2>2, <2>3
<1> QED
  BY <1>1, <1>2, <1>3, <1>4, <1>5, <1>6, <1>7 DEF Load

\* The other steps leave loads, shared evidence and cache alone.
LEMMA OtherOutcome ==
  ASSUME Next \/ UNCHANGED vars,
         ~ \E r \in Rankings, c \in Components : Load(r, c)
  PROVE  /\ UNCHANGED <<task, shared, cache>>
         /\ \/ \E r \in Rankings : Discover(r) \/ DiscoverOffline(r) \/ Finish(r)
            \/ Midnight
            \/ UNCHANGED vars
  BY DEF Next, Idle, vars, Discover, DiscoverOffline, Finish, Midnight

-----------------------------------------------------------------------------
(***************************************************************************)
(* A ranking that has answered has no load at work, and answered with the  *)
(* refusal if one was refused: nothing of it runs before it starts to load *)
(* and after it has answered.                                              *)
(***************************************************************************)
PhaseInv ==
  \A r \in Rankings :
    /\ pc[r] = "idle" => \A c \in Components : Stage(r, c) = "idle"
    /\ pc[r] \in Over => \A c \in Components : Stage(r, c) \notin {"running", "failed"}
    /\ pc[r] \in {"ranked", "unavailable"} =>
         \A c \in Components : Stage(r, c) # "refused"

\* No ranking has begun at start-up.
LEMMA PhaseInit == Init => PhaseInv
  BY DEF Init, PhaseInv, Stage, Over

\* Loads act in rankings that wait for them; Discover starts them, Finish finds them settled.
LEMMA PhaseNext == TypeOK /\ PhaseInv /\ [Next]_vars => PhaseInv'
<1> SUFFICES ASSUME TypeOK, PhaseInv, [Next]_vars PROVE PhaseInv'
  OBVIOUS
<1>1. CASE \E r \in Rankings, c \in Components : Load(r, c)
  <2> PICK r \in Rankings, c \in Components : Load(r, c)
    BY <1>1
  <2>1. pc[r] = "loading"
    BY LoadOutcome DEF PhaseInv, TypeOK
  <2>2. \A q \in Rankings \ {r}, d \in Components : Stage(q, d)' = Stage(q, d)
    BY LoadOutcome DEF Stage
  <2>3. pc' = pc
    BY LoadOutcome
  <2> QED
    BY <2>1, <2>2, <2>3 DEF PhaseInv, Over
<1>2. CASE ~ \E r \in Rankings, c \in Components : Load(r, c)
  <2>1. \A q \in Rankings, d \in Components : Stage(q, d)' = Stage(q, d)
    BY <1>2, OtherOutcome DEF Stage
  <2>2. CASE \E r \in Rankings : Discover(r) \/ DiscoverOffline(r)
    <3> PICK r \in Rankings : Discover(r) \/ DiscoverOffline(r)
      BY <2>2
    <3>1. /\ pc[r] = "idle"
          /\ \E end \in {"loading", "unavailable"} : pc' = [pc EXCEPT ![r] = end]
      BY DEF Discover, DiscoverOffline, Proceed
    <3>2. \A c \in Components : Stage(r, c) = "idle"
      BY <3>1 DEF PhaseInv
    <3> QED
      BY <2>1, <3>1, <3>2 DEF PhaseInv, Over, TypeOK
  <2>3. CASE \E r \in Rankings : Finish(r)
    <3> PICK r \in Rankings : Finish(r)
      BY <2>3
    <3>1. /\ \A c \in Components : Stage(r, c) \in Settled
          /\ \E end \in {"overspent", "ranked", "unavailable"} :
               /\ pc' = [pc EXCEPT ![r] = end]
               /\ end # "overspent" => \A c \in Components : Stage(r, c) # "refused"
      BY DEF Finish, AnyIs
    <3> QED
      BY <2>1, <3>1 DEF PhaseInv, Over, Settled, TypeOK
  <2>4. CASE Midnight \/ UNCHANGED vars
    BY <2>1, <2>4 DEF PhaseInv, Midnight, vars
  <2> QED
    BY <1>2, <2>2, <2>3, <2>4, OtherOutcome
<1> QED
  BY <1>1, <1>2

(***************************************************************************)
(* A load that the budget refused is never degraded: the ranking it is     *)
(* part of is refused too.                                                 *)
(***************************************************************************)
THEOREM RefusalNeverDegraded == Spec => []RefusalSurfaces
<1>1. TypeOK /\ PhaseInv => RefusalSurfaces
  BY DEF PhaseInv, RefusalSurfaces, AnyIs
<1> QED
  BY <1>1, TypeInit, TypeNext, PhaseInit, PhaseNext, PTL DEF Spec

(***************************************************************************)
(* No call outlives its ranking: the `with' block of _load_components      *)
(* waits, and the exception of a refused load gets through it.             *)
(***************************************************************************)
THEOREM NothingLeftLoading == Spec => []NoCallOutlivesRanking
<1>1. TypeOK /\ PhaseInv => NoCallOutlivesRanking
  BY DEF PhaseInv, NoCallOutlivesRanking, AnyIs
<1> QED
  BY <1>1, TypeInit, TypeNext, PhaseInit, PhaseNext, PTL DEF Spec

-----------------------------------------------------------------------------
(***************************************************************************)
(* Evidence.  The shared heatmap is the provider's and is in the cache     *)
(* under its data date, which is what keeps PaidEvidenceIsKept inductive:  *)
(* a load that takes it did not put it there.  A ranking that began when   *)
(* it was shared still finds it.  A call asks for a day on which its       *)
(* ranking had begun.                                                      *)
(***************************************************************************)
SharedInv ==
  shared # None => /\ shared.source = "provider" /\ ~ shared.stale
                   /\ <<"tcm", shared.dataDate>> \in DOMAIN cache

WarmInv == \A r \in Rankings : began[r].warm => shared # None

DayInv ==
  \A r \in Rankings :
    /\ began[r].day <= today
    /\ \A c \in Components : Stage(r, c) = "running" => task[r][c].day >= began[r].day

EvidenceInv ==
  /\ SharedInv /\ WarmInv /\ DayInv
  /\ PaidEvidenceIsKept /\ WarmRankingPaysNoTcm /\ OnlySharedTcmIsOld

\* What the provider's evidence says of itself.
LEMMA LiveFields ==
  ASSUME NEW a, NEW b
  PROVE  /\ Live(a, b).source = "provider" /\ ~ Live(a, b).stale
         /\ Live(a, b).of = a /\ Live(a, b).dataDate = b
  BY DEF Live

\* What a replay says of itself.
LEMMA ReplayedFields ==
  ASSUME NEW s, NEW a, NEW b
  PROVE  Replayed(s, a, b).source = s /\ Replayed(s, a, b).stale
  BY DEF Replayed

\* Nothing is loaded, shared or cached at start-up.
LEMMA EvidenceInit == Init => EvidenceInv
<1> SUFFICES ASSUME Init PROVE EvidenceInv
  OBVIOUS
<1>1. \A r \in Rankings, c \in Components : Stage(r, c) = "idle"
  BY DEF Init, Stage
<1>2. \A r \in Rankings : began[r].day = 1 /\ began[r].warm = FALSE
  BY DEF Init
<1>3. SharedInv /\ WarmInv
  BY <1>2 DEF Init, SharedInv, WarmInv
<1>4. DayInv
  BY <1>1, <1>2 DEF Init, DayInv
<1> QED
  BY <1>1, <1>3, <1>4 DEF EvidenceInv, PaidEvidenceIsKept, WarmRankingPaysNoTcm, OnlySharedTcmIsOld

\* The steps of a load, of which only the provider's answer touches cache and shared
\* evidence.
LEMMA EvidenceLoad ==
  ASSUME TypeOK, EvidenceInv, NEW r \in Rankings, NEW c \in Components, Load(r, c)
  PROVE  EvidenceInv'
<1>f. /\ UNCHANGED <<today, pc, began>>
      /\ \A q \in Rankings, d \in Components :
           <<q, d>> # <<r, c>> => task'[q][d] = task[q][d]
  BY LoadOutcome
<1>g. \A q \in Rankings, d \in Components :
        <<q, d>> # <<r, c>> => Stage(q, d)' = Stage(q, d)
  BY <1>f DEF Stage
<1>d. today \in Nat /\ \A q \in Rankings : began[q].day \in Nat
  BY HotelAssumption DEF TypeOK
<1>1. CASE Takes(r, c)
  <2>1. /\ Stage(r, c)' = "served" /\ task'[r][c].evidence = shared
        /\ c \in Tcm /\ shared # None /\ Product(c) = "tcm"
        /\ UNCHANGED <<shared, cache>>
    BY <1>1 DEF Takes, Stage, Shares, Product
  <2>2. SharedInv' /\ WarmInv'
    BY <1>f, <2>1 DEF EvidenceInv, SharedInv, WarmInv
  <2>3. DayInv'
    BY <1>f, <1>g, <2>1 DEF EvidenceInv, DayInv
  <2>4. PaidEvidenceIsKept'
    BY <1>f, <1>g, <2>1 DEF EvidenceInv, SharedInv, PaidEvidenceIsKept
  <2>5. WarmRankingPaysNoTcm'
    BY <1>f, <1>g, <2>1 DEF EvidenceInv, SharedInv, WarmRankingPaysNoTcm
  <2>6. OnlySharedTcmIsOld'
    BY <1>f, <1>g, <2>1 DEF EvidenceInv, OnlySharedTcmIsOld
  <2> QED
    BY <2>2, <2>3, <2>4, <2>5, <2>6 DEF EvidenceInv
<1>2. CASE Asks(r, c)
  <2>1. /\ Stage(r, c)' = "running" /\ task'[r][c].day = today
        /\ ~ (c \in Tcm /\ shared # None)
        /\ UNCHANGED <<shared, cache>>
    BY <1>2 DEF Asks, Stage, Shares
  <2>2. SharedInv' /\ WarmInv'
    BY <1>f, <2>1 DEF EvidenceInv, SharedInv, WarmInv
  <2>3. DayInv'
    BY <1>d, <1>f, <1>g, <2>1 DEF EvidenceInv, DayInv
  <2>4. PaidEvidenceIsKept'
    BY <1>f, <1>g, <2>1 DEF EvidenceInv, PaidEvidenceIsKept
  <2>5. WarmRankingPaysNoTcm'
    BY <1>f, <1>g, <2>1 DEF EvidenceInv, WarmInv, WarmRankingPaysNoTcm
  <2>6. OnlySharedTcmIsOld'
    BY <1>f, <1>g, <2>1 DEF EvidenceInv, OnlySharedTcmIsOld
  <2> QED
    BY <2>2, <2>3, <2>4, <2>5, <2>6 DEF EvidenceInv
<1>3. CASE GivesUp(r, c)
  <2>1. /\ Stage(r, c)' \in {"failed", "missing", "refused"}
        /\ Stage(r, c) \in {"running", "failed"} \/ ~ (c \in Tcm /\ shared # None)
        /\ UNCHANGED <<shared, cache>>
    BY <1>3 DEF GivesUp, Shares
  <2>2. SharedInv' /\ WarmInv'
    BY <1>f, <2>1 DEF EvidenceInv, SharedInv, WarmInv
  <2>3. DayInv'
    BY <1>f, <1>g, <2>1 DEF EvidenceInv, DayInv
  <2>4. PaidEvidenceIsKept'
    BY <1>f, <1>g, <2>1 DEF EvidenceInv, PaidEvidenceIsKept
  <2>5. WarmRankingPaysNoTcm'
    BY <1>f, <1>g, <2>1 DEF EvidenceInv, WarmInv, WarmRankingPaysNoTcm
  <2>6. OnlySharedTcmIsOld'
    BY <1>f, <1>g, <2>1 DEF EvidenceInv, OnlySharedTcmIsOld
  <2> QED
    BY <2>2, <2>3, <2>4, <2>5, <2>6 DEF EvidenceInv
<1>4. CASE Brings(r, c)
  <2> DEFINE e == Live(task[r][c].day, today)
  <2>1. /\ Stage(r, c) = "running" /\ Stage(r, c)' = "served" /\ task'[r][c].evidence = e
        /\ e.source = "provider" /\ ~ e.stale /\ e.of = task[r][c].day /\ e.dataDate = today
        /\ shared' = IF c \in Tcm THEN e ELSE shared
    BY <1>4, LiveFields DEF Brings, Stage
  <2>2. /\ DOMAIN cache \subseteq DOMAIN cache'
        /\ <<Product(c), today>> \in DOMAIN cache'
        /\ c \in Tcm => Product(c) = "tcm"
    BY <1>4 DEF Brings, CachePut, Product
  <2>3. e # None
    <3>1. today \in 0 .. Days /\ task[r][c].day \in 0 .. Days
      BY <2>1, RunningDay DEF TypeOK
    <3> QED
      BY <3>1, EvidenceFormed, EvidenceAssumption
  <2>4. SharedInv'
    BY <2>1, <2>2 DEF EvidenceInv, SharedInv
  <2>5. WarmInv'
    BY <1>f, <2>1, <2>3 DEF EvidenceInv, WarmInv
  <2>6. DayInv'
    BY <1>f, <1>g, <2>1 DEF EvidenceInv, DayInv
  <2>7. PaidEvidenceIsKept'
    BY <1>f, <1>g, <2>1, <2>2 DEF EvidenceInv, PaidEvidenceIsKept
  <2>8. WarmRankingPaysNoTcm'
    BY <1>f, <1>g, <2>1 DEF EvidenceInv, WarmRankingPaysNoTcm
  <2>9. OnlySharedTcmIsOld'
    BY <1>f, <1>g, <2>1 DEF EvidenceInv, DayInv, OnlySharedTcmIsOld
  <2> QED
    BY <2>4, <2>5, <2>6, <2>7, <2>8, <2>9 DEF EvidenceInv
<1>5. CASE Replays(r, c)
  <2>1. /\ Stage(r, c) = "failed" /\ Stage(r, c)' = "served"
        /\ task'[r][c].evidence.source # "provider" /\ task'[r][c].evidence.stale
        /\ UNCHANGED <<shared, cache>>
    BY <1>5, ReplayedFields DEF Replays, Stage
  <2>2. SharedInv' /\ WarmInv'
    BY <1>f, <2>1 DEF EvidenceInv, SharedInv, WarmInv
  <2>3. DayInv'
    BY <1>f, <1>g, <2>1 DEF EvidenceInv, DayInv
  <2>4. PaidEvidenceIsKept'
    BY <1>f, <1>g, <2>1 DEF EvidenceInv, PaidEvidenceIsKept
  <2>5. WarmRankingPaysNoTcm'
    BY <1>f, <1>g, <2>1 DEF EvidenceInv, WarmRankingPaysNoTcm
  <2>6. OnlySharedTcmIsOld'
    BY <1>f, <1>g, <2>1 DEF EvidenceInv, OnlySharedTcmIsOld
  <2> QED
    BY <2>2, <2>3, <2>4, <2>5, <2>6 DEF EvidenceInv
<1> QED
  BY <1>1, <1>2, <1>3, <1>4, <1>5, LoadOutcome

\* Beside the loads, only a ranking that begins and a midnight matter to it.
LEMMA EvidenceNext == TypeOK /\ PhaseInv /\ EvidenceInv /\ [Next]_vars => EvidenceInv'
<1> SUFFICES ASSUME TypeOK, PhaseInv, EvidenceInv, [Next]_vars PROVE EvidenceInv'
  OBVIOUS
<1>d. today \in Nat /\ \A q \in Rankings : began[q].day \in Nat
  BY HotelAssumption DEF TypeOK
<1>1. CASE \E r \in Rankings, c \in Components : Load(r, c)
  BY <1>1, EvidenceLoad
<1>2. CASE ~ \E r \in Rankings, c \in Components : Load(r, c)
  <2>f. UNCHANGED <<task, shared, cache>>
    BY <1>2, OtherOutcome
  <2>g. \A q \in Rankings, d \in Components : Stage(q, d)' = Stage(q, d)
    BY <2>f DEF Stage
  <2>1. SharedInv' /\ PaidEvidenceIsKept'
    BY <2>f, <2>g DEF EvidenceInv, SharedInv, PaidEvidenceIsKept
  <2>2. CASE UNCHANGED began /\ (UNCHANGED today \/ today' = today + 1)
    <3>1. WarmInv' /\ WarmRankingPaysNoTcm'
      BY <2>2, <2>f, <2>g DEF EvidenceInv, WarmInv, WarmRankingPaysNoTcm
    <3>2. DayInv' /\ OnlySharedTcmIsOld'
      BY <1>d, <2>2, <2>f, <2>g DEF EvidenceInv, DayInv, OnlySharedTcmIsOld
    <3> QED
      BY <2>1, <3>1, <3>2 DEF EvidenceInv
  <2>3. CASE \E r \in Rankings : Discover(r) \/ DiscoverOffline(r)
    <3> PICK r \in Rankings : Discover(r) \/ DiscoverOffline(r)
      BY <2>3
    <3>1. /\ pc[r] = "idle" /\ today' = today
          /\ \/ began' = began
             \/ began' = [began EXCEPT ![r] = [day |-> today, warm |-> shared # None]]
      BY DEF Discover, DiscoverOffline, Proceed
    <3>2. \A c \in Components : Stage(r, c) = "idle" /\ Stage(r, c)' = "idle"
      BY <2>g, <3>1 DEF PhaseInv
    <3>3. CASE began' = began
      BY <2>2, <3>1, <3>3
    <3>4. CASE began' = [began EXCEPT ![r] = [day |-> today, warm |-> shared # None]]
      <4>1. /\ began'[r].day = today
            /\ began'[r].warm => shared # None
            /\ \A q \in Rankings \ {r} : began'[q] = began[q]
        BY <3>4 DEF TypeOK
      <4>2. WarmInv' /\ WarmRankingPaysNoTcm'
        BY <2>f, <2>g, <3>2, <4>1 DEF EvidenceInv, WarmInv, WarmRankingPaysNoTcm
      <4>3. DayInv' /\ OnlySharedTcmIsOld'
        BY <1>d, <2>f, <2>g, <3>1, <3>2, <4>1 DEF EvidenceInv, DayInv, OnlySharedTcmIsOld
      <4> QED
        BY <2>1, <4>2, <4>3 DEF EvidenceInv
    <3> QED
      BY <3>1, <3>3, <3>4
  <2>4. CASE \E r \in Rankings : Finish(r)
    BY <2>2, <2>4 DEF Finish
  <2>5. CASE Midnight \/ UNCHANGED vars
    BY <2>2, <2>5 DEF Midnight, vars
  <2> QED
    BY <1>2, <2>3, <2>4, <2>5, OtherOutcome
<1> QED
  BY <1>1, <1>2

(***************************************************************************)
(* The shared TCM heatmap of build_live_hotel_heat_analysis_service is     *)
(* always the provider's: a replay is never handed on.                     *)
(***************************************************************************)
THEOREM SharedAlwaysLive == Spec => []SharedIsLive
<1>1. EvidenceInv => SharedIsLive
  BY DEF EvidenceInv, SharedInv, SharedIsLive
<1> QED
  BY <1>1, TypeInit, TypeNext, PhaseInit, PhaseNext, EvidenceInit, EvidenceNext, PTL DEF Spec

(***************************************************************************)
(* What a ranking paid for is in the cache under the day it is said to be  *)
(* of, also what it only took from another ranking, and for good.          *)
(***************************************************************************)
THEOREM PaidAlwaysKept == Spec => []PaidEvidenceIsKept
<1>1. EvidenceInv => PaidEvidenceIsKept
  BY DEF EvidenceInv
<1> QED
  BY <1>1, TypeInit, TypeNext, PhaseInit, PhaseNext, EvidenceInit, EvidenceNext, PTL DEF Spec

(***************************************************************************)
(* A ranking that begins once the TCM heatmap is shared pays for none.     *)
(***************************************************************************)
THEOREM WarmRankingIsCheap == Spec => []WarmRankingPaysNoTcm
<1>1. EvidenceInv => WarmRankingPaysNoTcm
  BY DEF EvidenceInv
<1> QED
  BY <1>1, TypeInit, TypeNext, PhaseInit, PhaseNext, EvidenceInit, EvidenceNext, PTL DEF Spec

(***************************************************************************)
(* Nothing but the shared TCM heatmap is ever older than its ranking and   *)
(* unmarked: the other components are live or marked as replays.           *)
(***************************************************************************)
THEOREM OldEvidenceMarked == Spec => []OnlySharedTcmIsOld
<1>1. EvidenceInv => OnlySharedTcmIsOld
  BY DEF EvidenceInv
<1> QED
  BY <1>1, TypeInit, TypeNext, PhaseInit, PhaseNext, EvidenceInit, EvidenceNext, PTL DEF Spec

-----------------------------------------------------------------------------
(***************************************************************************)
(* The account: one unit is held for every running call.  Asking adds one  *)
(* call to those that run and one unit to those held; every end of a call  *)
(* takes away one of each.                                                 *)
(***************************************************************************)
RunningCalls == {rc \in Rankings \X Components : Stage(rc[1], rc[2]) = "running"}

\* Finitely many calls can run: there are four components at most.
LEMMA RunningFinite == IsFiniteSet(RunningCalls)
<1>1. IsFiniteSet({"night", "day", "hot_hours", "persistence"})
  <2>1. IsFiniteSet({"night"})
    BY FS_Singleton
  <2>2. IsFiniteSet({"night"} \cup {"day"})
    BY <2>1, FS_AddElement
  <2>3. IsFiniteSet(({"night"} \cup {"day"}) \cup {"hot_hours"})
    BY <2>2, FS_AddElement
  <2>4. IsFiniteSet((({"night"} \cup {"day"}) \cup {"hot_hours"}) \cup {"persistence"})
    BY <2>3, FS_AddElement
  <2>5. (({"night"} \cup {"day"}) \cup {"hot_hours"}) \cup {"persistence"}
          = {"night", "day", "hot_hours", "persistence"}
    OBVIOUS
  <2> QED
    BY <2>4, <2>5
<1>2. IsFiniteSet(Components)
  BY <1>1, FS_Subset, HotelAssumption
<1>3. IsFiniteSet(Rankings \X Components)
  BY <1>2, FS_Product, HotelAssumption
<1> QED
  BY <1>3, FS_Subset DEF RunningCalls

\* Nothing runs and nothing is held at start-up.
LEMMA AccountInit == Init => UnitsMatchCalls
<1> SUFFICES ASSUME Init PROVE UnitsMatchCalls
  OBVIOUS
<1>1. RunningCalls = {}
  BY DEF Init, RunningCalls, Stage
<1>2. Cardinality(RunningCalls) = 0
  BY <1>1, FS_EmptySet
<1> QED
  BY <1>2, HotelAssumption DEF Init, UnitsMatchCalls, RunningCalls

\* One step of a load changes units and running calls alike.
LEMMA AccountLoad ==
  ASSUME TypeOK, UnitsMatchCalls, NEW r \in Rankings, NEW c \in Components, Load(r, c)
  PROVE  UnitsMatchCalls'
<1> DEFINE rc == <<r, c>>
<1>f. \A q \in Rankings, d \in Components :
        <<q, d>> # rc => Stage(q, d)' = Stage(q, d)
  BY LoadOutcome DEF Stage
<1>h. held = Cardinality(RunningCalls) /\ spent \in Nat /\ held \in Nat
  BY DEF UnitsMatchCalls, RunningCalls, TypeOK
<1>t. task \in [Rankings -> [Components -> TaskStates]]
  BY DEF TypeOK, TaskStates
<1>u. ASSUME NEW state, Becomes(r, c, state)
      PROVE  Stage(r, c)' = state.stage
  BY <1>t, <1>u DEF Becomes, Stage
<1>q. ASSUME held' = Cardinality(RunningCalls'), Budget # None => spent' + held' <= Budget
      PROVE  UnitsMatchCalls'
  BY <1>q DEF UnitsMatchCalls, RunningCalls
<1>1. CASE Ask(r, c)
  <2>1. /\ Stage(r, c) = "idle" /\ Stage(r, c)' = "running"
        /\ held' = held + 1 /\ spent' = spent
        /\ Budget \in Int => spent + held < Budget
    BY <1>1, <1>u DEF Ask, Account!Reserve
  <2>2. RunningCalls' = RunningCalls \cup {rc} /\ rc \notin RunningCalls
    BY <1>f, <2>1 DEF RunningCalls
  <2>3. Cardinality(RunningCalls') = Cardinality(RunningCalls) + 1
    BY <2>2, RunningFinite, FS_AddElement
  <2> QED
    BY <1>h, <1>q, <2>1, <2>3, HotelAssumption
<1>2. CASE Keep(r, c) \/ Reject(r, c) \/ CallFails(r, c)
  <2>1. /\ Stage(r, c) = "running" /\ Stage(r, c)' # "running"
        /\ held' = held - 1 /\ spent' \in {spent, spent + 1}
    BY <1>2, <1>u DEF Keep, Reject, CallFails, Account!Spend, Account!Refund
  <2>2. RunningCalls' = RunningCalls \ {rc} /\ rc \in RunningCalls
    BY <1>f, <2>1 DEF RunningCalls
  <2>3. Cardinality(RunningCalls') = Cardinality(RunningCalls) - 1
    BY <2>2, RunningFinite, FS_RemoveElement
  <2>4. Budget # None => spent + held <= Budget
    BY DEF UnitsMatchCalls
  <2> QED
    BY <1>h, <1>q, <2>1, <2>3, <2>4, HotelAssumption
<1>3. CASE TakeShared(r, c) \/ Refused(r, c) \/ FallBack(r, c)
  <2>1. /\ Stage(r, c) # "running" /\ Stage(r, c)' # "running"
        /\ UNCHANGED <<spent, held>>
    BY <1>3, <1>u DEF TakeShared, Refused, FallBack, account
  <2>2. RunningCalls' = RunningCalls
    BY <1>f, <2>1 DEF RunningCalls
  <2>4. Budget # None => spent + held <= Budget
    BY DEF UnitsMatchCalls
  <2> QED
    BY <1>h, <1>q, <2>1, <2>2, <2>4
<1> QED
  BY <1>1, <1>2, <1>3 DEF Load

\* No other step touches either.
LEMMA AccountNext == TypeOK /\ UnitsMatchCalls /\ [Next]_vars => UnitsMatchCalls'
<1> SUFFICES ASSUME TypeOK, UnitsMatchCalls, [Next]_vars PROVE UnitsMatchCalls'
  OBVIOUS
<1>1. CASE \E r \in Rankings, c \in Components : Load(r, c)
  BY <1>1, AccountLoad
<1>2. CASE ~ \E r \in Rankings, c \in Components : Load(r, c)
  <2>1. UNCHANGED <<task, spent, held>>
    BY <1>2 DEF Next, Idle, vars, account, Discover, DiscoverOffline, Finish, Midnight
  <2> QED
    BY <2>1 DEF UnitsMatchCalls, Stage
<1> QED
  BY <1>1, <1>2

(***************************************************************************)
(* However the loads of several rankings end, no unit of the core budget   *)
(* leaks and the budget is kept.                                           *)
(***************************************************************************)
THEOREM HotelAccountSafe == Spec => []UnitsMatchCalls
  BY TypeInit, TypeNext, AccountInit, AccountNext, PTL DEF Spec

-----------------------------------------------------------------------------
(* Chapter II.  The trip analyses, whose theorems hold of their part. *)

LEMMA TripConstants ==
  /\ Trips!IsFiniteSet(Rankings)
  /\ Hours \subseteq Int /\ Hours # {} /\ Trips!IsFiniteSet(Hours)
  /\ TripBudget \in Nat \cup {None} /\ None \notin Int
  /\ MaxConcurrency \in Nat \ {0}
BY TripsAssumption DEF Trips!TripAssumption, IsFiniteSet, Trips!IsFiniteSet

\* Every step of the whole is a step of the trip analyses or none of theirs.
LEMMA TripsAreRuns == PartSpec => Trips!Spec
<1>1. PartInit => Trips!Init
  BY DEF PartInit
<1>2. [PartNext]_partVars => [Trips!Next]_Trips!vars
  BY DEF PartNext, partVars, RankingsNext, TripsNext, tripVars, Trips!vars
<1> QED BY <1>1, <1>2, PTL DEF PartSpec, Trips!Spec

(***************************************************************************)
(* Through failures, refusals and fallbacks of any number of threads, no   *)
(* unit of the budget leaks and the budget is kept.                        *)
(***************************************************************************)
THEOREM TripUnitsKept == PartSpec => []TripUnitsMatchCalls
<1>1. Trips!Spec => []Trips!UnitsMatchCalls
  BY TripConstants, Trips!TripAccountSafe
<1>2. Trips!UnitsMatchCalls => TripUnitsMatchCalls
  BY DEF TripUnitsMatchCalls
<1> QED BY <1>1, <1>2, TripsAreRuns, PTL

(***************************************************************************)
(* The estimate of _budget_refusal covers whatever an admitted analysis    *)
(* does: only one that ran while another one ran is ever stopped half-way  *)
(* by the budget.                                                          *)
(***************************************************************************)
THEOREM AdmissionSuffices == PartSpec => []AdmittedAloneFinishes
<1>1. Trips!Spec => []Trips!AdmittedAloneFinishes
  BY TripConstants, Trips!EstimateSuffices
<1>2. Trips!AdmittedAloneFinishes => AdmittedAloneFinishes
  BY DEF AdmittedAloneFinishes
<1> QED BY <1>1, <1>2, TripsAreRuns, PTL

(***************************************************************************)
(* When an analysis has answered, no call of it is running or will be      *)
(* charged: whatever ended it, the pool was waited for.                    *)
(***************************************************************************)
THEOREM NothingLeftInThePool == PartSpec => []NoCallOutlivesAnalysis
<1>1. Trips!Spec => []Trips!NoCallOutlivesAnalysis
  BY TripConstants, Trips!NothingLeftRunning
<1>2. Trips!NoCallOutlivesAnalysis => NoCallOutlivesAnalysis
  BY DEF NoCallOutlivesAnalysis
<1> QED BY <1>1, <1>2, TripsAreRuns, PTL

(***************************************************************************)
(* A decision labelled fresh rests on live answers only, although the      *)
(* analyses share a cache, and what it rests on can be replayed later.     *)
(***************************************************************************)
THEOREM FreshIsLiveAndKept == PartSpec => []FreshMeansLive
<1>1. Trips!Spec => []Trips!FreshMeansLive
  BY TripConstants, Trips!FreshRestsOnKept
<1>2. Trips!FreshMeansLive => FreshMeansLive
  BY DEF FreshMeansLive
<1> QED BY <1>1, <1>2, TripsAreRuns, PTL
=============================================================================
