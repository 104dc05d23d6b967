------------------------- MODULE TripAnalysis_proofs -------------------------
(***************************************************************************)
(* Why concurrent trip analyses keep the account of the budget, leave no   *)
(* call behind and, when one has the server to itself, are never stopped   *)
(* half-way; for any number of analyses, hours and workers, any budget and *)
(* any fixtures.                                                           *)
(*                                                                         *)
(* The estimate is an argument about counting.  While an analysis is alone *)
(* the account moves by its own calls only, of which it has at most one    *)
(* for each product (AloneInv); the products are one fewer than the        *)
(* estimate, so that when it asks for the next one a unit is left.         *)
(***************************************************************************)
EXTENDS TripAnalysis, FiniteSetTheorems, TLAPS

States == {"idle"} \cup Underway \cup Settled

Types ==
  /\ pc \in [Analyses -> {"idle"} \cup Active \cup Over]
  /\ task \in [Analyses -> [Products -> States]]
  /\ spent \in Nat /\ held \in Nat
  /\ overlapped \subseteq Analyses

\* Only what the present phase asks for is underway, and nothing is asked for before it.
PhaseInv ==
  /\ \A a \in Analyses, p \in Products : task[a][p] \in Underway => p \in Wanted(a)
  /\ \A a \in Analyses : pc[a] = "idle" => \A p \in Products : task[a][p] = "idle"

\* The phases, in words.
LEMMA ActivePhases == Active = {"hours", "env", "exceedance", "persistence", "routes"}
<1>1. DOMAIN Phases = 1 .. 5
  BY DEF Phases
<1>2. /\ Phases[1] = "hours" /\ Phases[2] = "env" /\ Phases[3] = "exceedance"
      /\ Phases[4] = "persistence" /\ Phases[5] = "routes"
  BY DEF Phases
<1>3. 1 .. 5 = {1, 2, 3, 4, 5}
  OBVIOUS
<1> QED BY <1>1, <1>2, <1>3 DEF Active

-----------------------------------------------------------------------------
(***************************************************************************)
(* What a step of a call can do: one product of one analysis moves, the    *)
(* phases do not, and the account moves as CallBudget says.                *)
(***************************************************************************)
Reserves(a, p) ==
  /\ task[a][p] = "idle" /\ p \in Wanted(a) /\ Becomes(a, p, "running")
  /\ Budget \in Int => spent + held < Budget
  /\ held' = held + 1 /\ spent' = spent

Refuses(a, p) ==
  /\ task[a][p] = "idle" /\ p \in Wanted(a) /\ Becomes(a, p, "refused")
  /\ Budget # None /\ spent + held >= Budget
  /\ held' = held /\ spent' = spent

Ends(a, p) ==
  /\ task[a][p] = "running"
  /\ \E s \in {"paid", "failed"} : Becomes(a, p, s)
  /\ held > 0 /\ held' = held - 1 /\ spent' \in {spent, spent + 1}

Settles(a, p) ==
  /\ task[a][p] \in {"paid", "failed"}
  /\ \E s \in Served \cup {"failed", "unavailable"} : Becomes(a, p, s)
  /\ held' = held /\ spent' = spent

LEMMA CallOutcome ==
  ASSUME NEW a \in Analyses, NEW p \in Products, Call(a, p)
  PROVE  /\ UNCHANGED <<pc, overlapped>>
         /\ Reserves(a, p) \/ Refuses(a, p) \/ Ends(a, p) \/ Settles(a, p)
<1>1. CASE StartCall(a, p)
  BY <1>1 DEF StartCall, Account!Reserve, Reserves
<1>2. CASE RefuseCall(a, p)
  BY <1>2 DEF RefuseCall, Refuses
<1>3. CASE CallCompletes(a, p)
  BY <1>3 DEF CallCompletes, Account!Spend, Ends
<1>4. CASE CallFails(a, p)
  BY <1>4 DEF CallFails, Account!Spend, Account!Refund, Ends
<1>5. CASE Keep(a, p) \/ Reject(a, p)
  BY <1>5 DEF Keep, Reject, Settles, Served
<1>6. CASE FallBack(a, p)
  BY <1>6 DEF FallBack, Settles, Served
<1> QED BY <1>1, <1>2, <1>3, <1>4, <1>5, <1>6 DEF Call

\* What a step of an analysis itself can do: its phase moves, and nothing else.
Moves(a, phase) == Goto(a, phase) /\ UNCHANGED <<task, spent, held>>

Starts(a) ==
  /\ pc[a] = "idle" /\ Affordable /\ Moves(a, "hours")
  /\ overlapped' = LET others == {b \in Analyses : pc[b] \in Active}
                   IN IF others = {} THEN overlapped ELSE overlapped \cup others \cup {a}

Turned(a) == pc[a] = "idle" /\ Moves(a, "refused") /\ UNCHANGED overlapped

\* It has collected what it asked for; it ends overspent only if a call was refused.
Advances(a) ==
  /\ pc[a] \in Active
  /\ \A p \in Wanted(a) : task[a][p] \notin Underway
  /\ UNCHANGED overlapped
  /\ \E phase \in Active \cup Over :
       /\ Moves(a, phase)
       /\ phase = "overspent" => \E p \in Products : task[a][p] = "refused"

LEMMA OwnOutcome ==
  ASSUME NEW a \in Analyses, Begin(a) \/ RefuseUpFront(a) \/ Orchestrate(a)
  PROVE  Starts(a) \/ Turned(a) \/ Advances(a)
<1>1. CASE Begin(a)
  BY <1>1 DEF Begin, Starts, Moves
<1>2. CASE RefuseUpFront(a)
  BY <1>2 DEF RefuseUpFront, Turned, Moves
<1>s. Settled \cap Underway = {}
  BY DEF Settled, Served, Underway
<1>w. \A p \in Wanted(a) : p \in Products
  BY DEF Wanted, Products
<1>c. ASSUME Collected(a) PROVE \A p \in Wanted(a) : task[a][p] \notin Underway
  BY <1>c, <1>s DEF Collected
<1>3. CASE Overspend(a)
  BY <1>3, <1>c, <1>w DEF Overspend, RefusedAny, Advances, Moves, Over
<1>4. CASE HoursUnavailable(a) \/ HoursMerged(a) \/ DecisionUnavailable(a)
  BY <1>4, <1>c, ActivePhases
     DEF HoursUnavailable, HoursMerged, DecisionUnavailable, Advances, Moves, Over
<1>5. CASE NextPhase(a)
  <2>1. PICK i \in 2 .. 4 : pc[a] = Phases[i] /\ Goto(a, Phases[i + 1])
    BY <1>5 DEF NextPhase
  <2>2. i \in 1 .. 5 /\ i + 1 \in 1 .. 5 /\ 1 .. 5 = DOMAIN Phases
    BY DEF Phases
  <2>3. Phases[i] \in Active /\ Phases[i + 1] \in Active /\ Phases[i + 1] # "overspent"
    BY <2>2, ActivePhases DEF Active
  <2> QED BY <1>5, <1>c, <2>1, <2>3 DEF NextPhase, Advances, Moves
<1>6. CASE Publish(a)
  <2>1. Wanted(a) = {Corridor}
    BY <1>6 DEF Publish, Wanted
  <2>2. task[a][Corridor] \notin Underway
    BY <1>6 DEF Publish, Served, Underway
  <2> QED BY <1>6, <2>1, <2>2, ActivePhases DEF Publish, Advances, Moves, Over
<1> QED BY <1>1, <1>2, <1>3, <1>4, <1>5, <1>6 DEF Orchestrate

\* Every step is one of the two, or changes nothing.
LEMMA StepOutcome ==
  ASSUME [Next]_vars
  PROVE  \/ \E a \in Analyses, p \in Products :
              /\ UNCHANGED <<pc, overlapped>>
              /\ Reserves(a, p) \/ Refuses(a, p) \/ Ends(a, p) \/ Settles(a, p)
         \/ \E a \in Analyses : Starts(a) \/ Turned(a) \/ Advances(a)
         \/ UNCHANGED <<pc, task, spent, held, overlapped>>
<1>1. CASE \E a \in Analyses : \E p \in Products : Call(a, p)
  BY <1>1, CallOutcome
<1>2. CASE \E a \in Analyses : Begin(a) \/ RefuseUpFront(a) \/ Orchestrate(a)
  BY <1>2, OwnOutcome
<1>3. CASE Idle \/ UNCHANGED vars
  BY <1>3 DEF Idle, vars
<1> QED BY <1>1, <1>2, <1>3 DEF Next

-----------------------------------------------------------------------------
LEMMA TypesInit == Init => Types
  BY DEF Init, Types, States

LEMMA TypesNext == Types /\ [Next]_vars => Types'
<1> SUFFICES ASSUME Types, [Next]_vars PROVE Types'
  OBVIOUS
<1>1. CASE \E a \in Analyses, p \in Products :
             /\ UNCHANGED <<pc, overlapped>>
             /\ Reserves(a, p) \/ Refuses(a, p) \/ Ends(a, p) \/ Settles(a, p)
  <2> PICK a \in Analyses, p \in Products :
        /\ UNCHANGED <<pc, overlapped>>
        /\ Reserves(a, p) \/ Refuses(a, p) \/ Ends(a, p) \/ Settles(a, p)
    BY <1>1
  <2>1. ASSUME NEW s \in States, Becomes(a, p, s)
        PROVE  task' \in [Analyses -> [Products -> States]]
    BY <2>1 DEF Types, Becomes
  <2>2. {"running", "refused", "paid", "failed", "unavailable"} \cup Served \subseteq States
    BY DEF States, Underway, Settled
  <2>3. task' \in [Analyses -> [Products -> States]]
    BY <2>1, <2>2 DEF Reserves, Refuses, Ends, Settles
  <2>4. spent' \in Nat /\ held' \in Nat
    BY DEF Types, Reserves, Refuses, Ends, Settles
  <2> QED BY <2>3, <2>4 DEF Types
<1>2. CASE \E a \in Analyses : Starts(a) \/ Turned(a) \/ Advances(a)
  <2> PICK a \in Analyses : Starts(a) \/ Turned(a) \/ Advances(a)
    BY <1>2
  <2>1. PICK phase \in Active \cup Over : Moves(a, phase)
    BY ActivePhases DEF Starts, Turned, Advances, Over
  <2>2. pc' \in [Analyses -> {"idle"} \cup Active \cup Over]
    BY <2>1 DEF Types, Moves, Goto
  <2>3. overlapped' \subseteq Analyses
    BY DEF Types, Starts, Turned, Advances
  <2> QED BY <2>1, <2>2, <2>3 DEF Types, Moves
<1>3. CASE UNCHANGED <<pc, task, spent, held, overlapped>>
  BY <1>3 DEF Types
<1> QED BY <1>1, <1>2, <1>3, StepOutcome

-----------------------------------------------------------------------------
LEMMA PhaseInit == Init => PhaseInv
  BY DEF Init, PhaseInv, Underway

\* A call is of a product its analysis is in the phase of.
LEMMA CallWanted ==
  ASSUME PhaseInv, NEW a \in Analyses, NEW p \in Products,
         Reserves(a, p) \/ Refuses(a, p) \/ Ends(a, p) \/ Settles(a, p)
  PROVE  p \in Wanted(a)
<1>1. task[a][p] = "idle" => p \in Wanted(a)
  BY DEF Reserves, Refuses, Ends, Settles
<1>2. task[a][p] # "idle" => task[a][p] \in Underway
  BY DEF Reserves, Refuses, Ends, Settles, Underway
<1> QED BY <1>1, <1>2 DEF PhaseInv

LEMMA PhaseNext == Types /\ PhaseInv /\ [Next]_vars => PhaseInv'
<1> SUFFICES ASSUME Types, PhaseInv, [Next]_vars PROVE PhaseInv'
  OBVIOUS
<1>w. ASSUME NEW a \in Analyses, pc'[a] = pc[a] PROVE Wanted(a)' = Wanted(a)
  BY <1>w DEF Wanted
<1>1. CASE \E a \in Analyses, p \in Products :
             /\ UNCHANGED <<pc, overlapped>>
             /\ Reserves(a, p) \/ Refuses(a, p) \/ Ends(a, p) \/ Settles(a, p)
  <2> PICK a \in Analyses, p \in Products :
        /\ UNCHANGED <<pc, overlapped>>
        /\ Reserves(a, p) \/ Refuses(a, p) \/ Ends(a, p) \/ Settles(a, p)
    BY <1>1
  <2>1. p \in Wanted(a)
    BY CallWanted
  <2>2. pc[a] # "idle"
    BY <2>1, Zenon DEF Wanted
  <2>3. \A b \in Analyses, q \in Products :
          b # a \/ q # p => task'[b][q] = task[b][q]
    BY DEF Types, Reserves, Refuses, Ends, Settles, Becomes
  <2>4. ASSUME NEW b \in Analyses, NEW q \in Products, task'[b][q] \in Underway
        PROVE  q \in Wanted(b)'
    BY <1>w, <2>1, <2>3, <2>4 DEF PhaseInv
  <2>5. ASSUME NEW b \in Analyses, pc'[b] = "idle", NEW q \in Products
        PROVE  task'[b][q] = "idle"
    BY <2>2, <2>3, <2>5 DEF PhaseInv
  <2> QED BY <2>4, <2>5 DEF PhaseInv
<1>2. CASE \E a \in Analyses : Starts(a) \/ Turned(a) \/ Advances(a)
  <2> PICK a \in Analyses : Starts(a) \/ Turned(a) \/ Advances(a)
    BY <1>2
  <2>1. PICK phase \in Active \cup Over : Moves(a, phase)
    BY ActivePhases DEF Starts, Turned, Advances, Over
  <2>2. pc'[a] # "idle" /\ \A b \in Analyses \ {a} : pc'[b] = pc[b]
    BY <2>1, ActivePhases DEF Types, Moves, Goto, Over
  <2>3. \A p \in Products : task[a][p] \notin Underway
    <3>1. CASE pc[a] = "idle"
      BY <3>1 DEF PhaseInv, Underway
    <3>2. CASE Advances(a)
      BY <3>2 DEF Advances, PhaseInv
    <3> QED BY <3>1, <3>2 DEF Starts, Turned
  <2>4. ASSUME NEW b \in Analyses, NEW q \in Products, task'[b][q] \in Underway
        PROVE  q \in Wanted(b)'
    BY <1>w, <2>1, <2>2, <2>3, <2>4 DEF PhaseInv, Moves
  <2> QED BY <2>1, <2>2, <2>4 DEF PhaseInv, Moves
<1>3. CASE UNCHANGED <<pc, task, spent, held, overlapped>>
  BY <1>3, <1>w DEF PhaseInv
<1> QED BY <1>1, <1>2, <1>3, StepOutcome

\* Nothing is underway of an analysis that is not in one of its phases.
LEMMA QuietOutside ==
  ASSUME PhaseInv, NEW a \in Analyses, pc[a] \notin Active, NEW p \in Products
  PROVE  task[a][p] \notin Underway
<1>1. Wanted(a) = {}
  BY ActivePhases, Zenon DEF Wanted
<1> QED BY <1>1 DEF PhaseInv

(***************************************************************************)
(* When an analysis has answered, no call of it is running or will be      *)
(* charged: whatever ended it, the pool was waited for.                    *)
(***************************************************************************)
THEOREM NothingLeftRunning == Spec => []NoCallOutlivesAnalysis
<1>1. PhaseInv => NoCallOutlivesAnalysis
  <2>1. Over \cap Active = {}
    BY ActivePhases DEF Over
  <2> QED BY <2>1, QuietOutside DEF NoCallOutlivesAnalysis
<1> QED BY <1>1, TypesInit, TypesNext, PhaseInit, PhaseNext, PTL DEF Spec

-----------------------------------------------------------------------------
RunningCalls == {ap \in Analyses \X Products : task[ap[1]][ap[2]] = "running"}

\* The products: one for each hour and four more.
LEMMA ProductsCounted ==
  /\ IsFiniteSet(Products) /\ Cardinality(Products) = Cardinality(Hours) + 4
  /\ Cardinality(Hours) \in Nat
<1> DEFINE f == [h \in Hours |-> <<"hour", h>>]
<1>1. IsFiniteSet(Hours) /\ Cardinality(Hours) \in Nat
  BY TripAssumption, FS_CardinalityType
<1>2. f \in Bijection(Hours, HourProducts)
  <2>1. f \in [Hours -> HourProducts]
    BY DEF HourProducts
  <2>2. \A h, k \in Hours : f[h] = f[k] => h = k
    OBVIOUS
  <2>3. \A p \in HourProducts : \E h \in Hours : f[h] = p
    BY DEF HourProducts
  <2> QED BY <2>1, <2>2, <2>3 DEF Bijection, Injection, Surjection, IsInjective
<1>3. IsFiniteSet(HourProducts) /\ Cardinality(HourProducts) = Cardinality(Hours)
  BY <1>1, <1>2, FS_Bijection DEF ExistsBijection
<1> DEFINE P1 == HourProducts \cup {Env}
           P2 == P1 \cup {Exceedance}
           P3 == P2 \cup {Persistence}
           P4 == P3 \cup {Corridor}
<1>4. /\ Env \notin HourProducts /\ Exceedance \notin P1 /\ Persistence \notin P2
      /\ Corridor \notin P3
  BY DEF HourProducts, Env, Exceedance, Persistence, Corridor
<1>5. IsFiniteSet(P1) /\ Cardinality(P1) = Cardinality(HourProducts) + 1
  BY <1>3, <1>4, FS_AddElement
<1>6. IsFiniteSet(P2) /\ Cardinality(P2) = Cardinality(P1) + 1
  BY <1>4, <1>5, FS_AddElement
<1>7. IsFiniteSet(P3) /\ Cardinality(P3) = Cardinality(P2) + 1
  BY <1>4, <1>6, FS_AddElement
<1>8. IsFiniteSet(P4) /\ Cardinality(P4) = Cardinality(P3) + 1
  BY <1>4, <1>7, FS_AddElement
<1>9. Products = P4
  BY DEF Products
<1> HIDE DEF P1, P2, P3, P4
<1> QED BY <1>1, <1>3, <1>5, <1>6, <1>7, <1>8, <1>9

LEMMA RunningFinite == IsFiniteSet(RunningCalls)
<1>1. IsFiniteSet(Analyses \X Products)
  BY TripAssumption, ProductsCounted, FS_Product
<1> QED BY <1>1, FS_Subset DEF RunningCalls

LEMMA AccountInit == Init => UnitsMatchCalls
<1> SUFFICES ASSUME Init PROVE UnitsMatchCalls
  OBVIOUS
<1>1. RunningCalls = {}
  BY DEF Init, RunningCalls
<1>2. Cardinality(RunningCalls) = 0
  BY <1>1, FS_EmptySet
<1> QED BY <1>2, TripAssumption DEF Init, UnitsMatchCalls, RunningCalls

LEMMA AccountNext == Types /\ UnitsMatchCalls /\ [Next]_vars => UnitsMatchCalls'
<1> SUFFICES ASSUME Types, UnitsMatchCalls, [Next]_vars PROVE UnitsMatchCalls'
  OBVIOUS
<1>h. /\ held = Cardinality(RunningCalls) /\ spent \in Nat /\ held \in Nat
      /\ Budget # None => Budget \in Nat /\ spent + held <= Budget
  BY TripAssumption DEF UnitsMatchCalls, RunningCalls, Types
<1>q. ASSUME held' = Cardinality(RunningCalls'), Budget # None => spent' + held' <= Budget
      PROVE  UnitsMatchCalls'
  BY <1>q DEF UnitsMatchCalls, RunningCalls
<1>1. CASE \E a \in Analyses, p \in Products :
             /\ UNCHANGED <<pc, overlapped>>
             /\ Reserves(a, p) \/ Refuses(a, p) \/ Ends(a, p) \/ Settles(a, p)
  <2> PICK a \in Analyses, p \in Products :
        Reserves(a, p) \/ Refuses(a, p) \/ Ends(a, p) \/ Settles(a, p)
    BY <1>1
  <2> DEFINE ap == <<a, p>>
  <2>f. \A b \in Analyses, q \in Products :
          <<b, q>> # ap => task'[b][q] = task[b][q]
    BY DEF Types, Reserves, Refuses, Ends, Settles, Becomes
  <2>u. ASSUME NEW s, Becomes(a, p, s) PROVE task'[a][p] = s
    BY <2>u DEF Types, Becomes
  <2>1. CASE Reserves(a, p)
    <3>1. task[a][p] # "running" /\ task'[a][p] = "running"
      BY <2>1, <2>u DEF Reserves
    <3>2. RunningCalls' = RunningCalls \cup {ap} /\ ap \notin RunningCalls
      BY <2>f, <3>1 DEF RunningCalls
    <3>3. Cardinality(RunningCalls') = Cardinality(RunningCalls) + 1
      BY <3>2, RunningFinite, FS_AddElement
    <3> QED BY <1>h, <1>q, <2>1, <3>3 DEF Reserves
  <2>2. CASE Ends(a, p)
    <3>1. task[a][p] = "running" /\ task'[a][p] # "running"
      BY <2>2, <2>u DEF Ends
    <3>2. RunningCalls' = RunningCalls \ {ap} /\ ap \in RunningCalls
      BY <2>f, <3>1 DEF RunningCalls
    <3>3. Cardinality(RunningCalls') = Cardinality(RunningCalls) - 1
      BY <3>2, RunningFinite, FS_RemoveElement
    <3> QED BY <1>h, <1>q, <2>2, <3>3 DEF Ends
  <2>3. CASE Refuses(a, p) \/ Settles(a, p)
    <3>1. task[a][p] # "running" /\ task'[a][p] # "running"
      BY <2>3, <2>u DEF Refuses, Settles, Served
    <3>2. RunningCalls' = RunningCalls
      BY <2>f, <3>1 DEF RunningCalls
    <3> QED BY <1>h, <1>q, <2>3, <3>2 DEF Refuses, Settles
  <2> QED BY <2>1, <2>2, <2>3
<1>2. CASE \E a \in Analyses : Starts(a) \/ Turned(a) \/ Advances(a)
  BY <1>2 DEF Starts, Turned, Advances, Moves, UnitsMatchCalls
<1>3. CASE UNCHANGED <<pc, task, spent, held, overlapped>>
  BY <1>3 DEF UnitsMatchCalls
<1> QED BY <1>1, <1>2, <1>3, StepOutcome

(***************************************************************************)
(* Through failures, refusals and fallbacks of any number of threads, no   *)
(* unit of the budget leaks and the budget is kept.                        *)
(***************************************************************************)
THEOREM TripAccountSafe == Spec => []UnitsMatchCalls
  BY TypesInit, TypesNext, AccountInit, AccountNext, PTL DEF Spec

-----------------------------------------------------------------------------
(***************************************************************************)
(* What an analysis that has the server to itself knows: no other one is   *)
(* in a phase, none of its calls was refused, and what it has not spent of *)
(* its estimate is still there.                                            *)
(***************************************************************************)
AloneInv ==
  \A a \in Analyses \ overlapped : pc[a] \in Active =>
    /\ \A b \in Analyses \ {a} : pc[b] \notin Active
    /\ \A p \in Products : task[a][p] # "refused"
    /\ Budget # None => spent + held + Needed <= Budget + Cardinality(StartedCalls(a))

LEMMA StartedCounted ==
  ASSUME NEW a \in Analyses
  PROVE  IsFiniteSet(StartedCalls(a)) /\ Cardinality(StartedCalls(a)) \in Nat
BY ProductsCounted, FS_Subset, FS_CardinalityType DEF StartedCalls

LEMMA AloneInit == Init => AloneInv /\ AdmittedAloneFinishes
  BY ActivePhases DEF Init, AloneInv, AdmittedAloneFinishes

LEMMA AloneCall ==
  ASSUME Types, PhaseInv, AloneInv, NEW a \in Analyses, NEW p \in Products,
         UNCHANGED <<pc, overlapped>>,
         Reserves(a, p) \/ Refuses(a, p) \/ Ends(a, p) \/ Settles(a, p)
  PROVE  AloneInv'
<1> SUFFICES ASSUME NEW c \in Analyses \ overlapped, pc[c] \in Active
             PROVE  /\ \A b \in Analyses \ {c} : pc[b] \notin Active
                    /\ \A q \in Products : task'[c][q] # "refused"
                    /\ Budget # None =>
                         spent' + held' + Needed <= Budget + Cardinality(StartedCalls(c)')
  BY DEF AloneInv, Needed
<1>0. \A b \in Analyses \ {c} : pc[b] \notin Active
  BY DEF AloneInv
<1>1. c = a
  <2>1. Wanted(a) # {}
    BY CallWanted
  <2>2. pc[a] \in Active
    BY <2>1, ActivePhases, Zenon DEF Wanted
  <2> QED BY <1>0, <2>2
<1>2. /\ \A q \in Products : task[a][q] # "refused"
      /\ Budget # None => spent + held + Needed <= Budget + Cardinality(StartedCalls(a))
  BY <1>1 DEF AloneInv
<1>3. \A q \in Products \ {p} : task'[a][q] = task[a][q]
  BY DEF Types, Reserves, Refuses, Ends, Settles, Becomes
<1>u. ASSUME NEW s, Becomes(a, p, s) PROVE task'[a][p] = s
  BY <1>u DEF Types, Becomes
<1>n. /\ spent \in Nat /\ held \in Nat /\ (Budget # None => Budget \in Nat)
      /\ Needed = Cardinality(Hours) + 5 /\ Cardinality(Hours) \in Nat
      /\ Cardinality(StartedCalls(a)) \in Nat
  BY TripAssumption, ProductsCounted, StartedCounted DEF Types, Needed, FixedCallAllowance
<1>4. CASE Reserves(a, p)
  <2>1. task[a][p] = "idle" /\ task'[a][p] = "running"
    BY <1>4, <1>u DEF Reserves
  <2>2. StartedCalls(a)' = StartedCalls(a) \cup {p} /\ p \notin StartedCalls(a)
    BY <1>3, <2>1 DEF StartedCalls
  <2>3. Cardinality(StartedCalls(a)') = Cardinality(StartedCalls(a)) + 1
    BY <2>2, StartedCounted, FS_AddElement
  <2> QED BY <1>0, <1>1, <1>2, <1>3, <1>4, <1>n, <2>1, <2>3 DEF Reserves
<1>5. CASE Refuses(a, p)
  <2>1. StartedCalls(a) \subseteq Products \ {p}
    BY <1>5 DEF Refuses, StartedCalls
  <2>2. /\ IsFiniteSet(Products \ {p})
        /\ Cardinality(Products \ {p}) = Cardinality(Hours) + 3
    BY <1>n, ProductsCounted, FS_RemoveElement
  <2>3. Cardinality(StartedCalls(a)) <= Cardinality(Hours) + 3
    BY <2>1, <2>2, FS_Subset
  <2>4. FALSE
    BY <1>2, <1>5, <1>n, <2>3 DEF Refuses
  <2> QED BY <2>4
<1>6. CASE Ends(a, p) \/ Settles(a, p)
  <2>1. /\ task[a][p] \notin {"idle", "refused"}
        /\ task'[a][p] \notin {"idle", "refused"}
    BY <1>6, <1>u DEF Ends, Settles, Served
  <2>2. StartedCalls(a)' = StartedCalls(a)
    BY <1>3, <2>1 DEF StartedCalls
  <2>3. spent' + held' <= spent + held /\ spent' \in Nat /\ held' \in Nat
    BY <1>6, <1>n DEF Ends, Settles
  <2>4. \A q \in Products : task'[a][q] # "refused"
    BY <1>2, <1>3, <2>1
  <2>5. Budget # None => spent' + held' + Needed <= Budget + Cardinality(StartedCalls(a)')
    <3>1. Cardinality(StartedCalls(a)') = Cardinality(StartedCalls(a))
      BY <2>2
    <3>2. ASSUME Budget # None
          PROVE  spent + held + Needed <= Budget + Cardinality(StartedCalls(a))
      BY <1>2, <3>2
    <3>3. \A x, y, n, b, k \in Int : y <= x /\ x + n <= b + k => y + n <= b + k
      OBVIOUS
    <3>4. /\ spent + held \in Int /\ spent' + held' \in Int /\ Needed \in Int
          /\ Cardinality(StartedCalls(a)) \in Int /\ (Budget # None => Budget \in Int)
      BY <1>n, <2>3
    <3> QED BY <2>3, <3>1, <3>2, <3>3, <3>4
  <2> QED BY <1>0, <1>1, <2>4, <2>5
<1> QED BY <1>4, <1>5, <1>6

LEMMA AloneOwn ==
  ASSUME Types, PhaseInv, AloneInv, AdmittedAloneFinishes, NEW a \in Analyses,
         Starts(a) \/ Turned(a) \/ Advances(a)
  PROVE  AloneInv' /\ AdmittedAloneFinishes'
<1>1. PICK phase \in Active \cup Over : Moves(a, phase)
  BY ActivePhases DEF Starts, Turned, Advances, Over
<1>2. pc'[a] = phase /\ \A b \in Analyses \ {a} : pc'[b] = pc[b]
  BY <1>1 DEF Types, Moves, Goto
<1>3. overlapped \subseteq overlapped'
  BY DEF Starts, Turned, Advances
<1>m. UNCHANGED <<task, spent, held>>
  BY <1>1 DEF Moves
<1>4. ASSUME NEW c \in Analyses \ overlapped', pc'[c] \in Active
      PROVE  /\ \A b \in Analyses \ {c} : pc'[b] \notin Active
             /\ \A q \in Products : task[c][q] # "refused"
             /\ Budget # None =>
                  spent + held + Needed <= Budget + Cardinality(StartedCalls(c))
  <2>1. CASE Starts(a)
    <3>1. {b \in Analyses : pc[b] \in Active} = {}
      BY <1>2, <1>4, <2>1 DEF Starts
    <3>2. c = a
      BY <1>2, <1>4, <3>1
    <3>3. \A q \in Products : task[a][q] = "idle"
      BY <2>1 DEF Starts, PhaseInv
    <3>4. StartedCalls(a) = {}
      BY <3>3 DEF StartedCalls
    <3>5. Cardinality(StartedCalls(a)) = 0
      BY <3>4, FS_EmptySet
    <3>6. Budget # None => spent + held + Needed <= Budget + 0
      <4>1. /\ spent \in Nat /\ held \in Nat /\ (Budget # None => Budget \in Nat)
            /\ Needed \in Nat
        BY TripAssumption, ProductsCounted DEF Types, Needed, FixedCallAllowance
      <4> QED BY <2>1, <4>1 DEF Starts, Affordable
    <3> QED BY <1>2, <3>1, <3>2, <3>3, <3>5, <3>6
  <2>2. CASE Turned(a)
    <3>1. pc'[a] \notin Active
      BY <2>2, ActivePhases DEF Turned, Moves, Goto, Types
    <3>2. c # a /\ pc[c] \in Active
      BY <1>2, <1>4, <3>1
    <3> QED BY <1>2, <1>3, <1>4, <3>1, <3>2 DEF AloneInv
  <2>3. CASE Advances(a)
    <3>1. pc[a] \in Active
      BY <2>3 DEF Advances
    <3>2. c = a
      BY <1>2, <1>3, <1>4, <3>1 DEF AloneInv
    <3> QED BY <1>2, <1>3, <1>4, <3>1, <3>2 DEF AloneInv
  <2> QED BY <2>1, <2>2, <2>3
<1>5. ASSUME NEW c \in Analyses, pc'[c] = "overspent" PROVE c \in overlapped'
  <2>1. CASE pc[c] = "overspent"
    BY <1>3, <2>1 DEF AdmittedAloneFinishes
  <2>2. CASE pc[c] # "overspent"
    <3>1. c = a /\ phase = "overspent"
      BY <1>2, <1>5, <2>2
    <3>2. Advances(a)
      BY <1>2, <3>1 DEF Starts, Turned, Moves, Goto, Types
    <3>3. pc[a] \in Active /\ \E p \in Products : task[a][p] = "refused"
      <4>1. PICK next \in Active \cup Over :
              /\ Moves(a, next)
              /\ next = "overspent" => \E p \in Products : task[a][p] = "refused"
        BY <3>2 DEF Advances
      <4>2. next = phase
        BY <1>2, <4>1 DEF Moves, Goto, Types
      <4> QED BY <3>1, <3>2, <4>1, <4>2 DEF Advances
    <3> QED BY <1>3, <3>1, <3>3 DEF AloneInv
  <2> QED BY <2>1, <2>2
<1>6. \A c \in Analyses : StartedCalls(c)' = StartedCalls(c)
  BY <1>m DEF StartedCalls
<1>7. AloneInv'
  BY <1>4, <1>6, <1>m DEF AloneInv, Needed
<1> QED BY <1>5, <1>7 DEF AdmittedAloneFinishes

LEMMA AloneNext ==
  Types /\ PhaseInv /\ AloneInv /\ AdmittedAloneFinishes /\ [Next]_vars
    => AloneInv' /\ AdmittedAloneFinishes'
<1> SUFFICES ASSUME Types, PhaseInv, AloneInv, AdmittedAloneFinishes, [Next]_vars
             PROVE  AloneInv' /\ AdmittedAloneFinishes'
  OBVIOUS
<1>1. CASE \E a \in Analyses, p \in Products :
             /\ UNCHANGED <<pc, overlapped>>
             /\ Reserves(a, p) \/ Refuses(a, p) \/ Ends(a, p) \/ Settles(a, p)
  BY <1>1, AloneCall DEF AdmittedAloneFinishes
<1>2. CASE \E a \in Analyses : Starts(a) \/ Turned(a) \/ Advances(a)
  BY <1>2, AloneOwn
<1>3. CASE UNCHANGED <<pc, task, spent, held, overlapped>>
  BY <1>3 DEF AloneInv, AdmittedAloneFinishes, StartedCalls, Needed
<1> QED BY <1>1, <1>2, <1>3, StepOutcome

(***************************************************************************)
(* The estimate of _budget_refusal covers whatever an admitted analysis    *)
(* does: only one that ran while another one ran is ever stopped half-way  *)
(* by the budget.                                                          *)
(***************************************************************************)
THEOREM EstimateSuffices == Spec => []AdmittedAloneFinishes
  BY TypesInit, TypesNext, PhaseInit, PhaseNext, AloneInit, AloneNext, PTL DEF Spec

-----------------------------------------------------------------------------
(***************************************************************************)
(* What the provider answered an analysis is in the cache, except for the  *)
(* corridor's heat, and stays there.                                       *)
(***************************************************************************)
KeptInv ==
  \A a \in Analyses, p \in Products \ {Corridor} : task[a][p] = "provider" => p \in cache

LEMMA KeptInit == Init => KeptInv
  BY DEF Init, KeptInv

\* Only Keep puts a product into the state "provider", and nothing leaves the cache.
LEMMA KeptNext == Types /\ KeptInv /\ [Next]_vars => KeptInv'
<1> SUFFICES ASSUME Types, KeptInv, [Next]_vars PROVE KeptInv'
  OBVIOUS
<1>1. ASSUME NEW a \in Analyses, NEW p \in Products, Keep(a, p) PROVE KeptInv'
  BY <1>1 DEF Keep, Becomes, Types, KeptInv
<1>2. ASSUME NEW a \in Analyses, NEW p \in Products,
             NEW s, s # "provider", Becomes(a, p, s), UNCHANGED cache
      PROVE  KeptInv'
  BY <1>2 DEF Becomes, Types, KeptInv
<1>3. ASSUME NEW a \in Analyses, NEW p \in Products, Call(a, p) PROVE KeptInv'
  <2>1. CASE StartCall(a, p) \/ RefuseCall(a, p)
    BY <1>2, <2>1 DEF StartCall, RefuseCall
  <2>2. CASE CallCompletes(a, p) \/ CallFails(a, p) \/ Reject(a, p)
    BY <1>2, <2>2 DEF CallCompletes, CallFails, Reject
  <2>3. CASE FallBack(a, p)
    BY <1>2, <2>3 DEF FallBack
  <2> QED BY <1>1, <1>3, <2>1, <2>2, <2>3 DEF Call
<1>4. CASE \E a \in Analyses : Begin(a) \/ RefuseUpFront(a) \/ Orchestrate(a)
  <2>1. UNCHANGED <<task, cache>>
    BY <1>4 DEF Begin, RefuseUpFront, Orchestrate, Overspend, HoursUnavailable, HoursMerged,
                NextPhase, DecisionUnavailable, Publish
  <2> QED BY <2>1 DEF KeptInv
<1>5. CASE Idle \/ UNCHANGED vars
  BY <1>5 DEF Idle, vars, KeptInv
<1> QED BY <1>3, <1>4, <1>5 DEF Next

(***************************************************************************)
(* A fresh decision rests on live answers only, whatever other analyses    *)
(* put into the cache it falls back to, and each of them can be replayed.  *)
(***************************************************************************)
THEOREM FreshRestsOnKept == Spec => []FreshMeansLive
<1>1. ASSUME KeptInv PROVE FreshMeansLive
  <2> SUFFICES ASSUME NEW a \in Analyses, Fresh(a), NEW p \in SurvivingHours(a) \cup {Env},
                      task[a][p] \in Served
               PROVE  task[a][p] = "provider" /\ p \in cache
    BY DEF FreshMeansLive
  <2>1. p \in Products \ {Corridor}
    BY DEF SurvivingHours, HourProducts, Products, Env, Corridor
  <2>2. task[a][p] \notin Replayed
    BY DEF Fresh, HeatStale, HasEnv
  <2>3. task[a][p] = "provider"
    BY <2>2 DEF Served, Replayed
  <2> QED BY <1>1, <2>1, <2>3 DEF KeptInv
<1> QED BY <1>1, TypesInit, TypesNext, KeptInit, KeptNext, PTL DEF Spec

-----------------------------------------------------------------------------
(***************************************************************************)
(* That an analysis ends (AnalysesEnd) is liveness and is left to TLC.     *)
(* What it rests on besides fairness is proved: the states of a product    *)
(* and the phases of an analysis are ordered, every step of an analysis    *)
(* moves one of them on, and nothing moves one back.                       *)
(***************************************************************************)
TaskRank(state) ==
  CASE state = "idle" -> 0 [] state = "running" -> 1 [] state = "paid" -> 2
    [] state = "failed" -> 3 [] OTHER -> 4

PhaseRank(phase) ==
  CASE phase = "idle" -> 0 [] phase = "hours" -> 1 [] phase = "env" -> 2
    [] phase = "exceedance" -> 3 [] phase = "persistence" -> 4 [] phase = "routes" -> 5
    [] OTHER -> 6

\* The moves an analysis still has, which are finitely many.
TasksLeft(a) == {pk \in Products \X (1 .. 4) : TaskRank(task[a][pk[1]]) < pk[2]}
PhasesLeft(a) == {k \in 1 .. 6 : PhaseRank(pc[a]) < k}
Left(a) == <<TasksLeft(a), PhasesLeft(a)>>

\* A step of a call moves its product's task on and leaves the phase.
LEMMA CallMovesOn ==
  ASSUME NEW a \in Analyses, NEW p \in Products, Call(a, p)
  PROVE  /\ pc' = pc
         /\ \E state : Becomes(a, p, state) /\ TaskRank(task[a][p]) < TaskRank(state)
<1>1. CASE StartCall(a, p)
  BY <1>1 DEF StartCall, TaskRank
<1>2. CASE RefuseCall(a, p)
  BY <1>2 DEF RefuseCall, TaskRank
<1>3. CASE CallCompletes(a, p)
  BY <1>3 DEF CallCompletes, TaskRank
<1>4. CASE CallFails(a, p)
  BY <1>4 DEF CallFails, TaskRank
<1>5. CASE Keep(a, p)
  BY <1>5 DEF Keep, TaskRank
<1>6. CASE Reject(a, p)
  BY <1>6 DEF Reject, TaskRank
<1>7. CASE FallBack(a, p)
  <2>1. PICK state \in {"cache", "fixture", "unavailable"} : Becomes(a, p, state)
    BY <1>7 DEF FallBack
  <2> QED BY <1>7, <2>1 DEF FallBack, TaskRank
<1> QED BY <1>1, <1>2, <1>3, <1>4, <1>5, <1>6, <1>7 DEF Call

\* A step of the orchestration moves the phase on and leaves the tasks.
LEMMA OrchestrateMovesOn ==
  ASSUME NEW a \in Analyses, Begin(a) \/ RefuseUpFront(a) \/ Orchestrate(a)
  PROVE  /\ task' = task
         /\ \E phase : Goto(a, phase) /\ PhaseRank(pc[a]) < PhaseRank(phase)
<1>1. CASE Begin(a)
  BY <1>1 DEF Begin, PhaseRank
<1>2. CASE RefuseUpFront(a)
  BY <1>2 DEF RefuseUpFront, PhaseRank
<1>3. CASE Overspend(a)
  BY <1>3, ActivePhases DEF Overspend, PhaseRank
<1>4. CASE HoursUnavailable(a)
  BY <1>4 DEF HoursUnavailable, PhaseRank
<1>5. CASE HoursMerged(a)
  BY <1>5 DEF HoursMerged, PhaseRank
<1>6. CASE NextPhase(a)
  <2>1. PICK i \in 2 .. 4 : pc[a] = Phases[i] /\ Goto(a, Phases[i + 1])
    BY <1>6 DEF NextPhase
  <2>2. /\ Phases[2] = "env" /\ Phases[3] = "exceedance"
        /\ Phases[4] = "persistence" /\ Phases[5] = "routes"
    BY DEF Phases
  <2>3. i = 2 \/ i = 3 \/ i = 4
    OBVIOUS
  <2>4. PhaseRank(Phases[i]) < PhaseRank(Phases[i + 1])
    BY <2>2, <2>3 DEF PhaseRank
  <2> QED BY <1>6, <2>1, <2>4 DEF NextPhase
<1>7. CASE DecisionUnavailable(a)
  BY <1>7 DEF DecisionUnavailable, PhaseRank
<1>8. CASE Publish(a)
  <2>1. PICK end \in {"published", "unavailable"} : Goto(a, end)
    BY <1>8 DEF Publish
  <2> QED BY <1>8, <2>1 DEF Publish, PhaseRank
<1> QED BY <1>1, <1>2, <1>3, <1>4, <1>5, <1>6, <1>7, <1>8 DEF Orchestrate

\* Every step of an analysis takes a move away and gives none back, to it or to another.
LEMMA MovesOn ==
  ASSUME Types, NEW a \in Analyses, Begin(a) \/ RefuseUpFront(a) \/ RunsOn(a)
  PROVE  /\ TasksLeft(a)' \subseteq TasksLeft(a) /\ PhasesLeft(a)' \subseteq PhasesLeft(a)
         /\ Left(a)' # Left(a)
         /\ \A b \in Analyses \ {a} : Left(b)' = Left(b)
<1>0. \A s : TaskRank(s) \in 0 .. 4 /\ PhaseRank(s) \in 0 .. 6
  BY DEF TaskRank, PhaseRank
<1> HIDE DEF TaskRank, PhaseRank
<1>1. CASE \E p \in Products : Call(a, p)
  <2>1. PICK p \in Products : Call(a, p)
    BY <1>1
  <2>2. PICK state : Becomes(a, p, state) /\ TaskRank(task[a][p]) < TaskRank(state)
    BY <2>1, CallMovesOn
  <2>3. pc' = pc
    BY <2>1, CallMovesOn
  <2>4. /\ task'[a][p] = state
        /\ \A q \in Products \ {p} : task'[a][q] = task[a][q]
        /\ \A b \in Analyses \ {a} : task'[b] = task[b]
    BY <2>2 DEF Becomes, Types
  <2>5. TasksLeft(a)' \subseteq TasksLeft(a)
    BY <1>0, <2>2, <2>4 DEF TasksLeft
  <2>6. TasksLeft(a)' # TasksLeft(a)
    <3>1. <<p, TaskRank(state)>> \in Products \X (1 .. 4)
      BY <1>0, <2>2
    <3>2. <<p, TaskRank(state)>> \in TasksLeft(a)
      BY <2>2, <3>1 DEF TasksLeft
    <3>3. <<p, TaskRank(state)>> \notin TasksLeft(a)'
      BY <1>0, <2>4 DEF TasksLeft
    <3> QED BY <3>2, <3>3
  <2>7. PhasesLeft(a)' = PhasesLeft(a) /\ \A b \in Analyses \ {a} : Left(b)' = Left(b)
    BY <2>3, <2>4 DEF PhasesLeft, TasksLeft, Left
  <2> QED BY <2>5, <2>6, <2>7 DEF Left
<1>2. CASE Begin(a) \/ RefuseUpFront(a) \/ Orchestrate(a)
  <2>1. PICK phase : Goto(a, phase) /\ PhaseRank(pc[a]) < PhaseRank(phase)
    BY <1>2, OrchestrateMovesOn
  <2>2. task' = task
    BY <1>2, OrchestrateMovesOn
  <2>3. pc'[a] = phase /\ \A b \in Analyses \ {a} : pc'[b] = pc[b]
    BY <2>1 DEF Goto, Types
  <2>4. PhasesLeft(a)' \subseteq PhasesLeft(a)
    BY <1>0, <2>1, <2>3 DEF PhasesLeft
  <2>5. PhasesLeft(a)' # PhasesLeft(a)
    <3>1. PhaseRank(phase) \in PhasesLeft(a) /\ PhaseRank(phase) \notin PhasesLeft(a)'
      BY <1>0, <2>1, <2>3 DEF PhasesLeft
    <3> QED BY <3>1
  <2>6. TasksLeft(a)' = TasksLeft(a) /\ \A b \in Analyses \ {a} : Left(b)' = Left(b)
    BY <2>2, <2>3 DEF PhasesLeft, TasksLeft, Left
  <2> QED BY <2>4, <2>5, <2>6 DEF Left
<1> QED BY <1>1, <1>2 DEF RunsOn

\* The moves left are finitely many.
LEMMA LeftFinite ==
  ASSUME NEW a \in Analyses PROVE IsFiniteSet(TasksLeft(a)) /\ IsFiniteSet(PhasesLeft(a))
<1>1. IsFiniteSet(1 .. 4) /\ IsFiniteSet(1 .. 6)
  <2>1. 1 \in Int /\ 4 \in Int /\ 6 \in Int
    OBVIOUS
  <2>2. IsFiniteSet(1 .. 4)
    BY ONLY <2>1, FS_Interval, Zenon
  <2>3. IsFiniteSet(1 .. 6)
    BY ONLY <2>1, FS_Interval, Zenon
  <2> QED BY <2>2, <2>3
<1>2. IsFiniteSet(Products)
  BY ProductsCounted
<1>3. IsFiniteSet(Products \X (1 .. 4))
  BY <1>1, <1>2, FS_Product
<1>4. TasksLeft(a) \subseteq Products \X (1 .. 4) /\ PhasesLeft(a) \subseteq 1 .. 6
  BY DEF TasksLeft, PhasesLeft
<1> HIDE DEF TasksLeft, PhasesLeft
<1> QED BY <1>1, <1>3, <1>4, FS_Subset

(***************************************************************************)
(* No analysis runs for ever: of the finitely many moves it has, each of   *)
(* its steps takes one away, whichever products fail, are refused or       *)
(* replayed, and no step of another analysis gives one back; so no product *)
(* is ever asked for twice (trip_adapters.py:323-560).                     *)
(***************************************************************************)
THEOREM AnalysesRunDown ==
  Spec => /\ [](\A a \in Analyses : IsFiniteSet(TasksLeft(a)) /\ IsFiniteSet(PhasesLeft(a)))
          /\ [][\A a \in Analyses :
                  /\ TasksLeft(a)' \subseteq TasksLeft(a) /\ PhasesLeft(a)' \subseteq PhasesLeft(a)
                  /\ RunsOn(a) => Left(a)' # Left(a)]_vars
<1> DEFINE Finite == \A a \in Analyses : IsFiniteSet(TasksLeft(a)) /\ IsFiniteSet(PhasesLeft(a))
           Down == \A a \in Analyses :
             /\ TasksLeft(a)' \subseteq TasksLeft(a) /\ PhasesLeft(a)' \subseteq PhasesLeft(a)
             /\ RunsOn(a) => Left(a)' # Left(a)
<1>1. Finite
  BY LeftFinite
<1>2. Types /\ [Next]_vars => [Down]_vars
  <2> SUFFICES ASSUME Types, Next, ~ UNCHANGED vars PROVE Down
    BY DEF Down
  <2>1. PICK a \in Analyses : Begin(a) \/ RefuseUpFront(a) \/ RunsOn(a)
    BY DEF Next, Idle, RunsOn
  <2>2. \A b \in Analyses : RunsOn(b) => Left(b)' # Left(b)
    BY MovesOn
  <2>3. /\ TasksLeft(a)' \subseteq TasksLeft(a) /\ PhasesLeft(a)' \subseteq PhasesLeft(a)
        /\ \A b \in Analyses \ {a} : Left(b)' = Left(b)
    BY <2>1, MovesOn
  <2>4. \A b \in Analyses \ {a} :
          TasksLeft(b)' \subseteq TasksLeft(b) /\ PhasesLeft(b)' \subseteq PhasesLeft(b)
    BY <2>3 DEF Left
  <2> QED BY <2>2, <2>3, <2>4
<1> HIDE DEF Finite, Down
<1>3. Spec => []Finite /\ [][Down]_vars
  BY <1>1, <1>2, TypesInit, TypesNext, PTL DEF Spec
<1> QED BY <1>3 DEF Finite, Down

=============================================================================
