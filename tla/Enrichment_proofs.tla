------------------------- MODULE Enrichment_proofs --------------------------
(***************************************************************************)
(* Theorems about the drill-down endpoint, for any number of requests, any *)
(* daily budget and each way of constructing the service: what the         *)
(* provider started is counted, nothing that lies in the cache is paid     *)
(* over unasked, and what is served is recent.                             *)
(***************************************************************************)
EXTENDS Enrichment, TLAPS

(***************************************************************************)
(* Part 1.  The invariant.                                                 *)
(***************************************************************************)
Places == InProgress \cup {"new", "done"}
Asking == {"calling", "running", "answered", "settling", "storing"}
Entries == [retrieved : Nat, date : Nat, of : Nat]
Queries == [kind : Kinds, refresh : BOOLEAN]

TypeInv ==
  /\ nextReservation \in Nat
  /\ DOMAIN reservations \subseteq 1 .. nextReservation
  /\ config \in Configs
  /\ clock \in Nat
  /\ cache \in [Kinds -> Entries \cup {None}]
  /\ at \in [Calls -> Places]
  /\ request \in [Calls -> Queries \cup {None}]
  /\ \A r \in Calls : at[r] \in InProgress => request[r] \in Queries
  /\ unit \in [Calls -> Nat \cup {None}]
  /\ asked \in [Calls -> Nat \cup {None}]
  /\ \A r \in Calls : at[r] \in Asking => asked[r] \in Nat
  /\ DOMAIN answer = Calls
  /\ began \in [Calls -> Nat]
  /\ looks \in [Calls -> [1 .. 2 -> Entries \cup {None}]]
  /\ charged \subseteq Calls

\* The request holds a unit: its own, or, while its call runs, its client's.
Holding(r) ==
  \/ config.managed /\ at[r] = "running"
  \/ OwnReservation /\ at[r] \in {"calling", "running", "answered", "settling"}

\* A reservation is of one request, which holds it.
UnitInv ==
  /\ \A r \in Calls : Holding(r) => unit[r] \in DOMAIN reservations
  /\ \A r \in Calls : unit[r] # None => unit[r] \in 1 .. nextReservation
  /\ \A r, s \in Calls : unit[r] = unit[s] => r = s \/ unit[r] = None
  /\ \A i \in DOMAIN reservations : \E r \in Calls : Holding(r) /\ unit[r] = i
  /\ \A r \in Calls : at[r] \in {"running", "answered", "settling", "storing"} => config.live
  /\ \A r \in Calls : at[r] = "settling" => OwnReservation

GivenBack(r) ==
  answer[r] \in {Unavailable("provider_failure"), Unavailable("provider_payload_unusable")}

\* An activity is recorded when it ends, or, on a reservation of the service's own,
\* before its result is stored.
ChargeInv ==
  \A r \in charged :
    /\ at[r] \in {"answered", "settling", "storing", "done"}
    /\ \/ Recorded(ProviderId(r))
       \/ OwnReservation /\ at[r] \in {"answered", "settling"}
       \/ OwnReservation /\ at[r] = "done" /\ GivenBack(r)

Paying(r) == at[r] \in Asking \cup {"dispatching"} \/ r \in charged

\* What the first look found was stale then and stays so, unless it is replaced.
LookInv ==
  /\ \A r \in Calls : at[r] = "looked" /\ looks[r][1] # None => clock - looks[r][1].retrieved > Ttl
  /\ \A r \in Calls : Paying(r) /\ ~ request[r].refresh =>
       looks[r][1] = None \/ looks[r][2] # looks[r][1]

DayOf(tick) == tick \div TicksPerDay + 1

\* A request spans two ticks at most, so the day it asked about is today or yesterday.
DateInv ==
  /\ \A r \in Calls : at[r] \in InProgress => clock \in began[r] .. began[r] + 1
  /\ \A r \in Calls : at[r] \in Asking => asked[r] \in DayOf(began[r]) .. Today
  /\ \A k \in Kinds : cache[k] # None =>
       /\ cache[k].retrieved <= clock
       /\ cache[k].date = DayOf(cache[k].retrieved)
       /\ cache[k].date - cache[k].of \in {0, 1}

EnrichmentInv == TypeInv /\ UnitInv /\ ChargeInv /\ LookInv

-----------------------------------------------------------------------------
(***************************************************************************)
(* Part 2.  The steps, by what they do to the ledger.                      *)
(***************************************************************************)

\* A request of the day's budget is let through with a number nobody has had.
LEMMA Authorized ==
  ASSUME TypeInv, Authorize(EnrichmentSlot(Today))
  PROVE  /\ Granted(EnrichmentSlot(Today)) = nextReservation + 1
         /\ nextReservation' = nextReservation + 1
         /\ records' = records
         /\ DOMAIN reservations' = DOMAIN reservations \cup {nextReservation + 1}
<1>1. Limit(EnrichmentSlot(Today)) # None
  BY DEF Authorize, Refuses, EnrichmentSlot
<1>2. Granted(EnrichmentSlot(Today)) = nextReservation + 1 /\ nextReservation + 1 # None
  BY <1>1, NoneAssumption DEF Granted, TypeInv
<1> QED BY <1>2 DEF Authorize

\* A unit that is settled is taken from the reservations, and no other.
LEMMA Popping ==
  ASSUME TypeInv, NEW r \in Calls, unit[r] # None, Pop(unit[r])
  PROVE  DOMAIN reservations' = DOMAIN reservations \ {unit[r]}
BY DEF Pop, Popped

\* What a client writes is one record, and settles the unit.
LEMMA Recording ==
  ASSUME TypeInv, NEW r \in Calls, unit[r] # None, NEW usage, Record(usage, unit[r])
  PROVE  /\ DOMAIN reservations' = DOMAIN reservations \ {unit[r]}
         /\ nextReservation' = nextReservation
         /\ Recorded(usage.id)'
         /\ \A s \in Calls : Recorded(ProviderId(s)) => Recorded(ProviderId(s))'
<1>1. DOMAIN reservations' = DOMAIN reservations \ {unit[r]}
  BY Popping DEF Record
<1> QED BY <1>1 DEF Record, Recorded

\* Days are numbers, grow with the clock, and by one at most from a tick to the next.
LEMMA DayFacts ==
  ASSUME ClockAssumption
  PROVE  /\ \A a \in Nat : DayOf(a) \in Nat
         /\ \A a, b \in Nat : a <= b => DayOf(a) <= DayOf(b)
         /\ \A a, b \in Nat : b <= a + TicksPerDay => DayOf(b) <= DayOf(a) + 1
         /\ Ttl \in Nat /\ TicksPerDay \in Nat \ {0}
         /\ Today = DayOf(clock)
<1>1. Ttl \in Nat /\ TicksPerDay \in Nat \ {0}
  BY DEF ClockAssumption
<1>2. \A a \in Nat : DayOf(a) \in Nat
  BY <1>1 DEF DayOf
<1>3. \A a, b \in Nat : a <= b => DayOf(a) <= DayOf(b)
  BY <1>1 DEF DayOf
<1>4. \A a, b \in Nat : b <= a + TicksPerDay => DayOf(b) <= DayOf(a) + 1
  BY <1>1 DEF DayOf
<1> QED BY <1>1, <1>2, <1>3, <1>4 DEF DayOf, Today

\* A request answered at its place, with the ledger and everything else as it was.
Answered(r) ==
  /\ \E state : answer' = [answer EXCEPT ![r] = state]
  /\ at' = [at EXCEPT ![r] = "done"]
  /\ UNCHANGED <<ledgerVars, config, clock, cache, request, unit, asked, began, looks, charged>>

\* The steps that do so, none of them from a place where a unit is held.
LEMMA AnsweredSteps ==
  ASSUME NEW r \in Calls,
         \/ TurnAway(r) \/ InvalidRefresh(r) \/ ServeFresh(r) \/ RefuseStale(r)
         \/ NoAdapter(r) \/ NoEstimate(r) \/ Exhausted(r) \/ FixtureAnswers(r)
  PROVE  /\ Answered(r)
         /\ ~ OwnReservation \/ at[r] # "calling"
         /\ at[r] \in {"new", "looking", "looked", "dispatching", "calling"}
BY DEF TurnAway, Turned, InvalidRefresh, ServeFresh, RefuseStale, NoAdapter, NoEstimate,
       Exhausted, FixtureAnswers, Answers, Moves, Answered, OwnReservation

-----------------------------------------------------------------------------
(***************************************************************************)
(* Part 3.  The types.                                                     *)
(***************************************************************************)
\* Every step keeps the types.
LEMMA StepType ==
  ASSUME ClockAssumption, TypeInv, [Next]_enrichmentVars
  PROVE  TypeInv'
<1> USE DEF ledgerVars, requestVars, Places, InProgress, Asking
<1>0. Today \in Nat
  BY DayFacts DEF TypeInv
<1>1. ASSUME NEW r \in Calls, Answered(r) PROVE TypeInv'
  BY <1>1 DEF TypeInv, Answered
<1>2. ASSUME NEW r \in Calls, NEW kind \in Kinds, NEW refresh \in BOOLEAN, Admit(r, kind, refresh)
      PROVE  TypeInv'
  BY <1>2 DEF TypeInv, Admit, Moves, Queries
<1>3. ASSUME NEW r \in Calls, MissFresh(r) \/ MissStale(r) PROVE TypeInv'
  <2>1. /\ UNCHANGED <<ledgerVars, config, clock, cache, request, unit, asked, answer, began,
                       charged>>
        /\ \E place \in {"looked", "dispatching"} : at' = [at EXCEPT ![r] = place]
        /\ \E i \in 1 .. 2 : looks' = [looks EXCEPT ![r][i] = Entry(r)]
        /\ at[r] \in InProgress
    BY <1>3 DEF MissFresh, MissStale, Moves
  <2>2. Entry(r) \in Entries \cup {None}
    BY <2>1 DEF TypeInv, Entry, Queries
  <2> QED BY <2>1, <2>2 DEF TypeInv
<1>4. ASSUME NEW r \in Calls, Dispatch(r) \/ Submit(r) PROVE TypeInv'
  <2>1. /\ UNCHANGED <<config, clock, cache, request, answer, began, looks, charged>>
        /\ at[r] \in InProgress
        /\ \/ at' = [at EXCEPT ![r] = "calling"] /\ asked' = [asked EXCEPT ![r] = Today]
           \/ /\ at' = [at EXCEPT ![r] = "running"] /\ at[r] = "calling"
              /\ asked' = asked
        /\ \/ UNCHANGED <<ledgerVars, unit>>
           \/ /\ Authorize(EnrichmentSlot(Today))
              /\ unit' = [unit EXCEPT ![r] = Granted(EnrichmentSlot(Today))]
    BY <1>4 DEF Dispatch, Submit, Moves
  <2>2. /\ nextReservation' \in Nat
        /\ DOMAIN reservations' \subseteq 1 .. nextReservation'
        /\ unit' \in [Calls -> Nat \cup {None}]
    BY <2>1, Authorized DEF TypeInv
  <2>3. /\ at' \in [Calls -> Places] /\ asked' \in [Calls -> Nat \cup {None}]
        /\ \A s \in Calls : at'[s] \in InProgress => at[s] \in InProgress
        /\ \A s \in Calls : at'[s] \in Asking => asked'[s] \in Nat
    <3>1. CASE at' = [at EXCEPT ![r] = "calling"] /\ asked' = [asked EXCEPT ![r] = Today]
      BY <1>0, <2>1, <3>1 DEF TypeInv
    <3>2. CASE at' = [at EXCEPT ![r] = "running"] /\ at[r] = "calling" /\ asked' = asked
      BY <2>1, <3>2 DEF TypeInv
    <3> QED BY <2>1, <3>1, <3>2
  <2> QED BY <2>1, <2>2, <2>3 DEF TypeInv
<1>5. ASSUME NEW r \in Calls, CallCompletes(r) \/ CallFails(r) \/ UnusablePayload(r)
                              \/ UsablePayload(r) \/ RecordOwn(r)
      PROVE  TypeInv'
  <2>1. /\ UNCHANGED <<config, clock, cache, request, unit, asked, began, looks>>
        /\ \E place \in Asking \cup {"done"} : at' = [at EXCEPT ![r] = place]
        /\ at[r] \in Asking
        /\ \E state : answer' \in {answer, [answer EXCEPT ![r] = state]}
        /\ charged' \in {charged, charged \cup {r}}
        /\ ledgerVars' = ledgerVars \/ (Pop(unit[r]) /\ nextReservation' = nextReservation)
    BY <1>5 DEF CallCompletes, CallFails, UnusablePayload, UsablePayload, RecordOwn,
                ClientRecords, Record, ReleaseCall, Answers, Moves
  <2>2. nextReservation' \in Nat /\ DOMAIN reservations' \subseteq 1 .. nextReservation'
    BY <2>1 DEF TypeInv, Pop
  <2> QED BY <2>1, <2>2 DEF TypeInv
<1>6. ASSUME NEW r \in Calls, Store(r) PROVE TypeInv'
  <2>1. at[r] \in InProgress /\ asked[r] \in Nat /\ request[r] \in Queries
    BY <1>6 DEF Store, TypeInv
  <2> QED BY <1>0, <1>6, <2>1 DEF TypeInv, Store, NewEntry, Answers, Moves, Entries, Queries
<1>7. CASE Tick
  BY <1>7 DEF TypeInv, Tick
<1>8. CASE UNCHANGED enrichmentVars
  BY <1>8 DEF TypeInv, enrichmentVars
<1> QED BY <1>1, <1>2, <1>3, <1>4, <1>5, <1>6, <1>7, <1>8, AnsweredSteps DEF Next

-----------------------------------------------------------------------------
(***************************************************************************)
(* Part 4.  Units and records.                                             *)
(***************************************************************************)
AccountInv == UnitInv /\ ChargeInv

\* A request without a unit and without a call moves on, or is answered.
LEMMA MoveKept ==
  ASSUME TypeInv, AccountInv, NEW r \in Calls,
         at[r] \in {"new", "looking", "looked", "dispatching", "calling"},
         UNCHANGED <<ledgerVars, config, unit, charged>>,
         \E place \in {"looking", "looked", "dispatching", "calling", "done"} :
           at' = [at EXCEPT ![r] = place],
         ~ Holding(r), ~ Holding(r)',
         \A s \in Calls : s # r => answer'[s] = answer[s]
  PROVE  AccountInv'
<1> USE DEF ledgerVars
<1>1. r \notin charged
  BY DEF AccountInv, ChargeInv
<1>2. \A s \in Calls : s # r => at'[s] = at[s]
  BY DEF TypeInv
<1>3. at'[r] \notin {"running", "answered", "settling", "storing"}
  BY DEF TypeInv
<1>4. OwnReservation' = OwnReservation
  BY DEF OwnReservation
<1>5. \A s \in Calls : Holding(s)' <=> Holding(s)
  BY <1>2, <1>4 DEF Holding
<1>6. UnitInv'
  BY <1>2, <1>3, <1>4, <1>5 DEF AccountInv, UnitInv
<1>7. ChargeInv'
  BY <1>1, <1>2, <1>4 DEF AccountInv, ChargeInv, GivenBack, Recorded, TypeInv
<1> QED BY <1>6, <1>7 DEF AccountInv

\* A request takes a unit, with the number nobody has had.
LEMMA TakeKept ==
  ASSUME TypeInv, AccountInv, NEW r \in Calls, at[r] \in {"dispatching", "calling"}, ~ Holding(r),
         Authorize(EnrichmentSlot(Today)),
         unit' = [unit EXCEPT ![r] = Granted(EnrichmentSlot(Today))],
         UNCHANGED <<config, charged, answer>>, config.live,
         \E place \in {"calling", "running"} : at' = [at EXCEPT ![r] = place], Holding(r)'
  PROVE  AccountInv'
<1>1. /\ unit'[r] = nextReservation + 1 /\ nextReservation' = nextReservation + 1
      /\ records' = records /\ nextReservation \in Nat
      /\ DOMAIN reservations' = DOMAIN reservations \cup {nextReservation + 1}
  BY Authorized DEF TypeInv
<1>2. \A s \in Calls : s # r => at'[s] = at[s] /\ unit'[s] = unit[s]
  BY DEF TypeInv
<1>3. \A s \in Calls : s # r => unit[s] # nextReservation + 1
  BY <1>1, NoneAssumption DEF AccountInv, UnitInv
<1>4. OwnReservation' = OwnReservation
  BY DEF OwnReservation
<1>5. \A s \in Calls : s # r => (Holding(s)' <=> Holding(s))
  BY <1>2, <1>4 DEF Holding
<1>6. at'[r] \in {"calling", "running"} /\ r \notin charged
  BY DEF TypeInv, AccountInv, ChargeInv
<1>7. UnitInv'
  <2>1. \A s \in Calls : Holding(s)' => unit'[s] \in DOMAIN reservations'
    BY <1>1, <1>2, <1>5 DEF AccountInv, UnitInv
  <2>2. \A s \in Calls : unit'[s] # None => unit'[s] \in 1 .. nextReservation'
    BY <1>1, <1>2 DEF AccountInv, UnitInv
  <2>3. \A s, t \in Calls : unit'[s] = unit'[t] => s = t \/ unit'[s] = None
    BY <1>1, <1>2, <1>3 DEF AccountInv, UnitInv
  <2>4. \A i \in DOMAIN reservations' : \E s \in Calls : Holding(s)' /\ unit'[s] = i
    BY <1>1, <1>2, <1>5 DEF AccountInv, UnitInv
  <2>5. \A s \in Calls : at'[s] \in {"running", "answered", "settling", "storing"} => config.live
    BY <1>2 DEF AccountInv, UnitInv
  <2>6. \A s \in Calls : at'[s] = "settling" => OwnReservation
    BY <1>2, <1>6 DEF AccountInv, UnitInv
  <2> QED BY <1>4, <2>1, <2>2, <2>3, <2>4, <2>5, <2>6 DEF UnitInv
<1>8. ChargeInv'
  BY <1>1, <1>2, <1>4, <1>6 DEF AccountInv, ChargeInv, GivenBack, Recorded
<1> QED BY <1>7, <1>8 DEF AccountInv

\* A request settles the unit it holds.
LEMMA SettleKept ==
  ASSUME TypeInv, AccountInv, NEW r \in Calls, Holding(r), ~ Holding(r)', at[r] # "done",
         DOMAIN reservations' = DOMAIN reservations \ {unit[r]},
         nextReservation' = nextReservation,
         UNCHANGED <<config, unit>>, charged' \in {charged, charged \cup {r}},
         \A s \in Calls : Recorded(ProviderId(s)) => Recorded(ProviderId(s))',
         \A s \in Calls : s # r => answer'[s] = answer[s],
         \E place \in {"answered", "storing", "done"} : at' = [at EXCEPT ![r] = place],
         \/ r \notin charged'
         \/ Recorded(ProviderId(r))'
         \/ OwnReservation /\ at'[r] = "done" /\ GivenBack(r)'
  PROVE  AccountInv'
<1>1. \A s \in Calls : s # r => at'[s] = at[s]
  BY DEF TypeInv
<1>2. OwnReservation' = OwnReservation
  BY DEF OwnReservation
<1>3. \A s \in Calls : s # r => (Holding(s)' <=> Holding(s))
  BY <1>1, <1>2 DEF Holding
<1>4. at'[r] \in {"answered", "storing", "done"} /\ config.live
  BY DEF TypeInv, Holding, OwnReservation, Configs
<1>5. unit[r] # None /\ \A s \in Calls : s # r => unit[s] # unit[r]
  <2>1. unit[r] \in DOMAIN reservations /\ DOMAIN reservations \subseteq Nat
    BY DEF AccountInv, UnitInv, TypeInv
  <2> QED BY <2>1, NoneAssumption DEF AccountInv, UnitInv
<1>6. UnitInv'
  <2>1. \A s \in Calls : Holding(s)' => unit[s] \in DOMAIN reservations'
    BY <1>3, <1>5 DEF AccountInv, UnitInv
  <2>2. \A i \in DOMAIN reservations' : \E s \in Calls : Holding(s)' /\ unit[s] = i
    BY <1>3, <1>5 DEF AccountInv, UnitInv
  <2>3. \A s \in Calls : at'[s] \in {"running", "answered", "settling", "storing"} => config.live
    BY <1>1, <1>4 DEF AccountInv, UnitInv
  <2>4. \A s \in Calls : at'[s] = "settling" => OwnReservation
    BY <1>1, <1>4 DEF AccountInv, UnitInv
  <2> QED BY <1>2, <2>1, <2>2, <2>3, <2>4 DEF AccountInv, UnitInv
<1>7. ChargeInv'
  <2>1. \A s \in charged' : s # r => s \in charged /\ s \in Calls
    BY DEF TypeInv
  <2> QED BY <1>1, <1>2, <1>4, <2>1 DEF AccountInv, ChargeInv, GivenBack
<1> QED BY <1>6, <1>7 DEF AccountInv

\* A call goes on without the ledger.
LEMMA PassKept ==
  ASSUME TypeInv, AccountInv, NEW r \in Calls, at[r] \in Asking, Holding(r)' <=> Holding(r),
         UNCHANGED <<ledgerVars, config, unit>>, charged' \in {charged, charged \cup {r}},
         \A s \in Calls : s # r => answer'[s] = answer[s],
         config.live,
         \/ /\ at[r] = "calling" /\ at' = [at EXCEPT ![r] = "running"] /\ charged' = charged
         \/ /\ at[r] = "running" /\ at' = [at EXCEPT ![r] = "answered"] /\ OwnReservation
         \/ /\ at[r] \in {"answered", "storing"} /\ ~ Holding(r) /\ charged' = charged
            /\ at' = [at EXCEPT ![r] = "storing"] \/ at' = [at EXCEPT ![r] = "done"]
         \/ /\ at[r] = "answered" /\ at' = [at EXCEPT ![r] = "settling"] /\ OwnReservation
            /\ charged' = charged
  PROVE  AccountInv'
<1> USE DEF ledgerVars
<1>1. \A s \in Calls : s # r => at'[s] = at[s]
  BY DEF TypeInv
<1>2. OwnReservation' = OwnReservation
  BY DEF OwnReservation
<1>3. \A s \in Calls : Holding(s)' <=> Holding(s)
  BY <1>1, <1>2 DEF Holding
<1>4. at'[r] = "settling" => OwnReservation
  BY DEF TypeInv
<1>5. UnitInv'
  BY <1>1, <1>2, <1>3, <1>4 DEF AccountInv, UnitInv
<1>6. \A s \in Calls : Recorded(ProviderId(s))' = Recorded(ProviderId(s))
  BY DEF Recorded
<1>7. \A s \in charged' : s # r => s \in charged /\ s \in Calls
  BY DEF TypeInv
<1>8. ASSUME r \in charged'
      PROVE  /\ at'[r] \in {"answered", "settling", "storing", "done"}
             /\ \/ Recorded(ProviderId(r))
                \/ OwnReservation /\ at'[r] \in {"answered", "settling"}
  BY <1>8 DEF AccountInv, ChargeInv, TypeInv, Holding
<1>9. ChargeInv'
  BY <1>1, <1>2, <1>6, <1>7, <1>8 DEF AccountInv, ChargeInv, GivenBack
<1> QED BY <1>5, <1>9 DEF AccountInv

\* Every step of a request keeps units and records in agreement.
LEMMA StepAccount ==
  ASSUME TypeInv, AccountInv, [Next]_enrichmentVars
  PROVE  AccountInv'
<1> USE DEF requestVars
<1>0. \A r \in Calls :
        /\ at[r] \in {"calling", "running"} => r \notin charged
        /\ at[r] \in {"running", "answered", "settling", "storing"} => config.live
        /\ Holding(r) => unit[r] # None
  <2>1. DOMAIN reservations \subseteq Nat
    BY DEF TypeInv
  <2> QED BY <2>1, NoneAssumption DEF AccountInv, ChargeInv, UnitInv
<1>1. ASSUME NEW r \in Calls, Answered(r), ~ OwnReservation \/ at[r] # "calling",
             at[r] \in {"new", "looking", "looked", "dispatching", "calling"}
      PROVE  AccountInv'
  <2>1. ~ Holding(r) /\ ~ Holding(r)'
    BY <1>1 DEF Holding, Answered, TypeInv
  <2> QED BY <1>1, <2>1, MoveKept DEF Answered, TypeInv
<1>2. ASSUME NEW r \in Calls, NEW kind \in Kinds, NEW refresh \in BOOLEAN, Admit(r, kind, refresh)
      PROVE  AccountInv'
  <2>1. ~ Holding(r) /\ ~ Holding(r)'
    BY <1>2 DEF Holding, Admit, Moves, TypeInv
  <2> QED BY <1>2, <2>1, MoveKept DEF Admit, Moves
<1>3. ASSUME NEW r \in Calls, MissFresh(r) \/ MissStale(r) PROVE AccountInv'
  <2>1. ~ Holding(r) /\ ~ Holding(r)'
    BY <1>3 DEF Holding, MissFresh, MissStale, Moves, TypeInv
  <2> QED BY <1>3, <2>1, MoveKept DEF MissFresh, MissStale, Moves
<1>4. ASSUME NEW r \in Calls, Dispatch(r) PROVE AccountInv'
  <2>1. ~ Holding(r) /\ (Holding(r)' <=> OwnReservation)
    BY <1>4 DEF Holding, Dispatch, Moves, TypeInv, OwnReservation
  <2>2. CASE OwnReservation
    BY <1>4, <2>1, <2>2, TakeKept DEF Dispatch, Moves, OwnReservation
  <2>3. CASE ~ OwnReservation
    BY <1>4, <2>1, <2>3, MoveKept DEF Dispatch, Moves
  <2> QED BY <2>2, <2>3
<1>5. ASSUME NEW r \in Calls, Submit(r) PROVE AccountInv'
  <2>1. (Holding(r) <=> ~ config.managed) /\ Holding(r)'
    BY <1>5 DEF Holding, Submit, Moves, TypeInv, OwnReservation, Configs
  <2>2. CASE config.managed
    BY <1>5, <2>1, <2>2, TakeKept DEF Submit, Moves
  <2>3. CASE ~ config.managed
    BY <1>5, <2>1, <2>3, PassKept DEF Submit, Moves, Asking
  <2> QED BY <2>2, <2>3
<1>6. ASSUME NEW r \in Calls, CallCompletes(r) PROVE AccountInv'
  <2>1. /\ at[r] = "running" /\ at' = [at EXCEPT ![r] = "answered"] /\ Holding(r)
        /\ Holding(r)' <=> OwnReservation
        /\ charged' = charged \cup {r} /\ UNCHANGED <<config, unit, answer>>
    BY <1>0, <1>6 DEF CallCompletes, Moves, Holding, OwnReservation, TypeInv
  <2>2. CASE config.managed
    <3>1. ~ OwnReservation
      BY <2>2 DEF OwnReservation
    <3>2. PICK usage : usage.id = ProviderId(r) /\ Record(usage, unit[r])
      BY <1>6, <2>2 DEF CallCompletes, ClientRecords
    <3>3. /\ DOMAIN reservations' = DOMAIN reservations \ {unit[r]}
          /\ nextReservation' = nextReservation
          /\ Recorded(ProviderId(r))'
          /\ \A s \in Calls : Recorded(ProviderId(s)) => Recorded(ProviderId(s))'
      BY <1>0, <2>1, <3>2, Recording
    <3> QED BY <2>1, <3>1, <3>3, SettleKept
  <2>3. CASE ~ config.managed
    <3>1. OwnReservation /\ ledgerVars' = ledgerVars /\ config.live
      BY <1>0, <1>6, <2>1, <2>3 DEF OwnReservation, CallCompletes, ClientRecords
    <3> QED BY <2>1, <3>1, PassKept DEF Asking
  <2> QED BY <2>2, <2>3
<1>7. ASSUME NEW r \in Calls, CallFails(r) PROVE AccountInv'
  <2>1. /\ at[r] = "running" /\ at' = [at EXCEPT ![r] = "done"] /\ Holding(r) /\ ~ Holding(r)'
        /\ answer' = [answer EXCEPT ![r] = Unavailable("provider_failure")]
        /\ charged' \in {charged, charged \cup {r}} /\ UNCHANGED <<config, unit>>
        /\ OwnReservation <=> ~ config.managed
        /\ r \notin charged
    BY <1>0, <1>7 DEF CallFails, Answers, Moves, Holding, OwnReservation, TypeInv, Asking
  <2>2. \A s \in Calls : s # r => answer'[s] = answer[s]
    BY <2>1
  <2>3. GivenBack(r)' /\ (OwnReservation' <=> OwnReservation) /\ at'[r] = "done"
    BY <2>1 DEF GivenBack, TypeInv, OwnReservation
  <2>4. CASE ReleaseCall(unit[r]) /\ (charged' = charged \/ OwnReservation)
    <3>1. /\ DOMAIN reservations' = DOMAIN reservations \ {unit[r]}
          /\ nextReservation' = nextReservation
          /\ \A s \in Calls : Recorded(ProviderId(s)) => Recorded(ProviderId(s))'
      BY <1>0, <2>1, <2>4, Popping DEF ReleaseCall, Recorded
    <3> QED BY <2>1, <2>2, <2>3, <2>4, <3>1, SettleKept
  <2>5. CASE config.managed /\ ClientRecords(r, "submitted")
    <3>1. PICK usage : usage.id = ProviderId(r) /\ Record(usage, unit[r])
      BY <2>5 DEF ClientRecords
    <3>2. /\ DOMAIN reservations' = DOMAIN reservations \ {unit[r]}
          /\ nextReservation' = nextReservation
          /\ Recorded(ProviderId(r))'
          /\ \A s \in Calls : Recorded(ProviderId(s)) => Recorded(ProviderId(s))'
      BY <1>0, <2>1, <3>1, Recording
    <3> QED BY <2>1, <2>2, <3>2, SettleKept
  <2> QED BY <1>7, <2>1, <2>4, <2>5 DEF CallFails
<1>8. ASSUME NEW r \in Calls, UnusablePayload(r) PROVE AccountInv'
  <2>1. /\ at[r] = "answered" /\ at' = [at EXCEPT ![r] = "done"] /\ ~ Holding(r)'
        /\ Holding(r) <=> OwnReservation
        /\ answer' = [answer EXCEPT ![r] = Unavailable("provider_payload_unusable")]
        /\ UNCHANGED <<config, unit, charged>>
    BY <1>8 DEF UnusablePayload, Answers, Moves, Holding, TypeInv
  <2>2. \A s \in Calls : s # r => answer'[s] = answer[s]
    BY <2>1
  <2>3. CASE OwnReservation
    <3>1. GivenBack(r)' /\ at'[r] = "done"
      BY <2>1 DEF GivenBack, TypeInv
    <3>2. /\ DOMAIN reservations' = DOMAIN reservations \ {unit[r]}
          /\ nextReservation' = nextReservation
          /\ \A s \in Calls : Recorded(ProviderId(s)) => Recorded(ProviderId(s))'
      BY <1>0, <1>8, <2>1, <2>3, Popping DEF UnusablePayload, ReleaseCall, Recorded
    <3> QED BY <2>1, <2>2, <2>3, <3>1, <3>2, SettleKept
  <2>4. CASE ~ OwnReservation
    BY <1>0, <1>8, <2>1, <2>2, <2>4, PassKept DEF UnusablePayload, Asking
  <2> QED BY <2>3, <2>4
<1>9. ASSUME NEW r \in Calls, UsablePayload(r) PROVE AccountInv'
  <2>1. at[r] = "answered" /\ (Holding(r)' <=> Holding(r)) /\ (Holding(r) <=> OwnReservation)
    BY <1>9 DEF UsablePayload, Moves, Holding, OwnReservation, TypeInv
  <2> QED BY <1>0, <1>9, <2>1, PassKept DEF UsablePayload, Moves, Asking
<1>10. ASSUME NEW r \in Calls, RecordOwn(r) PROVE AccountInv'
  <2>1. at[r] = "settling" /\ Holding(r) /\ ~ Holding(r)'
    BY <1>10 DEF RecordOwn, Moves, Holding, TypeInv, AccountInv, UnitInv
  <2>2. PICK usage : usage.id = ProviderId(r) /\ Record(usage, unit[r])
    BY <1>10 DEF RecordOwn
  <2>3. /\ DOMAIN reservations' = DOMAIN reservations \ {unit[r]}
        /\ nextReservation' = nextReservation
        /\ Recorded(ProviderId(r))'
        /\ \A s \in Calls : Recorded(ProviderId(s)) => Recorded(ProviderId(s))'
    BY <1>0, <2>1, <2>2, Recording
  <2> QED BY <1>10, <2>1, <2>3, SettleKept DEF RecordOwn, Moves
<1>11. ASSUME NEW r \in Calls, Store(r) PROVE AccountInv'
  <2>1. at[r] = "storing" /\ ~ Holding(r) /\ ~ Holding(r)' /\ config.live
    BY <1>0, <1>11 DEF Store, Answers, Moves, Holding, TypeInv
  <2>2. /\ at' = [at EXCEPT ![r] = "done"]
        /\ UNCHANGED <<ledgerVars, config, unit, charged>>
        /\ \A s \in Calls : s # r => answer'[s] = answer[s]
    BY <1>11 DEF Store, Answers, Moves
  <2> QED BY <2>1, <2>2, PassKept DEF Asking
<1>12. CASE Tick \/ UNCHANGED enrichmentVars
  <2>1. UNCHANGED <<ledgerVars, config, at, unit, answer, charged>>
    BY <1>12 DEF Tick, enrichmentVars
  <2> QED BY <2>1 DEF AccountInv, UnitInv, ChargeInv, Holding, OwnReservation, GivenBack, Recorded,
                      ledgerVars
<1> QED BY <1>1, <1>2, <1>3, <1>4, <1>5, <1>6, <1>7, <1>8, <1>9, <1>10, <1>11, <1>12, AnsweredSteps
        DEF Next

-----------------------------------------------------------------------------
(***************************************************************************)
(* Part 5.  Looks and dates.                                               *)
(***************************************************************************)

\* Only a running call is charged, and only admission sets what a request asks for.
LEMMA StepLook ==
  ASSUME ClockAssumption, TypeInv, ChargeInv, LookInv, [Next]_enrichmentVars
  PROVE  LookInv'
<1> USE DEF ledgerVars, requestVars, Asking
<1>0. Ttl \in Nat /\ clock \in Nat /\ \A r \in charged : r \in Calls /\ at[r] # "new"
  BY DayFacts DEF TypeInv, ChargeInv
<1>1. ASSUME NEW r \in Calls, UNCHANGED <<clock, request, looks>>,
             charged' = charged \/ (charged' = charged \cup {r} /\ at[r] = "running"),
             \E place \in Asking \cup {"done"} : at' = [at EXCEPT ![r] = place],
             at'[r] = "done" \/ at[r] \in Asking \cup {"dispatching"}
      PROVE  LookInv'
  <2>1. \A s \in Calls : Paying(s)' => Paying(s)
    BY <1>1 DEF Paying, TypeInv
  <2>2. \A s \in Calls : at'[s] = "looked" => at[s] = "looked"
    BY <1>1 DEF TypeInv
  <2> QED BY <1>1, <2>1, <2>2 DEF LookInv
<1>2. ASSUME NEW r \in Calls, NEW kind \in Kinds, NEW refresh \in BOOLEAN, Admit(r, kind, refresh)
      PROVE  LookInv'
  <2>1. \A s \in Calls : s # r => at'[s] = at[s] /\ request'[s] = request[s]
    BY <1>2 DEF Admit, Moves, TypeInv
  <2>2. at'[r] # "looked" /\ (Paying(r)' => request'[r].refresh)
    BY <1>0, <1>2 DEF Admit, Moves, TypeInv, Paying
  <2> QED BY <1>2, <2>1, <2>2 DEF LookInv, Paying, Admit
<1>3. ASSUME NEW r \in Calls, MissFresh(r) PROVE LookInv'
  <2>1. \A s \in Calls : s # r => at'[s] = at[s] /\ looks'[s] = looks[s]
    BY <1>3 DEF MissFresh, Moves, TypeInv
  <2>2. ~ Paying(r)'
    BY <1>0, <1>3 DEF MissFresh, Moves, TypeInv, Paying, ChargeInv
  <2>3. looks'[r][1] = Entry(r) /\ (Entry(r) # None => clock - Entry(r).retrieved > Ttl)
    <3>1. Entry(r) \in Entries \cup {None}
      BY <1>3 DEF MissFresh, TypeInv, Entry, InProgress, Queries
    <3> QED BY <1>0, <1>3, <3>1 DEF MissFresh, TypeInv, Fresh, Entries
  <2> QED BY <1>3, <2>1, <2>2, <2>3 DEF LookInv, Paying, MissFresh
<1>4. ASSUME NEW r \in Calls, MissStale(r) PROVE LookInv'
  <2>1. \A s \in Calls : s # r => at'[s] = at[s] /\ looks'[s] = looks[s]
    BY <1>4 DEF MissStale, Moves, TypeInv
  <2>2. /\ at[r] = "looked" /\ at'[r] = "dispatching"
        /\ looks'[r][1] = looks[r][1] /\ looks'[r][2] = Entry(r)
    BY <1>4 DEF MissStale, Moves, TypeInv
  <2>3. looks[r][1] = None \/ Entry(r) # looks[r][1]
    BY <1>0, <1>4, <2>2 DEF MissStale, Stale, LookInv
  <2> QED BY <1>4, <2>1, <2>2, <2>3 DEF LookInv, Paying, MissStale
<1>5. CASE Tick
  <2>1. \A r \in Calls : looks[r][1] # None => looks[r][1].retrieved \in Nat
    BY DEF TypeInv, Entries
  <2> QED BY <1>0, <1>5, <2>1 DEF LookInv, Paying, Tick
<1>6. CASE UNCHANGED enrichmentVars
  BY <1>6 DEF LookInv, Paying, enrichmentVars
<1>7. ASSUME NEW r \in Calls, Answered(r) PROVE LookInv'
  <2>1. at'[r] = "done"
    BY <1>7 DEF Answered, TypeInv
  <2> QED BY <1>1, <1>7, <2>1 DEF Answered
<1>8. ASSUME NEW r \in Calls, Dispatch(r) \/ Submit(r) \/ CallCompletes(r) \/ CallFails(r)
               \/ UnusablePayload(r) \/ UsablePayload(r) \/ RecordOwn(r) \/ Store(r)
      PROVE  LookInv'
  <2>1. /\ UNCHANGED <<clock, request, looks>> /\ at[r] \in Asking \cup {"dispatching"}
        /\ charged' = charged \/ (charged' = charged \cup {r} /\ at[r] = "running")
        /\ \E place \in Asking \cup {"done"} : at' = [at EXCEPT ![r] = place]
    BY <1>8 DEF Dispatch, Submit, CallCompletes, CallFails, UnusablePayload, UsablePayload,
                RecordOwn, Store, Answers, Moves
  <2> QED BY <1>1, <2>1
<1> QED BY <1>2, <1>3, <1>4, <1>5, <1>6, <1>7, <1>8, AnsweredSteps DEF Next

\* An answer of the day it is labelled with, or the day before, and at most two days old.
Recent(given) ==
  given # None /\ given.state = "available" /\ given.entry # None =>
    given.entry.date - given.entry.of \in {0, 1} /\ given.on - given.entry.of <= 2

\* A call over midnight shifts the label by a day, and the cache's time limit by another.
LEMMA StepDate ==
  ASSUME ClockAssumption, Ttl <= TicksPerDay, TypeInv, DateInv, FreshAnswersAreRecent,
         [Next]_enrichmentVars
  PROVE  DateInv' /\ FreshAnswersAreRecent'
<1> USE DEF ledgerVars, requestVars, Asking, InProgress
<1>0. /\ Ttl \in Nat /\ clock \in Nat /\ Today = DayOf(clock) /\ Today' = DayOf(clock')
      /\ \A r \in Calls : began[r] \in Nat /\ DayOf(began[r]) \in Nat
  BY DayFacts DEF TypeInv, DayOf, Today
<1>a. FreshAnswersAreRecent <=> \A r \in Calls : Recent(answer[r])
  BY DEF FreshAnswersAreRecent, Recent
<1>b. FreshAnswersAreRecent' <=> \A r \in Calls : Recent(answer'[r])
  BY DEF FreshAnswersAreRecent, Recent
<1>1. ASSUME NEW r \in Calls, UNCHANGED <<clock, cache, began, asked>>,
             \E place \in Asking \cup {"looked", "dispatching", "done"} :
               at' = [at EXCEPT ![r] = place],
             at[r] \in InProgress \/ at'[r] = "done",
             at[r] \in Asking \/ at'[r] \notin Asking
      PROVE  DateInv'
  <2>1. \A s \in Calls : /\ at'[s] \in InProgress => at[s] \in InProgress
                         /\ at'[s] \in Asking => at[s] \in Asking
    BY <1>1 DEF TypeInv
  <2>2. Today' = Today
    BY <1>1 DEF Today
  <2> QED BY <1>1, <2>1, <2>2 DEF DateInv
<1>2. ASSUME NEW r \in Calls, NEW kind \in Kinds, NEW refresh \in BOOLEAN, Admit(r, kind, refresh)
      PROVE  DateInv'
  <2>1. \A s \in Calls : s # r => at'[s] = at[s] /\ began'[s] = began[s]
    BY <1>2 DEF Admit, Moves, TypeInv
  <2>2. at'[r] \notin Asking /\ began'[r] = clock
    BY <1>2 DEF Admit, Moves, TypeInv
  <2>3. Today' = Today
    BY <1>2 DEF Admit, Today
  <2> QED BY <1>0, <1>2, <2>1, <2>2, <2>3 DEF DateInv, Admit
<1>3. ASSUME NEW r \in Calls, Dispatch(r) PROVE DateInv'
  <2>1. \A s \in Calls : s # r => at'[s] = at[s] /\ asked'[s] = asked[s]
    BY <1>3 DEF Dispatch, Moves, TypeInv
  <2>2. /\ at[r] = "dispatching" /\ at'[r] = "calling" /\ asked'[r] = Today
        /\ UNCHANGED <<clock, cache, began>> /\ Today' = Today
    BY <1>3 DEF Dispatch, Moves, TypeInv, Today
  <2>3. clock >= began[r]
    BY <1>0, <2>2 DEF DateInv
  <2>4. DayOf(began[r]) <= Today /\ Today \in Nat
    BY <1>0, <2>3, DayFacts
  <2> QED BY <1>0, <2>1, <2>2, <2>4 DEF DateInv
<1>4. ASSUME NEW r \in Calls, Store(r) PROVE DateInv' /\ Recent(answer'[r])
  <2>1. /\ at[r] = "storing" /\ at' = [at EXCEPT ![r] = "done"] /\ Today' = Today
        /\ UNCHANGED <<clock, began, asked>> /\ request[r] \in Queries
        /\ cache' = [cache EXCEPT ![request[r].kind] = NewEntry(r)]
        /\ answer'[r] = Available(NewEntry(r))
    BY <1>4 DEF Store, Answers, Moves, TypeInv, Today
  <2>2. Today - asked[r] \in {0, 1}
    <3>1. asked[r] \in DayOf(began[r]) .. Today /\ clock <= began[r] + 1
      BY <1>0, <2>1 DEF DateInv
    <3>2. clock <= began[r] + TicksPerDay
      <4>1. TicksPerDay \in Nat \ {0} /\ began[r] \in Nat /\ clock \in Nat
        BY <1>0, DayFacts
      <4> QED BY <3>1, <4>1
    <3>3. DayOf(clock) <= DayOf(began[r]) + 1
      BY <1>0, <3>2, DayFacts
    <3>4. Today \in Nat
      BY <1>0, DayFacts
    <3> QED BY <1>0, <3>1, <3>3, <3>4
  <2>3. NewEntry(r) = [retrieved |-> clock, date |-> Today, of |-> asked[r]]
    BY DEF NewEntry
  <2>4. \A s \in Calls : /\ at'[s] \in InProgress => at[s] \in InProgress
                         /\ at'[s] \in Asking => at[s] \in Asking
    BY <2>1 DEF TypeInv
  <2>5. \A k \in Kinds : cache'[k] = cache[k] \/ cache'[k] = NewEntry(r)
    BY <2>1 DEF TypeInv
  <2>6. DateInv'
    BY <1>0, <2>1, <2>2, <2>3, <2>4, <2>5 DEF DateInv
  <2>7. asked[r] \in Nat /\ Today \in Nat
    BY <1>0, <2>1, DayFacts DEF TypeInv
  <2> QED BY <2>1, <2>2, <2>3, <2>6, <2>7 DEF Recent, Available
<1>5. ASSUME NEW r \in Calls, ServeFresh(r) PROVE Recent(answer'[r])
  <2>1. /\ Entry(r) \in Entries /\ clock - Entry(r).retrieved <= Ttl
        /\ answer'[r] = Available(Entry(r))
    BY <1>5, NoneAssumption DEF ServeFresh, Fresh, TypeInv, Entry, Queries, Answers
  <2>2. /\ Entry(r).retrieved <= clock /\ Entry(r).date = DayOf(Entry(r).retrieved)
        /\ Entry(r).date - Entry(r).of \in {0, 1}
    BY <1>5 DEF DateInv, ServeFresh, Fresh, Entry, TypeInv, Queries
  <2>3. Today <= Entry(r).date + 1
    <3>1. Entry(r).retrieved \in Nat /\ clock <= Entry(r).retrieved + TicksPerDay
      BY <1>0, <2>1, DayFacts DEF Entries
    <3> QED BY <1>0, <2>2, <3>1, DayFacts
  <2>4. Today \in Nat /\ Entry(r).date \in Nat /\ Entry(r).of \in Nat
    BY <1>0, <2>1, DayFacts DEF Entries
  <2> QED BY <2>1, <2>2, <2>3, <2>4 DEF Recent, Available
<1>6. ASSUME NEW r \in Calls,
             \/ TurnAway(r) \/ InvalidRefresh(r) \/ RefuseStale(r) \/ NoAdapter(r) \/ NoEstimate(r)
             \/ Exhausted(r) \/ FixtureAnswers(r) \/ CallFails(r) \/ UnusablePayload(r)
      PROVE  Recent(answer'[r])
  <2>1. CASE TurnAway(r)
    <3>1. \E reason : answer'[r] = [state |-> "error", reason |-> reason]
      BY <2>1 DEF TurnAway, Turned, Answers, TypeInv
    <3> QED BY <3>1 DEF Recent
  <2>2. CASE InvalidRefresh(r) \/ RefuseStale(r) \/ NoAdapter(r) \/ NoEstimate(r) \/ Exhausted(r)
             \/ CallFails(r) \/ UnusablePayload(r)
    <3>1. \E reason : answer'[r] = Unavailable(reason)
      BY <2>2 DEF InvalidRefresh, RefuseStale, NoAdapter, NoEstimate, Exhausted, CallFails,
                  UnusablePayload, Answers, TypeInv
    <3> QED BY <3>1 DEF Recent, Unavailable
  <2>3. CASE FixtureAnswers(r)
    <3>1. \/ answer'[r] = [state |-> "available", entry |-> None, on |-> Today]
          \/ answer'[r] = Unavailable("fixture_data_unavailable")
      BY <2>3 DEF FixtureAnswers, Answers, TypeInv
    <3> QED BY <3>1 DEF Recent, Unavailable
  <2> QED BY <1>6, <2>1, <2>2, <2>3
<1>7. ASSUME NEW r \in Calls, Recent(answer'[r]),
             answer' = answer \/ \E state : answer' = [answer EXCEPT ![r] = state]
      PROVE  FreshAnswersAreRecent'
  BY <1>7, <1>a, <1>b DEF TypeInv
<1>8. answer' = answer => FreshAnswersAreRecent'
  BY <1>a, <1>b
<1>9. CASE Tick
  <2>1. /\ clock' = clock + 1 /\ UNCHANGED <<cache, at, began, asked, answer>>
        /\ \A r \in Calls : at[r] \in InProgress => began[r] = clock
    BY <1>9 DEF Tick
  <2>2. Today <= Today' /\ Today \in Nat /\ Today' \in Nat
    BY <1>0, <2>1, DayFacts
  <2>3. \A r \in Calls : at'[r] \in Asking => asked'[r] \in DayOf(began'[r]) .. Today'
    BY <1>0, <2>1, <2>2 DEF DateInv, TypeInv
  <2>4. \A k \in Kinds : cache'[k] # None => cache'[k].retrieved <= clock'
    BY <1>0, <2>1 DEF DateInv, TypeInv, Entries
  <2> QED BY <1>0, <1>8, <2>1, <2>3, <2>4 DEF DateInv
<1>10. CASE UNCHANGED enrichmentVars
  <2>1. UNCHANGED <<clock, cache, at, began, asked, answer>>
    BY <1>10 DEF enrichmentVars
  <2> QED BY <1>8, <2>1 DEF DateInv, Today
<1>11. ASSUME NEW r \in Calls,
              \/ TurnAway(r) \/ InvalidRefresh(r) \/ ServeFresh(r) \/ RefuseStale(r)
              \/ NoAdapter(r) \/ NoEstimate(r) \/ Exhausted(r) \/ FixtureAnswers(r)
       PROVE  DateInv' /\ FreshAnswersAreRecent'
  <2>1. Answered(r)
    BY <1>11, AnsweredSteps
  <2>2. at'[r] = "done"
    BY <2>1 DEF Answered, TypeInv
  <2>3. Recent(answer'[r])
    BY <1>5, <1>6, <1>11
  <2> QED BY <1>1, <1>7, <2>1, <2>2, <2>3 DEF Answered
<1>12. ASSUME NEW r \in Calls,
              \/ MissFresh(r) \/ MissStale(r) \/ Submit(r) \/ CallCompletes(r) \/ CallFails(r)
              \/ UnusablePayload(r) \/ UsablePayload(r) \/ RecordOwn(r)
       PROVE  DateInv' /\ FreshAnswersAreRecent'
  <2>1. /\ UNCHANGED <<clock, cache, began, asked>> /\ at[r] \in InProgress
        /\ \E place \in Asking \cup {"looked", "dispatching", "done"} :
             at' = [at EXCEPT ![r] = place]
        /\ at[r] \in Asking \/ at'[r] \notin Asking
    BY <1>12 DEF MissFresh, MissStale, Submit, CallCompletes, CallFails, UnusablePayload,
                 UsablePayload, RecordOwn, Answers, Moves, TypeInv
  <2>2. \/ answer' = answer
        \/ Recent(answer'[r]) /\ \E state : answer' = [answer EXCEPT ![r] = state]
    BY <1>6, <1>12 DEF MissFresh, MissStale, Submit, CallCompletes, CallFails, UnusablePayload,
                 UsablePayload, RecordOwn, Answers
  <2> QED BY <1>1, <1>7, <1>8, <2>1, <2>2
<1>13. ASSUME NEW r \in Calls, Store(r) \/ Dispatch(r)
              \/ \E kind \in Kinds, refresh \in BOOLEAN : Admit(r, kind, refresh)
       PROVE  DateInv' /\ FreshAnswersAreRecent'
  <2>1. CASE Store(r)
    <3>1. \E state : answer' = [answer EXCEPT ![r] = state]
      BY <2>1 DEF Store, Answers
    <3> QED BY <1>4, <1>7, <2>1, <3>1
  <2>2. CASE ~ Store(r)
    <3>1. answer' = answer
      BY <1>13, <2>2 DEF Dispatch, Admit
    <3> QED BY <1>2, <1>3, <1>8, <1>13, <2>2, <3>1
  <2> QED BY <2>1, <2>2
<1> QED BY <1>9, <1>10, <1>11, <1>12, <1>13 DEF Next

-----------------------------------------------------------------------------
(***************************************************************************)
(* Part 6.  The theorems.                                                  *)
(***************************************************************************)
\* At first nothing has been asked, held or stored.
LEMMA InitKept == ClockAssumption /\ Init => EnrichmentInv /\ DateInv /\ FreshAnswersAreRecent
<1> SUFFICES ASSUME Init PROVE EnrichmentInv /\ DateInv /\ FreshAnswersAreRecent
  OBVIOUS
<1> USE DEF Init, LedgerInit
<1>1. TypeInv
  BY DEF TypeInv, Places, InProgress, Asking
<1>2. UnitInv /\ ChargeInv /\ LookInv /\ DateInv /\ FreshAnswersAreRecent
  BY DEF UnitInv, ChargeInv, LookInv, DateInv, FreshAnswersAreRecent, Holding, Paying, Asking,
         InProgress, OwnReservation
<1> QED BY <1>1, <1>2 DEF EnrichmentInv

(***************************************************************************)
(* What EnrichmentService keeps in every state: units are held by the      *)
(* requests that have a call or its result in hand, activities are         *)
(* recorded or about to be, and what the two looks found is remembered.    *)
(***************************************************************************)
THEOREM EnrichmentInvariance == ClockAssumption => (Spec => []EnrichmentInv)
<1> SUFFICES ASSUME ClockAssumption PROVE Spec => []EnrichmentInv
  OBVIOUS
<1>1. Init => EnrichmentInv
  BY InitKept
<1>2. EnrichmentInv /\ [Next]_enrichmentVars => EnrichmentInv'
  BY StepType, StepAccount, StepLook DEF EnrichmentInv, AccountInv
<1> QED BY <1>1, <1>2, PTL DEF Spec

(***************************************************************************)
(* Every activity an enrichment started is counted against the daily       *)
(* budget, except those the service's own reservation was given back for   *)
(* by its except clause; and no reservation outlives its request.          *)
(***************************************************************************)
THEOREM ActivitiesCounted == ClockAssumption => (Spec => []UncountedOnlyAfterFailure)
<1> SUFFICES ASSUME ClockAssumption PROVE Spec => []UncountedOnlyAfterFailure
  OBVIOUS
<1>1. EnrichmentInv => UncountedOnlyAfterFailure
  BY DEF EnrichmentInv, TypeInv, UnitInv, ChargeInv, UncountedOnlyAfterFailure, Holding, GivenBack,
         InProgress, OwnReservation
<1> QED BY <1>1, EnrichmentInvariance, PTL

(***************************************************************************)
(* run() pays for a request that did not ask for a refresh only if its     *)
(* first look at the cache found nothing or the entry was replaced between *)
(* its two looks.                                                          *)
(***************************************************************************)
THEOREM UnaskedPayment == ClockAssumption => (Spec => []UnaskedPaymentNeedsRace)
<1> SUFFICES ASSUME ClockAssumption PROVE Spec => []UnaskedPaymentNeedsRace
  OBVIOUS
<1>1. EnrichmentInv => UnaskedPaymentNeedsRace
  BY DEF EnrichmentInv, TypeInv, LookInv, Paying, UnaskedPaymentNeedsRace
<1> QED BY <1>1, EnrichmentInvariance, PTL

(***************************************************************************)
(* An entry that lives no longer than a day, as those of the only live     *)
(* kind do, is at most two days old when it is served, and its label is    *)
(* off by one day at most.                                                 *)
(***************************************************************************)
THEOREM AnswersRecent ==
  ClockAssumption /\ Ttl <= TicksPerDay => (Spec => []FreshAnswersAreRecent)
<1> SUFFICES ASSUME ClockAssumption, Ttl <= TicksPerDay PROVE Spec => []FreshAnswersAreRecent
  OBVIOUS
<1>1. Init => DateInv /\ FreshAnswersAreRecent
  BY InitKept
<1>2. EnrichmentInv /\ DateInv /\ FreshAnswersAreRecent /\ [Next]_enrichmentVars
        => DateInv' /\ FreshAnswersAreRecent'
  BY StepDate DEF EnrichmentInv
<1> QED BY <1>1, <1>2, EnrichmentInvariance, PTL DEF Spec

=============================================================================
