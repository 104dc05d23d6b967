---------------------------- MODULE Results_proofs -----------------------------
(***************************************************************************)
(* Why the parts that the run Results composes keep their promises, for    *)
(* every value of the constants: the decision of a trip (chapter I), the   *)
(* replacement of a pair of snapshots (II), the replay of evidence (III),  *)
(* the staged acquisition of fixtures (IV), whose own proof is             *)
(* StagedAcquisition_proofs, and the ranking of hotels (V).                *)
(*                                                                         *)
(* Chapter I rests on the sort keys: the least key of a finite set exists  *)
(* (LeastExists), so what min() picks is at least as good in the first     *)
(* component of the key, and undominated in all of them. HourInv says that *)
(* profiles and heat stay what the hour was chosen from; RouteInv what     *)
(* each gate of the route decision knows when it is passed; PublicationInv *)
(* when an analysis is past its checks.                                    *)
(*                                                                         *)
(* Chapters II to V are about one part each: whatever the other parts do,  *)
(* a part sees a behaviour of its own module (PartsAreRuns).               *)
(***************************************************************************)
EXTENDS MCResults, FiniteSetTheorems, SequenceTheorems, TLAPS

-----------------------------------------------------------------------------
(***************************************************************************)
(* Chapter I. The decision of a trip.                                      *)
(*                                                                         *)
(* Python's order of tuples is a strict total order on tuples of integers  *)
(* of one length, so that min() with a sort key, which the code uses for   *)
(* the best hour and for the recommended route, has one result.            *)
(***************************************************************************)
Total(S, less) ==
  \A x, y \in S : x # y => <<x, y>> \in less \/ <<y, x>> \in less
Transitive(S, less) ==
  \A x, y, z \in S : <<x, y>> \in less /\ <<y, z>> \in less => <<x, z>> \in less

\* By a minimal set without a least element, since sets may not be inducted over here.
LEMMA FiniteSetsHaveLeast ==
  ASSUME NEW S, IsFiniteSet(S), S # {}, NEW less, Total(S, less), Transitive(S, less)
  PROVE  \E x \in S : \A y \in S \ {x} : <<x, y>> \in less
<1> DEFINE Least(T, x) == \A y \in T \ {x} : <<x, y>> \in less
           Bad == {T \in SUBSET S : T # {} /\ \A x \in T : ~Least(T, x)}
<1>1. Bad = {}
  <2> SUFFICES ASSUME Bad # {} PROVE FALSE
    OBVIOUS
  <2>1. IsWellFoundedOn(StrictSubsetOrdering(S), SUBSET S)
    BY FS_FiniteSubsetsOfFinite, FS_StrictSubsetOrderingWellFounded, Zenon
  <2>2. Bad \subseteq SUBSET S
    OBVIOUS
  <2> HIDE DEF Bad
  <2>3. PICK T \in Bad : \A U \in Bad : <<U, T>> \notin StrictSubsetOrdering(S)
    BY <2>1, <2>2, WFMin, Zenon
  <2>4. PICK x \in T : TRUE
    BY DEF Bad
  <2>5. T \subseteq S /\ \A z \in T : ~Least(T, z)
    BY DEF Bad
  <2>6. T \ {x} \notin Bad
    BY <2>3, <2>4, <2>5 DEF StrictSubsetOrdering
  <2>7. T \ {x} # {}
    BY <2>4, <2>5
  <2>8. PICK y \in T \ {x} : Least(T \ {x}, y)
    BY <2>5, <2>6, <2>7 DEF Bad
  <2>9. CASE <<y, x>> \in less
    <3>1. Least(T, y)
      BY <2>8, <2>9
    <3> QED BY <3>1, <2>5
  <2>10. CASE <<x, y>> \in less
    <3>1. Least(T, x)
      BY <2>4, <2>5, <2>8, <2>10 DEF Transitive
    <3> QED BY <3>1, <2>4, <2>5
  <2> QED BY <2>4, <2>5, <2>8, <2>9, <2>10 DEF Total
<1>2. S \notin Bad
  BY <1>1
<1> QED BY <1>2

Keys(n) == [1 .. n -> Int]

\* The first component in which two keys differ decides.
LEMMA PrecedesTotal ==
  ASSUME NEW n \in Nat, NEW a \in Keys(n), NEW b \in Keys(n), a # b
  PROVE  Precedes(a, b) \/ Precedes(b, a)
<1> DEFINE D == {i \in 1 .. n : a[i] # b[i]}
<1>1. D # {} /\ D \subseteq Nat
  BY DEF Keys
<1>2. PICK i \in D : \A j \in D : <<j, i>> \notin OpToRel(<, Nat)
  BY <1>1, WFMin, NatLessThanWellFounded, Zenon
<1>3. \A j \in D : ~(j < i)
  BY <1>1, <1>2, Zenon DEF OpToRel
<1>4. \A j \in 1 .. i - 1 : a[j] = b[j]
  BY <1>3
<1> QED BY <1>4 DEF Precedes, Keys

LEMMA PrecedesTransitive ==
  ASSUME NEW n \in Nat, NEW a \in Keys(n), NEW b \in Keys(n), NEW c \in Keys(n),
         Precedes(a, b), Precedes(b, c)
  PROVE  Precedes(a, c)
<1>1. PICK i \in 1 .. n : a[i] < b[i] /\ \A j \in 1 .. i - 1 : a[j] = b[j]
  BY DEF Precedes, Keys
<1>2. PICK k \in 1 .. n : b[k] < c[k] /\ \A j \in 1 .. k - 1 : b[j] = c[j]
  BY DEF Precedes, Keys
<1>3. CASE i <= k
  <2>1. a[i] < c[i]
    BY <1>1, <1>2, <1>3 DEF Keys
  <2>2. \A j \in 1 .. i - 1 : a[j] = c[j]
    BY <1>1, <1>2, <1>3
  <2> QED BY <2>1, <2>2 DEF Precedes, Keys
<1>4. CASE k < i
  <2>1. a[k] < c[k]
    BY <1>1, <1>2, <1>4 DEF Keys
  <2>2. \A j \in 1 .. k - 1 : a[j] = c[j]
    BY <1>1, <1>2, <1>4
  <2> QED BY <2>1, <2>2 DEF Precedes, Keys
<1> QED BY <1>3, <1>4

\* min(S, key=K) of a non-empty finite set exists where no two keys are equal.
LEMMA LeastExists ==
  ASSUME NEW S, IsFiniteSet(S), S # {}, NEW n \in Nat, NEW K \in [S -> Keys(n)],
         \A x, y \in S : K[x] = K[y] => x = y
  PROVE  \E x \in S : \A y \in S \ {x} : Precedes(K[x], K[y])
<1> DEFINE less == {q \in S \X S : Precedes(K[q[1]], K[q[2]])}
<1>1. Total(S, less)
  BY PrecedesTotal DEF Total
<1>2. Transitive(S, less)
  BY PrecedesTransitive DEF Transitive
<1>3. PICK x \in S : \A y \in S \ {x} : <<x, y>> \in less
  <2> HIDE DEF less
  <2> QED BY <1>1, <1>2, FiniteSetsHaveLeast
<1> QED BY <1>3

-----------------------------------------------------------------------------

\* What assess_hour makes of integers.
Profile == [hour : Nat, concerns : [Parameters -> Int \cup {None}], value : Int,
            metric : {HeatIndex, TCM}]

\* Concerns are counted over a finite set of parameters.
LEMMA CountType == ASSUME NEW p, NEW level PROVE Count(p, level) \in Nat
<1> DEFINE Felt == {"heat_index_celsius", "apparent_temperature_celsius",
                    "wet_bulb_temperature_celsius"}
           Other == {"air_quality", "relative_humidity_percent", "precipitation_mm",
                     "solar_irradiance"}
<1>1. IsFiniteSet(DOMAIN Thresholds)
  <2>1. IsFiniteSet(Felt)
    <3>1. Felt = {} \cup {"heat_index_celsius"} \cup {"apparent_temperature_celsius"}
                    \cup {"wet_bulb_temperature_celsius"}
      OBVIOUS
    <3> HIDE DEF Felt
    <3> QED BY <3>1, FS_EmptySet, FS_AddElement, Zenon
  <2>2. IsFiniteSet(Other)
    <3>1. Other = {} \cup {"air_quality"} \cup {"relative_humidity_percent"}
                     \cup {"precipitation_mm"} \cup {"solar_irradiance"}
      OBVIOUS
    <3> HIDE DEF Other
    <3> QED BY <3>1, FS_EmptySet, FS_AddElement, Zenon
  <2>3. DOMAIN Thresholds = Felt \cup Other
    BY DEF Thresholds
  <2> QED BY <2>1, <2>2, <2>3, FS_Union
<1>2. IsFiniteSet(Informational)
  <2>1. Informational = {} \cup {"cloud_cover_octas"} \cup {"elevation"}
            \cup {"methane_ppb"} \cup {"co2_ppm"}
    BY DEF Informational
  <2> QED BY <2>1, FS_EmptySet, FS_AddElement, Zenon
<1>3. IsFiniteSet(Parameters)
  BY <1>1, <1>2, FS_Union DEF Parameters
<1>4. IsFiniteSet({q \in Parameters : Level(q, p.concerns[q]) = level})
  BY <1>3, FS_Subset
<1> QED BY <1>4, FS_CardinalityType DEF Count

\* A selection key is five integers.
LEMMA SelectionKeyType ==
  ASSUME NEW p \in Profile, NEW cautious
  PROVE  SelectionKey(p, cautious) \in Keys(5)
<1>1. Count(p, "high") \in Int /\ Count(p, "elevated") \in Int
  BY CountType
<1>2. p.value \in Int /\ p.hour \in Int
  BY DEF Profile
<1> QED BY <1>1, <1>2 DEF SelectionKey, Keys

\* select_best_time returns the hour with the least selection key.
LEMMA SelectedIsLeast ==
  ASSUME NEW S, IsFiniteSet(S), S # {}, S \subseteq Profile, NEW cautious,
         \A p, q \in S : p.hour = q.hour => p = q
  PROVE  LET c == select_best_time(S, cautious) IN
         /\ c \in S
         /\ \A p \in S \ {c} : Precedes(SelectionKey(c, cautious), SelectionKey(p, cautious))
<1> DEFINE K == [p \in S |-> SelectionKey(p, cautious)]
<1>1. K \in [S -> Keys(5)]
  BY SelectionKeyType
<1>2. \A p, q \in S : K[p] = K[q] => p = q
  BY DEF SelectionKey
<1>3. \E x \in S : \A y \in S \ {x} : Precedes(K[x], K[y])
  <2> HIDE DEF K
  <2> QED BY <1>1, <1>2, LeastExists
<1>4. \E x \in S : \A y \in S \ {x} :
        Precedes(SelectionKey(x, cautious), SelectionKey(y, cautious))
  BY <1>3
<1> QED BY <1>4, Zenon DEF select_best_time, LeastBy

\* The criteria of an hour before its own number, as SelectionKey orders them.
Merits(p, cautious) ==
  <<Count(p, "high"), IF ActionRequired(p, cautious) THEN 1 ELSE 0,
    Count(p, "elevated"), p.value>>

\* An hour as good in every merit as the one with the least key is equal to it in all.
LEMMA LeastIsUndominated ==
  ASSUME NEW p \in Profile, NEW c \in Profile, NEW cautious,
         p # c => Precedes(SelectionKey(c, cautious), SelectionKey(p, cautious)),
         \A i \in 1 .. 4 : Merits(p, cautious)[i] <= Merits(c, cautious)[i]
  PROVE  Merits(p, cautious) = Merits(c, cautious)
<1> DEFINE K(q) == SelectionKey(q, cautious)
<1>1. \A q : \A i \in 1 .. 4 : Merits(q, cautious)[i] = K(q)[i]
  BY DEF Merits, SelectionKey
<1>2. /\ \A i \in 1 .. 5 : K(p)[i] \in Int /\ K(c)[i] \in Int
      /\ DOMAIN K(c) = 1 .. 5
  BY SelectionKeyType DEF Keys
<1>3. CASE p # c
  <2>1. PICK i \in 1 .. 5 : K(c)[i] < K(p)[i] /\ \A j \in 1 .. i - 1 : K(c)[j] = K(p)[j]
    BY <1>2, <1>3 DEF Precedes
  <2>2. i = 5
    BY <1>1, <1>2, <2>1
  <2>3. \A j \in 1 .. 4 : Merits(p, cautious)[j] = Merits(c, cautious)[j]
    BY <1>1, <2>1, <2>2
  <2> QED BY <2>3 DEF Merits
<1> QED BY <1>3
-----------------------------------------------------------------------------
\* A recommendation is of profiles and heat that do not change while there are any.
HourInv ==
  /\ stage \in {"request", "heat", "best_time"} => profiles = {}
  /\ stage = "best_time" => heat.tcm \in [Hours -> Tcms \cup {None}]
  /\ RecommendedHourUndominated

\* assess_hour of an hour that answered.
LEMMA ProfileTypes ==
  ASSUME NEW h \in Hours, NEW tcm \in Tcms, NEW readings \in [Parameters -> Int \cup {None}]
  PROVE  assess_hour(h, tcm, readings) \in Profile
BY HourAssumption DEF assess_hour, Profile, Parameters, Thresholds, HeatIndex

LEMMA NothingReportedType == NothingReported \in [Parameters -> Int \cup {None}]
BY DEF NothingReported

\* The step that chooses the hour.
LEMMA ChosenUndominated ==
  ASSUME HourInv, NEW environment \in Environments \cup {None}, ChooseBestTime(environment)
  PROVE  RecommendedHourUndominated'
<1> DEFINE readings(h) == IF environment = None THEN NothingReported
                          ELSE environment.readings[h]
           answering == {k \in Hours : heat.tcm[k] # None}
           assessed == {assess_hour(h, heat.tcm[h], readings(h)) : h \in answering}
           chosen == select_best_time(assessed, request.cautious)
<1>0. profiles' = assessed /\ UNCHANGED <<request, heat>>
  BY DEF ChooseBestTime
<1> SUFFICES ASSUME assessed # {}
             PROVE  /\ chosen \in assessed
                    /\ chosen.hour = best'.hour /\ heat.tcm[best'.hour] = best'.tcm
                    /\ \A p \in assessed : ~Dominates(p, chosen)
                    /\ best'.reason = "all elevated" =>
                         \A p \in assessed : Criteria(p)[1] + Criteria(p)[3] > 0
  <2> HIDE DEF assessed, chosen
  <2> QED BY <1>0 DEF RecommendedHourUndominated, Dominates, Criteria
<1>1. \A h \in answering : /\ assess_hour(h, heat.tcm[h], readings(h)) \in Profile
                           /\ assess_hour(h, heat.tcm[h], readings(h)).hour = h
  <2> SUFFICES ASSUME NEW h \in answering
               PROVE  /\ assess_hour(h, heat.tcm[h], readings(h)) \in Profile
                      /\ assess_hour(h, heat.tcm[h], readings(h)).hour = h
    OBVIOUS
  <2>1. heat.tcm[h] \in Tcms
    BY DEF HourInv, ChooseBestTime
  <2>2. readings(h) \in [Parameters -> Int \cup {None}]
    BY HourAssumption, NothingReportedType DEF Environments
  <2> QED BY <2>1, <2>2, ProfileTypes DEF assess_hour
<1>2. IsFiniteSet(assessed)
  <2>1. IsFiniteSet(answering)
    BY HourAssumption, FS_Subset
  <2> DEFINE f == [h \in answering |-> assess_hour(h, heat.tcm[h], readings(h))]
  <2>2. f \in Surjection(answering, assessed)
    BY DEF Surjection
  <2> QED BY <2>1, <2>2, FS_Surjection
<1>3. assessed \subseteq Profile /\ \A p, q \in assessed : p.hour = q.hour => p = q
  BY <1>1
<1>4. /\ chosen \in assessed
      /\ \A p \in assessed \ {chosen} :
           Precedes(SelectionKey(chosen, request.cautious), SelectionKey(p, request.cautious))
  BY <1>2, <1>3, SelectedIsLeast
<1>5. chosen.hour = best'.hour /\ heat.tcm[best'.hour] = best'.tcm
  BY DEF ChooseBestTime
<1>6. \A p \in assessed : ~Dominates(p, chosen)
  BY <1>3, <1>4, LeastIsUndominated DEF Dominates, Criteria, Merits
<1>7. best'.reason = Reason(chosen, assessed)
  BY DEF ChooseBestTime
<1>8. best'.reason = "all elevated" => \A p \in assessed : HasConcerns(p)
  BY <1>7 DEF Reason
<1>9. \A p \in assessed : HasConcerns(p) => Criteria(p)[1] + Criteria(p)[3] > 0
  BY CountType DEF HasConcerns, Criteria
<1> QED BY <1>4, <1>5, <1>6, <1>8, <1>9

\* The recommended hour is judged by the request, the heat, the periods and the best time alone.
LEMMA HourKept ==
  ASSUME RecommendedHourUndominated, UNCHANGED <<request, heat, profiles, best>>
  PROVE  RecommendedHourUndominated'
<1>1. \A p : Criteria(p)' = Criteria(p)
  BY DEF Criteria
<1>2. \A p, q : Dominates(p, q)' <=> Dominates(p, q)
  BY <1>1 DEF Dominates
<1>3. CASE profiles = {}
  BY <1>3 DEF RecommendedHourUndominated
<1>4. CASE profiles # {}
  <2>1. PICK chosen \in profiles :
          /\ chosen.hour = best.hour /\ heat.tcm[best.hour] = best.tcm
          /\ \A p \in profiles : ~Dominates(p, chosen)
          /\ best.reason = "all elevated" =>
               \A p \in profiles : Criteria(p)[1] + Criteria(p)[3] > 0
    BY <1>4 DEF RecommendedHourUndominated
  <2>2. /\ chosen.hour = best'.hour /\ heat'.tcm[best'.hour] = best'.tcm
        /\ \A p \in profiles' : ~Dominates(p, chosen)'
        /\ best'.reason = "all elevated" =>
             \A p \in profiles' : Criteria(p)'[1] + Criteria(p)'[3] > 0
    BY <1>1, <1>2, <2>1
  <2> QED BY <2>1, <2>2 DEF RecommendedHourUndominated
<1> QED BY <1>3, <1>4

LEMMA HourInvStep == HourInv /\ [Next]_tripVars => HourInv'
<1> SUFFICES ASSUME HourInv, [Next]_tripVars PROVE HourInv'
  OBVIOUS
<1>1. CASE UNCHANGED tripVars
  BY <1>1, HourKept DEF tripVars, HourInv
<1>2. CASE \E body \in Bodies : Post(body)
  BY <1>2 DEF Post, Answered, HourInv, RecommendedHourUndominated
<1>3. CASE stage = "heat" /\ \E tcm \in [Hours -> Tcms \cup {None}], s \in Series :
             HourlyHeat(tcm, s.date, s.offsets)
  <2>1. profiles' = {} /\ stage' \in {"best_time", "done"}
    <3> SUFFICES ASSUME NEW tcm, NEW s \in Series, HourlyHeat(tcm, s.date, s.offsets)
                 PROVE  profiles' = {} /\ stage' \in {"best_time", "done"}
      BY <1>3
    <3>1. profiles = {}
      BY <1>3 DEF HourInv
    <3> QED BY <3>1 DEF HourlyHeat, Answered
  <2>2. stage' = "best_time" => heat'.tcm \in [Hours -> Tcms \cup {None}]
    <3> SUFFICES ASSUME stage' = "best_time", NEW tcm \in [Hours -> Tcms \cup {None}],
                        NEW s \in Series, HourlyHeat(tcm, s.date, s.offsets)
                 PROVE  heat'.tcm = tcm
      BY <1>3
    <3> QED BY DEF HourlyHeat, Answered
  <2> QED BY <2>1, <2>2 DEF HourInv, RecommendedHourUndominated
<1>4. CASE \E environment \in Environments \cup {None} : ChooseBestTime(environment)
  <2>1. RecommendedHourUndominated'
    BY <1>4, ChosenUndominated
  <2>2. stage' \in {"routing", "done"}
    BY <1>4 DEF ChooseBestTime, Answered
  <2> QED BY <2>1, <2>2 DEF HourInv
<1>5. CASE RoutesUnavailable \/ \E returned, date : RoutesReturned(returned, date)
  <2>1. profiles' = {} /\ stage' \in {"publish", "corridor", "gate", "done"}
    BY <1>5 DEF RoutesUnavailable, RoutesReturned, Compared, Answered
  <2> QED BY <2>1 DEF HourInv, RecommendedHourUndominated
<1>6. CASE \/ CorridorLost \/ HeatGate \/ Untimed \/ Night \/ Publish
           \/ \E values : CorridorHeat(values)
           \/ \E shade : Day(shade)
  <2>1. /\ UNCHANGED <<request, heat, profiles, best>>
        /\ stage' \in {"publish", "sun", "untimed", "gate", "done"}
    BY <1>6 DEF CorridorLost, HeatGate, Untimed, Night, Publish, CorridorHeat, Day, Compared,
                Answered
  <2> QED BY <2>1, HourKept DEF HourInv
<1> QED BY <1>1, <1>2, <1>3, <1>4, <1>5, <1>6 DEF Next

(***************************************************************************)
(* The recommended hour is one that answered and no other is as good in    *)
(* all criteria and better in one, for every window, every series and      *)
(* every heat sensitivity (best_time.py:98-169).                           *)
(***************************************************************************)
THEOREM HourUndominated == Spec => []RecommendedHourUndominated
<1>1. Init => HourInv
  BY DEF Init, HourInv, RecommendedHourUndominated
<1>2. HourInv => RecommendedHourUndominated
  BY DEF HourInv
<1> QED BY <1>1, <1>2, HourInvStep, PTL DEF Spec

-----------------------------------------------------------------------------
(***************************************************************************)
(* What a recommendation of routes rs beside a best time b must rest on:   *)
(* RecommendationSound says it of the published ones.                      *)
(***************************************************************************)
Backed(b, rs) ==
  rs.recommended # None =>
    LET options == {rs.alternatives[i] : i \in DOMAIN rs.alternatives}
    IN \E r \in options : r.id = rs.recommended /\ \A o \in options :
         /\ o.heat.value # None
         /\ (\A x \in options : ~x.heat.action) => r.distance <= o.distance
         /\ (\E x \in options : x.heat.action) =>
              /\ b.evidence = "exact"
              /\ \/ o.shade = NightShade /\ r.heat.value <= o.heat.value
                 \/ o.shade.confidence = "sufficient" /\ r.shade.percent >= o.shade.percent

\* The sort key of Recommended.
RouteKey(state, returned, found, shade, i) ==
  CASE state = Nighttime -> <<found.values[i], returned[i].distance, returned[i].id>>
    [] state \in {OnlyRoute, Shadiest} ->
         <<-shade[i].percent, returned[i].distance, returned[i].id>>
    [] state = Mild -> <<returned[i].distance, i>>

\* A lesser key is no greater in its first component.
LEMMA FirstComponent ==
  ASSUME NEW n \in Nat \ {0}, NEW a \in Keys(n), NEW b \in Keys(n), Precedes(a, b)
  PROVE  a[1] <= b[1]
<1>1. PICK i \in 1 .. n : a[i] < b[i] /\ \A j \in 1 .. i - 1 : a[j] = b[j]
  BY DEF Precedes, Keys
<1>2. a[1] \in Int /\ b[1] \in Int
  BY DEF Keys
<1>3. CASE i = 1
  BY <1>1, <1>2, <1>3
<1>4. CASE i # 1
  BY <1>1, <1>2, <1>4
<1> QED BY <1>3, <1>4

\* The recommended route has the least first component of all returned routes.
LEMMA RecommendedIsLeast ==
  ASSUME NEW returned \in RouteSets, returned # <<>>, NEW state, NEW found, NEW shade,
         NEW n \in Nat \ {0},
         \A i \in DOMAIN returned : RouteKey(state, returned, found, shade, i) \in Keys(n),
         \A i, k \in DOMAIN returned :
           RouteKey(state, returned, found, shade, i) = RouteKey(state, returned, found, shade, k)
             => i = k
  PROVE  LET c == Recommended(state, returned, found, shade) IN
         /\ c \in DOMAIN returned
         /\ \A i \in DOMAIN returned : RouteKey(state, returned, found, shade, c)[1]
                                       <= RouteKey(state, returned, found, shade, i)[1]
<1> DEFINE D == DOMAIN returned
           Key(i) == RouteKey(state, returned, found, shade, i)
           c == Recommended(state, returned, found, shade)
           K == [i \in D |-> Key(i)]
<1>1. IsFiniteSet(D) /\ D # {}
  <2>0. returned \in Seq([id : Int, distance : Int])
    BY RouteAssumption
  <2>1. D = 1 .. Len(returned) /\ Len(returned) \in Nat
    BY <2>0
  <2>2. IsFiniteSet(D)
    BY <2>1, FS_Interval
  <2>3. D # {}
    <3>1. Len(returned) # 0
      BY <2>0, EmptySeq
    <3> QED BY <2>1, <3>1
  <2> QED BY <2>2, <2>3
<1>2. \E x \in D : \A y \in D \ {x} : Precedes(K[x], K[y])
  <2>1. K \in [D -> Keys(n)]
    OBVIOUS
  <2>2. \A x, y \in D : K[x] = K[y] => x = y
    OBVIOUS
  <2> HIDE DEF K, D
  <2> QED BY <1>1, <2>1, <2>2, LeastExists
<1>3. \E x \in D : \A y \in D \ {x} : Precedes(Key(x), Key(y))
  BY <1>2
<1>4. c = CHOOSE x \in D : \A y \in D \ {x} : Precedes(Key(x), Key(y))
  BY DEF Recommended, LeastBy, RouteKey
<1>5. c \in D /\ \A y \in D \ {c} : Precedes(Key(c), Key(y))
  <2> HIDE DEF D, Key, c
  <2> QED BY <1>3, <1>4, Zenon
<1>6. ASSUME NEW i \in D PROVE Key(c)[1] <= Key(i)[1]
  <2>1. Key(c)[1] \in Int
    BY <1>5 DEF Keys
  <2>2. CASE i = c
    BY <2>1, <2>2
  <2>3. CASE i # c
    BY <1>5, <2>3, FirstComponent
  <2> QED BY <2>2, <2>3
<1> QED BY <1>5, <1>6

-----------------------------------------------------------------------------
\* Evidence a route decision may be given: shade only for routes, at night none.
RouteEvidence(returned, found, shade) ==
  /\ found.values \in [DOMAIN returned -> Int \cup {None}]
  /\ shade # None => \A i \in DOMAIN shade : shade[i].percent \in Int

LEMMA StatesDiffer ==
  /\ Recommending = {Mild, Nighttime, OnlyRoute, Shadiest}
  /\ {NoSuitable, HeatUnavailable, ShadeRequired, Insufficient} \cap Recommending = {}
  /\ Mild # Nighttime /\ Mild \notin {OnlyRoute, Shadiest} /\ Nighttime \notin {OnlyRoute, Shadiest}
BY DEF Recommending, NoSuitable, HeatUnavailable, ShadeRequired, Insufficient, Mild, Nighttime,
       OnlyRoute, Shadiest

\* What a recommending state of the decision says of the evidence.
LEMMA StateMeans ==
  ASSUME NEW returned, NEW found, NEW cautious, NEW night \in BOOLEAN, NEW shade,
         NEW state, state = DecisionState(returned, found, cautious, night, shade),
         state \in Recommending
  PROVE  /\ returned # <<>> /\ found # HeatLost
         /\ \A i \in DOMAIN returned : found.values[i] # None
         /\ state = Mild => ~Elevated(found.values, cautious)
         /\ state = Nighttime => night /\ Elevated(found.values, cautious)
         /\ state \in {OnlyRoute, Shadiest} =>
              /\ ~night /\ Elevated(found.values, cautious)
              /\ shade # None /\ AllShaded(returned, shade)
BY StatesDiffer DEF DecisionState

-----------------------------------------------------------------------------
\* What RouteSet guarantees of the returned routes.
LEMMA RouteFacts ==
  ASSUME NEW returned \in RouteSets
  PROVE  /\ DOMAIN returned = 1 .. Len(returned) /\ Len(returned) \in Nat
         /\ \A i \in DOMAIN returned : /\ i \in Int
                                       /\ returned[i].distance \in Int
                                       /\ returned[i].id \in Int
         /\ \A i, k \in DOMAIN returned : returned[i].id = returned[k].id => i = k
<1>1. returned \in Seq([id : Int, distance : Int])
  BY RouteAssumption
<1>2. DOMAIN returned = 1 .. Len(returned) /\ Len(returned) \in Nat
  BY <1>1
<1>3. \A i \in 1 .. Len(returned) : returned[i] \in [id : Int, distance : Int]
  BY <1>1, ElementOfSeq
<1>4. \A i \in DOMAIN returned : i \in Int
  BY <1>2
<1>5. \A i, k \in DOMAIN returned : returned[i].id = returned[k].id => i = k
  BY RouteAssumption
<1> QED BY <1>2, <1>3, <1>4, <1>5

\* Among mild routes the first of the shortest ...
LEMMA MildIsShortest ==
  ASSUME NEW returned \in RouteSets, returned # <<>>, NEW found, NEW shade
  PROVE  LET c == Recommended(Mild, returned, found, shade) IN
         c \in DOMAIN returned /\ \A i \in DOMAIN returned :
           returned[c].distance <= returned[i].distance
<1>1. \A i \in DOMAIN returned :
        RouteKey(Mild, returned, found, shade, i) = <<returned[i].distance, i>>
  BY StatesDiffer DEF RouteKey
<1>2. \A i \in DOMAIN returned : <<returned[i].distance, i>> \in Keys(2)
  BY RouteFacts DEF Keys
<1> QED BY <1>1, <1>2, RecommendedIsLeast

\* ... at night the coolest ...
LEMMA NightIsCoolest ==
  ASSUME NEW returned \in RouteSets, returned # <<>>, NEW found, NEW shade,
         \A i \in DOMAIN returned : found.values[i] \in Int
  PROVE  LET c == Recommended(Nighttime, returned, found, shade) IN
         c \in DOMAIN returned /\ \A i \in DOMAIN returned : found.values[c] <= found.values[i]
<1> DEFINE key(i) == <<found.values[i], returned[i].distance, returned[i].id>>
<1>1. \A i \in DOMAIN returned : RouteKey(Nighttime, returned, found, shade, i) = key(i)
  BY StatesDiffer DEF RouteKey
<1>2. \A i \in DOMAIN returned : key(i) \in Keys(3)
  BY RouteFacts DEF Keys
<1>3. \A i, k \in DOMAIN returned : key(i) = key(k) => i = k
  BY RouteFacts
<1> QED BY <1>1, <1>2, <1>3, RecommendedIsLeast

\* ... and with sufficient shade evidence the shadiest is recommended.
LEMMA DayIsShadiest ==
  ASSUME NEW returned \in RouteSets, returned # <<>>, NEW found, NEW shade,
         \A i \in DOMAIN returned : shade[i].percent \in Int,
         NEW state \in {OnlyRoute, Shadiest}
  PROVE  LET c == Recommended(state, returned, found, shade) IN
         c \in DOMAIN returned /\ \A i \in DOMAIN returned : shade[c].percent >= shade[i].percent
<1> DEFINE key(i) == <<-shade[i].percent, returned[i].distance, returned[i].id>>
           c == Recommended(state, returned, found, shade)
<1>1. \A i \in DOMAIN returned : RouteKey(state, returned, found, shade, i) = key(i)
  BY StatesDiffer DEF RouteKey
<1>2. \A i \in DOMAIN returned : key(i) \in Keys(3)
  BY RouteFacts DEF Keys
<1>3. \A i, k \in DOMAIN returned : key(i) = key(k) => i = k
  BY RouteFacts
<1>4. c \in DOMAIN returned /\ \A i \in DOMAIN returned : key(c)[1] <= key(i)[1]
  <2> HIDE DEF key
  <2>1. \A i \in DOMAIN returned : RouteKey(state, returned, found, shade, i) \in Keys(3)
    BY <1>1, <1>2
  <2>2. \A i, k \in DOMAIN returned :
          RouteKey(state, returned, found, shade, i) = RouteKey(state, returned, found, shade, k)
            => i = k
    BY <1>1, <1>3
  <2>3. 3 \in Nat \ {0}
    OBVIOUS
  <2>4. c \in DOMAIN returned
        /\ \A i \in DOMAIN returned : RouteKey(state, returned, found, shade, c)[1]
                                        <= RouteKey(state, returned, found, shade, i)[1]
    BY <2>1, <2>2, <2>3, RecommendedIsLeast
  <2> QED BY <1>1, <2>4
<1> QED BY <1>4

-----------------------------------------------------------------------------
(***************************************************************************)
(* Whatever decide_route_comparison recommends is backed by the evidence   *)
(* it was given, provided it was asked for a night or given shade only for *)
(* an exact time.                                                          *)
(***************************************************************************)
LEMMA DecisionBacked ==
  ASSUME NEW returned \in RouteSets, NEW found, NEW cautious, NEW night \in BOOLEAN, NEW shade,
         NEW date, NEW b, RouteEvidence(returned, found, shade),
         b.evidence = "exact" \/ (~night /\ (shade = None \/ shade = NoShade))
  PROVE  Backed(b, decide_route_comparison(returned, found, cautious, night, shade, date))
<1> DEFINE d == decide_route_comparison(returned, found, cautious, night, shade, date)
           state == DecisionState(returned, found, cautious, night, shade)
           c == Recommended(state, returned, found, shade)
           option(i) == d.alternatives[i]
<1> SUFFICES ASSUME d.recommended # None
             PROVE  \E r \in {option(i) : i \in DOMAIN d.alternatives} :
                      /\ r.id = d.recommended
                      /\ \A o \in {option(i) : i \in DOMAIN d.alternatives} :
                           /\ o.heat.value # None
                           /\ (\A x \in {option(i) : i \in DOMAIN d.alternatives} :
                                 ~x.heat.action) => r.distance <= o.distance
                           /\ (\E x \in {option(i) : i \in DOMAIN d.alternatives} :
                                 x.heat.action) =>
                                /\ b.evidence = "exact"
                                /\ \/ o.shade = NightShade /\ r.heat.value <= o.heat.value
                                   \/ /\ o.shade.confidence = "sufficient"
                                      /\ r.shade.percent >= o.shade.percent
  BY DEF Backed
<1>1. state \in Recommending /\ d.recommended = returned[c].id
  BY DEF decide_route_comparison
<1>2. /\ returned # <<>> /\ found # HeatLost
      /\ \A i \in DOMAIN returned : found.values[i] # None
      /\ state = Mild => ~Elevated(found.values, cautious)
      /\ state = Nighttime => night /\ Elevated(found.values, cautious)
      /\ state \in {OnlyRoute, Shadiest} => /\ ~night /\ Elevated(found.values, cautious)
                                            /\ shade # None /\ AllShaded(returned, shade)
  BY <1>1, StateMeans
<1>3. /\ DOMAIN d.alternatives = DOMAIN returned
      /\ \A i \in DOMAIN returned :
           /\ option(i).id = returned[i].id /\ option(i).distance = returned[i].distance
           /\ option(i).heat = classify_heat(found.values[i], TCM, cautious)
           /\ option(i).shade = ShadeOf(i, night, shade)
  BY <1>2 DEF decide_route_comparison, Options
<1>4. \A i \in DOMAIN returned : /\ found.values[i] \in Int
                                 /\ option(i).heat.value = found.values[i]
  <2>1. \A v, m : classify_heat(v, m, cautious).value = v
    BY DEF classify_heat
  <2>2. \A i \in DOMAIN returned : found.values[i] \in Int
    BY <1>2 DEF RouteEvidence
  <2> QED BY <1>3, <2>1, <2>2
<1>5. (\E i \in DOMAIN returned : option(i).heat.action) <=> Elevated(found.values, cautious)
  <2>1. DOMAIN found.values = DOMAIN returned
    BY DEF RouteEvidence
  <2> QED BY <1>3, <2>1 DEF Elevated
<1> HIDE DEF d, state, c
<1>6. CASE state = Mild
  <2>1. c \in DOMAIN returned /\ \A i \in DOMAIN returned :
          returned[c].distance <= returned[i].distance
    BY <1>2, <1>6, MildIsShortest DEF c
  <2> QED BY <1>1, <1>2, <1>3, <1>4, <1>5, <1>6, <2>1
<1>7. CASE state = Nighttime
  <2>1. c \in DOMAIN returned /\ \A i \in DOMAIN returned : found.values[c] <= found.values[i]
    BY <1>2, <1>4, <1>7, NightIsCoolest DEF c
  <2>2. night /\ b.evidence = "exact" /\ \A i \in DOMAIN returned : option(i).shade = NightShade
    BY <1>2, <1>3, <1>7 DEF ShadeOf
  <2>3. option(c).id = d.recommended
        /\ \A i \in DOMAIN returned : option(c).heat.value <= option(i).heat.value
    BY <1>1, <1>3, <1>4, <2>1
  <2>4. \E i \in DOMAIN returned : option(i).heat.action
    BY <1>2, <1>5, <1>7
  <2>5. \A i \in DOMAIN returned : option(i).heat.value # None
    BY <1>2, <1>4
  <2> HIDE DEF option
  <2> QED BY <1>3, <2>1, <2>2, <2>3, <2>4, <2>5
<1>8. CASE state \in {OnlyRoute, Shadiest}
  <2>1. /\ ~night /\ shade # None
        /\ \A i \in DOMAIN returned : i \in DOMAIN shade /\ shade[i].confidence = "sufficient"
    BY <1>2, <1>8 DEF AllShaded
  <2>2. \A i \in DOMAIN returned : shade[i].percent \in Int
    BY <2>1 DEF RouteEvidence
  <2>3. c \in DOMAIN returned /\ \A i \in DOMAIN returned : shade[c].percent >= shade[i].percent
    BY <1>2, <1>8, <2>2, DayIsShadiest DEF c
  <2>4. \A i \in DOMAIN returned : option(i).shade = shade[i]
    BY <1>3, <2>1 DEF ShadeOf
  <2>5. b.evidence = "exact"
    <3>1. DOMAIN shade # {}
      BY <2>1, <2>3
    <3>2. shade # NoShade
      BY <3>1 DEF NoShade
    <3> QED BY <2>1, <3>2
  <2> QED BY <1>1, <1>2, <1>3, <1>4, <1>5, <1>8, <2>1, <2>3, <2>4, <2>5
<1> QED BY <1>1, <1>6, <1>7, <1>8 DEF Recommending

-----------------------------------------------------------------------------
\* Where an analysis is with its routes, their heat and the time it needs.
RouteInv ==
  /\ stage = "best_time" => heat.tcm \in [Hours -> Tcms \cup {None}]
  /\ stage = "routing" => best.tcm \in Int \cup {None}
  /\ stage \in {"corridor", "gate", "sun", "untimed"} => routing.routes \in RouteSets
  /\ stage \in {"gate", "sun", "untimed"} =>
       routeHeat.values \in [DOMAIN routing.routes -> Int \cup {None}]
  /\ stage = "sun" => best.evidence = "exact"
  /\ stage = "publish" => Backed(best, routes)
  /\ RecommendationSound

\* Only Publish answers with a recommendation.
LEMMA NotPublished ==
  ASSUME NEW code, response' = BadRequest \/ response' = Unavailable(code)
  PROVE  RecommendationSound'
<1>1. BadRequest.state # "degraded" /\ Unavailable(code).state # "degraded"
  BY DEF BadRequest, Unavailable
<1> QED BY <1>1 DEF RecommendationSound, Published

LEMMA PublishedBacked ==
  ASSUME Backed(best, routes), Publish
  PROVE  RecommendationSound'
<1>1. CASE response' = [state |-> "degraded", best |-> best, routes |-> routes]
  <2>1. response'.best = best /\ response'.routes = routes
    BY <1>1
  <2> QED BY <2>1 DEF RecommendationSound, Backed
<1>2. CASE response' = Unavailable("contract_violation")
  BY <1>2, NotPublished
<1> QED BY <1>1, <1>2 DEF Publish, Answered

\* A comparison that is built keeps the invariant if it is backed when it is final.
LEMMA ComparedBacked ==
  ASSUME RouteInv, NEW result, NEW next, Compared(result, next), UNCHANGED best,
         next = "publish" => Backed(best, result),
         next \in {"publish", "sun", "untimed"},
         next = "sun" => best.evidence = "exact",
         next \in {"sun", "untimed"} => stage = "gate" /\ UNCHANGED <<routing, routeHeat>>
  PROVE  RouteInv'
<1>1. CASE routes' = result /\ stage' = next /\ UNCHANGED response
  <2>1. RecommendationSound'
    BY <1>1 DEF RouteInv, RecommendationSound, Published
  <2>2. stage' = "publish" => Backed(best', routes')
    BY <1>1 DEF Backed
  <2>3. stage' \in {"sun", "untimed"} =>
          /\ routing'.routes \in RouteSets
          /\ routeHeat'.values \in [DOMAIN routing'.routes -> Int \cup {None}]
    BY <1>1 DEF RouteInv
  <2> QED BY <1>1, <2>1, <2>2, <2>3 DEF RouteInv
<1>2. CASE stage' = "done" /\ response' = BadRequest
  <2>1. RecommendationSound'
    BY <1>2, NotPublished
  <2> QED BY <1>2, <2>1 DEF RouteInv
<1> QED BY <1>1, <1>2 DEF Compared, Answered

-----------------------------------------------------------------------------
LEMMA PostBacked == ASSUME RouteInv, NEW body, Post(body) PROVE RouteInv'
<1>1. stage' \in {"heat", "done"} /\
      (UNCHANGED response \/ \E code : response' = BadRequest \/ response' = Unavailable(code))
  BY DEF Post, Answered
<1>2. RecommendationSound'
  BY <1>1, NotPublished DEF RouteInv, RecommendationSound, Published
<1> QED BY <1>1, <1>2 DEF RouteInv

LEMMA HourlyHeatBacked ==
  ASSUME RouteInv, NEW tcm \in [Hours -> Tcms \cup {None}], NEW date, NEW offsets,
         HourlyHeat(tcm, date, offsets)
  PROVE  RouteInv'
<1>1. CASE heat' = [tcm |-> tcm, date |-> date, offsets |-> offsets]
           /\ stage' = "best_time" /\ UNCHANGED response
  <2>1. heat'.tcm = tcm
    BY <1>1
  <2> QED BY <1>1, <2>1 DEF RouteInv, RecommendationSound, Published
<1>2. CASE Answered(Unavailable("provider_data_missing"))
  <2>1. RecommendationSound'
    BY <1>2, NotPublished DEF Answered
  <2> QED BY <1>2, <2>1 DEF RouteInv, Answered
<1> QED BY <1>1, <1>2 DEF HourlyHeat

LEMMA ChooseBestTimeBacked ==
  ASSUME RouteInv, NEW environment, ChooseBestTime(environment)
  PROVE  RouteInv'
<1>1. heat.tcm \in [Hours -> Tcms \cup {None}]
  BY DEF RouteInv, ChooseBestTime
<1>2. CASE BestTimeAccepted(best', profiles') /\ stage' = "routing" /\ UNCHANGED response
  <2>1. PICK p \in profiles' : p.hour = best'.hour
    BY <1>2 DEF BestTimeAccepted
  <2>2. PICK h \in Hours : \E r : p = assess_hour(h, heat.tcm[h], r)
    BY Zenon DEF ChooseBestTime
  <2>3. best'.hour \in Hours
    BY <2>1, <2>2 DEF assess_hour
  <2>4. best'.tcm = heat.tcm[best'.hour]
    BY DEF ChooseBestTime
  <2>5. best'.tcm \in Int \cup {None}
    BY <1>1, <2>3, <2>4, HourAssumption
  <2> QED BY <1>2, <2>5 DEF RouteInv, RecommendationSound, Published
<1>3. CASE Answered(Unavailable("provider_data_missing"))
  <2>1. RecommendationSound'
    BY <1>3, NotPublished DEF Answered
  <2> QED BY <1>3, <2>1 DEF RouteInv, Answered
<1> QED BY <1>2, <1>3 DEF ChooseBestTime

\* Without routes, or without their heat, nothing is recommended.
LEMMA NothingToRecommend ==
  ASSUME NEW returned, NEW found, returned = <<>> \/ found = HeatLost, NEW cautious, NEW date,
         NEW b
  PROVE  Backed(b, decide_route_comparison(returned, found, cautious, FALSE, None, date))
<1>1. DecisionState(returned, found, cautious, FALSE, None) \notin Recommending
  BY StatesDiffer DEF DecisionState
<1> QED BY <1>1 DEF Backed, decide_route_comparison

LEMMA RoutesReturnedBacked ==
  ASSUME RouteInv, NEW returned \in RouteSets, NEW date, RoutesReturned(returned, date)
  PROVE  RouteInv'
<1>1. routing'.routes = returned
  BY DEF RoutesReturned
<1>2. CASE stage' = "corridor"
  BY <1>1, <1>2 DEF RouteInv, RoutesReturned, RecommendationSound, Published
<1>3. CASE stage' = "gate"
           /\ routeHeat' = [source |-> "landmark_reuse", date |-> best.date,
                            values |-> [i \in DOMAIN returned |-> best.tcm]]
  <2>1. routeHeat'.values \in [DOMAIN returned -> Int \cup {None}]
    BY <1>3 DEF RouteInv, RoutesReturned
  <2> QED BY <1>1, <1>3, <2>1 DEF RouteInv, RoutesReturned, RecommendationSound, Published
<1> QED BY <1>2, <1>3 DEF RoutesReturned

LEMMA CorridorHeatBacked ==
  ASSUME RouteInv, NEW values \in CorridorValues(Len(routing.routes)), CorridorHeat(values)
  PROVE  RouteInv'
<1>1. routing.routes \in RouteSets
  BY DEF RouteInv, CorridorHeat
<1>2. DOMAIN routing.routes = 1 .. Len(routing.routes)
  BY <1>1, RouteFacts
<1>3. routeHeat'.values \in [DOMAIN routing.routes -> Int \cup {None}]
  BY <1>2, HourAssumption DEF CorridorHeat, CorridorValues
<1> QED BY <1>1, <1>3 DEF RouteInv, CorridorHeat, RecommendationSound, Published

\* The decisions of a gate that has heat for the routes it was given.
LEMMA DecidedBacked ==
  ASSUME RouteInv, stage \in {"gate", "sun", "untimed"}, NEW night \in BOOLEAN, NEW shade,
         shade # None => \A i \in DOMAIN shade : shade[i].percent \in Int,
         stage = "sun" \/ (~night /\ (shade = None \/ shade = NoShade))
  PROVE  Backed(best, Decided(night, shade))
<1>1. routing.routes \in RouteSets /\ RouteEvidence(routing.routes, routeHeat, shade)
  BY DEF RouteInv, RouteEvidence
<1>2. best.evidence = "exact" \/ (~night /\ (shade = None \/ shade = NoShade))
  BY DEF RouteInv
<1> QED BY <1>1, <1>2, DecisionBacked DEF Decided

LEMMA ComparisonsBacked ==
  ASSUME RouteInv,
         \/ RoutesUnavailable \/ CorridorLost \/ HeatGate \/ Untimed \/ Night
         \/ stage = "sun" /\ \E shade \in ShadeResults(Len(routing.routes)) : Day(shade)
  PROVE  RouteInv'
<1>1. CASE RoutesUnavailable
  BY <1>1, NothingToRecommend, ComparedBacked DEF RoutesUnavailable
<1>2. CASE CorridorLost
  BY <1>2, NothingToRecommend, ComparedBacked DEF CorridorLost
<1>3. CASE HeatGate
  <2>1. Backed(best, Decided(FALSE, None))
    BY <1>3, DecidedBacked DEF HeatGate
  <2> QED BY <1>3, <2>1, ComparedBacked DEF HeatGate
<1>4. CASE Untimed
  <2>1. Backed(best, Decided(FALSE, NoShade))
    <3>1. \A i \in DOMAIN NoShade : NoShade[i].percent \in Int
      BY DEF NoShade
    <3> QED BY <1>4, <3>1, DecidedBacked DEF Untimed
  <2> QED BY <1>4, <2>1, ComparedBacked DEF Untimed
<1>5. CASE Night
  <2>1. Backed(best, Decided(TRUE, None))
    BY <1>5, DecidedBacked DEF Night
  <2> QED BY <1>5, <2>1, ComparedBacked DEF Night
<1>6. CASE \E shade \in ShadeResults(Len(routing.routes)) : Day(shade)
  <2>1. PICK shade \in ShadeResults(Len(routing.routes)) : Day(shade)
    BY <1>6
  <2>2. \A i \in DOMAIN shade : shade[i].percent \in Int
    BY ShadeAssumption DEF ShadeResults
  <2>3. Backed(best, Decided(FALSE, shade))
    BY <2>1, <2>2, DecidedBacked DEF Day
  <2> QED BY <2>1, <2>3, ComparedBacked DEF Day
<1> QED BY <1>1, <1>2, <1>3, <1>4, <1>5, <1>6

LEMMA RouteInvStep == RouteInv /\ [Next]_tripVars => RouteInv'
<1> SUFFICES ASSUME RouteInv, [Next]_tripVars PROVE RouteInv'
  OBVIOUS
<1>1. CASE UNCHANGED tripVars
  BY <1>1 DEF tripVars, RouteInv, Backed, RecommendationSound, Published
<1>2. CASE \E body \in Bodies : Post(body)
  BY <1>2, PostBacked
<1>3. CASE \E tcm \in [Hours -> Tcms \cup {None}], s \in Series :
             HourlyHeat(tcm, s.date, s.offsets)
  BY <1>3, HourlyHeatBacked
<1>4. CASE \E environment \in Environments \cup {None} : ChooseBestTime(environment)
  BY <1>4, ChooseBestTimeBacked
<1>5. CASE \E returned \in RouteSets, date \in {Today, "other"} : RoutesReturned(returned, date)
  BY <1>5, RoutesReturnedBacked
<1>6. CASE \E values \in CorridorValues(Len(routing.routes)) : CorridorHeat(values)
  BY <1>6, CorridorHeatBacked
<1>7. CASE \/ RoutesUnavailable \/ CorridorLost \/ HeatGate \/ Untimed \/ Night
           \/ stage = "sun" /\ \E shade \in ShadeResults(Len(routing.routes)) : Day(shade)
  BY <1>7, ComparisonsBacked
<1>8. CASE Publish
  <2>1. RecommendationSound' /\ stage' = "done"
    BY <1>8, PublishedBacked DEF RouteInv, Publish, Answered
  <2> QED BY <2>1 DEF RouteInv
<1> QED BY <1>1, <1>2, <1>3, <1>4, <1>5, <1>6, <1>7, <1>8 DEF Next

(***************************************************************************)
(* A published recommendation is backed by the evidence published with it, *)
(* for every set of routes, every heat and shade evidence and every order  *)
(* in which the gates are passed (route_decision.py:116-250,               *)
(* route_analysis.py:204-287).                                             *)
(***************************************************************************)
THEOREM RecommendationBacked == Spec => []RecommendationSound
<1>1. Init => RouteInv
  BY DEF Init, RouteInv, RecommendationSound, Published
<1>2. RouteInv => RecommendationSound
  BY DEF RouteInv
<1> QED BY <1>1, <1>2, RouteInvStep, PTL DEF Spec

-----------------------------------------------------------------------------
Violation == Unavailable("contract_violation")

\* The stages between the choice of the best time and the answer.
Late == {"routing", "corridor", "gate", "sun", "untimed", "publish"}

ExactTime ==
  best.evidence = "exact" => best.time = [date |-> "trip", hour |-> best.hour]

PublicationInv ==
  /\ stage = "best_time" => heat.offsets # {}
  /\ stage \in Late => ExactTime
  /\ stage # "done" => response # Violation
  /\ PublishedUnlessDatesDiffer

-----------------------------------------------------------------------------
(***************************************************************************)
(* _route_degradation_reason and _best_time_degradation_reason name        *)
(* exactly the sections that TripAnalysisResponse wants a reason for.      *)
(***************************************************************************)
LEMMA ReasonsAgree == DegradedResponseAccepted(best, routes, DegradedReasons)
BY DEF DegradedResponseAccepted, DegradedReasons, DegradedSections, RouteReason

\* A time is exact only if some tile was read and the heat is of the trip's day.
LEMMA ExactIsOfTheTrip ==
  ASSUME NEW offsets, offsets # {}, NEW zone, NEW date,
         TemporalEvidence(offsets, zone, date) = "exact"
  PROVE  date = "trip"
BY DEF TemporalEvidence

LEMMA CodesDiffer ==
  /\ BadRequest # Violation
  /\ \A code : code # "contract_violation" => Unavailable(code) # Violation
  /\ \A b, r : [state |-> "degraded", best |-> b, routes |-> r] # Violation
<1>1. BadRequest.state # Violation.state
  BY DEF BadRequest, Violation, Unavailable
<1>2. \A code : Unavailable(code).code = code
  BY DEF Unavailable
<1>3. \A b, r : [state |-> "degraded", best |-> b, routes |-> r].state # Violation.state
  BY DEF Violation, Unavailable
<1> QED BY <1>1, <1>2, <1>3 DEF Violation

-----------------------------------------------------------------------------
LEMMA PublicationInit == Init => PublicationInv
BY NoneAssumption DEF Init, PublicationInv, Late, PublishedUnlessDatesDiffer, Violation

\* An answer that is no contract violation satisfies whatever the invariant asks of it.
LEMMA OtherAnswers ==
  ASSUME NEW other, other # Violation, Answered(other)
  PROVE  PublicationInv'
BY DEF Answered, PublicationInv, Late, PublishedUnlessDatesDiffer, Violation

\* A step between two late stages leaves the best time alone and answers nothing.
LEMMA LateSteps ==
  ASSUME PublicationInv, stage \in Late, stage' \in Late, UNCHANGED <<best, response>>
  PROVE  PublicationInv'
BY DEF PublicationInv, Late, ExactTime, PublishedUnlessDatesDiffer, Violation

LEMMA ComparedSteps ==
  ASSUME PublicationInv, stage \in Late, NEW result, NEW next \in Late, Compared(result, next),
         UNCHANGED best
  PROVE  PublicationInv'
<1>1. CASE RouteComparisonAccepted(result)
  BY <1>1, LateSteps DEF Compared
<1>2. CASE ~RouteComparisonAccepted(result)
  BY <1>2, OtherAnswers, CodesDiffer DEF Compared
<1> QED BY <1>1, <1>2

LEMMA PostStep == ASSUME PublicationInv, NEW body, Post(body) PROVE PublicationInv'
<1>1. CASE stage' = "heat" /\ UNCHANGED response
  BY <1>1 DEF Post, PublicationInv, Late, PublishedUnlessDatesDiffer, Violation
<1>2. CASE Answered(BadRequest) \/ Answered(Unavailable("unsupported_geography"))
  BY <1>2, OtherAnswers, CodesDiffer
<1> QED BY <1>1, <1>2 DEF Post

LEMMA HourlyHeatStep ==
  ASSUME PublicationInv, NEW tcm, NEW s \in Series, HourlyHeat(tcm, s.date, s.offsets)
  PROVE  PublicationInv'
<1>1. s.offsets # {}
  BY DEF Series, LiveOffsets
<1>2. CASE Answered(Unavailable("provider_data_missing"))
  BY <1>2, OtherAnswers, CodesDiffer
<1>3. CASE /\ heat' = [tcm |-> tcm, date |-> s.date, offsets |-> s.offsets]
           /\ stage' = "best_time" /\ UNCHANGED response
  <2>1. heat'.offsets # {}
    BY <1>1, <1>3
  <2> QED BY <1>3, <2>1 DEF HourlyHeat, PublicationInv, Late, PublishedUnlessDatesDiffer, Violation
<1> QED BY <1>2, <1>3 DEF HourlyHeat

LEMMA ChooseBestTimeStep ==
  ASSUME PublicationInv, NEW environment, ChooseBestTime(environment) PROVE PublicationInv'
<1>1. stage = "best_time" /\ heat.offsets # {} /\ response # Violation
  BY DEF ChooseBestTime, PublicationInv
<1>2. ExactTime'
  <2> DEFINE zone == IF environment = None THEN "America/Chicago" ELSE environment.zone
             evidence == TemporalEvidence(heat.offsets, zone, heat.date)
  <2>1. /\ best'.evidence = evidence
        /\ best'.time = IF evidence = "exact"
                        THEN [date |-> heat.date, hour |-> best'.hour] ELSE None
    BY DEF ChooseBestTime
  <2>2. evidence = "exact" => heat.date = "trip"
    BY <1>1, ExactIsOfTheTrip
  <2> QED BY <2>1, <2>2 DEF ExactTime
<1>3. CASE stage' = "routing" /\ UNCHANGED response
  BY <1>1, <1>2, <1>3 DEF PublicationInv, Late, PublishedUnlessDatesDiffer, Violation
<1>4. CASE Answered(Unavailable("provider_data_missing"))
  BY <1>4, OtherAnswers, CodesDiffer
<1> QED BY <1>3, <1>4 DEF ChooseBestTime

LEMMA RouteSteps ==
  ASSUME PublicationInv,
         \/ RoutesUnavailable \/ CorridorLost \/ HeatGate \/ Untimed \/ Night
         \/ \E returned, date : RoutesReturned(returned, date)
         \/ \E values : CorridorHeat(values)
         \/ \E shade : Day(shade)
  PROVE  PublicationInv'
<1>1. stage \in Late /\ UNCHANGED best
  BY DEF Late, RoutesUnavailable, CorridorLost, HeatGate, Untimed, Night, RoutesReturned,
         CorridorHeat, Day
<1>2. {"publish", "sun", "untimed"} \subseteq Late
  BY DEF Late
<1>3. CASE RoutesUnavailable
  BY <1>1, <1>2, <1>3, ComparedSteps DEF RoutesUnavailable
<1>4. CASE CorridorLost
  BY <1>1, <1>2, <1>4, ComparedSteps DEF CorridorLost
<1>5. CASE HeatGate
  BY <1>1, <1>2, <1>5, ComparedSteps DEF HeatGate
<1>6. CASE Untimed \/ Night \/ \E shade : Day(shade)
  BY <1>1, <1>2, <1>6, ComparedSteps DEF Untimed, Night, Day
<1>7. CASE \/ \E returned, date : RoutesReturned(returned, date)
           \/ \E values : CorridorHeat(values)
  BY <1>1, <1>7, LateSteps DEF RoutesReturned, CorridorHeat, Late
<1> QED BY <1>3, <1>4, <1>5, <1>6, <1>7

\* The only step that can answer with a contract violation.
LEMMA PublishStep == ASSUME PublicationInv, Publish PROVE PublicationInv'
<1>1. stage = "publish" /\ ExactTime
  BY DEF Publish, PublicationInv, Late
<1>2. CASE RequestAligned(best, routes, "trip")
  <2>1. Answered([state |-> "degraded", best |-> best, routes |-> routes])
    BY <1>2, ReasonsAgree DEF Publish
  <2> QED BY <2>1, OtherAnswers, CodesDiffer
<1>3. CASE ~RequestAligned(best, routes, "trip")
  <2>1. best.date # "trip" \/ routes.date # "trip"
    BY <1>1, <1>3 DEF RequestAligned, ExactTime
  <2>2. best' = best /\ routes' = routes /\ stage' = "done"
    BY DEF Publish, Answered
  <2> QED BY <2>1, <2>2 DEF PublicationInv, Late, PublishedUnlessDatesDiffer
<1> QED BY <1>2, <1>3

LEMMA PublicationNext == PublicationInv /\ [Next]_tripVars => PublicationInv'
<1> SUFFICES ASSUME PublicationInv, [Next]_tripVars PROVE PublicationInv'
  OBVIOUS
<1>1. CASE UNCHANGED tripVars
  BY <1>1 DEF tripVars, PublicationInv, ExactTime, PublishedUnlessDatesDiffer
<1>2. CASE \E body \in Bodies : Post(body)
  BY <1>2, PostStep
<1>3. CASE \E tcm \in [Hours -> Tcms \cup {None}], s \in Series :
             HourlyHeat(tcm, s.date, s.offsets)
  BY <1>3, HourlyHeatStep
<1>4. CASE \E environment \in Environments \cup {None} : ChooseBestTime(environment)
  BY <1>4, ChooseBestTimeStep
<1>5. CASE \/ RoutesUnavailable \/ CorridorLost \/ HeatGate \/ Untimed \/ Night
           \/ \E returned, date : RoutesReturned(returned, date)
           \/ \E values : CorridorHeat(values)
           \/ \E shade : Day(shade)
  BY <1>5, RouteSteps
<1>6. CASE Publish
  BY <1>6, PublishStep
<1> QED BY <1>1, <1>2, <1>3, <1>4, <1>5, <1>6 DEF Next

(***************************************************************************)
(* A paid analysis is withheld as a contract violation only for a date:    *)
(* whichever branch the route decision took, the adapter's reasons are     *)
(* the contract's (trip_adapters.py:417-473, 774-814).                     *)
(***************************************************************************)
THEOREM PublishedUnlessDated == Spec => []PublishedUnlessDatesDiffer
<1>1. PublicationInv => PublishedUnlessDatesDiffer
  BY DEF PublicationInv
<1> QED BY <1>1, PublicationInit, PublicationNext, PTL DEF Spec

-----------------------------------------------------------------------------
(***************************************************************************)
(* What the run Results composes: of every behaviour of it, each module    *)
(* sees a behaviour of its own.                                            *)
(***************************************************************************)
LEMMA PartsAreRuns ==
  PartSpec => Hotel!Spec /\ Replay!Spec /\ Acquisition!Spec /\ Pair!Spec
<1>1. PartInit => Hotel!Init /\ Replay!Init /\ Acquisition!Init /\ Pair!Init
  BY DEF PartInit
<1> USE DEF PartNext, partVars, TripNext, HotelsNext, ReplayNext, AcquisitionNext, SnapshotsNext
<1>2. [PartNext]_partVars => [Replay!Next]_Replay!replayVars
  BY DEF replayVars, Replay!replayVars
<1>3. [PartNext]_partVars => [Acquisition!Next]_Acquisition!acquisitionVars
  BY DEF acquisitionVars, Acquisition!acquisitionVars, Acquisition!files, Acquisition!process
<1>4. [PartNext]_partVars => [Pair!Next]_Pair!pairVars
  BY DEF pairVars, Pair!pairVars
<1>5. [PartNext]_partVars => [Hotel!Next]_Hotel!hotelVars
  BY DEF hotelVars, Hotel!hotelVars
<1> QED BY <1>1, <1>2, <1>3, <1>4, <1>5, PTL
        DEF PartSpec, Hotel!Spec, Replay!Spec, Acquisition!Spec, Pair!Spec

-----------------------------------------------------------------------------
VersionPairs == [fixture : Nat, sidecar : Nat]
Mid == {"half", "restoring", "restored"}

Positions == [phase : {"idle", "building", "prepared"} \cup Mid, at : 1 .. Snapshots,
              originals : VersionPairs]
Loads == [fixture : Nat, sidecar : Nat, overlapped : BOOLEAN]

PairTypes ==
  /\ disk \in [1 .. Snapshots -> VersionPairs] /\ version \in Nat
  /\ generator \in Positions
  /\ loader \in [at : 0 .. Snapshots, fixture : Nat, overlapped : BOOLEAN]
  /\ loaded \in Seq(Loads)

PairsWhole ==
  \A s \in 1 .. Snapshots :
    disk[s].fixture # disk[s].sidecar => generator.phase \in Mid /\ Pair!At = s

Remembered ==
  LET before == generator.originals IN
  /\ generator.phase \in {"prepared"} \cup Mid => before.fixture = before.sidecar
  /\ generator.phase = "half" => disk[Pair!At].fixture = version
  /\ generator.phase = "restored" => disk[Pair!At].fixture = before.fixture

Undisturbed ==
  /\ loader.at > 0 /\ ~loader.overlapped =>
       ~Pair!Running /\ loader.fixture = disk[loader.at].fixture
  /\ \A k \in DOMAIN loaded : loaded[k].fixture # loaded[k].sidecar => loaded[k].overlapped

PairInv == killed \/ (PairTypes /\ PairsWhole /\ Remembered /\ Undisturbed)

-----------------------------------------------------------------------------
LEMMA StartingPoints ==
  ASSUME Pair!SnapshotsAssumption
  PROVE  /\ Pair!Idle \in Positions /\ [Pair!Idle EXCEPT !.phase = "building"] \in Positions
         /\ \A i \in 1 .. Snapshots :
              [Pair!Idle EXCEPT !.phase = "building", !.at = i] \in Positions
         /\ Pair!NotLoading \in [at : 0 .. Snapshots, fixture : Nat, overlapped : BOOLEAN]
         /\ <<>> \in Seq(Loads)
<1>1. Pair!Idle \in Positions
  BY DEF Pair!SnapshotsAssumption, Pair!Idle, Pair!NoPair, Pair!NoFile, Positions, VersionPairs
<1>2. \A p \in Positions, i \in 1 .. Snapshots :
        /\ [p EXCEPT !.phase = "building"] \in Positions
        /\ [p EXCEPT !.phase = "building", !.at = i] \in Positions
  BY DEF Positions
<1>3. Pair!NotLoading \in [at : 0 .. Snapshots, fixture : Nat, overlapped : BOOLEAN]
  BY DEF Pair!SnapshotsAssumption, Pair!NotLoading, Pair!NoFile
<1>4. 1 \in 1 .. Snapshots
  BY DEF Pair!SnapshotsAssumption
<1> QED BY <1>1, <1>2, <1>3, <1>4, EmptySeq

LEMMA InitPairs == ASSUME Pair!SnapshotsAssumption, Pair!Init PROVE PairInv
<1>1. PairTypes
  BY StartingPoints DEF Pair!Init, PairTypes, VersionPairs, Pair!NoPair, Pair!NoFile
<1>2. PairsWhole /\ Remembered /\ Undisturbed
  BY DEF Pair!Init, PairsWhole, Remembered, Undisturbed, Pair!NoPair, Pair!Idle, Pair!NotLoading,
         Mid, Pair!At, Pair!Running
<1> QED BY <1>1, <1>2 DEF PairInv

\* The steps of the generator that write no file.
LEMMA QuietSteps ==
  ASSUME Pair!SnapshotsAssumption, PairInv, ~killed,
         \/ \E overwrite \in BOOLEAN : Pair!Generate(overwrite)
         \/ Pair!Prepare \/ Pair!FailBuilding \/ Pair!FailReplacing
  PROVE  PairInv'
<1> USE DEF PairTypes, Positions, VersionPairs, Mid, Pair!At, Pair!Running, Pair!Server,
           Pair!Phase, Pair!Idle, Pair!NoPair, Pair!NoFile
<1>1. CASE \E overwrite \in BOOLEAN : Pair!Generate(overwrite)
  <2>1. PairTypes'
    <3>1. generator' \in Positions
      BY <1>1, StartingPoints DEF Pair!Generate
    <3>2. loader' \in [at : 0 .. Snapshots, fixture : Nat, overlapped : BOOLEAN]
      <4> DEFINE Noted(b) == [loader EXCEPT !.overlapped = b]
      <4>1. \A b \in BOOLEAN :
              Noted(b) \in [at : 0 .. Snapshots, fixture : Nat, overlapped : BOOLEAN]
        BY DEF PairInv
      <4>2. loader' = Noted(loader.at > 0)
        BY <1>1 DEF Pair!Generate, Pair!NoteOverlap
      <4>3. (loader.at > 0) \in BOOLEAN
        OBVIOUS
      <4> HIDE DEF Noted
      <4> QED BY <4>1, <4>2, <4>3, Zenon
    <3>3. UNCHANGED <<disk, killed, loaded>> /\ version' = version + 1
      BY <1>1 DEF Pair!Generate
    <3> QED BY <3>1, <3>2, <3>3 DEF PairInv
  <2>2. PairsWhole' /\ Remembered'
    BY <1>1 DEF PairInv, Pair!Generate, PairsWhole, Remembered
  <2>3. Undisturbed'
    BY <1>1 DEF PairInv, Pair!Generate, Pair!NoteOverlap, Undisturbed
  <2> QED BY <2>1, <2>2, <2>3 DEF PairInv
<1>2. CASE Pair!Prepare
  <2>1. PairTypes' /\ PairsWhole' /\ Remembered'
    BY <1>2 DEF PairInv, Pair!Prepare, PairsWhole, Remembered
  <2>2. Undisturbed'
    BY <1>2 DEF PairInv, Pair!Prepare, Undisturbed
  <2> QED BY <2>1, <2>2 DEF PairInv
<1>3. CASE Pair!FailBuilding
  <2>1. PairTypes' /\ PairsWhole' /\ Remembered'
    BY <1>3 DEF PairInv, Pair!FailBuilding, PairsWhole, Remembered, Pair!SnapshotsAssumption
  <2>2. Undisturbed'
    BY <1>3 DEF PairInv, Pair!FailBuilding, Undisturbed
  <2> QED BY <2>1, <2>2 DEF PairInv
<1>4. CASE Pair!FailReplacing
  <2>1. PairTypes' /\ PairsWhole' /\ Remembered'
    BY <1>4 DEF PairInv, Pair!FailReplacing, PairsWhole, Remembered
  <2>2. Undisturbed'
    BY <1>4 DEF PairInv, Pair!FailReplacing, Undisturbed
  <2> QED BY <2>1, <2>2 DEF PairInv
<1> QED BY <1>1, <1>2, <1>3, <1>4

\* The steps that write one file of the pair the generator is at.
LEMMA WritingSteps ==
  ASSUME Pair!SnapshotsAssumption, PairInv, ~killed,
         Pair!ReplaceFixture \/ Pair!ReplaceSidecar \/ Pair!RestoreFixture \/ Pair!RestoreSidecar
  PROVE  PairInv'
<1> USE DEF PairTypes, Positions, VersionPairs, Mid, Pair!At, Pair!Running, Pair!Server,
           Pair!Phase, Pair!Idle, Pair!NoPair, Pair!NoFile, Pair!Restored
<1>1. CASE Pair!ReplaceFixture
  <2>1. PairTypes'
    BY <1>1 DEF PairInv, Pair!ReplaceFixture
  <2>2. PairsWhole' /\ Remembered'
    BY <1>1 DEF PairInv, Pair!ReplaceFixture, PairsWhole, Remembered
  <2>3. Undisturbed'
    BY <1>1 DEF PairInv, Pair!ReplaceFixture, Undisturbed
  <2> QED BY <2>1, <2>2, <2>3 DEF PairInv
<1>2. CASE Pair!ReplaceSidecar
  <2>1. PairTypes'
    <3>1. generator' \in Positions
      <4>1. Pair!At # Snapshots => Pair!At + 1 \in 1 .. Snapshots
        BY DEF PairInv, Pair!SnapshotsAssumption
      <4> QED BY <1>2, <4>1, StartingPoints DEF Pair!ReplaceSidecar
    <3>2. disk' \in [1 .. Snapshots -> VersionPairs]
      BY <1>2 DEF PairInv, Pair!ReplaceSidecar
    <3> QED BY <1>2, <3>1, <3>2 DEF PairInv, Pair!ReplaceSidecar
  <2>2. PairsWhole' /\ Remembered'
    BY <1>2 DEF PairInv, Pair!ReplaceSidecar, PairsWhole, Remembered
  <2>3. Undisturbed'
    BY <1>2 DEF PairInv, Pair!ReplaceSidecar, Undisturbed
  <2> QED BY <2>1, <2>2, <2>3 DEF PairInv
<1>3. CASE Pair!RestoreFixture
  <2>1. PairTypes'
    BY <1>3 DEF PairInv, Pair!RestoreFixture
  <2>2. PairsWhole' /\ Remembered'
    BY <1>3 DEF PairInv, Pair!RestoreFixture, PairsWhole, Remembered
  <2>3. Undisturbed'
    BY <1>3 DEF PairInv, Pair!RestoreFixture, Undisturbed
  <2> QED BY <2>1, <2>2, <2>3 DEF PairInv
<1>4. CASE Pair!RestoreSidecar
  <2>1. PairTypes'
    <3>1. disk' \in [1 .. Snapshots -> VersionPairs]
      BY <1>4 DEF PairInv, Pair!RestoreSidecar
    <3> QED BY <1>4, <3>1, StartingPoints DEF PairInv, Pair!RestoreSidecar
  <2>2. PairsWhole' /\ Remembered'
    BY <1>4 DEF PairInv, Pair!RestoreSidecar, PairsWhole, Remembered
  <2>3. Undisturbed'
    BY <1>4 DEF PairInv, Pair!RestoreSidecar, Undisturbed
  <2> QED BY <2>1, <2>2, <2>3 DEF PairInv
<1> QED BY <1>1, <1>2, <1>3, <1>4

\* The server reads the two files of a pair one after the other.
LEMMA ServerSteps ==
  ASSUME Pair!SnapshotsAssumption, PairInv, ~killed,
         Pair!LoadFixture \/ Pair!LoadSidecar \/ Pair!Restart
  PROVE  PairInv'
<1> USE DEF PairTypes, VersionPairs, Pair!At, Pair!Running
<1>1. CASE Pair!LoadFixture
  <2>1. Len(loaded) \in Nat
    BY DEF PairInv
  <2> DEFINE s == Len(loaded) + 1
  <2>2. /\ s \in 1 .. Snapshots /\ disk[s].fixture \in Nat
        /\ loader' = [at |-> s, fixture |-> disk[s].fixture, overlapped |-> Pair!Running]
        /\ UNCHANGED <<disk, version, generator, killed, loaded>>
    BY <1>1, <2>1 DEF PairInv, Pair!LoadFixture, Pair!SnapshotsAssumption
  <2> HIDE DEF s
  <2>3. PairTypes'
    BY <2>2 DEF PairInv
  <2>4. Undisturbed'
    BY <2>2 DEF PairInv, Undisturbed
  <2> QED BY <2>2, <2>3, <2>4 DEF PairInv, PairsWhole, Remembered
<1>2. CASE Pair!LoadSidecar
  <2> DEFINE pair == [fixture |-> loader.fixture, sidecar |-> disk[loader.at].sidecar,
                      overlapped |-> loader.overlapped]
  <2>0. loader.at \in 1 .. Snapshots
    BY <1>2 DEF PairInv, Pair!LoadSidecar
  <2>1. /\ pair \in Loads
        /\ loaded' = Append(loaded, pair) /\ loader' = Pair!NotLoading
        /\ UNCHANGED <<disk, version, generator, killed>>
    BY <1>2, <2>0 DEF PairInv, Pair!LoadSidecar, Loads
  <2>2. pair.fixture # pair.sidecar => pair.overlapped
    <3> SUFFICES ASSUME ~loader.overlapped PROVE loader.fixture = disk[loader.at].sidecar
      OBVIOUS
    <3>1. ~Pair!Running /\ loader.fixture = disk[loader.at].fixture
      BY <2>0 DEF PairInv, Undisturbed
    <3>2. disk[loader.at].fixture = disk[loader.at].sidecar
      BY <2>0, <3>1 DEF PairInv, PairsWhole, Mid
    <3> QED BY <3>1, <3>2
  <2> HIDE DEF pair
  <2>3. PairTypes'
    BY <2>1, StartingPoints, AppendProperties DEF PairInv
  <2>4. Undisturbed'
    <3>1. loaded \in Seq(Loads)
      BY DEF PairInv
    <3>2. \A k \in DOMAIN loaded' :
            loaded'[k] = pair \/ (k \in DOMAIN loaded /\ loaded'[k] = loaded[k])
      BY <2>1, <3>1, AppendProperties
    <3>3. loader'.at = 0
      BY <2>1 DEF Pair!NotLoading
    <3> QED BY <2>2, <3>2, <3>3 DEF PairInv, Undisturbed
  <2> QED BY <2>1, <2>3, <2>4 DEF PairInv, PairsWhole, Remembered
<1>3. CASE Pair!Restart
  <2>0. DOMAIN loaded' = {} /\ loader'.at = 0
    BY <1>3 DEF Pair!Restart, Pair!NotLoading
  <2>1. PairTypes'
    BY <1>3, StartingPoints DEF PairInv, Pair!Restart
  <2>2. Undisturbed'
    BY <2>0 DEF Undisturbed
  <2> QED BY <1>3, <2>1, <2>2 DEF PairInv, Pair!Restart, PairsWhole, Remembered
<1> QED BY <1>1, <1>2, <1>3

LEMMA PairStep ==
  ASSUME Pair!SnapshotsAssumption
  PROVE  PairInv /\ [Pair!Next]_Pair!pairVars => PairInv'
<1> SUFFICES ASSUME PairInv, [Pair!Next]_Pair!pairVars PROVE PairInv'
  OBVIOUS
<1>1. CASE UNCHANGED Pair!pairVars
  BY <1>1 DEF Pair!pairVars, PairInv, PairTypes, PairsWhole, Remembered, Undisturbed, Pair!At,
              Pair!Running
<1>2. CASE Pair!Kill
  BY <1>2 DEF Pair!Kill, PairInv
<1>3. CASE Pair!Next /\ killed
  <2>1. killed'
    BY <1>3 DEF Pair!Next, Pair!Generate, Pair!Prepare, Pair!ReplaceFixture, Pair!ReplaceSidecar,
        Pair!FailBuilding, Pair!FailReplacing, Pair!RestoreFixture, Pair!RestoreSidecar, Pair!Kill,
        Pair!LoadFixture, Pair!LoadSidecar, Pair!Restart
  <2> QED BY <2>1 DEF PairInv
<1> QED BY <1>1, <1>2, <1>3, QuietSteps, WritingSteps, ServerSteps DEF Pair!Next

(***************************************************************************)
(* A failed run leaves no pair of two runs behind, and a server holds one  *)
(* only after a kill or after reading it while a generator ran             *)
(* (sidecars.py:65-75, trip_adapters.py:128-135).                          *)
(***************************************************************************)
THEOREM ReplacedTogether == PartSpec => []PairsReplacedTogether
<1>1. Pair!Init => PairInv
  BY InitPairs, PlansAssumption
<1>2. PairInv /\ [Pair!Next]_Pair!pairVars => PairInv'
  BY PairStep, PlansAssumption
<1>3. PairInv => PairsReplacedTogether
  BY DEF PairInv, PairsWhole, Undisturbed, Pair!PairsReplacedTogether, PairsReplacedTogether, Mid
<1>4. PartSpec => Pair!Spec
  BY PartsAreRuns
<1> QED BY <1>1, <1>2, <1>3, <1>4, PTL DEF Pair!Spec

-----------------------------------------------------------------------------
(***************************************************************************)
(* Chapter III.  The replay of evidence.                                   *)
(*                                                                         *)
(* What is kept under a request is of that very request (KeptInv); what a  *)
(* fixture is replayed for may differ from what it was made for in two     *)
(* fields (NearlyOf); so may an answer, until the next one is given        *)
(* (AnswerInv).                                                            *)
(***************************************************************************)
KeptInv ==
  /\ stored = [r \in Requests |-> stored[r]]
  /\ \A r \in Requests : stored[r] # None => stored[r].source = "cache" /\ stored[r].of = r

\* How far a fixture of heat or of a series may be from the request it is replayed for.
NearlyOf(identity, r) ==
  LET unlike == Replay!Unlike(identity, r) IN
  /\ unlike \subseteq {"date", "window"}
  /\ unlike # {} => r.kind \in {"heatmap", "env"}
  /\ "date" \in unlike => r.kind = "heatmap" /\ r.forecast
  /\ "window" \in unlike => ~ Replay!Windowed(r)

\* An answer says of itself what the request and the cache say of it.
Labelled(a) ==
  a # None /\ a.source \in {"provider", "cache", "fixture"} =>
    /\ a.for \in Requests
    /\ NearlyOf(a.of, a.for)
    /\ Replay!Unlike(a.of, a.for) # {} => a.source = "fixture"
    /\ "date" \in Replay!Unlike(a.of, a.for) => a.stale
    /\ a.for.kind = "heatmap" /\ ~ a.stale => a.date = a.for.date
    /\ a.source = "cache" =>
         /\ a.stale
         /\ stored[a.for].retrieved = a.retrieved
         /\ stored[a.for].date = a.date
    /\ a.source = "provider" => ~ a.stale

AnswerInv == Labelled(answer)

\* The first place of a sequence that passes a test, if there is one.
LEMMA LeastOfPlaces ==
  ASSUME NEW I, I \subseteq Nat, I # {}, IsFiniteSet(I)
  PROVE  (CHOOSE x \in I : \A y \in I : x =< y) \in I
<1> DEFINE less == {p \in I \X I : p[1] < p[2]}
<1>1. Total(I, less)
  BY DEF Total
<1>2. Transitive(I, less)
  BY DEF Transitive
<1> HIDE DEF less
<1>3. PICK x \in I : \A y \in I \ {x} : <<x, y>> \in less
  BY <1>1, <1>2, FiniteSetsHaveLeast
<1>4. ASSUME NEW y \in I  PROVE x =< y
  <2>1. CASE y = x
    BY <2>1
  <2>2. CASE y # x
    <3>1. <<x, y>> \in less
      BY <1>3, <2>2
    <3> QED BY <3>1 DEF less
  <2> QED BY <2>1, <2>2
<1> QED BY <1>4

\* What was acquired for a request differs from it in nothing.
LEMMA UnlikeItself ==
  ASSUME NEW r
  PROVE  Replay!Unlike(r, r) = {} /\ NearlyOf(r, r)
BY DEF Replay!Unlike, NearlyOf

\* Fields that match in one direction, in an identity that has at most a window besides,
\* leave the day of a forecast and that window to differ.
LEMMA MatchedIsNear ==
  ASSUME NEW r, NEW identity, NEW relaxed \in BOOLEAN,
         r.kind \in {"heatmap", "env"}, relaxed => r.kind = "heatmap" /\ r.forecast,
         DOMAIN identity \subseteq DOMAIN r \cup {"window"},
         Replay!Matches(identity, r, relaxed)
  PROVE  NearlyOf(identity, r)
<1>1. ASSUME NEW f \in DOMAIN r, f # "date" \/ ~ relaxed
      PROVE  f \notin Replay!Unlike(identity, r)
  BY <1>1 DEF Replay!Matches, Replay!Unlike
<1>2. ASSUME NEW f \in Replay!Unlike(identity, r), f \notin DOMAIN r
      PROVE  f = "window"
  BY <1>2 DEF Replay!Unlike
<1>3. Replay!Unlike(identity, r) \subseteq {"date", "window"}
  BY <1>1, <1>2
<1>4. "date" \in Replay!Unlike(identity, r) => relaxed
  BY <1>1, <1>2
<1>5. "window" \in Replay!Unlike(identity, r) => ~ Replay!Windowed(r)
  BY <1>1 DEF Replay!Windowed
<1> QED BY <1>1, <1>3, <1>4, <1>5 DEF NearlyOf

\* A fixture that is replayed for a request is nearly of that request, and heat that need not
\* be of another day is of the day asked for.
LEMMA ReplayedFixture ==
  ASSUME NEW r \in Requests, Replay!FixtureReplay(r) # None
  PROVE  /\ Replay!FixtureReplay(r).source = "fixture"
         /\ NearlyOf(Replay!FixtureReplay(r).of, r)
         /\ r.kind = "heatmap" /\ ~ r.forecast => Replay!FixtureReplay(r).date = r.date
<1> DEFINE kept == Fixtures[r.kind]
           Fits(f) == /\ f.payload # None /\ Replay!Replayable(f, r)
                      /\ Replay!Usable(Replay!ReplayOf(f, r).payload, r)
           I == {k \in 1 .. Len(kept) : Fits(kept[k])}
           first == CHOOSE x \in I : \A y \in I : x =< y
<1>1. Replay!FixtureReplay(r) = IF (IF I # {} THEN first ELSE 0) = 0 THEN None
                                ELSE Replay!ReplayOf(kept[IF I # {} THEN first ELSE 0], r)
  BY DEF Replay!FixtureReplay, Replay!SelectInSeq, Replay!Min
<1>2. IsFiniteSet(I) /\ I \subseteq Nat
  <2>1. Len(kept) \in Nat
    BY PlansAssumption DEF Replay!ReplayAssumption
  <2>2. IsFiniteSet(1 .. Len(kept))
    BY <2>1, FS_Interval
  <2> QED BY <2>1, <2>2, FS_Subset
<1>3. I # {}
  BY <1>1
<1>4. first \in I
  BY <1>2, <1>3, LeastOfPlaces
<1> HIDE DEF first
<1>5. Replay!FixtureReplay(r) = Replay!ReplayOf(kept[first], r) /\ Fits(kept[first])
  BY <1>1, <1>3, <1>4
<1> DEFINE fixtureOf == kept[first]
<1>6. Replay!Replayable(fixtureOf, r)
  BY <1>5
<1>7. /\ DOMAIN fixtureOf.identity \subseteq DOMAIN r \cup {"window"}
      /\ r.kind = "heatmap" => "date" \in DOMAIN r /\ fixtureOf.date = fixtureOf.identity.date
  BY <1>4, PlansAssumption DEF Replay!ReplayAssumption
<1> HIDE DEF kept
<1>8. /\ Replay!FixtureReplay(r).source = "fixture"
      /\ Replay!FixtureReplay(r).of = fixtureOf.identity
      /\ Replay!FixtureReplay(r).date = fixtureOf.date
  BY <1>5 DEF Replay!ReplayOf
<1>9. /\ NearlyOf(fixtureOf.identity, r)
      /\ r.kind = "heatmap" /\ ~ r.forecast => fixtureOf.date = r.date
  <2>1. CASE r.kind = "heatmap"
    <3>1. r.forecast \in BOOLEAN
      BY <2>1, PlansAssumption DEF Replay!ReplayAssumption
    <3>2. Replay!Matches(fixtureOf.identity, r, r.forecast)
      BY <1>6, <2>1 DEF Replay!Replayable, Replay!HeatmapReplayable
    <3>3. NearlyOf(fixtureOf.identity, r)
      BY <1>7, <2>1, <3>1, <3>2, MatchedIsNear
    <3>4. ~ r.forecast => fixtureOf.identity.date = r.date
      BY <1>7, <2>1, <3>2 DEF Replay!Matches
    <3> QED BY <1>7, <2>1, <3>3, <3>4
  <2>2. CASE r.kind = "env"
    <3>1. Replay!Matches(fixtureOf.identity, r, FALSE)
      BY <1>6, <2>2 DEF Replay!Replayable, Replay!EnvReplayable
    <3> QED BY <1>7, <2>2, <3>1, MatchedIsNear
  <2>3. CASE r.kind \in {"route", "building"}
    <3>1. fixtureOf.identity = r
      BY <1>6, <2>3 DEF Replay!Replayable, Replay!RouteReplayable, Replay!BuildingReplayable
    <3> QED BY <2>3, <3>1, UnlikeItself
  <2> QED BY <2>1, <2>2, <2>3, PlansAssumption DEF Replay!ReplayAssumption
<1> QED BY <1>8, <1>9

\* An answer from a fixture is labelled, if that of a forecast is stale.
LEMMA FixtureAnswer ==
  ASSUME NEW r \in Requests, NEW stale \in BOOLEAN, r.kind = "heatmap" /\ r.forecast => stale
  PROVE  Labelled(Replay!AnsweredWith(Replay!FixtureReplay(r), r, stale))
<1> DEFINE replay == Replay!FixtureReplay(r)
           a == Replay!AnsweredWith(replay, r, stale)
<1>1. CASE replay = None
  <2>1. a.source = "unavailable"
    BY <1>1 DEF Replay!AnsweredWith, Replay!Unavailable
  <2> QED BY <2>1 DEF Labelled
<1>2. CASE replay # None
  <2>1. /\ replay.source = "fixture"
        /\ NearlyOf(replay.of, r)
        /\ r.kind = "heatmap" /\ ~ r.forecast => replay.date = r.date
    BY <1>2, ReplayedFixture
  <2>2. /\ a.source = replay.source /\ a.stale = stale /\ a.of = replay.of /\ a.for = r
        /\ a.date = replay.date
    BY <1>2 DEF Replay!AnsweredWith
  <2>3. "date" \in Replay!Unlike(replay.of, r) => stale
    BY <2>1 DEF NearlyOf
  <2>4. r.kind = "heatmap" /\ ~ stale => replay.date = r.date
    BY <2>1
  <2>5. ASSUME NEW b, b = a  PROVE Labelled(b)
    BY <2>1, <2>2, <2>3, <2>4, <2>5 DEF Labelled
  <2> QED BY <2>5
<1> QED BY <1>1, <1>2

\* So is one from the cache.
LEMMA FallBackAnswer ==
  ASSUME KeptInv, NEW r \in Requests
  PROVE  Labelled(Replay!FallBack(r))
<1>1. CASE stored[r] = None
  BY <1>1, FixtureAnswer DEF Replay!FallBack
<1>2. CASE stored[r] # None
  <2> DEFINE a == Replay!FallBack(r)
  <2>1. /\ a.source = stored[r].source /\ a.stale = TRUE /\ a.of = stored[r].of /\ a.for = r
        /\ a.retrieved = stored[r].retrieved /\ a.date = stored[r].date
    BY <1>2 DEF Replay!FallBack, Replay!AnsweredWith
  <2>2. stored[r].source = "cache" /\ stored[r].of = r
    BY <1>2 DEF KeptInv
  <2>3. ASSUME NEW b, b = a  PROVE Labelled(b)
    BY <2>1, <2>2, <2>3, UnlikeItself DEF Labelled
  <2> QED BY <2>3
<1> QED BY <1>1, <1>2

\* Live heat is of the day asked for.
LEMMA LiveDay ==
  ASSUME NEW r \in Requests, NEW raw \in Answers[r.kind], r.kind = "heatmap"
  PROVE  Replay!Translated(raw, r).date = r.date
<1>1. "date" \in DOMAIN raw
  BY PlansAssumption DEF Replay!ReplayAssumption
<1> QED BY <1>1 DEF Replay!Translated

LEMMA ReplayInit == Replay!Init => KeptInv /\ AnswerInv
BY DEF Replay!Init, KeptInv, AnswerInv, Labelled

LEMMA ReplayStep ==
  KeptInv /\ AnswerInv /\ [Replay!Next]_Replay!replayVars => KeptInv' /\ AnswerInv'
<1> SUFFICES ASSUME KeptInv, AnswerInv, [Replay!Next]_Replay!replayVars
             PROVE  KeptInv' /\ AnswerInv'
  OBVIOUS
<1>1. CASE UNCHANGED <<stored, answer>>
  BY <1>1 DEF KeptInv, AnswerInv, Labelled
<1>2. ASSUME NEW r \in Requests, NEW payload, NEW date, Replay!Kept(r, payload, date),
             r.kind = "heatmap" => date = r.date
      PROVE  KeptInv' /\ AnswerInv'
  <2> DEFINE entry == [source |-> "cache", payload |-> payload, retrieved |-> today,
                       date |-> date, of |-> r]
  <2>1. stored' = [stored EXCEPT ![r] = entry]
    BY <1>2 DEF Replay!Kept
  <2>2. entry.source = "cache" /\ entry.of = r
    OBVIOUS
  <2>3. /\ answer'.source = "provider" /\ answer'.stale = FALSE
        /\ answer'.of = r /\ answer'.for = r /\ answer'.date = date
    BY <1>2 DEF Replay!Kept
  <2> HIDE DEF entry
  <2>4. KeptInv'
    BY <2>1, <2>2 DEF KeptInv
  <2>5. AnswerInv'
    BY <1>2, <2>3, UnlikeItself DEF AnswerInv, Labelled
  <2> QED BY <2>4, <2>5
<1>3. ASSUME NEW r \in Requests, stored' = stored, answer' = Replay!Rejected
      PROVE  KeptInv' /\ AnswerInv'
  <2>1. answer'.source = "value_error"
    BY <1>3 DEF Replay!Rejected
  <2> QED BY <1>3, <2>1 DEF KeptInv, AnswerInv, Labelled
<1>4. ASSUME stored' = stored, NEW a, answer' = a, Labelled(a)
      PROVE  KeptInv' /\ AnswerInv'
  BY <1>4 DEF KeptInv, AnswerInv, Labelled
<1>5. ASSUME NEW r \in Requests, Replay!RunLiveFails(r)
      PROVE  KeptInv' /\ AnswerInv'
  BY <1>4, <1>5, FallBackAnswer DEF Replay!RunLiveFails
<1>6. ASSUME NEW r \in Requests, Replay!RunFixture(r)
      PROVE  KeptInv' /\ AnswerInv'
  <2>1. CASE r.kind = "building"
    BY <1>4, <1>6, <2>1, FallBackAnswer DEF Replay!RunFixture
  <2>2. CASE r.kind # "building"
    <3> DEFINE stale == r.kind = "heatmap" /\ r.forecast
    <3>1. stale \in BOOLEAN
      OBVIOUS
    <3>2. Labelled(Replay!AnsweredWith(Replay!FixtureReplay(r), r, stale))
      BY <3>1, FixtureAnswer
    <3>3. /\ answer' = Replay!AnsweredWith(Replay!FixtureReplay(r), r, stale)
          /\ stored' = stored
      BY <1>6, <2>2 DEF Replay!RunFixture
    <3> QED BY <1>4, <3>2, <3>3
  <2> QED BY <2>1, <2>2
<1>7. \/ UNCHANGED <<stored, answer>>
      \/ \E r \in Requests : \/ Replay!Reject(r) \/ Replay!RunLiveFails(r) \/ Replay!RunFixture(r)
                             \/ \E payload, date : /\ Replay!Kept(r, payload, date)
                                                   /\ r.kind = "heatmap" => date = r.date
  <2>1. ASSUME NEW r \in Requests, NEW raw \in Answers[r.kind], Replay!RunHeatmap(r, raw)
        PROVE  \E payload, date : Replay!Kept(r, payload, date) /\ date = r.date
    <3>1. r.kind = "heatmap" /\ \E payload : Replay!Kept(r, payload, Replay!Translated(raw, r).date)
      BY <2>1 DEF Replay!RunHeatmap
    <3> QED BY <3>1, LiveDay
  <2>2. ASSUME NEW r \in Requests, NEW payload,
               Replay!RunEnv(r, payload) \/ Replay!RunRoute(r, payload)
                 \/ Replay!RunBuilding(r, payload)
        PROVE  r.kind # "heatmap" /\ \E date : Replay!Kept(r, payload, date)
    BY <2>2 DEF Replay!RunEnv, Replay!RunRoute, Replay!RunBuilding
  <2> QED BY <2>1, <2>2 DEF Replay!Next, Replay!replayVars, Replay!Tomorrow
<1> QED BY <1>1, <1>2, <1>3, <1>5, <1>6, <1>7 DEF Replay!Reject

(***************************************************************************)
(* How far an answer can be from what was asked for.  What a provider      *)
(* answers, a cache entry, a route and buildings were acquired for this    *)
(* very request; a fixture of heat or of a series differs at most in the   *)
(* day of a forecast, which is marked stale then, and in a window where    *)
(* none was asked for, which is not marked; heat that is not stale is      *)
(* dated the day asked for; and a replay from the cache keeps its days     *)
(* (execution.py:146-193, 278-286, routing.py:115).                        *)
(***************************************************************************)
THEOREM LabelledReplays == PartSpec => []ReplaysLabelled
<1>1. Replay!Init => KeptInv /\ AnswerInv
  BY ReplayInit
<1>2. KeptInv /\ AnswerInv /\ [Replay!Next]_Replay!replayVars => (KeptInv /\ AnswerInv)'
  BY ReplayStep
<1>3. AnswerInv => ReplaysLabelled
  BY DEF AnswerInv, Labelled, NearlyOf, ReplaysLabelled, Replay!ReplaysLabelled,
         Replay!Answered
<1>4. PartSpec => Replay!Spec
  BY PartsAreRuns
<1> QED BY <1>1, <1>2, <1>3, <1>4, PTL DEF Replay!Spec

-----------------------------------------------------------------------------
(***************************************************************************)
(* Chapter IV.  The acquisition, whose theorems hold of its part.          *)
(***************************************************************************)

(***************************************************************************)
(* A sidecar on disk describes the fixture beside it, a result of that     *)
(* very target, anchored in the heatmap on disk; and a server between its  *)
(* two reads of a pair finds what it matched (acquisition.py:390, 443;     *)
(* issue23_acquisition.py:247-326, 704).                                   *)
(***************************************************************************)
THEOREM AcquiredPairs == PartSpec => []PairsBelongTogether
<1>1. Acquisition!PlanAssumption
  BY PlansAssumption
<1>2. Acquisition!Spec => []Acquisition!PairsBelongTogether
  BY <1>1, Acquisition!PairsStayTogether
<1>3. Acquisition!PairsBelongTogether => PairsBelongTogether
  BY DEF PairsBelongTogether
<1> QED BY <1>2, <1>3, PartsAreRuns, PTL

(***************************************************************************)
(* No environment is paid for before the weak scenario has passed its gate *)
(* and its own heatmap is on disk, and the calls a plan asked for at its   *)
(* start are never gone in the middle of it                                *)
(* (issue23_acquisition.py:357-360, 382-387, 584).                         *)
(***************************************************************************)
THEOREM AcquiredInOrder == PartSpec => []DependentsWait
<1>1. Acquisition!PlanAssumption
  BY PlansAssumption
<1>2. Acquisition!Spec => []Acquisition!DependentsWait
  BY <1>1, Acquisition!EnvironmentsWait
<1>3. Acquisition!DependentsWait => DependentsWait
  BY DEF DependentsWait
<1> QED BY <1>2, <1>3, PartsAreRuns, PTL

(***************************************************************************)
(* No step of any run replaces or removes a stored observation, and none   *)
(* submits an activity for a target that has one                           *)
(* (issue23_acquisition.py:357).                                           *)
(***************************************************************************)
THEOREM AcquiredIsKept == PartSpec => ObservationsKept
<1>1. Acquisition!PlanAssumption
  BY PlansAssumption
<1>2. Acquisition!Spec => Acquisition!ObservationsKept
  BY <1>1, Acquisition!NothingObservedIsLost
<1>3. Acquisition!ObservationsKept => ObservationsKept
  BY DEF ObservationsKept
<1> QED BY <1>2, <1>3, PartsAreRuns, PTL

-----------------------------------------------------------------------------
(***************************************************************************)
(* Chapter V.  The ranking of hotels.                                      *)
(*                                                                         *)
(* The objects of an answer are grouped one after the other: whatever was  *)
(* joined, no object of one group is the same hotel as one of another      *)
(* (Separate), and since an object is the same hotel as itself, an         *)
(* identity lies in one group only, whose representative is known by it.   *)
(* The induction over the answer is by the least place it fails at         *)
(* (NumbersCovered), after the recursive function has been shown to exist. *)
(* The score is a sum of counts of smaller values, and a rank a count of   *)
(* smaller scores: both grow with the values (ScoreRanks).                 *)
(***************************************************************************)
\* A set with zero, and with every number its successor, has all numbers.
LEMMA NumbersCovered ==
  ASSUME NEW S, 0 \in S, \A n \in Nat : n \in S => n + 1 \in S
  PROVE  Nat \subseteq S
<1> DEFINE D == Nat \ S
<1> SUFFICES ASSUME D # {} PROVE FALSE
  OBVIOUS
<1>0. D \subseteq Nat
  OBVIOUS
<1>1. PICK n \in D : \A j \in D : <<j, n>> \notin OpToRel(<, Nat)
  BY <1>0, WFMin, NatLessThanWellFounded, Zenon
<1>2. \A j \in D : ~(j < n)
  BY <1>0, <1>1, Zenon DEF OpToRel
<1>3. n # 0 /\ n - 1 \in Nat /\ n - 1 < n
  OBVIOUS
<1>4. n - 1 \in S
  BY <1>2, <1>3
<1>5. n \in S
  BY <1>3, <1>4
<1> QED BY <1>1, <1>5

\* What the code asks of two objects does not depend on which is asked.
LEMMA SameHotelSymmetric ==
  ASSUME NEW o, NEW p PROVE Hotel!SameHotel(o, p) = Hotel!SameHotel(p, o)
  BY DEF Hotel!SameHotel

\* No object of one group is the same hotel as an object of another.
Separate(groups) ==
  \A g, h \in groups : \A o \in g, p \in h : Hotel!SameHotel(o, p) => g = h

\* Joining an object adds it to the groups and keeps them separate.
LEMMA JoinedSeparate ==
  ASSUME NEW groups, NEW object, IsFiniteSet(groups), Separate(groups)
  PROVE  LET joined == Hotel!Joined(groups, object)
         IN  /\ IsFiniteSet(joined)
             /\ UNION joined = (UNION groups) \cup {object}
             /\ Separate(joined)
<1> DEFINE matching == Hotel!Matching(groups, object)
           new == (UNION matching) \cup {object}
           joined == Hotel!Joined(groups, object)
<1>1. joined = (groups \ matching) \cup {new} /\ matching \subseteq groups
  BY DEF Hotel!Joined, Hotel!Matching
<1>2. IsFiniteSet(joined)
  <2>1. IsFiniteSet(groups \ matching)
    BY FS_Difference
  <2> HIDE DEF joined, matching, new
  <2> QED BY <1>1, <2>1, FS_AddElement
<1>3. UNION joined = (UNION groups) \cup {object}
  <2> HIDE DEF joined, matching
  <2>1. ASSUME NEW o \in UNION joined PROVE o \in (UNION groups) \cup {object}
    BY <1>1, <2>1
  <2>2. ASSUME NEW o \in UNION groups PROVE o \in UNION joined
    <3>1. PICK g \in groups : o \in g
      BY <2>2
    <3>2. CASE g \in matching
      BY <1>1, <3>1, <3>2
    <3>3. CASE g \notin matching
      BY <1>1, <3>1, <3>3
    <3> QED BY <3>2, <3>3
  <2>3. object \in UNION joined
    BY <1>1
  <2> QED BY <2>1, <2>2, <2>3
<1>4. \A g \in groups \ matching : \A o \in g, p \in new :
        ~Hotel!SameHotel(o, p) /\ ~Hotel!SameHotel(p, o)
  <2> SUFFICES ASSUME NEW g \in groups \ matching, NEW o \in g, NEW p \in new
               PROVE  ~Hotel!SameHotel(o, p)
    BY SameHotelSymmetric
  <2>1. CASE p = object
    BY <2>1, SameHotelSymmetric DEF Hotel!Matching
  <2>2. CASE p # object
    <3>1. PICK h \in matching : p \in h
      BY <2>2
    <3>2. h # g /\ h \in groups
      BY <1>1, <3>1
    <3> QED BY <3>1, <3>2 DEF Separate
  <2> QED BY <2>1, <2>2
<1>5. Separate(joined)
  <2> SUFFICES ASSUME NEW g \in joined, NEW h \in joined, NEW o \in g, NEW p \in h,
                      Hotel!SameHotel(o, p)
               PROVE  g = h
    BY DEF Separate
  <2> HIDE DEF joined, matching, new
  <2>1. CASE g \in groups \ matching /\ h \in groups \ matching
    BY <2>1 DEF Separate
  <2>2. CASE g = new \/ h = new
    BY <1>1, <1>4, <2>2
  <2> QED BY <1>1, <2>1, <2>2
<1> QED BY <1>2, <1>3, <1>5

\* A group is one hotel throughout: each part of it is the same hotel as something of the rest.
Linked(g) ==
  g # {} /\ \A S \in SUBSET g : S # {} /\ S # g => \E o \in S, p \in g \ S : Hotel!SameHotel(o, p)

LEMMA JoinedLinked ==
  ASSUME NEW groups, NEW object, \A g \in groups : Linked(g)
  PROVE  \A g \in Hotel!Joined(groups, object) : Linked(g)
<1> DEFINE matching == Hotel!Matching(groups, object)
           new == (UNION matching) \cup {object}
<1>1. /\ Hotel!Joined(groups, object) = (groups \ matching) \cup {new}
      /\ \A h \in matching : h \in groups /\ \E other \in h : Hotel!SameHotel(other, object)
  <2>1. Hotel!Joined(groups, object) = (groups \ matching) \cup {new}
    BY DEF Hotel!Joined
  <2>2. \A h \in matching : h \in groups /\ \E other \in h : Hotel!SameHotel(other, object)
    BY SameHotelSymmetric DEF Hotel!Matching
  <2> QED BY <2>1, <2>2
<1>2. Linked(new)
  <2> HIDE DEF matching
  <2> SUFFICES ASSUME NEW S \in SUBSET new, S # {}, S # new
               PROVE  \E o \in S, p \in new \ S : Hotel!SameHotel(o, p)
    BY DEF Linked
  <2>1. CASE \E h \in matching : S \cap h # {} /\ S \cap h # h
    <3>1. PICK h \in matching : S \cap h # {} /\ S \cap h # h
      BY <2>1
    <3>2. S \cap h \in SUBSET h /\ Linked(h) /\ h \subseteq new
      BY <1>1
    <3>3. PICK o \in S \cap h, p \in h \ (S \cap h) : Hotel!SameHotel(o, p)
      BY <3>1, <3>2 DEF Linked
    <3> HIDE DEF new
    <3> QED BY <3>2, <3>3
  <2>2. CASE \A h \in matching : S \cap h = {} \/ h \subseteq S
    <3>1. CASE object \in S
      <4>1. PICK x \in new : x \notin S
        OBVIOUS
      <4>2. PICK h \in matching : x \in h
        BY <3>1, <4>1
      <4>3. S \cap h = {} /\ h \subseteq new
        BY <2>2, <4>1, <4>2
      <4>4. PICK other \in h : Hotel!SameHotel(other, object)
        BY <1>1
      <4>5. other \in new \ S /\ Hotel!SameHotel(object, other)
        BY <4>3, <4>4, SameHotelSymmetric
      <4> HIDE DEF new
      <4> QED BY <3>1, <4>5
    <3>2. CASE object \notin S
      <4>1. PICK x \in S : TRUE
        OBVIOUS
      <4>2. PICK h \in matching : x \in h
        BY <3>2, <4>1
      <4>3. h \subseteq S
        BY <2>2, <4>1, <4>2
      <4>4. PICK other \in h : Hotel!SameHotel(other, object)
        BY <1>1
      <4>5. object \in new \ S /\ other \in S
        BY <3>2, <4>3, <4>4
      <4> HIDE DEF new
      <4> QED BY <4>4, <4>5
    <3> QED BY <3>1, <3>2
  <2>3. (\E h \in matching : S \cap h # {} /\ S \cap h # h)
        \/ \A h \in matching : S \cap h = {} \/ h \subseteq S
    <3> SUFFICES ASSUME NEW h \in matching, S \cap h = h PROVE h \subseteq S
      OBVIOUS
    <3> QED OBVIOUS
  <2> QED BY <2>1, <2>2, <2>3
<1> HIDE DEF matching, new
<1> QED BY <1>1, <1>2

\* There is one way to divide objects into separate groups of one hotel each.
LEMMA OneDivision ==
  ASSUME NEW G, NEW H, UNION G = UNION H, Separate(G), Separate(H),
         \A g \in G : Linked(g), \A h \in H : Linked(h)
  PROVE  G \subseteq H
<1> SUFFICES ASSUME NEW g \in G PROVE g \in H
  OBVIOUS
<1>1. PICK o \in g : TRUE
  BY DEF Linked
<1>2. PICK h \in H : o \in h
  BY <1>1
<1>3. ASSUME NEW A, NEW B, UNION A = UNION B, Separate(B), NEW a \in A, NEW b \in B,
             Linked(a), o \in a, o \in b
      PROVE  a \subseteq b
  <2> SUFFICES ASSUME a \cap b # a PROVE FALSE
    OBVIOUS
  <2>1. a \cap b \in SUBSET a /\ a \cap b # {}
    BY <1>3
  <2>2. PICK p \in a \cap b, q \in a \ (a \cap b) : Hotel!SameHotel(p, q)
    BY <1>3, <2>1 DEF Linked
  <2>3. PICK c \in B : q \in c
    BY <1>3, <2>2
  <2>4. b = c
    BY <1>3, <2>2, <2>3 DEF Separate
  <2> QED BY <2>2, <2>3, <2>4
<1>4. g \subseteq h
  BY <1>1, <1>2, <1>3
<1>5. h \subseteq g
  BY <1>1, <1>2, <1>3
<1>6. g = h
  BY <1>4, <1>5
<1> QED BY <1>6

-----------------------------------------------------------------------------
\* The recursive function of Grouped exists: its values begin with no group and each
\* joins the next object.
Grouping(objects, groups, m) ==
  groups = [n \in 0 .. m |-> IF n = 0 THEN {} ELSE Hotel!Joined(groups[n - 1], objects[n])]

LEMMA GroupingExists ==
  ASSUME NEW objects, NEW m \in Nat PROVE \E groups : Grouping(objects, groups, m)
<1> DEFINE S == {k \in Nat : \E groups : Grouping(objects, groups, k)}
<1>1. 0 \in S
  <2>1. Grouping(objects, [n \in 0 .. 0 |-> {}], 0)
    BY DEF Grouping
  <2> QED BY <2>1
<1>2. ASSUME NEW k \in Nat, k \in S PROVE k + 1 \in S
  <2>1. PICK f : Grouping(objects, f, k)
    BY <1>2
  <2> DEFINE last == Hotel!Joined(f[k], objects[k + 1])
             g == [n \in 0 .. k + 1 |-> IF n = k + 1 THEN last ELSE f[n]]
  <2>2. \A n \in 0 .. k : f[n] = IF n = 0 THEN {} ELSE Hotel!Joined(f[n - 1], objects[n])
    BY <2>1 DEF Grouping
  <2>3. \A n \in 0 .. k + 1 :
          g[n] = IF n = 0 THEN {} ELSE Hotel!Joined(g[n - 1], objects[n])
    <3> TAKE n \in 0 .. k + 1
    <3>1. CASE n = k + 1
      <4>1. n # 0 /\ n - 1 = k /\ g[n - 1] = f[k] /\ g[n] = last
        BY <3>1
      <4> HIDE DEF g
      <4> QED BY <3>1, <4>1
    <3>2. CASE n # k + 1
      <4>1. g[n] = f[n] /\ n \in 0 .. k
        BY <3>2
      <4>2. n # 0 => g[n - 1] = f[n - 1]
        BY <3>2
      <4> HIDE DEF g
      <4> QED BY <2>2, <4>1, <4>2
    <3> QED BY <3>1, <3>2
  <2>4. g = [n \in 0 .. k + 1 |-> g[n]]
    OBVIOUS
  <2> HIDE DEF g
  <2>5. Grouping(objects, g, k + 1)
    BY <2>3, <2>4 DEF Grouping
  <2> QED BY <2>5
<1> HIDE DEF S
<1>3. Nat \subseteq S
  BY <1>1, <1>2, NumbersCovered
<1> QED BY <1>3 DEF S

\* What the groups of an answer are taken from.
LEMMA GroupedIsGrouping ==
  ASSUME NEW objects, Len(objects) \in Nat
  PROVE  \E groups : /\ Grouping(objects, groups, Len(objects))
                     /\ Hotel!Grouped(objects) = groups[Len(objects)]
<1> DEFINE fold == CHOOSE groups :
             groups = [n \in 0 .. Len(objects) |->
                         IF n = 0 THEN {} ELSE Hotel!Joined(groups[n - 1], objects[n])]
<1>1. \E groups :
        groups = [n \in 0 .. Len(objects) |->
                    IF n = 0 THEN {} ELSE Hotel!Joined(groups[n - 1], objects[n])]
  BY GroupingExists DEF Grouping
<1>2. Grouping(objects, fold, Len(objects))
  BY <1>1 DEF Grouping
<1>3. Hotel!Grouped(objects) = fold[Len(objects)]
  BY DEF Hotel!Grouped
<1> QED BY <1>2, <1>3

\* The groups of an answer are separate, of one hotel each, and have all its objects.
LEMMA GroupedSeparate ==
  ASSUME NEW objects, Len(objects) \in Nat
  PROVE  LET groups == Hotel!Grouped(objects)
         IN  /\ IsFiniteSet(groups)
             /\ UNION groups = {objects[i] : i \in 1 .. Len(objects)}
             /\ Separate(groups) /\ \A g \in groups : Linked(g)
<1>1. PICK f : /\ Grouping(objects, f, Len(objects))
               /\ Hotel!Grouped(objects) = f[Len(objects)]
  BY GroupedIsGrouping
<1> DEFINE Good(n) == /\ IsFiniteSet(f[n])
                      /\ UNION f[n] = {objects[i] : i \in 1 .. n}
                      /\ Separate(f[n]) /\ \A g \in f[n] : Linked(g)
           S == {n \in Nat : n <= Len(objects) => Good(n)}
<1>2. 0 \in S
  <2>1. f[0] = {}
    BY <1>1 DEF Grouping
  <2>2. 1 .. 0 = {}
    OBVIOUS
  <2>3. Good(0)
    BY <2>1, <2>2, FS_EmptySet DEF Separate
  <2> QED BY <2>3
<1> HIDE DEF Good
<1>3. ASSUME NEW n \in Nat, n \in S PROVE n + 1 \in S
  <2> SUFFICES ASSUME n + 1 <= Len(objects) PROVE Good(n + 1)
    OBVIOUS
  <2>1. f[n + 1] = Hotel!Joined(f[n], objects[n + 1])
    <3>1. n + 1 \in 0 .. Len(objects) /\ n + 1 # 0 /\ (n + 1) - 1 = n
      OBVIOUS
    <3> QED BY <1>1, <3>1 DEF Grouping
  <2>2. Good(n)
    BY <1>3
  <2>3. 1 .. n + 1 = (1 .. n) \cup {n + 1}
    OBVIOUS
  <2>4. {objects[i] : i \in 1 .. n + 1} = {objects[i] : i \in 1 .. n} \cup {objects[n + 1]}
    BY <2>3
  <2>5. /\ IsFiniteSet(f[n + 1])
        /\ UNION f[n + 1] = (UNION f[n]) \cup {objects[n + 1]}
        /\ Separate(f[n + 1])
    BY <2>1, <2>2, JoinedSeparate DEF Good
  <2>6. \A g \in f[n + 1] : Linked(g)
    BY <2>1, <2>2, JoinedLinked DEF Good
  <2> QED BY <2>2, <2>4, <2>5, <2>6 DEF Good
<1> HIDE DEF S
<1>4. Nat \subseteq S
  BY <1>2, <1>3, NumbersCovered
<1>5. Good(Len(objects))
  BY <1>4 DEF S
<1> QED BY <1>1, <1>5 DEF Good

\* Objects have an identity of OpenStreetMap and finitely many address tags.
IsObject(o) == o.id \in {"node", "way", "relation"} \X Int /\ IsFiniteSet(o.address)

\* The images of a finite set are finitely many.
LEMMA ImageFinite ==
  ASSUME NEW S, IsFiniteSet(S), NEW f PROVE IsFiniteSet({f[x] : x \in S})
<1> DEFINE g == [x \in S |-> f[x]]
<1>1. {f[x] : x \in S} = {g[x] : x \in S}
  OBVIOUS
<1>2. g \in Surjection(S, {g[x] : x \in S})
  BY DEF Surjection
<1> QED BY <1>1, <1>2, FS_Surjection

\* The instance counts as the library's theorems do.
LEMMA HotelCardinality == ASSUME NEW S PROVE Hotel!Cardinality(S) = Cardinality(S)
  BY Zenon DEF Hotel!Cardinality, Cardinality

\* A group that can be named has a representative, which is one of its objects.
LEMMA RepresentativeNamed ==
  ASSUME NEW g, IsFiniteSet(g), \A o \in g : IsObject(o), Hotel!Named(g) # {}
  PROVE  Hotel!Representative(g) \in Hotel!Named(g)
<1> DEFINE Detail(x) == IF x = None THEN 0 ELSE 1
           Key(o) == <<IF o.id[1] = "relation" THEN 0 ELSE 1,
                       -(Hotel!Cardinality(o.address) + Detail(o.website) + Detail(o.operator)),
                       o.id[2]>>
           named == Hotel!Named(g)
           f == [o \in named |-> Key(o)]
           keys == {f[o] : o \in named}
           K == [k \in keys |-> k]
<1>1. named \subseteq g
  BY DEF Hotel!Named
<1>2. ASSUME NEW o \in named PROVE Key(o) \in Keys(3)
  <2>1. o.id[1] \in {"node", "way", "relation"} /\ o.id[2] \in Int
    BY <1>1 DEF IsObject
  <2>2. Hotel!Cardinality(o.address) \in Nat
    BY <1>1, FS_CardinalityType, HotelCardinality DEF IsObject
  <2>3. -(Hotel!Cardinality(o.address) + Detail(o.website) + Detail(o.operator)) \in Int
    BY <2>2
  <2> HIDE DEF Detail
  <2>4. Key(o) \in Int \X Int \X Int
    BY <2>1, <2>3
  <2> HIDE DEF Key
  <2> QED BY <2>4 DEF Keys
<1>3. IsFiniteSet(keys) /\ keys # {} /\ keys \subseteq Keys(3)
  <2>1. IsFiniteSet(named)
    BY <1>1, FS_Subset
  <2>2. \A o \in named : f[o] \in Keys(3)
    BY <1>2
  <2> HIDE DEF f, named
  <2>3. IsFiniteSet(keys)
    BY <2>1, ImageFinite
  <2> QED BY <2>2, <2>3 DEF named
<1>4. PICK least \in keys : \A k \in keys \ {least} : Precedes(least, k)
  <2>1. K \in [keys -> Keys(3)] /\ \A k \in keys : K[k] = k
    BY <1>3
  <2> HIDE DEF keys, K
  <2>2. \E x \in keys : \A y \in keys \ {x} : Precedes(K[x], K[y])
    BY <1>3, <2>1, LeastExists
  <2> QED BY <2>1, <2>2
<1>5. \A k \in Keys(3) : ~Precedes(k, k)
  BY DEF Precedes, Keys
<1>6. \A k \in keys : ~Precedes(k, least)
  <2> HIDE DEF keys
  <2> SUFFICES ASSUME NEW k \in keys, Precedes(k, least) PROVE FALSE
    OBVIOUS
  <2>1. k # least
    BY <1>3, <1>5
  <2>2. Precedes(least, k)
    BY <1>4, <2>1
  <2> QED BY <1>3, <1>5, <2>2, PrecedesTransitive
<1>7. PICK o \in named : least = Key(o)
  BY <1>4
<1>8. \A other \in named : ~Hotel!Precedes(Key(other), Key(o))
  <2>1. \A other \in named : Key(other) \in keys
    OBVIOUS
  <2> HIDE DEF Key, keys, named
  <2> QED BY <1>6, <1>7, <2>1 DEF Precedes, Hotel!Precedes
<1>9. Hotel!Representative(g) =
        CHOOSE x \in named : \A other \in named : ~Hotel!Precedes(Key(other), Key(x))
  BY DEF Hotel!Representative
<1> HIDE DEF Key, named
<1> QED BY <1>7, <1>8, <1>9 DEF named

-----------------------------------------------------------------------------
\* A group makes a candidate if it can be named and placed.
Candidate(g) ==
  [id |-> Hotel!Representative(g).id, identities |-> {object.id : object \in g}]
Usable(objects) == {g \in Hotel!Grouped(objects) : Hotel!Named(g) # {}}

\* The groups of an answer: separate, finite, and of all its objects.
LEMMA GroupsOfListing ==
  ASSUME Hotel!HotelsAssumption, NEW objects \in Listings
  PROVE  LET groups == Hotel!Grouped(objects)
         IN  /\ Separate(groups) /\ IsFiniteSet(groups)
             /\ \A i \in DOMAIN objects : \E g \in groups : objects[i] \in g
             /\ \A g \in groups : IsFiniteSet(g) /\ \A o \in g : IsObject(o)
<1> DEFINE groups == Hotel!Grouped(objects)
           all == {objects[i] : i \in 1 .. Len(objects)}
<1>1. /\ Len(objects) \in Nat /\ DOMAIN objects = 1 .. Len(objects)
      /\ \A i \in DOMAIN objects : IsObject(objects[i])
  BY DEF Hotel!HotelsAssumption, IsObject, IsFiniteSet, Hotel!IsFiniteSet
<1>2. IsFiniteSet(groups) /\ UNION groups = all /\ Separate(groups)
  BY <1>1, GroupedSeparate
<1>3. IsFiniteSet(all)
  <2>1. IsFiniteSet(1 .. Len(objects))
    BY <1>1, FS_Interval
  <2> QED BY <2>1, ImageFinite
<1>4. ASSUME NEW g \in groups PROVE IsFiniteSet(g) /\ \A o \in g : IsObject(o)
  <2>1. g \subseteq all
    BY <1>2
  <2>2. IsFiniteSet(g)
    BY <1>3, <2>1, FS_Subset
  <2> HIDE DEF groups
  <2> QED BY <1>1, <2>1, <2>2
<1>5. ASSUME NEW i \in DOMAIN objects PROVE \E g \in groups : objects[i] \in g
  <2>1. objects[i] \in all
    BY <1>1
  <2> HIDE DEF groups, all
  <2> QED BY <1>2, <2>1
<1> QED BY <1>2, <1>4, <1>5

\* The candidates of an answer are finitely many, known by identities of their own, and
\* the hotel of each object is one of them or none.
LEMMA CandidatesOfListing ==
  ASSUME Hotel!HotelsAssumption, NEW objects \in Listings
  PROVE  LET made == Hotel!Deduplicated(objects)
             In(object) == {a \in made : object.id \in a.identities}
         IN  /\ IsFiniteSet(made)
             /\ \A a, b \in made : a.id = b.id => a = b
             /\ \A i, j \in DOMAIN objects :
                  /\ Hotel!Named({objects[i]}) # {} => \E a : In(objects[i]) = {a}
                  /\ Hotel!SameHotel(objects[i], objects[j]) => In(objects[i]) = In(objects[j])
<1> DEFINE groups == Hotel!Grouped(objects)
           usable == Usable(objects)
           made == {Candidate(g) : g \in usable}
           In(object) == {a \in made : object.id \in a.identities}
<1>1. Hotel!Deduplicated(objects) = made
  BY DEF Hotel!Deduplicated, Candidate, Usable
<1>2. usable \subseteq groups
  BY DEF Usable
<1>3. /\ Separate(groups) /\ IsFiniteSet(groups)
      /\ \A i \in DOMAIN objects : \E g \in groups : objects[i] \in g
      /\ \A g \in groups : IsFiniteSet(g) /\ \A o \in g : IsObject(o)
  BY GroupsOfListing
<1> HIDE DEF groups
<1>4. IsFiniteSet(made)
  <2> DEFINE f == [g \in usable |-> Candidate(g)]
  <2>1. IsFiniteSet(usable)
    BY <1>2, <1>3, FS_Subset
  <2>2. made = {f[g] : g \in usable}
    OBVIOUS
  <2> HIDE DEF usable, f, made
  <2> QED BY <2>1, <2>2, ImageFinite
<1>5. \A g, h \in groups : \A o \in g, p \in h : o.id = p.id => g = h
  BY <1>3 DEF Separate, Hotel!SameHotel
<1> HIDE DEF usable
<1>6. \A a, b \in made : a.id = b.id => a = b
  <2> SUFFICES ASSUME NEW g \in usable, NEW h \in usable, Candidate(g).id = Candidate(h).id
               PROVE  g = h
    OBVIOUS
  <2>1. Hotel!Representative(g) \in g /\ Hotel!Representative(h) \in h
    <3>1. \A k \in usable : Hotel!Named(k) # {} /\ Hotel!Named(k) \subseteq k
      BY DEF usable, Usable, Hotel!Named
    <3> QED BY <1>2, <1>3, <3>1, RepresentativeNamed
  <2> QED BY <1>2, <1>5, <2>1 DEF Candidate
<1>7. ASSUME NEW i \in DOMAIN objects, NEW g \in groups, objects[i] \in g
      PROVE  In(objects[i]) = {Candidate(h) : h \in usable \cap {g}}
  <2>1. ASSUME NEW a \in In(objects[i]) PROVE a \in {Candidate(h) : h \in usable \cap {g}}
    <3>1. PICK h \in usable : a = Candidate(h) /\ objects[i].id \in a.identities
      OBVIOUS
    <3>2. PICK p \in h : p.id = objects[i].id
      BY <3>1 DEF Candidate
    <3>3. h = g
      BY <1>2, <1>5, <1>7, <3>2
    <3> QED BY <3>1, <3>3
  <2>2. ASSUME g \in usable PROVE Candidate(g) \in In(objects[i])
    BY <1>7, <2>2 DEF Candidate
  <2> HIDE DEF In
  <2> QED BY <2>1, <2>2
<1>8. ASSUME NEW i \in DOMAIN objects, Hotel!Named({objects[i]}) # {}
      PROVE  \E a : In(objects[i]) = {a}
  <2>1. PICK g \in groups : objects[i] \in g
    BY <1>3
  <2>2. g \in usable
    BY <1>8, <2>1 DEF usable, groups, Usable, Hotel!Named
  <2>3. {Candidate(h) : h \in usable \cap {g}} = {Candidate(g)}
    BY <2>2
  <2> HIDE DEF In
  <2> QED BY <1>7, <2>1, <2>3
<1>9. ASSUME NEW i \in DOMAIN objects, NEW j \in DOMAIN objects,
             Hotel!SameHotel(objects[i], objects[j])
      PROVE  In(objects[i]) = In(objects[j])
  <2>1. PICK g \in groups : objects[i] \in g
    BY <1>3
  <2>2. PICK h \in groups : objects[j] \in h
    BY <1>3
  <2>3. g = h
    BY <1>3, <1>9, <2>1, <2>2 DEF Separate
  <2> HIDE DEF In
  <2> QED BY <1>7, <2>1, <2>2, <2>3
<1> HIDE DEF In, made
<1>10. /\ IsFiniteSet(made)
       /\ \A a, b \in made : a.id = b.id => a = b
       /\ \A i, j \in DOMAIN objects :
            /\ Hotel!Named({objects[i]}) # {} => \E a : In(objects[i]) = {a}
            /\ Hotel!SameHotel(objects[i], objects[j]) => In(objects[i]) = In(objects[j])
  BY <1>4, <1>6, <1>8, <1>9
<1> QED BY <1>1, <1>10 DEF In

-----------------------------------------------------------------------------
Valued == Int \cup {None}

\* What analyze retains: finitely many candidates, with a value or none per component.
Retained(r) ==
  IsFiniteSet(DOMAIN r) /\ \A a \in DOMAIN r, c \in Hotel!Components : r[a][c].value \in Valued

\* The join of a place finds a number or nothing.
LEMMA JoinValued ==
  ASSUME Hotel!HotelsAssumption, NEW place \in Places, NEW c \in Hotel!Components
  PROVE  Hotel!join_point_to_tiles(place[c]).value \in Valued
<1> DEFINE view == place[c]
<1>1. \A t \in view.containing \cup view.boundary \cup view.nearest : t.value \in Int
  BY DEF Hotel!HotelsAssumption
<1>2. ASSUME NEW tiles \in SUBSET (view.containing \cup view.boundary \cup view.nearest),
             tiles # {}, NEW q, NEW k
      PROVE  Hotel!Agreed(tiles, q, k).value \in Valued
  BY <1>1, <1>2 DEF Hotel!Agreed, Valued
<1> HIDE DEF view
<1>3. Hotel!join_point_to_tiles(view).value \in Valued
  <2>1. view.containing # {} \/ view.boundary # {} =>
          Hotel!Agreed(view.containing \cup view.boundary, "boundary", "boundary").value \in Valued
    BY <1>2
  <2>2. view.containing # {} =>
          Hotel!Agreed(view.containing, "containing_tile", "overlapping_tiles").value \in Valued
    BY <1>2
  <2>3. view.nearest # {} =>
          Hotel!Agreed(view.nearest, "nearest_fallback", "nearest_fallback_ambiguous").value
            \in Valued
    BY <1>2
  <2> QED BY <2>1, <2>2, <2>3 DEF Hotel!join_point_to_tiles, Valued
<1> QED BY <1>3 DEF view

\* Products of naturals do not shrink with a factor.
LEMMA ProductMonotone ==
  ASSUME NEW x \in Nat, NEW y \in Nat, NEW k \in Nat, x <= y
  PROVE  x * k \in Nat /\ y * k \in Nat /\ x * k <= y * k
<1>1. PICK d \in Nat : y = x + d
  <2>1. y - x \in Nat /\ y = x + (y - x)
    OBVIOUS
  <2> QED BY <2>1
<1>2. y * k = x * k + d * k /\ x * k \in Nat /\ d * k \in Nat
  BY <1>1
<1> QED BY <1>1, <1>2

\* A place with a value no greater is no warmer.
LEMMA WarmthMonotone ==
  ASSUME Hotel!HotelsAssumption, NEW r, Retained(r), NEW a \in Hotel!Complete(r),
         NEW b \in Hotel!Complete(r), NEW c \in Hotel!Components
  PROVE  /\ Hotel!Warmth(r, a, c) \in Nat
         /\ r[a][c].value <= r[b][c].value =>
              Hotel!Warmth(r, a, c) <= Hotel!Warmth(r, b, c)
<1> DEFINE values == Hotel!Values(r, c)
           Below(x) == {v \in values : v < r[x][c].value}
           step == Scale \div (Cardinality(values) - 1)
<1>1. values \subseteq Int /\ \A x \in Hotel!Complete(r) : r[x][c].value \in values
  BY DEF Hotel!Values, Hotel!Complete, Retained, Valued
<1>2. IsFiniteSet(values)
  <2> DEFINE f == [x \in Hotel!Complete(r) |-> r[x][c].value]
  <2>1. IsFiniteSet(Hotel!Complete(r))
    BY FS_Subset DEF Hotel!Complete, Retained
  <2>2. values = {f[x] : x \in Hotel!Complete(r)}
    BY DEF Hotel!Values
  <2> HIDE DEF values, f
  <2> QED BY <2>1, <2>2, ImageFinite
<1> HIDE DEF values
<1>3. Cardinality(values) \in Nat /\ Cardinality(values) # 0
  BY <1>1, <1>2, FS_CardinalityType, FS_EmptySet
<1>4. Cardinality(values) # 1 => step \in Nat
  <2>1. Scale \in Nat
    BY DEF Hotel!HotelsAssumption
  <2> QED BY <1>3, <2>1
<1>5. ASSUME NEW x \in Hotel!Complete(r) PROVE Cardinality(Below(x)) \in Nat
  BY <1>2, FS_Subset, FS_CardinalityType
<1>6. r[a][c].value <= r[b][c].value => Cardinality(Below(a)) <= Cardinality(Below(b))
  <2> SUFFICES ASSUME r[a][c].value <= r[b][c].value
               PROVE  Cardinality(Below(a)) <= Cardinality(Below(b))
    OBVIOUS
  <2>1. ASSUME NEW v \in Below(a) PROVE v \in Below(b)
    <3>1. v \in Int /\ r[a][c].value \in Int /\ r[b][c].value \in Int /\ v < r[a][c].value
      BY <1>1
    <3>2. v < r[b][c].value
      BY <3>1
    <3> QED BY <3>2
  <2>2. IsFiniteSet(Below(b))
    BY <1>2, FS_Subset
  <2> HIDE DEF Below
  <2> QED BY <2>1, <2>2, FS_Subset
<1>7. ASSUME NEW x \in Hotel!Complete(r)
      PROVE  Hotel!Warmth(r, x, c) =
               IF Cardinality(values) = 1 THEN 0 ELSE Cardinality(Below(x)) * step
  <2>1. /\ Hotel!Cardinality(Hotel!Values(r, c)) = Cardinality(values)
        /\ Hotel!Cardinality({v \in Hotel!Values(r, c) : v < r[x][c].value})
             = Cardinality(Below(x))
    BY HotelCardinality DEF values
  <2> QED BY <2>1, Zenon DEF Hotel!Warmth, values
<1> HIDE DEF Below, step
<1>8. CASE Cardinality(values) = 1
  BY <1>7, <1>8
<1>9. CASE Cardinality(values) # 1
  <2>1. /\ Hotel!Warmth(r, a, c) = Cardinality(Below(a)) * step
        /\ Hotel!Warmth(r, b, c) = Cardinality(Below(b)) * step
    BY <1>7, <1>9
  <2>2. /\ Cardinality(Below(a)) \in Nat /\ Cardinality(Below(b)) \in Nat /\ step \in Nat
        /\ Cardinality(Below(a)) * step \in Nat
    BY <1>4, <1>5, <1>9
  <2>3. Cardinality(Below(a)) <= Cardinality(Below(b)) =>
          Cardinality(Below(a)) * step <= Cardinality(Below(b)) * step
    BY <2>2, ProductMonotone
  <2> QED BY <1>6, <2>1, <2>2, <2>3
<1> QED BY <1>8, <1>9

\* The first of a group of correlated components is a component.
LEMMA LeaderComponent ==
  ASSUME NEW c \in Hotel!Components PROVE Hotel!Leader(c) \in Hotel!Components
<1> DEFINE S == {i \in DOMAIN Hotel!COMPONENTS :
                   Hotel!CorrelationKey(Hotel!COMPONENTS[i]) = Hotel!CorrelationKey(c)}
<1>1. S # {} /\ S \subseteq 1 .. 4 /\ DOMAIN Hotel!COMPONENTS = 1 .. 4
  BY DEF Hotel!Components, Hotel!COMPONENTS
<1>2. S \subseteq Nat /\ IsFiniteSet(S)
  <2> HIDE DEF S
  <2>1. IsFiniteSet(1 .. 4)
    <3>1. 1 \in Int /\ 4 \in Int
      OBVIOUS
    <3> QED BY ONLY <3>1, FS_Interval, Zenon
  <2>2. S \subseteq Nat
    BY <1>1
  <2> QED BY <1>1, <2>1, <2>2, FS_Subset
<1>3. Hotel!Min(S) \in S
  <2> HIDE DEF S
  <2> QED BY <1>1, <1>2, LeastOfPlaces DEF Hotel!Min
<1>4. Hotel!Leader(c) = Hotel!COMPONENTS[Hotel!Min(S)]
  BY DEF Hotel!Leader
<1> QED BY <1>3, <1>4 DEF Hotel!Components

NoHotter(r, a, b) == \A c \in Hotel!Components : r[a][c].value <= r[b][c].value

\* A candidate that is nowhere hotter than another has no greater aggregate.
LEMMA AggregateMonotone ==
  ASSUME Hotel!HotelsAssumption, NEW r, Retained(r), NEW a \in Hotel!Complete(r),
         NEW b \in Hotel!Complete(r), NEW weights \in [Hotel!Components -> Nat]
  PROVE  /\ Hotel!Aggregate(r, a, weights) \in Nat
         /\ NoHotter(r, a, b) => Hotel!Aggregate(r, a, weights) <= Hotel!Aggregate(r, b, weights)
<1> DEFINE Term(x, c) == Hotel!Warmth(r, x, Hotel!Leader(c)) * weights[c]
<1>1. ASSUME NEW c \in Hotel!Components
      PROVE  /\ Term(a, c) \in Nat /\ Term(b, c) \in Nat
             /\ NoHotter(r, a, b) => Term(a, c) <= Term(b, c)
  <2> DEFINE Warm(x) == Hotel!Warmth(r, x, Hotel!Leader(c))
             weight == weights[c]
  <2>1. Hotel!Leader(c) \in Hotel!Components
    BY LeaderComponent
  <2>2. /\ Warm(a) \in Nat /\ Warm(b) \in Nat
        /\ NoHotter(r, a, b) => Warm(a) <= Warm(b)
    BY <2>1, WarmthMonotone DEF NoHotter
  <2>3. weight \in Nat
    OBVIOUS
  <2> HIDE DEF Warm, weight
  <2>4. Warm(a) * weight \in Nat /\ Warm(b) * weight \in Nat
    BY <2>2, <2>3, ProductMonotone
  <2>5. NoHotter(r, a, b) => Warm(a) * weight <= Warm(b) * weight
    BY <2>2, <2>3, ProductMonotone
  <2> QED BY <2>4, <2>5 DEF Warm, weight
<1> HIDE DEF Term
<1>2. /\ "night" \in Hotel!Components /\ "hot_hours" \in Hotel!Components
      /\ "persistence" \in Hotel!Components /\ "day" \in Hotel!Components
  BY DEF Hotel!Components, Hotel!COMPONENTS
<1>3. ASSUME NEW x
      PROVE  Hotel!Aggregate(r, x, weights) =
               Term(x, "night") + Term(x, "hot_hours") + Term(x, "persistence") + Term(x, "day")
  BY <1>2 DEF Hotel!Aggregate, Hotel!Sum, Term
<1> QED BY <1>1, <1>2, <1>3

\* What a score says of the candidates that were assigned their values.
Ranking(r, hotels) ==
  LET ranked == {a \in DOMAIN hotels : hotels[a].rank # None}
  IN /\ ranked = {} \/ Cardinality(ranked) >= MinimumComplete
     /\ \A a \in ranked : \A c \in Hotel!Components : r[a][c].value # None
     /\ \A a, b \in ranked : NoHotter(r, a, b) => hotels[a].rank <= hotels[b].rank

\* A score ranks enough candidates or none, only complete ones, and a cooler one no later.
LEMMA ScoreRanks ==
  ASSUME Hotel!HotelsAssumption, NEW r, Retained(r), NEW weights \in [Hotel!Components -> Nat]
  PROVE  Ranking(r, Hotel!Score(r, weights))
<1> DEFINE complete == Hotel!Complete(r)
           enough == Cardinality(complete) >= MinimumComplete
           total == [a \in complete |-> Hotel!Aggregate(r, a, weights)]
           Before(a) == {b \in complete : total[b] < total[a]}
           hotels == Hotel!Score(r, weights)
           ranked == {a \in DOMAIN hotels : hotels[a].rank # None}
<1>1. complete \subseteq DOMAIN r /\ IsFiniteSet(complete)
  BY FS_Subset DEF Hotel!Complete, Retained
<1>2. ASSUME NEW a \in complete PROVE Cardinality(Before(a)) \in Nat
  BY <1>1, FS_Subset, FS_CardinalityType
<1>3. DOMAIN hotels = DOMAIN r
  BY DEF Hotel!Score
<1>4. ASSUME NEW a \in DOMAIN r
      PROVE  hotels[a].rank = IF enough /\ a \in complete THEN 1 + Cardinality(Before(a))
                              ELSE None
  <2>1. /\ Hotel!Cardinality(Hotel!Complete(r)) = Cardinality(complete)
        /\ Hotel!Cardinality(Before(a)) = Cardinality(Before(a))
    BY HotelCardinality
  <2> QED BY <2>1 DEF Hotel!Score
<1>5. None \notin Int
  BY DEF Hotel!HotelsAssumption
<1> HIDE DEF hotels, Before, enough
<1>6. ranked = IF enough THEN complete ELSE {}
  <2> HIDE DEF complete
  <2> QED BY <1>1, <1>2, <1>3, <1>4, <1>5
<1>7. ranked = {} \/ Cardinality(ranked) >= MinimumComplete
  BY <1>6 DEF enough
<1>8. \A a \in ranked : \A c \in Hotel!Components : r[a][c].value # None
  BY <1>6 DEF Hotel!Complete
<1>9. ASSUME NEW a \in ranked, NEW b \in ranked, NoHotter(r, a, b)
      PROVE  hotels[a].rank <= hotels[b].rank
  <2>1. enough /\ a \in complete /\ b \in complete
    BY <1>6
  <2>2. \A x \in complete : total[x] \in Nat
    BY AggregateMonotone
  <2>3. total[a] <= total[b]
    BY <1>9, <2>1, AggregateMonotone
  <2> HIDE DEF total, complete
  <2>4. ASSUME NEW x \in Before(a) PROVE x \in Before(b)
    <3>1. x \in complete /\ total[x] < total[a]
      BY <2>4 DEF Before
    <3>2. total[x] < total[b]
      BY <2>1, <2>2, <2>3, <3>1
    <3> QED BY <3>1, <3>2 DEF Before
  <2>5. Cardinality(Before(a)) <= Cardinality(Before(b))
    <3>1. IsFiniteSet(Before(b))
      BY <1>1, FS_Subset DEF Before
    <3> QED BY <2>4, <3>1, FS_Subset
  <2> QED BY <1>1, <1>2, <1>4, <2>1, <2>5
<1> QED BY <1>7, <1>8, <1>9 DEF Ranking, hotels

-----------------------------------------------------------------------------
(***************************************************************************)
(* While an answer is at hand the candidates are those of it; they are     *)
(* finitely many and known by identities of their own (CandidatesInv).     *)
(* The values retained are of such candidates, and an outcome is a score   *)
(* of the values at hand (ScoreInv).                                       *)
(***************************************************************************)
CandidatesInv ==
  /\ IsFiniteSet(candidates)
  /\ \A a, b \in candidates : a.id = b.id => a = b
  /\ listing # <<>> => listing \in Listings /\ candidates = Hotel!Deduplicated(listing)

ScoreInv ==
  /\ hotelStage # "ranked" => outcome = None
  /\ Retained(assignments) /\ Hotel!IdentitiesUnique(DOMAIN assignments)
  /\ outcome # None => Ranking(assignments, outcome.hotels)

HotelInv == CandidatesInv /\ ScoreInv

\* Nothing has been ranked, and nothing retained.
LEMMA NothingRanked == ASSUME NEW r PROVE Ranking(r, <<>>)
  BY DEF Ranking

LEMMA NothingRetained == Retained(<<>>) /\ Hotel!IdentitiesUnique(DOMAIN <<>>)
  BY FS_EmptySet DEF Retained, Hotel!IdentitiesUnique

LEMMA HotelInit == Hotel!Init => HotelInv
  BY FS_EmptySet, NothingRetained DEF Hotel!Init, HotelInv, CandidatesInv, ScoreInv

\* What is answered when a score is asked for ranks the values it is of.
LEMMA ScoredRanks ==
  ASSUME Hotel!HotelsAssumption, NEW r, Retained(r),
         NEW weights \in Weightings \cup {Hotel!DEFAULT_WEIGHTS}
  PROVE  /\ Ranking(r, Hotel!Scored(r, weights).hotels)
         /\ ~Hotel!Accepted(r, weights) => Hotel!Scored(r, weights).hotels = <<>>
<1>1. Hotel!DEFAULT_WEIGHTS \in [Hotel!Components -> Nat]
  BY DEF Hotel!DEFAULT_WEIGHTS
<1>2. weights \in [Hotel!Components -> Nat]
  BY <1>1 DEF Hotel!HotelsAssumption
<1>3. Ranking(r, Hotel!Score(r, weights)) /\ Ranking(r, <<>>)
  BY <1>2, ScoreRanks, NothingRanked
<1>4. Hotel!Scored(r, weights).hotels =
        IF Hotel!Accepted(r, weights) THEN Hotel!Score(r, weights) ELSE <<>>
  BY DEF Hotel!Scored, Hotel!Unavailable
<1> QED BY <1>3, <1>4

LEMMA HotelStep ==
  ASSUME Hotel!HotelsAssumption, HotelInv, [Hotel!Next]_Hotel!hotelVars
  PROVE  HotelInv'
<1> USE DEF HotelInv
<1>1. ASSUME hotelStage = "discover", NEW objects \in Listings, Hotel!Discover(objects)
      PROVE  HotelInv'
  <2>1. CandidatesInv'
    <3>1. /\ IsFiniteSet(Hotel!Deduplicated(objects))
          /\ \A a, b \in Hotel!Deduplicated(objects) : a.id = b.id => a = b
      BY CandidatesOfListing
    <3> QED BY <1>1, <3>1 DEF CandidatesInv, Hotel!Discover
  <2>2. ScoreInv'
    <3>1. Ranking(assignments, Hotel!Unavailable("insufficient_usable_hotels").hotels)
      BY NothingRanked DEF Hotel!Unavailable
    <3> QED BY <1>1, <3>1 DEF ScoreInv, Hotel!Discover
  <2> QED BY <2>1, <2>2
<1>2. ASSUME hotelStage = "assign", NEW places \in [candidates -> Places], Hotel!Assign(places)
      PROVE  HotelInv'
  <2>1. CandidatesInv'
    BY <1>2 DEF CandidatesInv, Hotel!Assign
  <2> DEFINE r == [a \in candidates |-> Hotel!Assigned(places[a])]
  <2>2. Retained(r)
    <3>1. \A a \in candidates, c \in Hotel!Components : r[a][c].value \in Valued
      BY JoinValued DEF Hotel!Assigned
    <3> QED BY <3>1 DEF Retained, CandidatesInv
  <2>3. Hotel!IdentitiesUnique(DOMAIN r)
    BY DEF Hotel!IdentitiesUnique, CandidatesInv
  <2>4. assignments' = r /\ outcome' = None
    BY <1>2 DEF ScoreInv, Hotel!Assign
  <2> HIDE DEF r
  <2>5. ScoreInv'
    BY <2>2, <2>3, <2>4 DEF ScoreInv
  <2> QED BY <2>1, <2>5
<1>3. ASSUME NEW weights \in Weightings \cup {Hotel!DEFAULT_WEIGHTS}, Hotel!Analyze(weights)
      PROVE  HotelInv'
  <2>1. CandidatesInv'
    BY <1>3 DEF CandidatesInv, Hotel!Analyze
  <2>2. CASE Hotel!Accepted(assignments, weights)
    BY <1>3, <2>1, <2>2, ScoredRanks DEF ScoreInv, Hotel!Analyze
  <2>3. CASE ~Hotel!Accepted(assignments, weights)
    <3>1. assignments' = <<>> /\ outcome'.hotels = <<>> /\ hotelStage' = "ranked"
      BY <1>3, <2>3, ScoredRanks DEF ScoreInv, Hotel!Analyze
    <3> QED BY <2>1, <3>1, NothingRanked, NothingRetained DEF ScoreInv
  <2> QED BY <2>2, <2>3
<1>4. ASSUME NEW weights \in Weightings \cup {Hotel!DEFAULT_WEIGHTS}, Hotel!Rerank(weights)
      PROVE  HotelInv'
  <2>1. CandidatesInv'
    BY <1>4 DEF CandidatesInv, Hotel!Rerank
  <2>2. ScoreInv'
    BY <1>4, ScoredRanks DEF ScoreInv, Hotel!Rerank
  <2> QED BY <2>1, <2>2
<1>5. CASE UNCHANGED Hotel!hotelVars
  BY <1>5 DEF CandidatesInv, ScoreInv, Hotel!hotelVars
<1> QED BY <1>1, <1>2, <1>3, <1>4, <1>5 DEF Hotel!Next

LEMMA HotelAlways == PartSpec => []HotelInv
<1>1. Hotel!HotelsAssumption
  BY PlansAssumption
<1>2. Hotel!Spec => []HotelInv
  BY <1>1, HotelInit, HotelStep, PTL DEF Hotel!Spec
<1> QED BY <1>2, PartsAreRuns, PTL

(***************************************************************************)
(* Discovery ranks a hotel once, whatever the order of the answer: objects *)
(* that are the same hotel and can be named and placed are in one and the  *)
(* same candidate, and no object is in two (hotel_discovery.py:215-287);   *)
(* and no score is refused for "hotel identities must be unique"           *)
(* (hotel_heat_score.py:190-192).                                          *)
(***************************************************************************)
THEOREM RankedOnce == PartSpec => []OneCandidatePerHotel
<1>1. HotelInv => OneCandidatePerHotel
  <2> SUFFICES ASSUME HotelInv PROVE OneCandidatePerHotel
    OBVIOUS
  <2> DEFINE In(object) == {a \in candidates : object.id \in a.identities}
  <2> SUFFICES ASSUME listing # <<>>, NEW i \in DOMAIN listing, NEW j \in DOMAIN listing
               PROVE  /\ Hotel!Named({listing[i]}) # {} =>
                           Hotel!Cardinality(In(listing[i])) = 1
                      /\ Hotel!SameHotel(listing[i], listing[j]) =>
                           In(listing[i]) = In(listing[j])
    BY DEF OneCandidatePerHotel, Hotel!OneCandidatePerHotel, HotelInv, ScoreInv
  <2>1. listing \in Listings /\ candidates = Hotel!Deduplicated(listing)
    BY DEF HotelInv, CandidatesInv
  <2>2. /\ Hotel!Named({listing[i]}) # {} => \E a : In(listing[i]) = {a}
        /\ Hotel!SameHotel(listing[i], listing[j]) => In(listing[i]) = In(listing[j])
    <3> DEFINE made == Hotel!Deduplicated(listing)
               Of(object) == {a \in made : object.id \in a.identities}
    <3>1. \A k, l \in DOMAIN listing :
            /\ Hotel!Named({listing[k]}) # {} => \E a : Of(listing[k]) = {a}
            /\ Hotel!SameHotel(listing[k], listing[l]) => Of(listing[k]) = Of(listing[l])
      BY <2>1, PlansAssumption, CandidatesOfListing
    <3>2. \A object : Of(object) = In(object)
      BY <2>1
    <3> HIDE DEF In, Of
    <3> QED BY <3>1, <3>2
  <2> HIDE DEF In
  <2> QED BY <2>2, HotelCardinality, FS_Singleton
<1> QED BY <1>1, HotelAlways, PTL

(***************************************************************************)
(* Into which hotels discovery divides the objects of an answer does not   *)
(* depend on the order Overpass lists them in or lists one twice: an       *)
(* object is joined to all the groups it matches, not only to the first    *)
(* (hotel_discovery.py:215-287).                                           *)
(***************************************************************************)
THEOREM OrderIrrelevant ==
  ASSUME NEW objects \in Listings, NEW others \in Listings,
         {objects[i] : i \in DOMAIN objects} = {others[i] : i \in DOMAIN others}
  PROVE  Hotel!Grouped(objects) = Hotel!Grouped(others)
<1>1. /\ Len(objects) \in Nat /\ DOMAIN objects = 1 .. Len(objects)
      /\ Len(others) \in Nat /\ DOMAIN others = 1 .. Len(others)
  BY PlansAssumption DEF Hotel!HotelsAssumption
<1> DEFINE G == Hotel!Grouped(objects)
           H == Hotel!Grouped(others)
<1>2. UNION G = {objects[i] : i \in DOMAIN objects} /\ Separate(G) /\ \A g \in G : Linked(g)
  BY <1>1, GroupedSeparate
<1>3. UNION H = {others[i] : i \in DOMAIN others} /\ Separate(H) /\ \A h \in H : Linked(h)
  BY <1>1, GroupedSeparate
<1> HIDE DEF G, H
<1>4. G \subseteq H /\ H \subseteq G
  BY <1>2, <1>3, OneDivision
<1> QED BY <1>4 DEF G, H

(***************************************************************************)
(* A hotel that is nowhere hotter than another is never ranked behind it,  *)
(* and beside it when they are equally hot; a hotel without a value for    *)
(* every component is not ranked, and none is when few have one            *)
(* (hotel_heat_score.py:183-286).                                          *)
(***************************************************************************)
THEOREM CoolerRankedBefore == PartSpec => []CoolerNeverBehind
<1>1. HotelInv => CoolerNeverBehind
  <2>1. \A S : Hotel!Cardinality(S) = Cardinality(S)
    BY HotelCardinality
  <2> QED BY <2>1 DEF HotelInv, ScoreInv, Ranking, NoHotter, CoolerNeverBehind,
                    Hotel!CoolerNeverBehind
<1> QED BY <1>1, HotelAlways, PTL
=============================================================================
