------------------------------ MODULE HotelScore ------------------------------
(***************************************************************************)
(* What a hotel ranking computes: one candidate per hotel from the objects *)
(* of OpenStreetMap (app/services/hotel_discovery.py), the heat read off   *)
(* the district tiles for each (join_point_to_tiles in                     *)
(* app/domain/analysis.py) and the relative score                          *)
(* (NeighbourhoodHeatScorer in app/domain/hotel_heat_score.py), for        *)
(* HotelHeatAnalysisService.analyze and rerank                             *)
(* (app/services/hotel_heat_score.py).  Where the tiles come from is       *)
(* HotelEvidence's subject.                                                *)
(*                                                                         *)
(* An object has the texts _normalize leaves, or None; geometry is what    *)
(* the join sees of a place: the tiles that contain it, those it is on the *)
(* edge of, and the nearest ones with their distance in metres.  Weights   *)
(* are per mille; aggregates are not rounded to six digits.  Candidates    *)
(* and their scores are sets: the order in which the code lists them, by   *)
(* rank, identity and place in the answer, decides nothing.                *)
(***************************************************************************)
EXTENDS TupleOrder, FiniteSetsExt

CONSTANTS Listings,   \* sequences of hotel objects Overpass may answer
          Places,     \* views of a hotel: component -> what the join sees
          Weightings, \* weights a caller may ask for: component -> per mille
          Scale,      \* a percentile is so many parts; any multiple of the steps is exact
          MinimumUsable, MinimumComplete,
          None

VARIABLES hotelStage,  \* "discover", "assign", "score" or "ranked"
          listing,     \* the objects discovery answered
          candidates,  \* the candidates they make
          assignments, \* what analyze retains: candidate -> its components
          outcome      \* the outcome returned last

hotelVars == <<hotelStage, listing, candidates, assignments, outcome>>

COMPONENTS == <<"night", "hot_hours", "persistence", "day">>
Components == {COMPONENTS[i] : i \in DOMAIN COMPONENTS}
DEFAULT_WEIGHTS == [c \in Components |->
  CASE c = "night" -> 350 [] c = "hot_hours" -> 250 [] OTHER -> 200]
NEAREST_FALLBACK_MAX_M == 100

\* Weights are nonnegative, tiles have numbers and objects OpenStreetMap identities.
HotelsAssumption ==
  /\ None \notin Int
  /\ Weightings \subseteq [Components -> Nat]
  /\ Scale \in Nat \ {0} /\ MinimumUsable \in Nat /\ MinimumComplete \in Nat \ {0}
  /\ \A place \in Places, c \in Components :
       \A t \in place[c].containing \cup place[c].boundary \cup place[c].nearest : t.value \in Int
  /\ \A objects \in Listings :
       /\ Len(objects) \in Nat /\ DOMAIN objects = 1 .. Len(objects)
       /\ \A i \in DOMAIN objects :
            /\ objects[i].id \in {"node", "way", "relation"} \X Int
            /\ IsFiniteSet(objects[i].address)

-----------------------------------------------------------------------------
\* _same_hotel: one identity, a member with a compatible name, or one name and one detail.
SameHotel(left, right) ==
  \/ left.id = right.id
  \/ /\ left.id \in right.members \/ right.id \in left.members
     /\ left.name = None \/ right.name = None \/ left.name = right.name
  \/ /\ left.name # None /\ left.name = right.name
     /\ \/ left.address # {} /\ left.address = right.address
        \/ left.website # None /\ left.website = right.website
        \/ left.operator # None /\ left.operator = right.operator

Matching(groups, object) == {g \in groups : \E other \in g : SameHotel(object, other)}

JoinedFaulty(groups, object) == \* joins only one of the groups it matches
  LET matching == Matching(groups, object)
      joined == IF matching = {} THEN {} ELSE CHOOSE g \in matching : TRUE
  IN (groups \ {joined}) \cup {joined \cup {object}}

\* An object joins the groups it matches into one, or begins a group.
Joined(groups, object) ==
  LET matching == Matching(groups, object)
  IN (groups \ matching) \cup {(UNION matching) \cup {object}}

Grouped(objects) ==
  LET groups[n \in 0 .. Len(objects)] ==
        IF n = 0 THEN {} ELSE Joined(groups[n - 1], objects[n])
  IN groups[Len(objects)]

Named(group) == {object \in group : object.name # None /\ object.located}

\* A relation before others, then one with most details, then the oldest; of a node and a
\* way that are equal in all this either, where the code takes the one it met first.
Representative(group) ==
  LET Detail(x) == IF x = None THEN 0 ELSE 1
      Key(object) == <<IF object.id[1] = "relation" THEN 0 ELSE 1,
                       -(Cardinality(object.address) + Detail(object.website)
                                                     + Detail(object.operator)),
                       object.id[2]>>
  IN CHOOSE object \in Named(group) :
       \A other \in Named(group) : ~Precedes(Key(other), Key(object))

\* _deduplicate: a group without a name and a position makes no candidate.
Deduplicated(objects) ==
  {[id |-> Representative(g).id, identities |-> {object.id : object \in g}] :
     g \in {h \in Grouped(objects) : Named(h) # {}}}

-----------------------------------------------------------------------------
\* One value from one source, or none: _merged_metadata tells tiles of two sources apart.
Agreed(tiles, quality, conflict) ==
  IF \E s, t \in tiles : s.value # t.value THEN [value |-> None, quality |-> conflict]
  ELSE IF \E s, t \in tiles : s.metadata # t.metadata
       THEN [value |-> None, quality |-> "mixed_provenance"]
  ELSE [value |-> (CHOOSE t \in tiles : TRUE).value, quality |-> quality]

join_point_to_tiles(view) ==
  LET NoValue(quality) == [value |-> None, quality |-> quality] IN
  IF ~view.inside THEN NoValue("outside_aoi")
  ELSE IF view.boundary # {}
       THEN Agreed(view.containing \cup view.boundary, "boundary", "boundary")
  ELSE IF view.containing # {}
       THEN Agreed(view.containing, "containing_tile", "overlapping_tiles")
  ELSE IF view.nearest = {} \/ view.distance > NEAREST_FALLBACK_MAX_M
       THEN NoValue("no_match")
  ELSE Agreed(view.nearest, "nearest_fallback", "nearest_fallback_ambiguous")

Assigned(place) == [c \in Components |-> join_point_to_tiles(place[c])]

\* The candidates that have a value for every component.
Complete(retained) ==
  {a \in DOMAIN retained : \A c \in Components : retained[a][c].value # None}

-----------------------------------------------------------------------------
\* The loader gives both components of the TCM heatmap one correlation key.
CorrelationKey(c) == IF c \in {"night", "day"} THEN "shared-date-tcm" ELSE c

\* A group of correlated components is scored by its first one, with the weight of all.
Leader(c) ==
  COMPONENTS[Min({i \in DOMAIN COMPONENTS : CorrelationKey(COMPONENTS[i]) = CorrelationKey(c)})]

Values(retained, c) == {retained[a][c].value : a \in Complete(retained)}

WarmthFaulty(retained, a, c) == \* the percentile is added up instead of its complement
  LET values == Values(retained, c) IN
  IF Cardinality(values) = 1 THEN 0
  ELSE Scale - Cardinality({v \in values : v < retained[a][c].value})
                 * (Scale \div (Cardinality(values) - 1))

\* 1 - percentile / 100 in parts of Scale: the place of the value among the distinct
\* values of all complete candidates, 0 if they have only one.
Warmth(retained, a, c) ==
  LET values == Values(retained, c) IN
  IF Cardinality(values) = 1 THEN 0
  ELSE Cardinality({v \in values : v < retained[a][c].value})
         * (Scale \div (Cardinality(values) - 1))

Sum(f) == f["night"] + f["hot_hours"] + f["persistence"] + f["day"]

Aggregate(retained, a, weights) ==
  Sum([c \in Components |-> Warmth(retained, a, Leader(c)) * weights[c]])

\* _weights: complete and nonnegative by their type here, and close to a sum of 1.
WeightsAccepted(weights) == Sum(weights) \in 999 .. 1001

IdentitiesUnique(hotels) == \A a, b \in hotels : a.id = b.id => a = b

\* score: candidates of one aggregate share the first of their places by aggregate.
Score(retained, weights) ==
  LET complete == Complete(retained)
      ranked   == Cardinality(complete) >= MinimumComplete
      total    == [a \in complete |-> Aggregate(retained, a, weights)]
      Rank(a)  == 1 + Cardinality({b \in complete : total[b] < total[a]})
  IN [a \in DOMAIN retained |->
        [aggregate |-> IF a \in complete THEN total[a] ELSE None,
         rank      |-> IF ranked /\ a \in complete THEN Rank(a) ELSE None]]

Unavailable(reason) == [state |-> "unavailable", reason |-> reason, hotels |-> <<>>]

Accepted(retained, weights) == WeightsAccepted(weights) /\ IdentitiesUnique(DOMAIN retained)

\* What analyze and rerank make of a score; what is not accepted raises ValueError.
Scored(retained, weights) ==
  LET hotels == Score(retained, weights)
      ranked == \E a \in DOMAIN hotels : hotels[a].rank # None
  IN IF ~Accepted(retained, weights) THEN Unavailable("value_error")
     ELSE [state  |-> IF ranked THEN "available" ELSE "unavailable",
           reason |-> IF ranked THEN None ELSE "insufficient_complete_hotels",
           hotels |-> hotels]

-----------------------------------------------------------------------------
Init ==
  /\ hotelStage = "discover" /\ listing = <<>>
  /\ candidates = {} /\ assignments = <<>> /\ outcome = None

\* discover, with the answer of Overpass or the one CacheService kept.
Discover(objects) ==
  /\ hotelStage = "discover"
  /\ listing' = objects /\ candidates' = Deduplicated(objects)
  /\ IF Cardinality(candidates') >= MinimumUsable
     THEN hotelStage' = "assign" /\ UNCHANGED outcome
     ELSE hotelStage' = "ranked" /\ outcome' = Unavailable("insufficient_usable_hotels")
  /\ UNCHANGED assignments

\* assign, with the view of each candidate; the objects are not read again.
Assign(places) ==
  /\ hotelStage = "assign"
  /\ assignments' = [a \in candidates |-> Assigned(places[a])]
  /\ hotelStage' = "score"
  /\ listing' = <<>>
  /\ UNCHANGED <<candidates, outcome>>

\* analyze ends; without an outcome there is nothing to rerank.
Analyze(weights) ==
  /\ hotelStage = "score"
  /\ outcome' = Scored(assignments, weights) /\ hotelStage' = "ranked"
  /\ assignments' = IF Accepted(assignments, weights) THEN assignments ELSE <<>>
  /\ UNCHANGED <<listing, candidates>>

\* rerank: the retained assignments alone, with other weights.
Rerank(weights) ==
  /\ hotelStage = "ranked" /\ assignments # <<>>
  /\ outcome' = Scored(assignments, weights)
  /\ UNCHANGED <<hotelStage, listing, candidates, assignments>>

Next ==
  \/ hotelStage = "discover" /\ \E objects \in Listings : Discover(objects)
  \/ hotelStage = "assign" /\ \E places \in [candidates -> Places] : Assign(places)
  \/ \E weights \in Weightings \cup {DEFAULT_WEIGHTS} : Analyze(weights) \/ Rerank(weights)

Spec == Init /\ [][Next]_hotelVars

-----------------------------------------------------------------------------
(***************************************************************************)
(* Discovery ranks a hotel once, whatever the order of the answer: objects *)
(* that are the same hotel and can be named and placed are in one and the  *)
(* same candidate, and no object is in two (hotel_discovery.py:215-287).   *)
(* The identity a candidate is known by, which the score and the ranks are *)
(* kept under, is its own: score's ValueError "hotel identities must be    *)
(* unique" is never raised (hotel_heat_score.py:190-192).                  *)
(***************************************************************************)
OneCandidatePerHotel ==
  LET In(object) == {a \in candidates : object.id \in a.identities} IN
  /\ listing # <<>> =>
       \A i, j \in DOMAIN listing :
         /\ Named({listing[i]}) # {} => Cardinality(In(listing[i])) = 1
         /\ SameHotel(listing[i], listing[j]) => In(listing[i]) = In(listing[j])
  /\ IdentitiesUnique(DOMAIN assignments)

(***************************************************************************)
(* A hotel that is nowhere hotter than another is never ranked behind it,  *)
(* and beside it when they are equally hot, although every score depends   *)
(* on all candidates; a hotel without a value for every component is not   *)
(* ranked, and none is when few have one (hotel_heat_score.py:183-286).    *)
(***************************************************************************)
CoolerNeverBehind ==
  outcome # None =>
    LET hotels == outcome.hotels
        ranked == {a \in DOMAIN hotels : hotels[a].rank # None}
        NoHotter(a, b) ==
          \A c \in Components : assignments[a][c].value <= assignments[b][c].value
    IN /\ ranked = {} \/ Cardinality(ranked) >= MinimumComplete
       /\ \A a \in ranked : \A c \in Components : assignments[a][c].value # None
       /\ \A a, b \in ranked : NoHotter(a, b) => hotels[a].rank <= hotels[b].rank
=============================================================================
