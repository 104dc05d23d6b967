------------------------------ MODULE HotelCases ------------------------------
(* The hotels TLC checks HotelScore with. *)
EXTENDS SequencesExt, Optional

Object(type, n, name, address, operator, members) ==
  [id |-> <<type, n>>, name |-> name, located |-> TRUE, address |-> address,
   website |-> None, operator |-> operator, members |-> members]

\* One hotel by its address, its operator and a building linked to it, one of its objects
\* twice, under an old name too; and two others.
HotelObjects ==
  {Object("node", 1, "alamo", {"a"}, None, {}),
   Object("node", 1, "menger", {}, None, {}),
   Object("way", 1, "alamo", {}, "inn", {}),
   Object("node", 2, "alamo", {"a"}, "inn", {}),
   Object("relation", 4, None, {}, None, {<<"way", 1>>}),
   Object("node", 5, "bowie", {"a"}, None, {}),
   [Object("way", 6, "crockett", {}, None, {}) EXCEPT !.located = FALSE]}

HotelListings == UNION {SetToSeqs(S) : S \in {T \in SUBSET HotelObjects : Cardinality(T) <= 3}}

Tile(n, value, metadata) == [id |-> n, value |-> value, metadata |-> metadata]
Beside(tiles, distance) ==
  [inside |-> TRUE, boundary |-> {}, containing |-> {}, nearest |-> tiles, distance |-> distance]
Within(tiles) == [Beside({}, 0) EXCEPT !.containing = tiles]
Edge(tiles) == [Beside({}, 0) EXCEPT !.boundary = tiles]
Everywhere(view) == [c \in {"night", "hot_hours", "persistence", "day"} |-> view]

HotelPlaces ==
  {Everywhere(Within({Tile(1, 30, "day")})), Everywhere(Within({Tile(2, 32, "day")})),
   [Everywhere(Edge({Tile(1, 30, "day"), Tile(3, 30, "day")})) EXCEPT
      !["night"] = Within({Tile(2, 32, "day")})],
   [Everywhere(Beside({Tile(2, 32, "day")}, 100)) EXCEPT
      !["hot_hours"] = Within({Tile(4, 31, "day")}),
      !["persistence"] = Within({Tile(1, 30, "day")})],
   [Everywhere(Within({Tile(2, 32, "day")})) EXCEPT !["day"] = Within({Tile(1, 30, "day")})],
   [Everywhere(Within({Tile(1, 30, "day")})) EXCEPT
      !["day"] = Edge({Tile(1, 30, "day"), Tile(2, 32, "day")})],
   [Everywhere(Within({Tile(1, 30, "day")})) EXCEPT
      !["day"] = Within({Tile(1, 30, "day"), Tile(5, 30, "fixture")})],
   [Everywhere(Within({Tile(1, 30, "day")})) EXCEPT !["day"] = Beside({Tile(2, 32, "day")}, 101),
                                                !["night"].inside = FALSE]}

CaseWeights ==
  {[Everywhere(0) EXCEPT !["night"] = 1000],
   [Everywhere(0) EXCEPT !["hot_hours"] = 500, !["day"] = 499],
   Everywhere(300)}
=============================================================================
