--------------------------- MODULE MCTripAnalysis ---------------------------
(* TripAnalysis for TLC: analyses are model values, hours are small numbers. *)
EXTENDS TripAnalysis

\* Which products a committed fixture matches, in the different runs.
HourFixture == {<<"hour", 1>>, Env}
NoFixture == {}
FramingFixture == {<<"hour", 2>>, Exceedance}
=============================================================================
