------------------------------ MODULE HeatPolicy ------------------------------
(***************************************************************************)
(* Heat bands and the action threshold of app/domain/heat_policy.py.       *)
(* Temperatures are hundredths of a degree Celsius; None is a missing      *)
(* value.  The two metrics have bands of their own: NOAA's Heat Index      *)
(* boundaries are in Fahrenheit, the product's TCM boundaries in Celsius.  *)
(* A band is the number of boundaries at or below the value.               *)
(***************************************************************************)
EXTENDS Integers, FiniteSets, Optional

HeatIndex == "heat_index_celsius"
TCM == "tcm"

NOAA_BOUNDARIES_FAHRENHEIT == {80, 90, 105, 130}
PROVIDER_TCM_BOUNDARIES == {3000, 3500, 4000}

\* 9/5 * (value / 100) + 32 >= f, over the integers.
AtLeastFahrenheit(value, f) == 9 * value >= 500 * (f - 32)

Band(value, metric) ==
  IF metric = HeatIndex
  THEN Cardinality({f \in NOAA_BOUNDARIES_FAHRENHEIT : AtLeastFahrenheit(value, f)})
  ELSE Cardinality({c \in PROVIDER_TCM_BOUNDARIES : value >= c})

\* Cautious guidance acts one band earlier.
ActionBand(cautious) == IF cautious THEN 1 ELSE 2

classify_heat(value, metric, cautious) ==
  [metric   |-> metric,
   value    |-> value,
   cautious |-> cautious,
   band     |-> IF value = None THEN None ELSE Band(value, metric),
   threshold |-> IF value = None THEN None ELSE ActionBand(cautious),
   actual   |-> metric = HeatIndex /\ value # None,
   action   |-> value # None /\ Band(value, metric) >= ActionBand(cautious)]

\* What HeatInterpretation accepts, whoever made it (a decoder makes it from the payload).
HeatInterpretationAccepted(h) ==
  /\ h.actual = (h.metric = HeatIndex /\ h.value # None)
  /\ h.value = None => h.band = None /\ h.threshold = None /\ ~h.action
  /\ h.value # None =>
       /\ h.band \in 0 .. (IF h.metric = HeatIndex THEN 4 ELSE 3)
       /\ h.threshold = (IF h.cautious THEN 1 ELSE 2)
       /\ h.action = (h.band >= h.threshold)
=============================================================================
