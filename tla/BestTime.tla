------------------------------- MODULE BestTime -------------------------------
(***************************************************************************)
(* The best-time policy of app/domain/best_time.py: concern levels of the  *)
(* reported parameters, the profile of an hour, and the choice among the   *)
(* hours that have a TCM value.  Readings are in hundredths of their unit, *)
(* None where a parameter is not reported.                                 *)
(***************************************************************************)
EXTENDS HeatPolicy, TupleOrder

\* PARAMETER_THRESHOLDS, elevated and high; air_quality stands for the seven indices.
Thresholds ==
  [heat_index_celsius |-> <<2670, 4060>>, apparent_temperature_celsius |-> <<3000, 4000>>,
   wet_bulb_temperature_celsius |-> <<2800, 3200>>, air_quality |-> <<5100, 10100>>,
   relative_humidity_percent |-> <<6000, 8000>>, precipitation_mm |-> <<10, 500>>,
   solar_irradiance |-> <<40000, 60000>>]
Informational == {"cloud_cover_octas", "elevation", "methane_ppb", "co2_ppm"}
Parameters == DOMAIN Thresholds \cup Informational

\* _assess_parameter.
Level(p, value) ==
  IF value = None THEN "not_reported"
  ELSE IF p \in Informational \/ value < Thresholds[p][1] THEN "none"
  ELSE IF value < Thresholds[p][2] THEN "elevated"
  ELSE "high"

NothingReported == [p \in Parameters |-> None]

\* assess_hour: the heat index stands for the hour's heat where it is reported, else the TCM.
assess_hour(hour, tcm, readings) ==
  [hour     |-> hour,
   concerns |-> readings,
   value    |-> IF readings[HeatIndex] # None THEN readings[HeatIndex] ELSE tcm,
   metric   |-> IF readings[HeatIndex] # None THEN HeatIndex ELSE TCM]

Count(profile, level) ==
  Cardinality({p \in Parameters : Level(p, profile.concerns[p]) = level})
HasConcerns(profile) == Count(profile, "high") + Count(profile, "elevated") > 0

ActionRequired(profile, cautious) ==
  classify_heat(profile.value, profile.metric, cautious).action

SelectionKeyFaulty(profile, cautious) == \* more concerns come first
  <<-Count(profile, "high"), IF ActionRequired(profile, cautious) THEN 1 ELSE 0,
    Count(profile, "elevated"), profile.value, profile.hour>>

\* _selection_sort_key, compared from the left.
SelectionKey(profile, cautious) ==
  <<Count(profile, "high"), IF ActionRequired(profile, cautious) THEN 1 ELSE 0,
    Count(profile, "elevated"), profile.value, profile.hour>>

select_best_time(profiles, cautious) ==
  LET Key(p) == SelectionKey(p, cautious) IN LeastBy(profiles, Key)

\* _recommendation_reason.
Reason(selected, profiles) ==
  IF ~HasConcerns(selected)
  THEN IF \A p \in profiles : p.value = selected.value /\ p.concerns = selected.concerns
       THEN "flat" ELSE "no concerns"
  ELSE IF \A p \in profiles : HasConcerns(p) THEN "all elevated" ELSE "lowest concern"
=============================================================================
