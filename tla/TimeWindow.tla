------------------------------ MODULE TimeWindow ------------------------------
(* The traveler's window of whole hours (app/domain/environment.py). *)
EXTENDS Integers

MAX_WINDOW_HOURS == 12

\* TimeWindow: from the first hour up to, not including, the second, within one day.
TimeWindowAccepted(w) ==
  /\ w[1] \in 0 .. 23 /\ w[2] \in 0 .. 23
  /\ w[1] < w[2] /\ w[2] - w[1] <= MAX_WINDOW_HOURS
=============================================================================
