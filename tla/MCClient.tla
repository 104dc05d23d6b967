------------------------------- MODULE MCClient -------------------------------
(***************************************************************************)
(* What spends the budgets, for TLC: the client (FortyGuardClient), the    *)
(* client across restarts of the server (ClientRestarts) and the optional  *)
(* enrichments (Enrichment).  Every behaviour is of one of them, chosen at *)
(* the start; the others stay in their initial state.  The threads of all  *)
(* three are the same model values, so that one symmetry serves them.      *)
(***************************************************************************)
EXTENDS FortyGuardClient, TLC

CONSTANTS \* of ClientRestarts
          RestartBudget, RestartDays,
          \* of Enrichment
          RequestDays, Ttl, TokenTtl, TicksPerDay, MaxTime

VARIABLES part,
          \* of ClientRestarts
          rRecords, rReservations, rNext, rFile, rTorn, rUp, rToday, rPc, rSlot, rHold,
          rActivity, rAttempted, rPending, rBilled, rLost,
          \* of Enrichment
          eRecords, eReservations, eNext, config, clock, cache, at, request, unit, asked,
          answer, began, looks, charged

restartVars == <<rRecords, rReservations, rNext, rFile, rTorn, rUp, rToday, rPc, rSlot, rHold,
                 rActivity, rAttempted, rPending, rBilled, rLost>>
requestVars == <<eRecords, eReservations, eNext, config, clock, cache, at, request, unit, asked,
                 answer, began, looks, charged>>
partVars == <<part, vars, restartVars, requestVars>>

Restarts == INSTANCE FortyGuardClient_proofs WITH
  records <- rRecords, reservations <- rReservations, nextReservation <- rNext,
  file <- rFile, torn <- rTorn, up <- rUp, today <- rToday, pc <- rPc, slot <- rSlot,
  hold <- rHold, activity <- rActivity, attempted <- rAttempted, pending <- rPending,
  billed <- rBilled, lost <- rLost, Budget <- RestartBudget, Days <- RestartDays

Enriching == INSTANCE Enrichment_proofs WITH
  records <- eRecords, reservations <- eReservations, nextReservation <- eNext,
  Calls <- NewCalls, Budget <- None, Days <- RequestDays

ASSUME PartsAssumption ==
  /\ RestartBudget \in Nat \cup {None} /\ {RestartDays, RequestDays} \subseteq Nat \ {0}
  /\ Enriching!ClockAssumption

\* The client inherits an enrichment; a server that restarts, a record of either scope or none.
PartInit ==
  /\ part \in {"client", "restarts", "enrichment"}
  /\ Init /\ Restarts!Init /\ Enriching!Init
  /\ part = "client" <=> \E r \in records : r.scope = "enrichment"
  /\ part # "client" => records = {}
  /\ part # "restarts" => rRecords = {}
  /\ part # "enrichment" => ~ config.live

\* Bounds: two requests in progress at a time, and one that asks for a refresh.
FewRequests ==
  /\ Cardinality({r \in NewCalls : at[r] \in Enriching!InProgress}) <= 2
  /\ Cardinality({r \in NewCalls : request[r] # None /\ request[r].refresh}) <= 1

ClientNext == part = "client" /\ Next /\ UNCHANGED <<part, restartVars, requestVars>>
RestartsNext ==
  part = "restarts" /\ Restarts!NextWithRestarts /\ UNCHANGED <<part, vars, requestVars>>
EnrichmentNext ==
  /\ part = "enrichment" /\ Enriching!Next /\ FewRequests'
  /\ UNCHANGED <<part, vars, restartVars>>

\* Every request has been answered and the clock has stopped.
EnrichmentOver ==
  /\ part = "enrichment" /\ clock = MaxTime /\ \A r \in NewCalls : at[r] = "done"
  /\ UNCHANGED partVars

PartNext == ClientNext \/ RestartsNext \/ EnrichmentNext \/ EnrichmentOver
PartSpec == PartInit /\ [][PartNext]_partVars

NewCallSymmetry == Permutations(NewCalls)

-----------------------------------------------------------------------------
\* What ClientRestarts and Enrichment say under these names.
OnlyLostForgotten == Restarts!OnlyLostForgotten
OverspendBoundedByLoss == Restarts!OverspendBoundedByLoss
UncountedOnlyAfterFailure == Enriching!UncountedOnlyAfterFailure
UnaskedPaymentNeedsRace == Enriching!UnaskedPaymentNeedsRace
FreshAnswersAreRecent == Enriching!FreshAnswersAreRecent
=============================================================================
