---------------------------- MODULE Client_proofs ----------------------------
(***************************************************************************)
(* What the run Client composes keeps the promises of its parts: whatever  *)
(* the other parts do, a part sees a behaviour of its own module           *)
(* (PartsAreRuns), of which FortyGuardClient_proofs and Enrichment_proofs  *)
(* prove theorems.  They need what those modules assume of their           *)
(* constants, which is what this one assumes of its own                    *)
(* (RestartConstants, RequestConstants).                                   *)
(***************************************************************************)
EXTENDS MCClient, TLAPS

LEMMA RestartConstants ==
  /\ PastCalls \subseteq Calls /\ Restarts!IsFiniteSet(Calls)
  /\ None \notin Restarts!ActivityIds
  /\ RestartBudget \in Nat \cup {None} /\ EnrichmentBudget \in Nat \cup {None}
  /\ None \notin Int
  /\ RestartDays \in Nat \ {0}
<1>1. Restarts!IsFiniteSet(Calls)
  BY PastCallsAssumption DEF IsFiniteSet, Restarts!IsFiniteSet
<1>2. None \notin Restarts!ActivityIds
  BY IdAssumption DEF ActivityIds, Restarts!ActivityIds
<1> QED BY <1>1, <1>2, PastCallsAssumption, BudgetAssumption, NoneAssumption, PartsAssumption

LEMMA RequestConstants ==
  /\ None \notin Enriching!ActivityIds
  /\ None \in Nat \cup {None} /\ EnrichmentBudget \in Nat \cup {None}
  /\ None \notin Int
  /\ RequestDays \in Nat \ {0}
  /\ Enriching!ClockAssumption
<1>1. None \notin Enriching!ActivityIds
  BY IdAssumption DEF ActivityIds, NewCalls, Enriching!ActivityIds
<1> QED BY <1>1, BudgetAssumption, NoneAssumption, PartsAssumption

-----------------------------------------------------------------------------
\* Every step of the whole is a step of a part, or none of it.
LEMMA PartsAreRuns ==
  PartSpec => Restarts!SpecWithRestarts /\ Enriching!Spec
<1>1. PartInit => Restarts!Init /\ Enriching!Init
  BY DEF PartInit
<1> USE DEF PartNext, partVars, ClientNext, RestartsNext, EnrichmentNext, EnrichmentOver
<1>2. [PartNext]_partVars => [Restarts!NextWithRestarts]_Restarts!vars
  BY DEF restartVars, Restarts!vars, Restarts!ledgerVars, Restarts!storeVars, Restarts!callVars,
         Restarts!ghostVars
<1>3. [PartNext]_partVars => [Enriching!Next]_Enriching!enrichmentVars
  BY DEF requestVars, Enriching!enrichmentVars, Enriching!ledgerVars, Enriching!requestVars
<1> QED BY <1>1, <1>2, <1>3, PTL
        DEF PartSpec, Restarts!SpecWithRestarts, Enriching!Spec

-----------------------------------------------------------------------------
(***************************************************************************)
(* With a core budget, a process that runs knows of every activity the     *)
(* provider has started, but those of calls that were in flight at a crash *)
(* and those whose line could not be written, however often it restarts    *)
(* (services/ledger_store.py:21-74).                                       *)
(***************************************************************************)
THEOREM ForgottenAreLost ==
  ASSUME RestartBudget \in Nat  PROVE PartSpec => []OnlyLostForgotten
<1>1. Restarts!SpecWithRestarts => []Restarts!OnlyLostForgotten
  BY RestartConstants, Restarts!OnlyLostAreForgotten
<1>2. Restarts!OnlyLostForgotten => OnlyLostForgotten
  BY DEF OnlyLostForgotten
<1> QED BY <1>1, <1>2, PartsAreRuns, PTL

(***************************************************************************)
(* Killed and restarted at whatever step, the processes together have the  *)
(* provider start no more core activities than the budget, not counting    *)
(* the ones the ledger was made to forget                                  *)
(* (services/ledger_store.py:21-74).                                       *)
(***************************************************************************)
THEOREM OverspendIsLoss == PartSpec => []OverspendBoundedByLoss
<1>1. Restarts!SpecWithRestarts => []Restarts!OverspendBoundedByLoss
  BY RestartConstants, Restarts!OverspendBounded
<1>2. Restarts!OverspendBoundedByLoss => OverspendBoundedByLoss
  BY DEF OverspendBoundedByLoss
<1> QED BY <1>1, <1>2, PartsAreRuns, PTL

(***************************************************************************)
(* Every activity an enrichment started is counted against the daily       *)
(* budget, except those whose reservation the except clause gave back; and *)
(* no reservation outlives its request (services/enrichment.py:159-191).   *)
(***************************************************************************)
THEOREM EnrichmentsCounted == PartSpec => []UncountedOnlyAfterFailure
<1>1. Enriching!Spec => []Enriching!UncountedOnlyAfterFailure
  BY RequestConstants, Enriching!ActivitiesCounted
<1>2. Enriching!UncountedOnlyAfterFailure => UncountedOnlyAfterFailure
  BY DEF UncountedOnlyAfterFailure
<1> QED BY <1>1, <1>2, PartsAreRuns, PTL

(***************************************************************************)
(* run() pays for a request that did not ask for a refresh only if its     *)
(* first look at the cache found nothing or the entry was replaced between *)
(* its two looks (services/enrichment.py:103-134).                         *)
(***************************************************************************)
THEOREM UnaskedAfterRace == PartSpec => []UnaskedPaymentNeedsRace
<1>1. Enriching!Spec => []Enriching!UnaskedPaymentNeedsRace
  BY RequestConstants, Enriching!UnaskedPayment
<1>2. Enriching!UnaskedPaymentNeedsRace => UnaskedPaymentNeedsRace
  BY DEF UnaskedPaymentNeedsRace
<1> QED BY <1>1, <1>2, PartsAreRuns, PTL

(***************************************************************************)
(* An entry that lives no longer than a day is at most two days old when   *)
(* it is served, and its label is off by one day at most                   *)
(* (services/enrichment.py:88-101, 231-242).                               *)
(***************************************************************************)
THEOREM FreshIsRecent ==
  ASSUME Ttl <= TicksPerDay  PROVE PartSpec => []FreshAnswersAreRecent
<1>1. Enriching!Spec => []Enriching!FreshAnswersAreRecent
  BY RequestConstants, Enriching!AnswersRecent
<1>2. Enriching!FreshAnswersAreRecent => FreshAnswersAreRecent
  BY DEF FreshAnswersAreRecent
<1> QED BY <1>1, <1>2, PartsAreRuns, PTL
=============================================================================
