---------------------------- MODULE CreditLedger ----------------------------
(***************************************************************************)
(* The in-memory call ledger of app/domain/ledger.py: the call records,   *)
(* and the reservations that hold a unit of a budget between the moment a  *)
(* call is authorised and the moment it is recorded or given back.         *)
(*                                                                         *)
(* Every method of CreditLedger that touches this state runs under one     *)
(* lock, so each is one operator here: a guard or an update of the three   *)
(* variables, used by the actions of the modules that extend this one.     *)
(*                                                                         *)
(* A budget is a number of calls, or None (FORTYGUARD_CALL_BUDGET and      *)
(* FORTYGUARD_ENRICHMENT_CALL_BUDGET are optional).  What a record says    *)
(* besides its identity, scope, UTC day and status (endpoint, credits) is  *)
(* never read by the ledger and is left out.                               *)
(***************************************************************************)
EXTENDS Integers, FiniteSets

CONSTANTS Budget,            \* all-time limit on core calls, or None
          EnrichmentBudget,  \* limit on enrichment calls of one UTC day, or None
          Days,              \* the UTC calendar days 1 .. Days that can occur
          Calls,             \* the provider calls that can ever be made
          None               \* Python's None

ASSUME DaysAssumption   == Days \in Nat \ {0}
ASSUME NoneAssumption   == None \notin Int
ASSUME BudgetAssumption == Budget \in Nat \cup {None} /\ EnrichmentBudget \in Nat \cup {None}

VARIABLES records,          \* the UsageRecords, keyed by activity id
          reservations,     \* reservation number -> the slot it holds
          nextReservation   \* the last reservation number given out

ledgerVars == <<records, reservations, nextReservation>>

-----------------------------------------------------------------------------
(***************************************************************************)
(* A slot says which budget a call is charged to: the all-time core        *)
(* budget, or the enrichment budget of one UTC day.                        *)
(***************************************************************************)
Scopes   == {"core", "enrichment"}
Statuses == {"completed", "submitted", "submission_unknown"}
CoreSlot == [scope |-> "core", day |-> None]
EnrichmentSlot(day) == [scope |-> "enrichment", day |-> day]
Slots == {CoreSlot} \cup {EnrichmentSlot(d) : d \in 1 .. Days}

\* A record is keyed by the activity id the provider named, or, when its answer
\* named none, by a "submission-unknown-<uuid>" made up for that call.
ActivityIds == [call : Calls, kind : {"named", "unknown"}]
ProviderId(c) == [call |-> c, kind |-> "named"]
UnknownId(c)  == [call |-> c, kind |-> "unknown"]

ASSUME IdAssumption == None \notin ActivityIds

UsageRecords == [id : ActivityIds, scope : Scopes, day : 1 .. Days, status : Statuses]

Limit(slot) == IF slot.scope = "core" THEN Budget ELSE EnrichmentBudget

\* The records _count() counts for a slot: by scope, and by UTC day if one is asked.
UsedBy(slot) == {r \in records : r.scope = slot.scope /\ slot.day \in {None, r.day}}

ReservedFor(slot) == {i \in DOMAIN reservations : reservations[i] = slot}

Remaining(slot) == Limit(slot) - Cardinality(UsedBy(slot)) - Cardinality(ReservedFor(slot))

Recorded(id) == \E r \in records : r.id = id

-----------------------------------------------------------------------------
LedgerInit(initialRecords) ==
  /\ records = initialRecords
  /\ reservations = [i \in {} |-> CoreSlot]
  /\ nextReservation = 0

(***************************************************************************)
(* authorize(): BudgetExceededError when the slot's budget is used up, or  *)
(* when an enrichment is asked for and no enrichment budget is configured. *)
(* A core call without a core budget is let through with no reservation.   *)
(***************************************************************************)
RefusesFaulty(slot) == \* counts the records and forgets the calls in flight
  \/ Limit(slot) = None /\ slot.scope = "enrichment"
  \/ Limit(slot) # None /\ Limit(slot) - Cardinality(UsedBy(slot)) <= 0

Refuses(slot) ==
  \/ Limit(slot) = None /\ slot.scope = "enrichment"
  \/ Limit(slot) # None /\ Remaining(slot) <= 0

GrantedFaulty(slot) == IF Limit(slot) = None THEN None ELSE nextReservation \* a used number

Granted(slot) == IF Limit(slot) = None THEN None ELSE nextReservation + 1

Authorize(slot) ==
  /\ ~ Refuses(slot)
  /\ UNCHANGED records
  /\ IF Granted(slot) = None
     THEN UNCHANGED <<reservations, nextReservation>>
     ELSE /\ nextReservation' = Granted(slot)
          /\ reservations' = [i \in DOMAIN reservations \cup {Granted(slot)} |->
                                IF i = Granted(slot) THEN slot ELSE reservations[i]]

(***************************************************************************)
(* What release_call and record take out of the reservations: the one they *)
(* are given, or, given None, the youngest one, whoever holds it.  Python  *)
(* keeps a dict in insertion order and reservation numbers only grow, so   *)
(* the last entry is the largest number.                                   *)
(***************************************************************************)
PoppedFaulty(h) == {} \* never returns the slot

Popped(h) ==
  IF h # None THEN {h}
  ELSE {i \in DOMAIN reservations : \A j \in DOMAIN reservations : j <= i}

Pop(h) == reservations' = [i \in DOMAIN reservations \ Popped(h) |-> reservations[i]]

ReleaseCall(h) == Pop(h) /\ UNCHANGED <<records, nextReservation>>

\* record(): an activity id that is already there is not counted again.
RecordFaulty(usage, h) == \* appends without looking for the activity id
  /\ Pop(h)
  /\ records' = records \cup {usage}
  /\ UNCHANGED nextReservation

RecordReplacing(usage, h) == \* the last record of an activity wins
  /\ Pop(h)
  /\ records' = {r \in records : r.id # usage.id} \cup {usage}
  /\ UNCHANGED nextReservation

Record(usage, h) ==
  /\ Pop(h)
  /\ records' = IF Recorded(usage.id) THEN records ELSE records \cup {usage}
  /\ UNCHANGED nextReservation

-----------------------------------------------------------------------------
LedgerTypeOK ==
  /\ records \in SUBSET UsageRecords
  /\ nextReservation \in Nat
  /\ DOMAIN reservations \subseteq 1 .. nextReservation
  /\ \A i \in DOMAIN reservations : reservations[i] \in Slots
=============================================================================
