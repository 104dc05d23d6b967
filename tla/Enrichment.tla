------------------------------ MODULE Enrichment ------------------------------
(***************************************************************************)
(* One drill-down endpoint (app/api.py), the EnrichmentService behind it   *)
(* (app/services/enrichment.py), its cache entries and its account in the  *)
(* credit ledger, used by several requests at once.                        *)
(*                                                                         *)
(* A request is checked against its result-set token, looks at the cache   *)
(* twice (is there a fresh entry, is there a stale one), asks its adapter, *)
(* and stores what the adapter returned.  All requests ask for the same    *)
(* target with the same input, so that they share the cache key of a kind. *)
(*                                                                         *)
(* `config' is how the service was constructed: with live adapters that    *)
(* reserve and record through their own client (wiring, live), with        *)
(* fixtures (wiring, otherwise), or live with a reservation of the         *)
(* service's own, as its constructor also allows.                          *)
(***************************************************************************)
EXTENDS CreditLedger

CONSTANTS Ttl,         \* how long an entry is fresh, in ticks of the clock
          TokenTtl,    \* how long a result-set token is valid, in ticks
          TicksPerDay, \* ticks in a UTC day
          MaxTime      \* the last tick (bounds the model)

\* What is assumed of the constants.
ClockAssumption ==
  /\ {Ttl, TokenTtl, TicksPerDay} \subseteq Nat \ {0}
  /\ MaxTime \in Nat /\ MaxTime \div TicksPerDay < Days

VARIABLES config,  \* how the service was constructed
          clock,   \* the current tick
          cache,   \* the entry of each kind, or None
          at,      \* where each request stands
          request, \* its kind, and whether it asks for a refresh
          unit,    \* the number of its reservation, its own or its client's
          asked,   \* the day it asks the provider about
          answer,  \* what it was answered
          began,   \* the tick it was admitted in (ghost)
          looks,   \* the entries its two looks at the cache found (ghost)
          charged  \* the requests whose activity the provider started (ghost)

requestVars == <<at, request, unit, asked, answer, began, looks>>
enrichmentVars == <<ledgerVars, config, clock, cache, requestVars, charged>>

Kinds == {"environment", "street_view"}
Configs == {[live |-> TRUE, managed |-> TRUE],    \* wiring, ALLOW_LIVE
            [live |-> FALSE, managed |-> FALSE],  \* wiring, fixtures
            [live |-> TRUE, managed |-> FALSE]}   \* a reservation of the service's own

OwnReservation == config.live /\ ~ config.managed
Today == clock \div TicksPerDay + 1

InProgress == {"looking", "looked", "dispatching", "calling", "running", "answered",
               "settling", "storing"}

Init ==
  /\ LedgerInit({})
  /\ config \in Configs
  /\ clock = 0
  /\ cache = [k \in Kinds |-> None]
  /\ at = [r \in Calls |-> "new"]
  /\ request = [r \in Calls |-> None]
  /\ unit = [r \in Calls |-> None]
  /\ asked = [r \in Calls |-> None]
  /\ answer = [r \in Calls |-> None]
  /\ began = [r \in Calls |-> 0]
  /\ looks = [r \in Calls |-> <<None, None>>]
  /\ charged = {}

Moves(r, place) == at' = [at EXCEPT ![r] = place]
Answers(r, state) == Moves(r, "done") /\ answer' = [answer EXCEPT ![r] = state]

Unavailable(reason) == [state |-> "unavailable", reason |-> reason]
Available(entry) == [state |-> "available", entry |-> entry, on |-> Today]

-----------------------------------------------------------------------------
(***************************************************************************)
(* The endpoint.  A token is good if this server signed it and it has not  *)
(* expired; `fits' stands for the checks of the body against its claims:   *)
(* the target is listed, the anchor is a number, the point is near.        *)
(***************************************************************************)
Tokens == [signed : BOOLEAN, issued : 0 .. clock]

Verdict(token) ==
  IF ~ token.signed THEN "invalid result_set_token"
  ELSE IF token.issued + TokenTtl <= clock THEN "result_set_expired" ELSE "valid"

Turned(r, reason) == Answers(r, [state |-> "error", reason |-> reason])

TurnAway(r) ==
  /\ at[r] = "new"
  /\ \E token \in Tokens :
       \/ Verdict(token) # "valid" /\ Turned(r, Verdict(token))
       \/ Verdict(token) = "valid" /\ Turned(r, "body does not fit its token")
  /\ UNCHANGED <<ledgerVars, config, clock, cache, request, unit, asked, began, looks, charged>>

\* The body's `refresh' reaches the service as it is, which refuses what is no boolean.
InvalidRefresh(r) ==
  /\ at[r] = "new"
  /\ \E token \in Tokens : Verdict(token) = "valid"
  /\ Answers(r, Unavailable("invalid_refresh"))
  /\ UNCHANGED <<ledgerVars, config, clock, cache, request, unit, asked, began, looks, charged>>

Admit(r, kind, refresh) ==
  /\ at[r] = "new"
  /\ \E token \in Tokens : Verdict(token) = "valid"
  /\ request' = [request EXCEPT ![r] = [kind |-> kind, refresh |-> refresh]]
  /\ began' = [began EXCEPT ![r] = clock]
  /\ Moves(r, IF refresh /\ config.live THEN "dispatching" ELSE "looking")
  /\ UNCHANGED <<ledgerVars, config, clock, cache, unit, asked, answer, looks, charged>>

-----------------------------------------------------------------------------
\* The two looks at the cache, each with a clock reading of its own.
Entry(r) == cache[request[r].kind]

Fresh(entry) == entry # None /\ clock - entry.retrieved <= Ttl

StaleFaulty(entry) == entry # None /\ clock - entry.retrieved > Ttl + 1 \* disagrees with Fresh

Stale(entry) == entry # None /\ clock - entry.retrieved > Ttl

ServeFresh(r) ==
  /\ at[r] = "looking" /\ Fresh(Entry(r))
  /\ Answers(r, Available(Entry(r)))
  /\ UNCHANGED <<ledgerVars, config, clock, cache, request, unit, asked, began, looks, charged>>

MissFresh(r) ==
  /\ at[r] = "looking" /\ ~ Fresh(Entry(r))
  /\ Moves(r, "looked")
  /\ looks' = [looks EXCEPT ![r][1] = Entry(r)]
  /\ UNCHANGED <<ledgerVars, config, clock, cache, request, unit, asked, answer, began, charged>>

RefuseStale(r) ==
  /\ at[r] = "looked" /\ Stale(Entry(r))
  /\ Answers(r, Unavailable("stale_cache_requires_refresh"))
  /\ UNCHANGED <<ledgerVars, config, clock, cache, request, unit, asked, began, looks, charged>>

MissStale(r) ==
  /\ at[r] = "looked" /\ ~ Stale(Entry(r))
  /\ Moves(r, "dispatching")
  /\ looks' = [looks EXCEPT ![r][2] = Entry(r)]
  /\ UNCHANGED <<ledgerVars, config, clock, cache, request, unit, asked, answer, began, charged>>

-----------------------------------------------------------------------------
\* Live there is one adapter; offline every kind has one.
HasAdapter(r) == config.live => request[r].kind = "environment"

MissingReason(r) ==
  IF config.live THEN "provider_schema_not_validated" ELSE "configuration_missing"

NoAdapter(r) ==
  /\ at[r] = "dispatching" /\ ~ HasAdapter(r)
  /\ Answers(r, Unavailable(MissingReason(r)))
  /\ UNCHANGED <<ledgerVars, config, clock, cache, request, unit, asked, began, looks, charged>>

\* No credit estimate is configured for the kind.
NoEstimate(r) ==
  /\ at[r] = "dispatching" /\ HasAdapter(r) /\ config.live
  /\ Answers(r, Unavailable("configuration_missing"))
  /\ UNCHANGED <<ledgerVars, config, clock, cache, request, unit, asked, began, looks, charged>>

DispatchFaulty(r) == \* reserves although the adapter's client will reserve as well
  /\ at[r] = "dispatching" /\ HasAdapter(r)
  /\ IF config.live
     THEN /\ Authorize(EnrichmentSlot(Today))
          /\ unit' = [unit EXCEPT ![r] = Granted(EnrichmentSlot(Today))]
     ELSE UNCHANGED <<ledgerVars, unit>>
  /\ asked' = [asked EXCEPT ![r] = Today]
  /\ Moves(r, "calling")
  /\ UNCHANGED <<config, clock, cache, request, answer, began, looks, charged>>

\* adapter.enrich() begins, after a reservation if the service makes its own.  The live
\* adapter reads date.today() before it submits.
Dispatch(r) ==
  /\ at[r] = "dispatching" /\ HasAdapter(r)
  /\ IF OwnReservation
     THEN /\ Authorize(EnrichmentSlot(Today))
          /\ unit' = [unit EXCEPT ![r] = Granted(EnrichmentSlot(Today))]
     ELSE UNCHANGED <<ledgerVars, unit>>
  /\ asked' = [asked EXCEPT ![r] = Today]
  /\ Moves(r, "calling")
  /\ UNCHANGED <<config, clock, cache, request, answer, began, looks, charged>>

\* FortyGuardClient.submit_and_poll, as CreditLedger lets it through.
Submit(r) ==
  /\ at[r] = "calling" /\ config.live
  /\ IF config.managed
     THEN /\ Authorize(EnrichmentSlot(Today))
          /\ unit' = [unit EXCEPT ![r] = Granted(EnrichmentSlot(Today))]
     ELSE UNCHANGED <<ledgerVars, unit>>
  /\ Moves(r, "running")
  /\ UNCHANGED <<config, clock, cache, request, asked, answer, began, looks, charged>>

\* BudgetExceededError, of the service's own reservation or of the client's.
Exhausted(r) ==
  /\ \/ at[r] = "dispatching" /\ HasAdapter(r) /\ OwnReservation
     \/ at[r] = "calling" /\ config.managed
  /\ Refuses(EnrichmentSlot(Today))
  /\ Answers(r, Unavailable("budget_exhausted"))
  /\ UNCHANGED <<ledgerVars, config, clock, cache, request, unit, asked, began, looks, charged>>

\* What the client writes for a call that was submitted; the service writes its own below.
ClientRecords(r, status) ==
  IF config.managed
  THEN Record([id |-> ProviderId(r), scope |-> "enrichment", day |-> Today,
               status |-> status], unit[r])
  ELSE UNCHANGED ledgerVars

CallCompletes(r) ==
  /\ at[r] = "running"
  /\ charged' = charged \cup {r}
  /\ ClientRecords(r, "completed")
  /\ Moves(r, "answered")
  /\ UNCHANGED <<config, clock, cache, request, unit, asked, answer, began, looks>>

\* A submission that failed after it was accepted, and one that was refused.  The
\* service's own reservation is given back for either.
CallFails(r) ==
  /\ at[r] = "running"
  /\ \/ /\ charged' = charged \cup {r}
        /\ IF config.managed THEN ClientRecords(r, "submitted") ELSE ReleaseCall(unit[r])
     \/ /\ UNCHANGED charged
        /\ ReleaseCall(unit[r])
  /\ Answers(r, Unavailable("provider_failure"))
  /\ UNCHANGED <<config, clock, cache, request, unit, asked, began, looks>>

\* The result cannot be normalized, or is empty.
UnusablePayload(r) ==
  /\ at[r] = "answered"
  /\ IF OwnReservation THEN ReleaseCall(unit[r]) ELSE UNCHANGED ledgerVars
  /\ Answers(r, Unavailable("provider_payload_unusable"))
  /\ UNCHANGED <<config, clock, cache, request, unit, asked, began, looks, charged>>

UsablePayload(r) ==
  /\ at[r] = "answered"
  /\ Moves(r, IF OwnReservation THEN "settling" ELSE "storing")
  /\ UNCHANGED <<ledgerVars, config, clock, cache, request, unit, asked, answer, began, looks,
                 charged>>

RecordOwn(r) ==
  /\ at[r] = "settling"
  /\ Record([id |-> ProviderId(r), scope |-> "enrichment", day |-> Today,
             status |-> "completed"], unit[r])
  /\ Moves(r, "storing")
  /\ UNCHANGED <<config, clock, cache, request, unit, asked, answer, began, looks, charged>>

\* The fixture adapter answers at once, with its payload or the error it was told to raise.
FixtureAnswers(r) ==
  /\ at[r] = "calling" /\ ~ config.live
  /\ \/ Answers(r, [state |-> "available", entry |-> None, on |-> Today])
     \/ Answers(r, Unavailable("fixture_data_unavailable"))
  /\ UNCHANGED <<ledgerVars, config, clock, cache, request, unit, asked, began, looks, charged>>

\* An entry: when it was retrieved, the date it is labelled with, and the date it is of.
NewEntryFaulty(r) == \* keeps the time and the date of the entry it replaces
  [retrieved |-> clock, date |-> IF Entry(r) = None THEN asked[r] ELSE Entry(r).date,
   of |-> asked[r]]

NewEntry(r) == [retrieved |-> clock, date |-> Today, of |-> asked[r]]

Store(r) ==
  /\ at[r] = "storing"
  /\ cache' = [cache EXCEPT ![request[r].kind] = NewEntry(r)]
  /\ Answers(r, Available(NewEntry(r)))
  /\ UNCHANGED <<ledgerVars, config, clock, request, unit, asked, began, looks, charged>>

-----------------------------------------------------------------------------
\* A request lasts minutes, so it sees at most one tick: polling is bounded (StatusPolling).
Tick ==
  /\ clock < MaxTime
  /\ \A r \in Calls : at[r] \in InProgress => began[r] = clock
  /\ clock' = clock + 1
  /\ UNCHANGED <<ledgerVars, config, cache, requestVars, charged>>

Next ==
  \/ Tick
  \/ \E r \in Calls :
       \/ TurnAway(r) \/ InvalidRefresh(r)
       \/ \E kind \in Kinds, refresh \in BOOLEAN : Admit(r, kind, refresh)
       \/ ServeFresh(r) \/ MissFresh(r) \/ RefuseStale(r) \/ MissStale(r)
       \/ NoAdapter(r) \/ NoEstimate(r) \/ Dispatch(r) \/ Submit(r) \/ Exhausted(r)
       \/ CallCompletes(r) \/ CallFails(r) \/ UnusablePayload(r) \/ UsablePayload(r)
       \/ RecordOwn(r) \/ FixtureAnswers(r) \/ Store(r)

Spec == Init /\ [][Next]_enrichmentVars

-----------------------------------------------------------------------------
(***************************************************************************)
(* Every activity the provider started is in the ledger, or its unit is    *)
(* still held, unless the service's own reservation was given back by the  *)
(* except clause of run() (services/enrichment.py:191) because the call    *)
(* failed after it was submitted; and every unit held belongs to a request *)
(* in progress.                                                            *)
(***************************************************************************)
UncountedOnlyAfterFailure ==
  /\ \A r \in charged :
       \/ Recorded(ProviderId(r))
       \/ unit[r] \in DOMAIN reservations
       \/ OwnReservation /\ answer[r] \in {Unavailable("provider_failure"),
                                           Unavailable("provider_payload_unusable")}
  /\ \A i \in DOMAIN reservations : \E r \in Calls : at[r] \in InProgress /\ unit[r] = i

(***************************************************************************)
(* A request that did not ask for a refresh pays only if it found no entry *)
(* at its first look, or an entry was replaced between its two looks: a    *)
(* stale entry that stays is never paid over unasked                       *)
(* (services/enrichment.py:103-134, ADR 0008 "explicit user intent").      *)
(***************************************************************************)
UnaskedPaymentNeedsRace ==
  \A r \in charged : ~ request[r].refresh =>
    looks[r][1] = None \/ looks[r][2] # looks[r][1]

(***************************************************************************)
(* An answer is of the day it is labelled with or of the day before, and   *)
(* what is served as fresh is at most two days old: the entry of a call    *)
(* over midnight is labelled with the new day and then lives for its TTL,  *)
(* with no date in its key (services/enrichment.py:88-101, 231-242).       *)
(***************************************************************************)
FreshAnswersAreRecent ==
  \A r \in Calls :
    answer[r] # None /\ answer[r].state = "available" /\ answer[r].entry # None =>
      /\ answer[r].entry.date - answer[r].entry.of \in {0, 1}
      /\ answer[r].on - answer[r].entry.of <= 2
=============================================================================
