-------------------------- MODULE FortyGuardClient --------------------------
(***************************************************************************)
(* FortyGuardClient.submit_and_poll, app/integrations/fortyguard/client.py,*)
(* run by several threads against one CreditLedger: authorise, POST once,  *)
(* poll, and account for the call whatever happens to it.                  *)
(*                                                                         *)
(* A call is one invocation of submit_and_poll.  The provider is external: *)
(* it may accept a submission and answer with its id, accept it and have   *)
(* the answer lost, refuse it, or never see it.  It may also answer with   *)
(* an id it gave before in the same scope, and then starts nothing new.    *)
(*                                                                         *)
(* `billed' is what the provider has started, with the slot its caller was *)
(* authorised for.  No code reads it: the budgets are about it.            *)
(***************************************************************************)
EXTENDS LedgerStore

CONSTANT PastCalls  \* the calls whose records the ledger file may start with

ASSUME PastCallsAssumption == PastCalls \subseteq Calls /\ IsFiniteSet(Calls)

VARIABLES today,     \* the UTC day the clock shows
          pc,        \* where each call is in submit_and_poll
          slot,      \* what it was authorised against
          hold,      \* its local `reservation'
          activity,  \* its local `activity_id'
          attempted, \* the day of its local `attempted_at'
          pending,   \* the record its on_record callback is about to write
          billed,    \* the activities the provider has started
          lost       \* the ids whose record never got a line of the file

callVars == <<today, pc, slot, hold, activity, attempted, pending>>
ghostVars == <<billed, lost>>
vars == <<ledgerVars, storeVars, callVars, ghostVars>>

NewCalls == Calls \ PastCalls

InFlight == {"posting", "polling", "completing", "failed", "rejected", "persisting"}
Ended    == {"refused", "returned", "raised", "crashed"}
Locations == {"idle"} \cup InFlight \cup Ended

Activities == [id : ActivityIds, slot : Slots]

-----------------------------------------------------------------------------
\* What earlier processes left in the file: any of the past calls, on the first day.
PastRecords ==
  [id : {ProviderId(c) : c \in PastCalls}, scope : Scopes, day : {1}, status : {"completed"}]

Histories == {H \in SUBSET PastRecords : \A r, s \in H : r.id = s.id => r = s}

SlotOf(r) == IF r.scope = "core" THEN CoreSlot ELSE EnrichmentSlot(r.day)

Init ==
  /\ \E history \in Histories :
       /\ LedgerInit(history)
       /\ StoreInit(history)
       /\ billed = {[id |-> r.id, slot |-> SlotOf(r)] : r \in history}
  /\ today = 1
  /\ pc = [c \in NewCalls |-> "idle"]
  /\ slot = [c \in NewCalls |-> CoreSlot]
  /\ hold = [c \in NewCalls |-> None]
  /\ activity = [c \in NewCalls |-> None]
  /\ attempted = [c \in NewCalls |-> 1]
  /\ pending = [c \in NewCalls |-> None]
  /\ lost = {}

Goto(c, location) == pc' = [pc EXCEPT ![c] = location]

-----------------------------------------------------------------------------
\* authorize() lets the call through, and the POST is attempted the same day.
Start(c, s) ==
  /\ up /\ pc[c] = "idle"
  /\ Authorize(s)
  /\ slot' = [slot EXCEPT ![c] = s]
  /\ hold' = [hold EXCEPT ![c] = Granted(s)]
  /\ attempted' = [attempted EXCEPT ![c] = today]
  /\ Goto(c, "posting")
  /\ UNCHANGED <<storeVars, today, activity, pending, ghostVars>>

\* BudgetExceededError, before the try block: nothing was submitted.
Refuse(c, s) ==
  /\ up /\ pc[c] = "idle"
  /\ Refuses(s)
  /\ Goto(c, "refused")
  /\ UNCHANGED <<ledgerVars, storeVars, today, slot, hold, activity, attempted, pending, ghostVars>>

StartedActivity(c) == [id |-> ProviderId(c), slot |-> slot[c]]

\* The ids the provider can answer with: a new one, or one of the same scope again.
AnswerIds(c) ==
  {ProviderId(c)} \cup {b.id : b \in {a \in billed : a.slot.scope = slot[c].scope}}

PostAnswered(c, id) ==
  /\ pc[c] = "posting"
  /\ id \in AnswerIds(c)
  /\ activity' = [activity EXCEPT ![c] = id]
  /\ billed' = IF id = ProviderId(c) THEN billed \cup {StartedActivity(c)} ELSE billed
  /\ Goto(c, "polling")
  /\ UNCHANGED <<ledgerVars, storeVars, today, slot, hold, attempted, pending, lost>>

\* A timeout, an HTTP error, bad JSON or an answer without an id: the provider
\* may or may not have started the activity, and the client cannot tell.
PostAmbiguous(c) ==
  /\ pc[c] = "posting"
  /\ billed' \in {billed, billed \cup {StartedActivity(c)}}
  /\ Goto(c, "failed")
  /\ UNCHANGED <<ledgerVars, storeVars, today, slot, hold, activity, attempted, pending, lost>>

\* The answer carries a status code of 400 or more: submission_rejected.
PostRejected(c) ==
  /\ pc[c] = "posting"
  /\ Goto(c, "rejected")
  /\ UNCHANGED <<ledgerVars, storeVars, today, slot, hold, activity, attempted, pending, ghostVars>>

PollEndsFaulty(c) == \* a submission whose polling failed is tried again
  /\ pc[c] = "polling"
  /\ \E ending \in {"completing", "posting"} : Goto(c, ending)
  /\ UNCHANGED <<ledgerVars, storeVars, today, slot, hold, activity, attempted, pending, ghostVars>>

\* poll_activity returns a result or raises (StatusPolling has its steps).
PollEnds(c) ==
  /\ pc[c] = "polling"
  /\ \E ending \in {"completing", "failed"} : Goto(c, ending)
  /\ UNCHANGED <<ledgerVars, storeVars, today, slot, hold, activity, attempted, pending, ghostVars>>

-----------------------------------------------------------------------------
Usage(c, id, day, status) ==
  [id |-> id, scope |-> slot[c].scope, day |-> day, status |-> status]

\* record(): on_record is called, after the lock is released, for a new record only.
RecordUsage(c, usage, ending) ==
  /\ Record(usage, hold[c])
  /\ IF Recorded(usage.id)
     THEN Goto(c, ending) /\ UNCHANGED pending
     ELSE Goto(c, "persisting") /\ pending' = [pending EXCEPT ![c] = usage]
  /\ UNCHANGED <<storeVars, today, slot, hold, activity, attempted, ghostVars>>

RecordCompleted(c) ==
  /\ pc[c] = "completing"
  /\ RecordUsage(c, Usage(c, activity[c], today, "completed"), "returned")

\* The except clause: the activity is known, so it is logged as submitted.
RecordSubmitted(c) ==
  /\ pc[c] = "failed" /\ activity[c] # None
  /\ RecordUsage(c, Usage(c, activity[c], today, "submitted"), "raised")

\* The finally clause, with a reservation still held and no rejection seen.
RecordUnknownFaulty(c) == \* gives the slot back: "nothing came back, nothing to pay"
  /\ pc[c] = "failed" /\ activity[c] = None /\ hold[c] # None
  /\ ReleaseCall(hold[c])
  /\ Goto(c, "raised")
  /\ UNCHANGED <<storeVars, today, slot, hold, activity, attempted, pending, ghostVars>>

RecordUnknown(c) ==
  /\ pc[c] = "failed" /\ activity[c] = None /\ hold[c] # None
  /\ RecordUsage(c, Usage(c, UnknownId(c), attempted[c], "submission_unknown"), "raised")

\* The finally clause, with a reservation still held and the submission rejected.
ReleaseRejected(c) ==
  /\ pc[c] = "rejected" /\ hold[c] # None
  /\ ReleaseCall(hold[c])
  /\ Goto(c, "raised")
  /\ UNCHANGED <<storeVars, today, slot, hold, activity, attempted, pending, ghostVars>>

\* The finally clause, with no reservation to settle: the error just propagates.
RaiseUnreserved(c) ==
  /\ hold[c] = None
  /\ \/ pc[c] = "rejected"
     \/ pc[c] = "failed" /\ activity[c] = None
  /\ Goto(c, "raised")
  /\ UNCHANGED <<ledgerVars, storeVars, today, slot, hold, activity, attempted, pending, ghostVars>>

-----------------------------------------------------------------------------
Persist(c) ==
  /\ pc[c] = "persisting"
  /\ Append(pending[c])
  /\ Goto(c, IF pending[c].status = "completed" THEN "returned" ELSE "raised")
  /\ UNCHANGED <<ledgerVars, today, slot, hold, activity, attempted, pending, ghostVars>>

(***************************************************************************)
(* on_record raises OSError.  After "completed" the except clause follows  *)
(* and records the same activity again; after the other two the finally    *)
(* clause records it again, under a reservation that is already gone, and  *)
(* finds the id there: nothing changes, and the error propagates.          *)
(***************************************************************************)
PersistFails(c) ==
  /\ pc[c] = "persisting"
  /\ AppendFails
  /\ lost' = lost \cup {pending[c].id}
  /\ Goto(c, IF pending[c].status = "completed" THEN "failed" ELSE "raised")
  /\ UNCHANGED <<ledgerVars, today, slot, hold, activity, attempted, pending, billed>>

Midnight ==
  /\ today < Days
  /\ today' = today + 1
  /\ UNCHANGED <<ledgerVars, storeVars, pc, slot, hold, activity, attempted, pending, ghostVars>>

AllEnded == \A c \in NewCalls : pc[c] \in Ended

Idle == AllEnded /\ UNCHANGED vars

-----------------------------------------------------------------------------
CallSlots == {CoreSlot, EnrichmentSlot(today)}

\* What a call does once it has been authorised.
Proceed(c) ==
  \/ \E id \in AnswerIds(c) : PostAnswered(c, id)
  \/ PostAmbiguous(c)
  \/ PostRejected(c)
  \/ PollEnds(c)
  \/ RecordCompleted(c)
  \/ RecordSubmitted(c)
  \/ RecordUnknown(c)
  \/ ReleaseRejected(c)
  \/ RaiseUnreserved(c)
  \/ Persist(c)
  \/ PersistFails(c)

Submit(c) == \E s \in CallSlots : Start(c, s) \/ Refuse(c, s)

Next ==
  \/ \E c \in NewCalls : Submit(c) \/ Proceed(c)
  \/ Midnight
  \/ Idle

Spec == Init /\ [][Next]_vars

\* A thread that is inside submit_and_poll keeps running: the transport has a
\* timeout, the number of polls is bounded, and no lock is held across a wait.
FairSpec == Spec /\ \A c \in NewCalls : WF_vars(Proceed(c))

-----------------------------------------------------------------------------
TypeOK ==
  /\ LedgerTypeOK
  /\ StoreTypeOK
  /\ today \in 1 .. Days
  /\ pc \in [NewCalls -> Locations]
  /\ slot \in [NewCalls -> Slots]
  /\ hold \in [NewCalls -> Nat \cup {None}]
  /\ activity \in [NewCalls -> ActivityIds \cup {None}]
  /\ attempted \in [NewCalls -> 1 .. Days]
  /\ pending \in [NewCalls -> UsageRecords \cup {None}]
  /\ billed \in SUBSET Activities
  /\ lost \in SUBSET ActivityIds

Larger(m, n) == IF m >= n THEN m ELSE n

ChargedTo(s) == {b \in billed : b.slot = s}
Inherited(s) == {b \in ChargedTo(s) : b.id.call \in PastCalls}

(***************************************************************************)
(* However the threads interleave, and whatever becomes of each call, the  *)
(* provider starts no more core activities than the all-time budget, the   *)
(* ones of earlier processes included, and no more enrichment activities   *)
(* authorised on one UTC day than the enrichment budget.  A file that      *)
(* already holds more than the budget stays as it is: "never retroactively *)
(* raise".                                                                 *)
(***************************************************************************)
WithinLimit(s) ==
  Limit(s) # None =>
    Cardinality(ChargedTo(s)) <= Larger(Limit(s), Cardinality(Inherited(s)))

CoreBudgetRespected == WithinLimit(CoreSlot)

EnrichmentBudgetRespected == \A d \in 1 .. Days : WithinLimit(EnrichmentSlot(d))

Live(c) == pc[c] \in {"posting", "polling", "completing", "failed", "rejected"}

(***************************************************************************)
(* The reservations are exactly those of the calls that still have one to  *)
(* settle: a call that ends, in whichever way, leaves none behind, and no  *)
(* call loses the one it holds to another thread.                          *)
(***************************************************************************)
ReservationsMatchCalls ==
  /\ \A i \in DOMAIN reservations :
       \E c \in NewCalls : Live(c) /\ hold[c] = i /\ slot[c] = reservations[i]
  /\ \A c \in NewCalls :
       Live(c) /\ hold[c] # None => hold[c] \in DOMAIN reservations \/ Recorded(activity[c])
  /\ \A c, d \in NewCalls :
       Live(c) /\ Live(d) /\ hold[c] = hold[d] /\ hold[c] # None => c = d

\* An activity counts against the budgets under the id the provider gave it,
\* or under the id made up for the call whose answer was lost.
Counted(id) == Recorded(id) \/ Recorded(UnknownId(id.call))

(***************************************************************************)
(* At no moment has the provider started an activity the ledger does not   *)
(* know of: either it is recorded, or the call that started it still holds *)
(* the unit it was authorised with.  So a concurrent authorise sees every  *)
(* activity, at whichever step of submit_and_poll the others are.          *)
(***************************************************************************)
NoUnseenActivity ==
  \A b \in billed :
    \/ Counted(b.id)
    \/ /\ Live(b.id.call)
       /\ hold[b.id.call] \in DOMAIN reservations
       /\ reservations[hold[b.id.call]] = b.slot

\* One line per activity id, in memory and in the file, though several threads
\* may be answered with one id and though a failed write leads to a second record().
OneRecordPerActivity ==
  \A r, s \in records \cup file : r.id = s.id => r = s

\* Once every call has ended, a restart would find every record but those whose
\* own write failed or was glued to a torn line.
FileCompleteAtRest ==
  AllEnded /\ up /\ ~ torn => \A r \in records : r \in file \/ r.id \in lost

(***************************************************************************)
(* The ledger is append-only: no step takes a record away or rewrites it.  *)
(* In particular a call that was logged as submitted is not turned into a  *)
(* completed one, and the file never runs ahead of the memory.             *)
(***************************************************************************)
AppendOnlyStep == records \subseteq records' /\ file \subseteq file' /\ file' \subseteq records'

AppendOnly == [][AppendOnlyStep]_vars

\* Seen through its core account, the client is an implementation of CallBudget:
\* each step reserves, spends or refunds one unit, or does nothing to the account.
Account == INSTANCE CallBudget WITH
             Units <- Budget,
             spent <- Cardinality(UsedBy(CoreSlot)),
             held  <- Cardinality(ReservedFor(CoreSlot))

ImplementsCallBudget == Account!Spec

(***************************************************************************)
(* A call inside submit_and_poll returns or raises, and by then the        *)
(* activity the provider has started for it, even if its answer was lost,  *)
(* is counted if it was authorised against a reservation.                  *)
(***************************************************************************)
CallsEnd ==
  \A c \in NewCalls :
    pc[c] \in InFlight ~>
      /\ pc[c] \in Ended
      /\ hold[c] # None /\ StartedActivity(c) \in billed => Counted(ProviderId(c))

-----------------------------------------------------------------------------
(***************************************************************************)
(* What the documentation says of the ledger and the code does not do.     *)
(* CONTEXT.md: the enrichment budget is a "calendar-day limit on submitted *)
(* live enrichment activities" and "one submission consumes one unit".  So *)
(* a day on which fewer were submitted than the limit refuses none.        *)
(***************************************************************************)
SubmittedOn(d) ==
  {c \in NewCalls : slot[c] = EnrichmentSlot(d) /\ pc[c] \notin {"idle", "refused"}}

DayOpenUntilSpent ==
  [][\A c \in NewCalls :
       pc[c] = "idle" /\ pc'[c] = "refused" =>
         Cardinality(Inherited(EnrichmentSlot(today)) \cup SubmittedOn(today)) >= EnrichmentBudget]_vars
=============================================================================
