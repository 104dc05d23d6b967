----------------------- MODULE FortyGuardClient_proofs ----------------------
(***************************************************************************)
(* Theorems about the client of FortyGuardClient and ClientRestarts, for   *)
(* any number of calls, any budgets and any number of days, in four        *)
(* chapters: its types and its file, its budgets, what a crash and a       *)
(* restart leave of them, and what the end of a call rests on.             *)
(***************************************************************************)
EXTENDS ClientRestarts, TLAPS, FiniteSetTheorems

-----------------------------------------------------------------------------
(***************************************************************************)
(* Chapter I.  Types and the file: records and calls are well formed; one  *)
(* line per activity, nothing ever taken away, and, once every call has    *)
(* ended, nothing missing but what a failed write accounts for.            *)
(***************************************************************************)

\* A slot is the core budget's, or the enrichment budget's of one day.
LEMMA SlotFacts ==
  /\ CoreSlot \in Slots
  /\ \A d \in 1 .. Days : EnrichmentSlot(d) \in Slots /\ EnrichmentSlot(d) # CoreSlot
  /\ \A s \in Slots : s.scope \in Scopes
  /\ \A s \in Slots : s.scope = "core" <=> s = CoreSlot
<1>1. CoreSlot \in Slots
  BY DEF Slots
<1>2. \A d \in 1 .. Days : EnrichmentSlot(d) \in Slots
  BY DEF Slots
<1>3. CoreSlot.scope = "core" /\ \A d : EnrichmentSlot(d).scope = "enrichment"
  BY DEF CoreSlot, EnrichmentSlot
<1>4. \A s \in Slots : s = CoreSlot \/ \E d \in 1 .. Days : s = EnrichmentSlot(d)
  BY DEF Slots
<1> QED
  BY <1>1, <1>2, <1>3, <1>4 DEF Scopes

\* A granted reservation is a number, or None without a limit.
LEMMA GrantedType ==
  ASSUME NEW s \in Slots, nextReservation \in Nat
  PROVE  Granted(s) \in Nat \cup {None}
BY DEF Granted

\* Whatever is taken out of the reservations, the rest is still well formed.
LEMMA PopType ==
  ASSUME LedgerTypeOK, NEW h, Pop(h)
  PROVE  /\ DOMAIN reservations' \subseteq 1 .. nextReservation
         /\ \A i \in DOMAIN reservations' : reservations'[i] \in Slots
BY DEF LedgerTypeOK, Pop

\* authorize() keeps the ledger well formed.
LEMMA AuthorizeType ==
  ASSUME LedgerTypeOK, NEW s \in Slots, Authorize(s)
  PROVE  LedgerTypeOK'
<1>1. CASE Granted(s) = None
  BY <1>1 DEF Authorize, LedgerTypeOK, UsageRecords
<1>2. CASE Granted(s) # None
  <2>1. Granted(s) = nextReservation + 1
    BY <1>2 DEF Granted
  <2> QED
    BY <1>2, <2>1 DEF Authorize, LedgerTypeOK
<1> QED BY <1>1, <1>2

\* record() keeps the ledger well formed.
LEMMA RecordType ==
  ASSUME LedgerTypeOK, NEW h, NEW usage \in UsageRecords, Record(usage, h)
  PROVE  LedgerTypeOK'
BY PopType DEF Record, LedgerTypeOK

\* release_call() keeps the ledger well formed.
LEMMA ReleaseType ==
  ASSUME LedgerTypeOK, NEW h, ReleaseCall(h)
  PROVE  LedgerTypeOK'
BY PopType DEF ReleaseCall, LedgerTypeOK

\* Activity ids are typed, and none of them is None.
LEMMA IdFacts ==
  \A c \in Calls : /\ ProviderId(c) \in ActivityIds
                   /\ UnknownId(c) \in ActivityIds
                   /\ ProviderId(c) # None
                   /\ ProviderId(c).call = c
                   /\ UnknownId(c).call = c
BY IdAssumption DEF ProviderId, UnknownId, ActivityIds

\* The initial state is well formed, whatever the file holds.
LEMMA InitType == Init => TypeOK
<1> SUFFICES ASSUME Init PROVE TypeOK
  OBVIOUS
<1>1. PICK history \in Histories :
        /\ LedgerInit(history)
        /\ StoreInit(history)
        /\ billed = {[id |-> r.id, slot |-> SlotOf(r)] : r \in history}
  BY DEF Init
<1>2. 1 \in 1 .. Days
  BY DaysAssumption
<1>3. history \in SUBSET UsageRecords
  BY <1>1, <1>2, IdFacts, PastCallsAssumption DEF Histories, PastRecords, UsageRecords, Statuses
<1>4. \A r \in history : r.id \in ActivityIds /\ SlotOf(r) \in Slots
  <2>1. \A r \in history : r.id \in ActivityIds /\ r.day \in 1 .. Days
    BY <1>3 DEF UsageRecords
  <2> QED BY <2>1, SlotFacts DEF SlotOf
<1>5. LedgerTypeOK
  BY <1>1, <1>3 DEF LedgerInit, LedgerTypeOK
<1>6. StoreTypeOK
  BY <1>1, <1>3 DEF StoreInit, StoreTypeOK
<1>7. billed \in SUBSET Activities
  BY <1>1, <1>4 DEF Activities
<1> QED
  BY <1>2, <1>5, <1>6, <1>7, SlotFacts DEF Init, TypeOK, Locations

(***************************************************************************)
(* TypeOK is not inductive by itself: a record is typed because a call     *)
(* that is polled knows its activity, and is written because a call that   *)
(* persists has a record to write.                                         *)
(***************************************************************************)
TypeInv ==
  /\ TypeOK
  /\ \A c \in NewCalls : pc[c] \in {"polling", "completing"} => activity[c] \in ActivityIds
  /\ \A c \in NewCalls : pc[c] = "persisting" => pending[c] \in UsageRecords

\* The places of submit_and_poll, before and after its end.
LEMMA LocationFacts ==
  /\ InFlight \subseteq Locations
  /\ Ended \subseteq Locations
  /\ "completing" \in InFlight /\ "failed" \in InFlight /\ "posting" \in InFlight
  /\ "polling" \in InFlight /\ "rejected" \in InFlight /\ "persisting" \in InFlight
  /\ "returned" \in Ended /\ "raised" \in Ended /\ "refused" \in Ended
BY DEF Locations, InFlight, Ended

\* The record a call writes is well formed.
LEMMA UsageType ==
  ASSUME TypeOK, NEW c \in NewCalls, NEW id \in ActivityIds, NEW day \in 1 .. Days,
         NEW status \in Statuses
  PROVE  Usage(c, id, day, status) \in UsageRecords
<1>1. slot[c].scope \in Scopes
  BY SlotFacts DEF TypeOK
<1> QED
  BY <1>1 DEF Usage, UsageRecords

\* A call that records its activity stays well formed.
LEMMA RecordUsageType ==
  ASSUME TypeInv, NEW c \in NewCalls, NEW usage \in UsageRecords,
         NEW ending \in Ended, RecordUsage(c, usage, ending)
  PROVE  TypeInv'
<1>1. LedgerTypeOK'
  BY RecordType DEF RecordUsage, TypeOK, TypeInv
<1>2. pc' \in [NewCalls -> Locations]
  BY LocationFacts DEF RecordUsage, Goto, TypeOK, TypeInv
<1>3. pending' \in [NewCalls -> UsageRecords \cup {None}]
  BY DEF RecordUsage, TypeOK, TypeInv
<1>4. TypeOK'
  BY <1>1, <1>2, <1>3 DEF RecordUsage, TypeOK, TypeInv, storeVars, ghostVars, StoreTypeOK
<1>5. ending \notin {"polling", "completing", "persisting"}
  BY DEF Ended
<1>6. CASE Recorded(usage.id)
  BY <1>4, <1>5, <1>6 DEF RecordUsage, Goto, TypeInv, TypeOK
<1>7. CASE ~ Recorded(usage.id)
  BY <1>4, <1>7 DEF RecordUsage, Goto, TypeInv, TypeOK
<1> QED BY <1>6, <1>7

\* A call that asks to be authorised stays well formed.
LEMMA SubmitType ==
  ASSUME TypeInv, NEW c \in NewCalls, Submit(c)
  PROVE  TypeInv'
<1>1. PICK s \in CallSlots : Start(c, s) \/ Refuse(c, s)
  BY DEF Submit
<1>2. s \in Slots
  BY <1>1, SlotFacts DEF CallSlots, TypeOK, TypeInv
<1>3. CASE Start(c, s)
  <2>1. LedgerTypeOK'
    BY <1>2, <1>3, AuthorizeType DEF Start, TypeOK, TypeInv
  <2>2. hold' \in [NewCalls -> Nat \cup {None}]
    BY <1>2, <1>3, GrantedType DEF Start, TypeOK, TypeInv, LedgerTypeOK
  <2>3. TypeOK'
    BY <1>2, <1>3, <2>1, <2>2, LocationFacts
       DEF Start, Goto, TypeOK, TypeInv, storeVars, ghostVars, StoreTypeOK
  <2> QED
    BY <1>3, <2>3 DEF Start, Goto, TypeOK, TypeInv
<1>4. CASE Refuse(c, s)
  <2>1. TypeOK'
    BY <1>4, LocationFacts DEF Refuse, Goto, TypeOK, TypeInv, ledgerVars, storeVars, ghostVars,
       LedgerTypeOK, StoreTypeOK
  <2> QED
    BY <1>4, <2>1 DEF Refuse, Goto, TypeOK, TypeInv
<1> QED BY <1>1, <1>3, <1>4

\* A step that moves one call to a location and touches no typed data.
LEMMA GotoType ==
  ASSUME TypeInv, NEW c \in NewCalls, NEW location \in Locations, Goto(c, location),
         location \in {"polling", "completing"} => activity[c] \in ActivityIds,
         location # "persisting",
         LedgerTypeOK', StoreTypeOK', billed' \in SUBSET Activities, lost' \in SUBSET ActivityIds,
         UNCHANGED <<today, slot, hold, activity, attempted, pending>>
  PROVE  TypeInv'
<1>1. TypeOK'
  BY DEF Goto, TypeOK, TypeInv
<1> QED
  BY <1>1 DEF Goto, TypeOK, TypeInv

\* A line written to the file keeps it well formed.
LEMMA AppendType ==
  ASSUME StoreTypeOK, NEW usage \in UsageRecords, Append(usage)
  PROVE  StoreTypeOK'
BY DEF Append, StoreTypeOK

\* A call that goes on after authorize() stays well formed.
LEMMA ProceedType ==
  ASSUME TypeInv, NEW c \in NewCalls, Proceed(c)
  PROVE  TypeInv'
<1> USE DEF ledgerVars, storeVars, ghostVars
<1>0. c \in Calls /\ TypeOK /\ LedgerTypeOK /\ StoreTypeOK
  BY DEF NewCalls, TypeInv, TypeOK
<1>a. StartedActivity(c) \in Activities
  BY <1>0, IdFacts DEF StartedActivity, Activities, TypeOK
<1>b. UNCHANGED ledgerVars => LedgerTypeOK'
  BY <1>0 DEF LedgerTypeOK
<1>c. UNCHANGED storeVars => StoreTypeOK'
  BY <1>0 DEF StoreTypeOK
<1>d. billed \in SUBSET Activities /\ lost \in SUBSET ActivityIds
  BY <1>0 DEF TypeOK
<1>1. ASSUME NEW id \in AnswerIds(c), PostAnswered(c, id) PROVE TypeInv'
  <2>1. id \in ActivityIds
    BY <1>0, IdFacts DEF AnswerIds, TypeOK, Activities
  <2>2. billed' \in SUBSET Activities
    BY <1>1, <1>a, <1>d DEF PostAnswered
  <2>3. pc' \in [NewCalls -> Locations]
    BY <1>0, <1>1, LocationFacts DEF PostAnswered, TypeOK, Goto
  <2>4. TypeOK'
    BY <1>0, <1>1, <1>b, <1>c, <2>1, <2>2, <2>3 DEF PostAnswered, TypeOK
  <2> QED
    BY <1>0, <1>1, <2>1, <2>4 DEF PostAnswered, TypeInv, TypeOK, Goto
<1>2. CASE PostAmbiguous(c)
  <2>1. billed' \in SUBSET Activities
    BY <1>2, <1>a, <1>d DEF PostAmbiguous
  <2> QED
    BY <1>2, <1>b, <1>c, <1>d, <2>1, LocationFacts, GotoType DEF PostAmbiguous
<1>3. CASE PostRejected(c)
  BY <1>3, <1>b, <1>c, <1>d, LocationFacts, GotoType DEF PostRejected
<1>4. CASE PollEnds(c)
  <2>1. activity[c] \in ActivityIds
    BY <1>4 DEF PollEnds, TypeInv
  <2>2. PICK ending \in {"completing", "failed"} : Goto(c, ending)
    BY <1>4 DEF PollEnds
  <2> QED
    BY <1>4, <1>b, <1>c, <1>d, <2>1, <2>2, LocationFacts, GotoType DEF PollEnds
<1>5. CASE RecordCompleted(c)
  <2>1. Usage(c, activity[c], today, "completed") \in UsageRecords
    BY <1>0, <1>5, UsageType DEF RecordCompleted, TypeInv, TypeOK, Statuses
  <2> QED
    BY <1>5, <2>1, RecordUsageType, LocationFacts DEF RecordCompleted
<1>6. CASE RecordSubmitted(c)
  <2>1. Usage(c, activity[c], today, "submitted") \in UsageRecords
    BY <1>0, <1>6, UsageType DEF RecordSubmitted, TypeOK, Statuses
  <2> QED
    BY <1>6, <2>1, RecordUsageType, LocationFacts DEF RecordSubmitted
<1>7. CASE RecordUnknown(c)
  <2>1. Usage(c, UnknownId(c), attempted[c], "submission_unknown") \in UsageRecords
    BY <1>0, <1>7, UsageType, IdFacts DEF TypeOK, Statuses
  <2> QED
    BY <1>7, <2>1, RecordUsageType, LocationFacts DEF RecordUnknown
<1>8. CASE ReleaseRejected(c)
  <2>1. LedgerTypeOK'
    BY <1>0, <1>8, ReleaseType DEF ReleaseRejected
  <2> QED
    BY <1>8, <1>c, <1>d, <2>1, LocationFacts, GotoType DEF ReleaseRejected
<1>9. CASE RaiseUnreserved(c)
  BY <1>9, <1>b, <1>c, <1>d, LocationFacts, GotoType DEF RaiseUnreserved
<1>10. CASE Persist(c)
  <2>1. StoreTypeOK'
    BY <1>0, <1>10, AppendType DEF Persist, TypeInv
  <2>2. PICK ending \in {"returned", "raised"} : Goto(c, ending)
    BY <1>10 DEF Persist
  <2> QED
    BY <1>10, <1>b, <1>d, <2>1, <2>2, LocationFacts, GotoType DEF Persist
<1>11. CASE PersistFails(c)
  <2>1. pending[c].id \in ActivityIds
    BY <1>11 DEF PersistFails, TypeInv, UsageRecords
  <2>2. StoreTypeOK'
    BY <1>0, <1>11 DEF PersistFails, AppendFails, StoreTypeOK
  <2>3. PICK ending \in {"failed", "raised"} : Goto(c, ending)
    BY <1>11 DEF PersistFails
  <2> QED
    BY <1>11, <1>b, <1>d, <2>1, <2>2, <2>3, LocationFacts, GotoType DEF PersistFails
<1> QED
  BY <1>1, <1>2, <1>3, <1>4, <1>5, <1>6, <1>7, <1>8, <1>9, <1>10, <1>11 DEF Proceed

\* TypeInv is inductive.
LEMMA StepType == TypeInv /\ [Next]_vars => TypeInv'
<1> SUFFICES ASSUME TypeInv, [Next]_vars PROVE TypeInv'
  OBVIOUS
<1>1. ASSUME NEW c \in NewCalls, Submit(c) PROVE TypeInv'
  BY <1>1, SubmitType
<1>2. ASSUME NEW c \in NewCalls, Proceed(c) PROVE TypeInv'
  BY <1>2, ProceedType
<1>3. CASE Midnight
  <2>1. today' \in 1 .. Days
    BY <1>3, DaysAssumption DEF Midnight, TypeInv, TypeOK
  <2> QED
    BY <1>3, <2>1 DEF Midnight, TypeInv, TypeOK, LedgerTypeOK, StoreTypeOK,
                      ledgerVars, storeVars, ghostVars
<1>4. CASE UNCHANGED vars
  BY <1>4 DEF vars, callVars, ledgerVars, storeVars, ghostVars,
              TypeInv, TypeOK, LedgerTypeOK, StoreTypeOK
<1> QED
  BY <1>1, <1>2, <1>3, <1>4 DEF Next, Idle

\* At first no call has an activity to know or a record to write.
LEMMA InitTypeInv == Init => TypeInv
BY InitType DEF Init, TypeInv

(***************************************************************************)
(* The types, and what makes them inductive: a call that is polled knows   *)
(* its activity, and a call that writes has a record to write.             *)
(***************************************************************************)
THEOREM TypeInvariance == Spec => []TypeInv
BY InitTypeInv, StepType, PTL DEF Spec

(***************************************************************************)
(* The state of the ledger, of its file and of every call in flight is     *)
(* well formed, whatever the threads do.                                   *)
(***************************************************************************)
THEOREM TypeCorrect == Spec => []TypeOK
<1>1. TypeInv => TypeOK
  BY DEF TypeInv
<1> QED
  BY <1>1, TypeInvariance, PTL

-----------------------------------------------------------------------------
(***************************************************************************)
(* The file is written after the record is in memory and outside the lock, *)
(* so FileCompleteAtRest is inductive only with the records on their way.  *)
(***************************************************************************)
OnItsWay(r) == \E c \in NewCalls : pc[c] = "persisting" /\ pending[c] = r

FileInv ==
  /\ file \subseteq records
  /\ \A r, s \in records : r.id = s.id => r = s
  /\ \A c \in NewCalls : pc[c] = "persisting" => pending[c] \in records
  /\ ~ torn => \A r \in records : r \in file \/ r.id \in lost \/ OnItsWay(r)

\* At first memory and file hold the same records.
LEMMA InitFile == Init => FileInv
<1> SUFFICES ASSUME Init PROVE FileInv
  OBVIOUS
<1>1. PICK history \in Histories : LedgerInit(history) /\ StoreInit(history)
  BY DEF Init
<1> QED
  BY <1>1 DEF Init, Histories, LedgerInit, StoreInit, FileInv

\* A step that moves a call that is not writing to a place where it does not write.
LEMMA MoveFile ==
  ASSUME FileInv, NEW c \in NewCalls, pc \in [NewCalls -> Locations],
         pc[c] # "persisting", NEW location, location # "persisting", Goto(c, location),
         UNCHANGED <<records, file, torn, lost, pending>>
  PROVE  FileInv'
<1>1. \A d \in NewCalls : pc'[d] = "persisting" <=> pc[d] = "persisting"
  BY DEF Goto
<1>2. \A r : OnItsWay(r)' <=> OnItsWay(r)
  BY <1>1 DEF OnItsWay
<1> QED BY <1>1, <1>2 DEF FileInv

\* record(): a new record is on its way to the file; a known one changes nothing.
LEMMA RecordFile ==
  ASSUME FileInv, NEW c \in NewCalls, TypeInv, pc[c] # "persisting",
         NEW usage, NEW ending, ending # "persisting", RecordUsage(c, usage, ending)
  PROVE  FileInv' /\ AppendOnlyStep
<1>0. pc \in [NewCalls -> Locations] /\ pending \in [NewCalls -> UsageRecords \cup {None}]
  BY DEF TypeInv, TypeOK
<1>1. UNCHANGED <<file, torn, lost>>
  BY DEF RecordUsage, storeVars, ghostVars
<1>2. CASE Recorded(usage.id)
  <2>1. UNCHANGED <<records, pending>> /\ Goto(c, ending)
    BY <1>2 DEF RecordUsage, Record
  <2>2. FileInv'
    BY <1>0, <1>1, <2>1, MoveFile
  <2> QED BY <1>1, <2>1, <2>2 DEF FileInv, AppendOnlyStep
<1>3. CASE ~ Recorded(usage.id)
  <2>1. /\ records' = records \cup {usage}
        /\ \A r \in records : r.id # usage.id
    BY <1>3 DEF RecordUsage, Record, Recorded
  <2>2. /\ pc'[c] = "persisting" /\ pending'[c] = usage
        /\ \A d \in NewCalls : d # c => pc'[d] = pc[d] /\ pending'[d] = pending[d]
    BY <1>0, <1>3 DEF RecordUsage, Goto
  <2>3. OnItsWay(usage)' /\ \A r : OnItsWay(r) => OnItsWay(r)'
    BY <2>2 DEF OnItsWay
  <2>4. \A d \in NewCalls : pc'[d] = "persisting" => pending'[d] \in records'
    BY <2>1, <2>2 DEF FileInv
  <2>5. ~ torn' => \A r \in records' : r \in file' \/ r.id \in lost' \/ OnItsWay(r)'
    BY <1>1, <2>1, <2>3 DEF FileInv
  <2>6. FileInv'
    BY <1>1, <2>1, <2>4, <2>5 DEF FileInv
  <2> QED BY <1>1, <2>1, <2>6 DEF FileInv, AppendOnlyStep
<1> QED BY <1>2, <1>3

\* The write of one call, done or failed.
LEMMA WriteFile ==
  ASSUME FileInv, TypeInv, NEW c \in NewCalls, Persist(c) \/ PersistFails(c)
  PROVE  FileInv' /\ AppendOnlyStep
<1>0. /\ pc \in [NewCalls -> Locations] /\ pc[c] = "persisting" /\ pending[c] \in records
      /\ pending' = pending /\ records' = records
  BY DEF TypeInv, TypeOK, FileInv, Persist, PersistFails, ledgerVars
<1>1. /\ pc'[c] # "persisting"
      /\ \A d \in NewCalls : d # c => pc'[d] = pc[d]
  BY <1>0 DEF Persist, PersistFails, Goto
<1>2. \A d \in NewCalls : pc'[d] = "persisting" => pending'[d] \in records'
  BY <1>0, <1>1 DEF FileInv
<1>3. \A r : OnItsWay(r) => OnItsWay(r)' \/ r = pending[c]
  BY <1>0, <1>1 DEF OnItsWay
<1>4. /\ file \subseteq file' /\ file' \subseteq records
      /\ lost \subseteq lost'
      /\ ~ torn' => ~ torn /\ (pending[c] \in file' \/ pending[c].id \in lost')
  <2>1. CASE Persist(c)
    BY <1>0, <2>1 DEF FileInv, Persist, Append, ghostVars
  <2>2. CASE PersistFails(c)
    <3>1. file' = file /\ torn' \in {torn, TRUE} /\ lost' = lost \cup {pending[c].id}
      BY <2>2 DEF PersistFails, AppendFails
    <3>2. torn' = torn \/ torn' = TRUE
      BY <3>1
    <3>3. ~ torn' => ~ torn
      BY <3>2
    <3> QED BY <3>1, <3>3 DEF FileInv
  <2> QED BY <2>1, <2>2
<1> QED
  BY <1>0, <1>2, <1>3, <1>4 DEF FileInv, AppendOnlyStep

\* FileInv is inductive, and no step takes a record away.
LEMMA StepFile ==
  ASSUME FileInv, TypeInv, [Next]_vars
  PROVE  FileInv' /\ [AppendOnlyStep]_vars
<1> USE DEF ledgerVars, storeVars, ghostVars
<1>0. pc \in [NewCalls -> Locations]
  BY DEF TypeInv, TypeOK
<1>1. ASSUME UNCHANGED <<records, file>> PROVE AppendOnlyStep
  BY <1>1 DEF AppendOnlyStep, FileInv
<1>2. ASSUME NEW c \in NewCalls, Submit(c) PROVE FileInv' /\ AppendOnlyStep
  <2>1. PICK location \in {"posting", "refused"} : Goto(c, location)
    BY <1>2 DEF Submit, Start, Refuse
  <2>2. pc[c] = "idle" /\ UNCHANGED <<records, file, torn, lost, pending>>
    BY <1>2 DEF Submit, Start, Refuse, Authorize
  <2> QED BY <1>0, <1>1, <2>1, <2>2, MoveFile
<1>3. ASSUME NEW c \in NewCalls, Proceed(c) PROVE FileInv' /\ AppendOnlyStep
  <2>1. ASSUME NEW id \in AnswerIds(c), PostAnswered(c, id) PROVE FileInv' /\ AppendOnlyStep
    BY <1>0, <1>1, <2>1, MoveFile DEF PostAnswered
  <2>2. CASE PostAmbiguous(c) \/ PostRejected(c) \/ PollEnds(c)
    <3>1. PICK location \in {"failed", "rejected", "completing"} : Goto(c, location)
      BY <2>2 DEF PostAmbiguous, PostRejected, PollEnds
    <3>2. pc[c] # "persisting" /\ UNCHANGED <<records, file, torn, lost, pending>>
      BY <2>2 DEF PostAmbiguous, PostRejected, PollEnds
    <3> QED BY <1>0, <1>1, <3>1, <3>2, MoveFile
  <2>3. CASE ReleaseRejected(c) \/ RaiseUnreserved(c)
    <3>1. /\ Goto(c, "raised") /\ pc[c] # "persisting"
          /\ UNCHANGED <<records, file, torn, lost, pending>>
      BY <2>3 DEF ReleaseRejected, ReleaseCall, RaiseUnreserved
    <3> QED BY <1>0, <1>1, <3>1, MoveFile
  <2>4. CASE RecordCompleted(c)
    BY <2>4, RecordFile DEF RecordCompleted
  <2>5. CASE RecordSubmitted(c)
    BY <2>5, RecordFile DEF RecordSubmitted
  <2>6. CASE RecordUnknown(c)
    BY <2>6, RecordFile DEF RecordUnknown
  <2>7. CASE Persist(c) \/ PersistFails(c)
    BY <2>7, WriteFile
  <2> QED BY <1>3, <2>1, <2>2, <2>3, <2>4, <2>5, <2>6, <2>7 DEF Proceed
<1>4. CASE Midnight \/ UNCHANGED vars
  <2>1. UNCHANGED <<records, file, torn, lost, pc, pending>>
    BY <1>4 DEF Midnight, vars, callVars
  <2> QED BY <1>1, <2>1 DEF FileInv, OnItsWay
<1> QED BY <1>2, <1>3, <1>4 DEF Next, Idle

(***************************************************************************)
(* The file never runs ahead of the memory, an activity has one record,    *)
(* and every record is in its file, lost, or on its way there.             *)
(***************************************************************************)
THEOREM FileInvariance == Spec => []FileInv
<1>1. FileInv /\ TypeInv /\ [Next]_vars => FileInv'
  BY StepFile
<1> QED BY <1>1, InitFile, TypeInvariance, PTL DEF Spec

(***************************************************************************)
(* An activity has one record and one line, though several threads may be  *)
(* answered with one id and a failed write leads to a second record().     *)
(***************************************************************************)
THEOREM OneRecord == Spec => []OneRecordPerActivity
<1>1. FileInv => OneRecordPerActivity
  BY DEF FileInv, OneRecordPerActivity
<1> QED BY <1>1, FileInvariance, PTL

(***************************************************************************)
(* Once every call has ended, a restart would find every record but those  *)
(* whose own write failed, unless a torn line is in the way.               *)
(***************************************************************************)
THEOREM FileComplete == Spec => []FileCompleteAtRest
<1>1. FileInv => FileCompleteAtRest
  BY DEF FileInv, FileCompleteAtRest, OnItsWay, AllEnded, Ended
<1> QED BY <1>1, FileInvariance, PTL

(***************************************************************************)
(* No step takes a record away or rewrites it, in memory or in the file.   *)
(***************************************************************************)
THEOREM LedgerAppendOnly == Spec => AppendOnly
<1>1. FileInv /\ TypeInv /\ [Next]_vars => [AppendOnlyStep]_vars
  BY StepFile
<1> QED BY <1>1, FileInvariance, TypeInvariance, PTL DEF Spec, AppendOnly

-----------------------------------------------------------------------------
(***************************************************************************)
(* Chapter II.  The budgets.                                               *)
(*                                                                         *)
(* Theorems about the budgets of FortyGuardClient, for any number of calls *)
(* and days and any interleaving: neither budget is exceeded, reservations *)
(* are exactly those of the calls in flight, no started activity goes      *)
(* unseen, and the core account implements CallBudget.                     *)
(*                                                                         *)
(* Why the budget holds: a call can take a unit only between the moment it *)
(* is authorised and the moment it is settled.  Call it committed to its   *)
(* slot from its authorisation until it is settled, or for good once it    *)
(* has an activity billed.  Only authorize() adds a committed call, and it *)
(* does so when records and reservations, which cover every committed call *)
(* (SeenInv, HoldInv), are fewer than the limit.                           *)
(***************************************************************************)

(***************************************************************************)
(* II.1  The invariant.                                                    *)
(***************************************************************************)

\* The call has been authorised; and its POST has been answered, or left in doubt.
Begun(c)  == pc[c] \notin {"idle", "refused"}
Posted(c) == Begun(c) /\ pc[c] \notin {"posting", "rejected"}

Holds(c) == hold[c] \in DOMAIN reservations /\ reservations[hold[c]] = slot[c]

\* A second attempt to record an activity, after its first record was not written.
Rerecords(c) == pc[c] = "failed" /\ activity[c] # None /\ Recorded(activity[c])

\* The slot may be asked for on that day, and a record of that day may count for it.
OpenOn(s, day) == s.day # None => s.day <= day

\* A reservation has one holder, which is in flight; a call in flight has its own,
\* unless its activity is recorded already.
HoldInv ==
  /\ \A c \in NewCalls : hold[c] = None <=> ~ Begun(c)
  /\ \A c \in NewCalls : Begun(c) => hold[c] \in 1 .. nextReservation
  /\ \A c, d \in NewCalls : hold[c] = hold[d] => hold[c] = None \/ c = d
  /\ \A c \in NewCalls : Live(c) => Holds(c) \/ Rerecords(c)
  /\ \A i \in DOMAIN reservations :
       \E c \in NewCalls : Live(c) /\ hold[c] = i /\ slot[c] = reservations[i]

\* What a call was authorised against, and whose activity it was answered with.
CallInv ==
  /\ \A c \in NewCalls : attempted[c] <= today
  /\ \A c \in NewCalls : Begun(c) => slot[c] \in {CoreSlot, EnrichmentSlot(attempted[c])}
  /\ \A c \in NewCalls : ~ Posted(c) => activity[c] = None
  /\ \A c \in NewCalls : activity[c] # None =>
       \E b \in billed : b.id = activity[c] /\ b.slot.scope = slot[c].scope
  /\ \A c \in NewCalls : pc[c] = "persisting" /\ pending[c].status = "completed" =>
       activity[c] # None /\ Recorded(activity[c])

\* An activity is billed once, to the slot its call was authorised against.
BillInv ==
  /\ \A b \in billed : b.id.kind = "named" /\ OpenOn(b.slot, today)
  /\ \A b, e \in billed : b.id = e.id => b = e
  /\ \A b \in billed : b.id.call \in NewCalls =>
       /\ b.slot = slot[b.id.call]
       /\ Posted(b.id.call)
       /\ activity[b.id.call] \in {None, b.id}

\* A record is of a billed activity, or of a call whose answer was lost, and counts
\* for the scope of that call on its day or later.
RecordInv ==
  /\ \A r \in records : r.day <= today
  /\ \A r \in records : r.id.kind = "named" =>
       \E b \in billed : b.id = r.id /\ b.slot.scope = r.scope /\ OpenOn(b.slot, r.day)
  /\ \A r \in records : r.id.kind = "unknown" =>
       r.id.call \in NewCalls /\ Begun(r.id.call) /\ slot[r.id.call] = SlotOf(r)

\* The ledger has a record that authorize() counts for the activity.
Seen(b) ==
  \E r \in records : r.id.call = b.id.call /\ r.scope = b.slot.scope /\ OpenOn(b.slot, r.day)

SeenInv == \A b \in billed : Seen(b) \/ (b.id.call \in NewCalls /\ Live(b.id.call))

AccountInv == TypeInv /\ HoldInv /\ CallInv /\ BillInv /\ RecordInv /\ SeenInv

\* The calls that have taken a unit of a slot, or may still take one.
Committed(s) == {b.id.call : b \in ChargedTo(s)} \cup {c \in NewCalls : hold[c] \in ReservedFor(s)}

CommittedInv ==
  \A s \in Slots : Limit(s) # None =>
    Cardinality(Committed(s)) <= Larger(Limit(s), Cardinality(Inherited(s)))

(***************************************************************************)
(* II.2  Every step keeps the agreement of calls, records and bills.       *)
(***************************************************************************)

\* What the fields of slots and ids are.
LEMMA FieldFacts ==
  /\ CoreSlot.scope = "core" /\ CoreSlot.day = None
  /\ \A d : EnrichmentSlot(d).scope = "enrichment" /\ EnrichmentSlot(d).day = d
  /\ \A c : /\ ProviderId(c).call = c /\ ProviderId(c).kind = "named"
            /\ UnknownId(c).call = c /\ UnknownId(c).kind = "unknown"
BY DEF CoreSlot, EnrichmentSlot, ProviderId, UnknownId

\* An activity id is told by its call and its kind.
LEMMA IdParts ==
  ASSUME NEW x \in ActivityIds
  PROVE  /\ x.call \in Calls
         /\ x.kind = "named" => x = ProviderId(x.call)
         /\ x.kind # "named" => x.kind = "unknown" /\ x = UnknownId(x.call)
BY DEF ActivityIds, ProviderId, UnknownId

\* The types of the variables, out of TypeInv.
LEMMA TypedState ==
  ASSUME TypeInv
  PROVE  /\ today \in 1 .. Days /\ nextReservation \in Nat
         /\ pc \in [NewCalls -> Locations] /\ slot \in [NewCalls -> Slots]
         /\ hold \in [NewCalls -> Nat \cup {None}]
         /\ activity \in [NewCalls -> ActivityIds \cup {None}]
         /\ attempted \in [NewCalls -> 1 .. Days]
         /\ pending \in [NewCalls -> UsageRecords \cup {None}]
         /\ billed \in SUBSET Activities /\ records \in SUBSET UsageRecords
         /\ DOMAIN reservations \subseteq 1 .. nextReservation
BY DEF TypeInv, TypeOK, LedgerTypeOK

\* What authorize() does when it grants a unit and the core budget is configured.
LEMMA AuthorizeReserves ==
  ASSUME Budget \in Nat, NEW s \in Slots, nextReservation \in Nat, Authorize(s)
  PROVE  /\ Limit(s) \in Nat
         /\ Granted(s) = nextReservation + 1
         /\ nextReservation' = nextReservation + 1
         /\ reservations' = [i \in DOMAIN reservations \cup {nextReservation + 1} |->
                               IF i = nextReservation + 1 THEN s ELSE reservations[i]]
         /\ records' = records
<1>1. Limit(s) # None
  BY SlotFacts, NoneAssumption DEF Authorize, Refuses, Limit, Scopes
<1>2. Limit(s) \in Nat
  BY <1>1, BudgetAssumption DEF Limit
<1>3. Granted(s) = nextReservation + 1
  BY <1>1 DEF Granted
<1>4. Granted(s) # None
  BY <1>3, NoneAssumption
<1> QED
  BY <1>2, <1>3, <1>4 DEF Authorize

LiveLocations == {"posting", "polling", "completing", "failed", "rejected"}

\* A step that moves a call on and touches neither the ledger nor the provider.
LEMMA MoveAccount ==
  ASSUME AccountInv, NEW c \in NewCalls, NEW location \in Locations, Goto(c, location),
         UNCHANGED <<ledgerVars, today, slot, hold, activity, attempted, pending, billed>>,
         Begun(c) <=> location \notin {"idle", "refused"},
         location \in {"idle", "refused", "posting", "rejected"} => ~ Posted(c),
         Live(c) => location \in LiveLocations,
         location \in LiveLocations =>
           Holds(c) \/ (location = "failed" /\ activity[c] # None /\ Recorded(activity[c])),
         location # "persisting"
  PROVE  HoldInv' /\ CallInv' /\ BillInv' /\ RecordInv' /\ SeenInv'
<1> USE DEF ledgerVars
<1>0. TypeInv
  BY DEF AccountInv
<1>1. pc'[c] = location /\ \A d \in NewCalls : d # c => pc'[d] = pc[d]
  BY <1>0, TypedState DEF Goto
<1>2. \A d \in NewCalls : Begun(d)' <=> Begun(d)
  BY <1>1 DEF Begun
<1>3. \A d \in NewCalls : Posted(d) => Posted(d)'
  BY <1>1, <1>2 DEF Posted, Begun
<1>4. \A d \in NewCalls : Live(d) => Live(d)'
  BY <1>1 DEF Live, LiveLocations
<1>5. \A d \in NewCalls : Live(d)' => Holds(d)' \/ Rerecords(d)'
  <2>1. \A d \in NewCalls \ {c} : Live(d)' => Holds(d)' \/ Rerecords(d)'
    BY <1>1 DEF AccountInv, HoldInv, Live, Holds, Rerecords, Recorded
  <2>2. Live(c)' => Holds(c)' \/ Rerecords(c)'
    BY <1>1 DEF Live, LiveLocations, Holds, Rerecords, Recorded
  <2> QED BY <2>1, <2>2
<1>6. HoldInv'
  BY <1>2, <1>4, <1>5 DEF AccountInv, HoldInv
<1>7. CallInv'
  <2>1. \A d \in NewCalls : ~ Posted(d)' => activity'[d] = None
    BY <1>3 DEF AccountInv, CallInv
  <2>2. \A d \in NewCalls : pc'[d] = "persisting" => pc[d] = "persisting"
    BY <1>1
  <2>3. \A id : Recorded(id)' <=> Recorded(id)
    BY DEF Recorded
  <2> QED BY <1>2, <2>1, <2>2, <2>3 DEF AccountInv, CallInv
<1>8. BillInv'
  BY <1>3 DEF AccountInv, BillInv, OpenOn
<1>9. RecordInv'
  BY <1>2 DEF AccountInv, RecordInv, OpenOn, SlotOf
<1>10. SeenInv'
  BY <1>4 DEF AccountInv, SeenInv, Seen, OpenOn
<1> QED BY <1>6, <1>7, <1>8, <1>9, <1>10

\* authorize() lets a call through: a new reservation, held by that call only.
LEMMA StartAccount ==
  ASSUME Budget \in Nat, AccountInv, NEW c \in NewCalls, NEW s \in CallSlots, Start(c, s)
  PROVE  HoldInv' /\ CallInv' /\ BillInv' /\ RecordInv' /\ SeenInv'
<1> USE DEF storeVars, ghostVars
<1>0. /\ TypeInv /\ s \in Slots /\ pc[c] = "idle"
      /\ HoldInv /\ CallInv /\ BillInv /\ RecordInv /\ SeenInv
  BY TypedState, SlotFacts DEF AccountInv, CallSlots, Start
<1> DEFINE n == nextReservation + 1
<1>1. /\ Granted(s) = n /\ nextReservation' = n /\ records' = records
      /\ DOMAIN reservations' = DOMAIN reservations \cup {n}
      /\ reservations'[n] = s
      /\ \A i \in DOMAIN reservations : reservations'[i] = reservations[i]
      /\ n \notin DOMAIN reservations /\ n \in Nat /\ n # None
  <2>1. n \notin DOMAIN reservations /\ n \in Nat /\ n # None
    BY <1>0, TypedState, NoneAssumption
  <2>2. /\ Granted(s) = n /\ nextReservation' = n /\ records' = records
        /\ reservations' = [i \in DOMAIN reservations \cup {n} |->
                               IF i = n THEN s ELSE reservations[i]]
    BY <1>0, TypedState, AuthorizeReserves DEF Start
  <2> QED BY <2>1, <2>2
<1>2. /\ pc'[c] = "posting" /\ slot'[c] = s /\ hold'[c] = n /\ attempted'[c] = today
      /\ \A d \in NewCalls \ {c} :
           /\ pc'[d] = pc[d] /\ slot'[d] = slot[d]
           /\ hold'[d] = hold[d] /\ attempted'[d] = attempted[d]
      /\ activity' = activity /\ pending' = pending /\ billed' = billed /\ today' = today
  BY <1>0, <1>1, TypedState DEF Start, Goto
<1>3. ~ Begun(c) /\ ~ Posted(c) /\ ~ Live(c) /\ hold[c] = None /\ activity[c] = None
  BY <1>0 DEF Begun, Posted, Live, HoldInv, CallInv
<1>4. /\ Begun(c)' /\ ~ Posted(c)' /\ Live(c)'
      /\ \A d \in NewCalls \ {c} : (Begun(d)' <=> Begun(d)) /\ (Posted(d)' <=> Posted(d))
                                   /\ (Live(d)' <=> Live(d))
  BY <1>2 DEF Begun, Posted, Live
<1>5. \A d \in NewCalls : Begun(d) => hold[d] \in 1 .. nextReservation /\ hold[d] # n
  BY <1>0, TypedState DEF HoldInv
<1>6. \A d \in NewCalls \ {c} : (Holds(d) => Holds(d)') /\ (Rerecords(d) <=> Rerecords(d)')
  BY <1>1, <1>2 DEF Holds, Rerecords, Recorded
<1>7. HoldInv'
  <2>1. \A d \in NewCalls : hold'[d] = None <=> ~ Begun(d)'
    BY <1>0, <1>1, <1>2, <1>4 DEF HoldInv
  <2>2. \A d \in NewCalls : Begun(d)' => hold'[d] \in 1 .. n
    BY <1>0, <1>1, <1>2, <1>4, <1>5, TypedState
  <2>3. \A d, e \in NewCalls : hold'[d] = hold'[e] => hold'[d] = None \/ d = e
    BY <1>0, <1>2, <1>5, <1>1 DEF HoldInv
  <2>4. \A d \in NewCalls : Live(d)' => Holds(d)' \/ Rerecords(d)'
    BY <1>0, <1>1, <1>2, <1>4, <1>6 DEF HoldInv, Holds
  <2>5. \A i \in DOMAIN reservations' :
          \E d \in NewCalls : Live(d)' /\ hold'[d] = i /\ slot'[d] = reservations'[i]
    <3>1. TAKE i \in DOMAIN reservations'
    <3>2. CASE i = n
      BY <1>1, <1>2, <1>4, <3>2
    <3>3. CASE i # n
      <4>1. PICK d \in NewCalls : Live(d) /\ hold[d] = i /\ slot[d] = reservations[i]
        BY <1>0, <1>1, <3>3 DEF HoldInv
      <4> QED BY <1>1, <1>2, <1>3, <1>4, <3>3, <4>1
    <3> QED BY <3>2, <3>3
  <2> QED BY <1>1, <2>1, <2>2, <2>3, <2>4, <2>5 DEF HoldInv
<1>8. CallInv'
  <2>1. \A d \in NewCalls : attempted'[d] <= today'
    BY <1>0, <1>2, TypedState DEF CallInv
  <2>2. \A d \in NewCalls : Begun(d)' => slot'[d] \in {CoreSlot, EnrichmentSlot(attempted'[d])}
    BY <1>0, <1>2, <1>4 DEF CallInv, CallSlots
  <2>3. \A d \in NewCalls : ~ Posted(d)' => activity'[d] = None
    BY <1>0, <1>2, <1>3, <1>4 DEF CallInv
  <2>4. \A d \in NewCalls : activity'[d] # None =>
          \E b \in billed' : b.id = activity'[d] /\ b.slot.scope = slot'[d].scope
    BY <1>0, <1>2, <1>3 DEF CallInv
  <2>5. \A d \in NewCalls : (pc[d] = "persisting" /\ pending[d].status = "completed" =>
          activity[d] # None /\ Recorded(activity[d]))'
    BY <1>0, <1>1, <1>2 DEF CallInv, Recorded
  <2> QED BY <2>1, <2>2, <2>3, <2>4, <2>5 DEF CallInv
<1>9. BillInv'
  BY <1>0, <1>2, <1>3, <1>4 DEF BillInv, OpenOn
<1>10. RecordInv'
  BY <1>0, <1>1, <1>2, <1>3, <1>4 DEF RecordInv, OpenOn, SlotOf
<1>11. SeenInv'
  BY <1>0, <1>1, <1>2, <1>4 DEF SeenInv, Seen, OpenOn
<1> QED BY <1>7, <1>8, <1>9, <1>10, <1>11

\* The provider's answer, or its silence: what is started is started for a call that
\* holds the unit it was authorised with.
LEMMA PostAccount ==
  ASSUME AccountInv, NEW c \in NewCalls, pc[c] = "posting",
         NEW location \in {"polling", "failed"}, Goto(c, location),
         UNCHANGED <<ledgerVars, today, slot, hold, attempted, pending>>,
         billed' \in {billed, billed \cup {StartedActivity(c)}},
         NEW id, activity' = [activity EXCEPT ![c] = id],
         id # None => \E b \in billed' : b.id = id /\ b.slot.scope = slot[c].scope,
         StartedActivity(c) \in billed' => id \in {None, ProviderId(c)},
         location = "failed" => id = None
  PROVE  HoldInv' /\ CallInv' /\ BillInv' /\ RecordInv' /\ SeenInv'
<1> USE DEF ledgerVars
<1>0. TypeInv /\ HoldInv /\ CallInv /\ BillInv /\ RecordInv /\ SeenInv
  BY DEF AccountInv
<1>1. /\ pc'[c] = location /\ activity'[c] = id
      /\ \A d \in NewCalls : d # c => pc'[d] = pc[d] /\ activity'[d] = activity[d]
  BY <1>0, TypedState DEF Goto
<1>2. Begun(c) /\ ~ Posted(c) /\ Live(c) /\ Holds(c) /\ activity[c] = None
  BY <1>0 DEF Begun, Posted, Live, HoldInv, CallInv, Rerecords
<1>3. Begun(c)' /\ Posted(c)' /\ Live(c)' /\ Holds(c)'
  BY <1>1, <1>2 DEF Begun, Posted, Live, Holds
<1>4. \A d \in NewCalls : d # c =>
        /\ Begun(d)' <=> Begun(d)
        /\ Posted(d)' <=> Posted(d)
        /\ Live(d)' <=> Live(d)
        /\ Holds(d)' <=> Holds(d)
        /\ Rerecords(d)' <=> Rerecords(d)
  BY <1>1 DEF Begun, Posted, Live, Holds, Rerecords, Recorded
<1>5. \A b \in billed' \ billed : b = StartedActivity(c)
  OBVIOUS
<1>6. /\ StartedActivity(c).id = ProviderId(c) /\ StartedActivity(c).slot = slot[c]
      /\ \A b \in billed : b.id.call # c
  BY <1>0, <1>2 DEF StartedActivity, BillInv
<1>7. HoldInv'
  BY <1>0, <1>2, <1>3, <1>4 DEF HoldInv
<1>8. CallInv'
  <2>1. \A d \in NewCalls : ~ Posted(d)' => activity'[d] = None
    BY <1>0, <1>1, <1>3, <1>4 DEF CallInv
  <2>2. \A d \in NewCalls : activity'[d] # None =>
          \E b \in billed' : b.id = activity'[d] /\ b.slot.scope = slot'[d].scope
    BY <1>0, <1>1 DEF CallInv
  <2>3. \A d \in NewCalls : (pc[d] = "persisting" /\ pending[d].status = "completed" =>
          activity[d] # None /\ Recorded(activity[d]))'
    BY <1>0, <1>1 DEF CallInv, Recorded
  <2>4. \A d \in NewCalls : Begun(d)' <=> Begun(d)
    BY <1>2, <1>3, <1>4
  <2> QED BY <1>0, <2>1, <2>2, <2>3, <2>4 DEF CallInv
<1>9. BillInv'
  <2>1. OpenOn(slot[c], today)
    BY <1>0, <1>2, FieldFacts, TypedState DEF CallInv, OpenOn
  <2>2. \A b \in billed' : b.id.kind = "named" /\ OpenOn(b.slot, today')
    BY <1>0, <1>5, <1>6, <2>1, FieldFacts DEF BillInv, OpenOn
  <2>3. \A b, e \in billed' : b.id = e.id => b = e
    BY <1>0, <1>5, <1>6, FieldFacts DEF BillInv
  <2>4. \A b \in billed' : b.id.call \in NewCalls =>
          /\ b.slot = slot'[b.id.call]
          /\ Posted(b.id.call)'
          /\ activity'[b.id.call] \in {None, b.id}
    <3>1. CASE StartedActivity(c) \in billed'
      BY <1>0, <1>1, <1>3, <1>4, <1>5, <1>6, <3>1, FieldFacts DEF BillInv
    <3>2. CASE StartedActivity(c) \notin billed'
      BY <1>0, <1>1, <1>4, <1>5, <1>6, <3>2 DEF BillInv
    <3> QED BY <3>1, <3>2
  <2> QED BY <2>2, <2>3, <2>4 DEF BillInv, OpenOn
<1>10. RecordInv'
  BY <1>0, <1>2, <1>3, <1>4 DEF RecordInv, OpenOn, SlotOf
<1>11. SeenInv'
  BY <1>0, <1>3, <1>4, <1>5, <1>6, FieldFacts DEF SeenInv, Seen, OpenOn
<1> QED BY <1>7, <1>8, <1>9, <1>10, <1>11

\* A call that gives its reservation up takes no other call's.
LEMMA PopOwn ==
  ASSUME TypeInv, HoldInv, NEW c \in NewCalls, Begun(c), Pop(hold[c]), UNCHANGED <<hold, slot>>
  PROVE  /\ hold[c] # None
         /\ DOMAIN reservations' = DOMAIN reservations \ {hold[c]}
         /\ \A i \in DOMAIN reservations' : reservations'[i] = reservations[i]
         /\ \A d \in NewCalls : d # c => (Holds(d)' <=> Holds(d))
<1>1. hold[c] # None
  BY DEF HoldInv
<1>2. reservations' = [i \in DOMAIN reservations \ {hold[c]} |-> reservations[i]]
  BY <1>1 DEF Pop, Popped
<1>3. \A d \in NewCalls : d # c /\ hold[d] \in DOMAIN reservations => hold[d] # hold[c]
  BY <1>1 DEF HoldInv
<1> QED BY <1>1, <1>2, <1>3 DEF Holds

\* What settling a reservation does to the reservations and their holders.
LEMMA SettleHold ==
  ASSUME AccountInv, NEW c \in NewCalls, Begun(c), Begun(c)', Pop(hold[c]), ~ Live(c)',
         \A d \in NewCalls : d # c => pc'[d] = pc[d],
         records \subseteq records',
         UNCHANGED <<nextReservation, hold, slot, activity>>
  PROVE  HoldInv'
<1>0. TypeInv /\ HoldInv
  BY DEF AccountInv
<1>1. /\ hold[c] # None
      /\ DOMAIN reservations' = DOMAIN reservations \ {hold[c]}
      /\ \A i \in DOMAIN reservations' : reservations'[i] = reservations[i]
      /\ \A d \in NewCalls : d # c => (Holds(d)' <=> Holds(d))
  BY <1>0, PopOwn
<1>2. \A d \in NewCalls : Begun(d)' <=> Begun(d)
  BY DEF Begun
<1>3. \A d \in NewCalls : d # c => (Live(d)' <=> Live(d)) /\ (Rerecords(d) => Rerecords(d)')
  BY DEF Live, Rerecords, Recorded
<1>4. \A d \in NewCalls : Live(d)' => Holds(d)' \/ Rerecords(d)'
  BY <1>0, <1>1, <1>3 DEF HoldInv
<1>5. \A i \in DOMAIN reservations' :
        \E d \in NewCalls : Live(d)' /\ hold'[d] = i /\ slot'[d] = reservations'[i]
  <2>1. TAKE i \in DOMAIN reservations'
  <2>2. PICK d \in NewCalls : Live(d) /\ hold[d] = i /\ slot[d] = reservations[i]
    BY <1>0, <1>1 DEF HoldInv
  <2>3. d # c
    BY <1>1, <2>2
  <2> QED BY <1>1, <1>3, <2>2, <2>3
<1> QED BY <1>0, <1>2, <1>4, <1>5 DEF HoldInv

\* The slot of a record is the one it counts for.
LEMMA SlotOfFacts ==
  ASSUME NEW r \in UsageRecords
  PROVE  SlotOf(r) \in Slots /\ SlotOf(r).scope = r.scope /\ OpenOn(SlotOf(r), r.day)
<1>1. r.day \in 1 .. Days /\ r.scope \in Scopes
  BY DEF UsageRecords
<1> QED BY <1>1, SlotFacts, FieldFacts DEF SlotOf, Scopes, OpenOn

\* What a call puts in a record: the activity it knows, on the day it is recorded,
\* or an id of its own, on the day it was attempted.
Names(c, usage) ==
  \/ usage.id = activity[c] /\ activity[c] # None /\ usage.day = today
  \/ /\ activity[c] = None
     /\ usage.id = UnknownId(c)
     /\ usage.day = attempted[c]
     /\ usage.status # "completed"

\* record(), whether the activity is new or known: the call is settled, and what it
\* may have started is seen from now on.
LEMMA RecordAccount ==
  ASSUME AccountInv, NEW c \in NewCalls, pc[c] \in {"completing", "failed"},
         NEW usage \in UsageRecords, NEW ending \in {"returned", "raised"},
         RecordUsage(c, usage, ending), usage.scope = slot[c].scope, Names(c, usage)
  PROVE  HoldInv' /\ CallInv' /\ BillInv' /\ RecordInv' /\ SeenInv'
<1> USE DEF ghostVars
<1>0. TypeInv /\ HoldInv /\ CallInv /\ BillInv /\ RecordInv /\ SeenInv
  BY DEF AccountInv
<1>1. /\ Pop(hold[c])
      /\ UNCHANGED <<nextReservation, today, slot, hold, activity, attempted, billed>>
      /\ records' = IF Recorded(usage.id) THEN records ELSE records \cup {usage}
  BY DEF RecordUsage, Record
<1>2. /\ \A d \in NewCalls : d # c => pc'[d] = pc[d] /\ pending'[d] = pending[d]
      /\ pc'[c] \in {"persisting", "returned", "raised"}
      /\ pc'[c] = "persisting" => pending'[c] = usage
  BY <1>0, TypedState DEF RecordUsage, Goto
<1>3. Begun(c) /\ Posted(c) /\ Live(c) /\ Begun(c)' /\ Posted(c)' /\ ~ Live(c)'
  BY <1>2 DEF Begun, Posted, Live
<1>4. \A d \in NewCalls : /\ Begun(d)' <=> Begun(d)
                          /\ Posted(d)' <=> Posted(d)
                          /\ d # c => (Live(d)' <=> Live(d))
  BY <1>2, <1>3 DEF Begun, Posted, Live
<1>5. \A id : Recorded(id) => Recorded(id)'
  BY <1>1 DEF Recorded
<1>6. Recorded(usage.id)'
  BY <1>1 DEF Recorded
<1>7. HoldInv'
  BY <1>1, <1>2, <1>3, SettleHold
<1>8. CallInv'
  <2>1. \A d \in NewCalls : (pc[d] = "persisting" /\ pending[d].status = "completed" =>
          activity[d] # None /\ Recorded(activity[d]))'
    <3>1. TAKE d \in NewCalls
    <3>2. CASE d = c
      BY <1>1, <1>2, <1>6, <3>2 DEF Names
    <3>3. CASE d # c
      BY <1>0, <1>1, <1>2, <1>5, <3>3 DEF CallInv
    <3> QED BY <3>2, <3>3
  <2> QED BY <1>0, <1>1, <1>4, <2>1 DEF CallInv
<1>9. BillInv'
  BY <1>0, <1>1, <1>4 DEF BillInv, OpenOn
<1>b. OpenOn(slot[c], attempted[c])
  BY <1>0, <1>3, FieldFacts, TypedState DEF CallInv, OpenOn
<1>10. RecordInv'
  <2>1. usage.day <= today
    BY <1>0, TypedState DEF Names, CallInv
  <2>2. usage.id.kind = "named" =>
          \E b \in billed :
            b.id = usage.id /\ b.slot.scope = usage.scope /\ OpenOn(b.slot, usage.day)
    BY <1>0, FieldFacts DEF Names, CallInv, BillInv
  <2>3. usage.id.kind = "unknown" =>
          usage.id.call \in NewCalls /\ Begun(usage.id.call) /\ slot[usage.id.call] = SlotOf(usage)
    <3>1. SUFFICES ASSUME usage.id.kind = "unknown"
                   PROVE  usage.id.call \in NewCalls /\ Begun(usage.id.call)
                          /\ slot[usage.id.call] = SlotOf(usage)
      OBVIOUS
    <3>2. activity[c] = None
      BY <1>0, <3>1 DEF Names, CallInv, BillInv
    <3>3. usage.id.call = c /\ usage.day = attempted[c]
      BY <3>2, FieldFacts DEF Names
    <3> QED BY <1>0, <1>3, <3>3, FieldFacts DEF SlotOf, CallInv
  <2>4. \A r \in records' : r = usage \/ r \in records
    BY <1>1
  <2> QED BY <1>0, <1>1, <1>4, <2>1, <2>2, <2>3, <2>4 DEF RecordInv, OpenOn, SlotOf
<1>11. SeenInv'
  <2>1. SUFFICES ASSUME NEW b \in billed, b.id.call = c, c \in NewCalls PROVE Seen(b)'
    <3>1. \A b \in billed : Seen(b) => Seen(b)'
      BY <1>1 DEF Seen, OpenOn
    <3> QED BY <1>0, <1>1, <1>4, <2>1, <3>1 DEF SeenInv
  <2>2. b.slot = slot[c] /\ activity[c] \in {None, b.id} /\ OpenOn(b.slot, today)
    BY <1>0, <2>1 DEF BillInv
  <2>3. usage.id.call = c /\ OpenOn(b.slot, usage.day)
    BY <1>b, <2>1, <2>2, FieldFacts DEF Names
  <2>4. CASE ~ Recorded(usage.id)
    BY <1>1, <2>1, <2>2, <2>3, <2>4 DEF Seen, OpenOn
  <2>5. CASE Recorded(usage.id)
    <3>1. PICK r \in records : r.id = usage.id
      BY <2>5 DEF Recorded
    <3>2. r \in UsageRecords
      BY <1>0, TypedState
    <3>3. r.scope = b.slot.scope /\ OpenOn(b.slot, r.day)
      <4>1. CASE usage.id = activity[c] /\ activity[c] # None
        <5>1. r.id = b.id /\ r.id.kind = "named"
          BY <1>0, <2>1, <2>2, <3>1, <4>1 DEF BillInv
        <5> QED BY <1>0, <2>1, <5>1 DEF RecordInv, BillInv
      <4>2. CASE usage.id = UnknownId(c)
        <5>1. b.slot = SlotOf(r)
          BY <1>0, <2>2, <3>1, <4>2, FieldFacts DEF RecordInv
        <5> QED BY <3>2, <5>1, SlotOfFacts
      <4> QED BY <4>1, <4>2 DEF Names
    <3>4. Seen(b)
      BY <2>1, <2>3, <3>1, <3>3 DEF Seen
    <3> QED BY <1>1, <3>4 DEF Seen, OpenOn
  <2> QED BY <2>4, <2>5
<1> QED BY <1>7, <1>8, <1>9, <1>10, <1>11

\* release_call() after a rejected submission, which started nothing.
LEMMA ReleaseAccount ==
  ASSUME AccountInv, NEW c \in NewCalls, ReleaseRejected(c)
  PROVE  HoldInv' /\ CallInv' /\ BillInv' /\ RecordInv' /\ SeenInv'
<1> USE DEF ghostVars
<1>0. TypeInv /\ HoldInv /\ CallInv /\ BillInv /\ RecordInv /\ SeenInv
  BY DEF AccountInv
<1>1. /\ Pop(hold[c]) /\ pc[c] = "rejected"
      /\ UNCHANGED <<records, nextReservation, today, slot, hold, activity, attempted, pending,
                     billed>>
  BY DEF ReleaseRejected, ReleaseCall
<1>2. pc'[c] = "raised" /\ \A d \in NewCalls : d # c => pc'[d] = pc[d]
  BY <1>0, TypedState DEF ReleaseRejected, Goto
<1>3. Begun(c) /\ ~ Posted(c) /\ Begun(c)' /\ Posted(c)' /\ ~ Live(c)'
  BY <1>1, <1>2 DEF Begun, Posted, Live
<1>4. \A d \in NewCalls : /\ Begun(d)' <=> Begun(d)
                          /\ Posted(d) => Posted(d)'
                          /\ d # c => (Live(d)' <=> Live(d))
  BY <1>2, <1>3 DEF Begun, Posted, Live
<1>5. HoldInv'
  BY <1>1, <1>2, <1>3, SettleHold
<1>6. CallInv'
  <2>1. \A d \in NewCalls : (pc[d] = "persisting" /\ pending[d].status = "completed" =>
          activity[d] # None /\ Recorded(activity[d]))'
    BY <1>0, <1>1, <1>2 DEF CallInv, Recorded
  <2> QED BY <1>0, <1>1, <1>4, <2>1 DEF CallInv
<1>7. BillInv'
  BY <1>0, <1>1, <1>4 DEF BillInv, OpenOn
<1>8. RecordInv'
  BY <1>0, <1>1, <1>4 DEF RecordInv, OpenOn, SlotOf
<1>9. \A b \in billed : b.id.call # c
  BY <1>0, <1>3 DEF BillInv
<1>10. SeenInv'
  BY <1>0, <1>1, <1>4, <1>9 DEF SeenInv, Seen, OpenOn
<1> QED BY <1>5, <1>6, <1>7, <1>8, <1>10

\* A call asks to be authorised.
LEMMA SubmitAccount ==
  ASSUME Budget \in Nat, AccountInv, NEW c \in NewCalls, Submit(c)
  PROVE  HoldInv' /\ CallInv' /\ BillInv' /\ RecordInv' /\ SeenInv'
<1>1. PICK s \in CallSlots : Start(c, s) \/ Refuse(c, s)
  BY DEF Submit
<1>2. CASE Start(c, s)
  BY <1>2, StartAccount
<1>3. CASE Refuse(c, s)
  <2>1. ~ Begun(c) /\ ~ Posted(c) /\ ~ Live(c)
    BY <1>3 DEF Refuse, Begun, Posted, Live
  <2> QED
    BY <1>3, <2>1, LocationFacts, MoveAccount DEF Refuse, ghostVars, LiveLocations
<1> QED BY <1>1, <1>2, <1>3

\* A call goes on after authorize().
LEMMA ProceedAccount ==
  ASSUME AccountInv, NEW c \in NewCalls, Proceed(c)
  PROVE  HoldInv' /\ CallInv' /\ BillInv' /\ RecordInv' /\ SeenInv'
<1> USE DEF ghostVars, storeVars
<1>0. TypeInv /\ HoldInv /\ CallInv /\ BillInv /\ RecordInv /\ SeenInv /\ c \in Calls
  BY DEF AccountInv, NewCalls
<1>a. /\ slot[c].scope \in Scopes
      /\ \A x \in ActivityIds, day \in 1 .. Days, status \in Statuses :
           Usage(c, x, day, status) \in UsageRecords
  BY <1>0, TypedState, SlotFacts, UsageType DEF TypeInv
<1>1. ASSUME NEW id \in AnswerIds(c), PostAnswered(c, id)
      PROVE  HoldInv' /\ CallInv' /\ BillInv' /\ RecordInv' /\ SeenInv'
  <2>1. ~ Posted(c) /\ \A b \in billed : b.id.call # c
    BY <1>0, <1>1 DEF PostAnswered, Posted, BillInv
  <2>2. StartedActivity(c) \notin billed
    BY <2>1, FieldFacts DEF StartedActivity
  <2>3. \E b \in billed' : b.id = id /\ b.slot.scope = slot[c].scope
    <3>1. CASE id = ProviderId(c)
      <4>1. StartedActivity(c) \in billed'
        BY <1>1, <3>1 DEF PostAnswered
      <4> QED BY <3>1, <4>1 DEF StartedActivity
    <3>2. CASE id # ProviderId(c)
      <4>1. \E b \in billed : b.id = id /\ b.slot.scope = slot[c].scope
        BY <3>2 DEF AnswerIds
      <4> QED BY <1>1, <3>2, <4>1 DEF PostAnswered
    <3> QED BY <3>1, <3>2
  <2>4. billed' \in {billed, billed \cup {StartedActivity(c)}}
    BY <1>1 DEF PostAnswered
  <2>5. StartedActivity(c) \in billed' => id = ProviderId(c)
    BY <1>1, <2>2 DEF PostAnswered
  <2> QED
    BY <1>1, <2>3, <2>4, <2>5, PostAccount DEF PostAnswered
<1>2. CASE PostAmbiguous(c)
  <2>1. activity[c] = None
    BY <1>0, <1>2 DEF PostAmbiguous, CallInv, Posted
  <2>2. activity' = [activity EXCEPT ![c] = None]
    BY <1>0, <1>2, <2>1, TypedState DEF PostAmbiguous
  <2> QED
    BY <1>2, <2>2, PostAccount DEF PostAmbiguous
<1>3. CASE PostRejected(c)
  <2>1. Begun(c) /\ ~ Posted(c) /\ Live(c) /\ Holds(c)
    BY <1>0, <1>3 DEF PostRejected, Begun, Posted, Live, HoldInv, Rerecords
  <2>2. /\ "rejected" \in Locations /\ Goto(c, "rejected")
        /\ UNCHANGED <<ledgerVars, today, slot, hold, activity, attempted, pending, billed>>
    BY <1>3, LocationFacts DEF PostRejected
  <2>3. "rejected" \in LiveLocations /\ "rejected" \notin {"idle", "refused", "persisting"}
    BY DEF LiveLocations
  <2> QED
    BY <2>1, <2>2, <2>3, MoveAccount
<1>4. CASE PollEnds(c)
  <2>1. Begun(c) /\ Posted(c) /\ Live(c) /\ Holds(c)
    BY <1>0, <1>4 DEF PollEnds, Begun, Posted, Live, HoldInv, Rerecords
  <2>2. PICK ending \in {"completing", "failed"} : Goto(c, ending)
    BY <1>4 DEF PollEnds
  <2>3. /\ ending \in Locations
        /\ UNCHANGED <<ledgerVars, today, slot, hold, activity, attempted, pending, billed>>
    BY <1>4, LocationFacts DEF PollEnds
  <2>4. ending \in LiveLocations
        /\ ending \notin {"idle", "refused", "posting", "rejected", "persisting"}
    BY DEF LiveLocations
  <2> QED
    BY <2>1, <2>2, <2>3, <2>4, MoveAccount
<1>5. CASE RecordCompleted(c)
  <2> DEFINE usage == Usage(c, activity[c], today, "completed")
  <2>1. activity[c] \in ActivityIds /\ activity[c] # None
    BY <1>0, <1>5, IdAssumption DEF RecordCompleted, TypeInv
  <2>2. usage \in UsageRecords
    BY <1>0, <1>a, <2>1, TypedState DEF Statuses
  <2>3. usage.scope = slot[c].scope /\ Names(c, usage)
    BY <2>1 DEF Usage, Names
  <2>4. pc[c] \in {"completing", "failed"} /\ RecordUsage(c, usage, "returned")
    BY <1>5 DEF RecordCompleted
  <2> HIDE DEF usage
  <2> QED
    BY <2>2, <2>3, <2>4, RecordAccount
<1>6. CASE RecordSubmitted(c)
  <2> DEFINE usage == Usage(c, activity[c], today, "submitted")
  <2>1. activity[c] \in ActivityIds /\ activity[c] # None
    BY <1>0, <1>6, TypedState DEF RecordSubmitted
  <2>2. usage \in UsageRecords
    BY <1>0, <1>a, <2>1, TypedState DEF Statuses
  <2>3. usage.scope = slot[c].scope /\ Names(c, usage)
    BY <2>1 DEF Usage, Names
  <2>4. pc[c] \in {"completing", "failed"} /\ RecordUsage(c, usage, "raised")
    BY <1>6 DEF RecordSubmitted
  <2> HIDE DEF usage
  <2> QED
    BY <2>2, <2>3, <2>4, RecordAccount
<1>7. CASE RecordUnknown(c)
  <2> DEFINE usage == Usage(c, UnknownId(c), attempted[c], "submission_unknown")
  <2>1. usage \in UsageRecords
    BY <1>0, <1>a, IdFacts, TypedState DEF Statuses
  <2>2. usage.scope = slot[c].scope /\ Names(c, usage)
    BY <1>7 DEF RecordUnknown, Usage, Names
  <2>3. pc[c] \in {"completing", "failed"} /\ RecordUsage(c, usage, "raised")
    BY <1>7 DEF RecordUnknown
  <2> HIDE DEF usage
  <2> QED
    BY <2>1, <2>2, <2>3, RecordAccount
<1>8. CASE ReleaseRejected(c)
  BY <1>8, ReleaseAccount
<1>9. CASE RaiseUnreserved(c)
  BY <1>0, <1>9 DEF RaiseUnreserved, HoldInv, Begun
<1>10. CASE Persist(c)
  <2>1. Begun(c) /\ Posted(c) /\ ~ Live(c)
    BY <1>10 DEF Persist, Begun, Posted, Live
  <2>2. PICK ending \in {"returned", "raised"} : Goto(c, ending)
    BY <1>10 DEF Persist
  <2> QED
    BY <1>10, <2>1, <2>2, LocationFacts, MoveAccount DEF Persist, LiveLocations
<1>11. CASE PersistFails(c)
  <2>1. Begun(c) /\ Posted(c) /\ ~ Live(c)
    BY <1>11 DEF PersistFails, Begun, Posted, Live
  <2>2. PICK ending \in {"failed", "raised"} :
          /\ Goto(c, ending)
          /\ ending = "failed" => activity[c] # None /\ Recorded(activity[c])
    BY <1>0, <1>11 DEF PersistFails, CallInv
  <2> QED
    BY <1>11, <2>1, <2>2, LocationFacts, MoveAccount DEF PersistFails, LiveLocations
<1> QED
  BY <1>1, <1>2, <1>3, <1>4, <1>5, <1>6, <1>7, <1>8, <1>9, <1>10, <1>11 DEF Proceed

\* The agreement is inductive, provided a core budget is configured.
LEMMA StepAccount ==
  ASSUME Budget \in Nat, AccountInv, [Next]_vars
  PROVE  AccountInv'
<1>0. TypeInv /\ HoldInv /\ CallInv /\ BillInv /\ RecordInv /\ SeenInv
  BY DEF AccountInv
<1>1. TypeInv'
  BY <1>0, StepType
<1>2. ASSUME NEW c \in NewCalls, Submit(c) \/ Proceed(c)
      PROVE  HoldInv' /\ CallInv' /\ BillInv' /\ RecordInv' /\ SeenInv'
  BY <1>2, SubmitAccount, ProceedAccount
<1>3. CASE Midnight
  <2>1. today' = today + 1
        /\ UNCHANGED <<ledgerVars, pc, slot, hold, activity, attempted, pending, billed>>
    BY <1>3 DEF Midnight, ghostVars
  <2>2. HoldInv'
    BY <1>0, <2>1 DEF HoldInv, Begun, Live, Holds, Rerecords, Recorded, ledgerVars
  <2>3. CallInv'
    BY <1>0, <2>1, TypedState DEF CallInv, Begun, Posted, Recorded, ledgerVars
  <2>4. BillInv'
    <3>1. \A b \in billed : OpenOn(b.slot, today) => OpenOn(b.slot, today')
      <4>1. \A b \in billed : b.slot = CoreSlot \/ \E d \in 1 .. Days : b.slot = EnrichmentSlot(d)
        BY <1>0, TypedState DEF Activities, Slots
      <4> QED BY <1>0, <2>1, <4>1, FieldFacts, TypedState DEF OpenOn
    <3> QED BY <1>0, <2>1, <3>1 DEF BillInv, Begun, Posted
  <2>5. RecordInv'
    <3>1. \A r \in records : r.day \in Int
      BY <1>0, TypedState DEF UsageRecords
    <3> QED BY <1>0, <2>1, <3>1, TypedState DEF RecordInv, Begun, OpenOn, SlotOf, ledgerVars
  <2>6. SeenInv'
    BY <1>0, <2>1 DEF SeenInv, Seen, Live, OpenOn, ledgerVars
  <2> QED BY <1>1, <2>2, <2>3, <2>4, <2>5, <2>6 DEF AccountInv
<1>4. CASE UNCHANGED vars
  <2>1. UNCHANGED <<ledgerVars, today, pc, slot, hold, activity, attempted, pending, billed>>
    BY <1>4 DEF vars, callVars, ghostVars
  <2>2. HoldInv'
    BY <1>0, <2>1 DEF HoldInv, Begun, Live, Holds, Rerecords, Recorded, ledgerVars
  <2>3. CallInv'
    BY <1>0, <2>1 DEF CallInv, Begun, Posted, Recorded, ledgerVars
  <2>4. BillInv' /\ RecordInv' /\ SeenInv'
    BY <1>0, <2>1 DEF BillInv, RecordInv, SeenInv, Seen, Begun, Posted, Live, OpenOn, SlotOf,
                      ledgerVars
  <2> QED BY <1>1, <2>2, <2>3, <2>4 DEF AccountInv
<1>5. CASE \E c \in NewCalls : Submit(c) \/ Proceed(c)
  BY <1>1, <1>2, <1>5 DEF AccountInv
<1> QED BY <1>3, <1>4, <1>5 DEF Next, Idle

\* The agreement holds of whatever an earlier process left in the file.
LEMMA InitAccount == Init => AccountInv
<1> SUFFICES ASSUME Init PROVE AccountInv
  OBVIOUS
<1>1. PICK history \in Histories :
        /\ LedgerInit(history)
        /\ billed = {[id |-> r.id, slot |-> SlotOf(r)] : r \in history}
  BY DEF Init
<1>2. TypeInv
  BY InitTypeInv
<1>3. /\ records = history /\ DOMAIN reservations = {}
      /\ today = 1 /\ history \subseteq PastRecords
      /\ \A r, s \in history : r.id = s.id => r = s
      /\ \A c \in NewCalls :
           pc[c] = "idle" /\ hold[c] = None /\ activity[c] = None /\ attempted[c] = 1
  BY <1>1 DEF LedgerInit, Histories, Init
<1>4. \A r \in records :
        /\ r \in UsageRecords /\ r.day = 1
        /\ r.id.kind = "named" /\ r.id.call \in PastCalls
  BY <1>2, <1>3, TypedState, FieldFacts DEF PastRecords
<1>5. \A b \in billed : \E r \in records : b = [id |-> r.id, slot |-> SlotOf(r)]
  BY <1>1, <1>3
<1>6. \A r \in records : /\ [id |-> r.id, slot |-> SlotOf(r)] \in billed
                         /\ SlotOf(r).scope = r.scope /\ OpenOn(SlotOf(r), 1)
  BY <1>1, <1>3, <1>4, SlotOfFacts
<1>7. \A c \in NewCalls : c \notin PastCalls /\ ~ Begun(c) /\ ~ Posted(c) /\ ~ Live(c)
  BY <1>3 DEF NewCalls, Begun, Posted, Live
<1>8. HoldInv
  BY <1>3, <1>7 DEF HoldInv
<1>9. CallInv
  BY <1>3, <1>7 DEF CallInv
<1>10. BillInv
  BY <1>3, <1>4, <1>5, <1>6, <1>7 DEF BillInv
<1>11. RecordInv
  <2>1. \A r \in records : \E b \in billed :
          b.id = r.id /\ b.slot.scope = r.scope /\ OpenOn(b.slot, r.day)
    <3> TAKE r \in records
    <3>1. [id |-> r.id, slot |-> SlotOf(r)] \in billed
      BY <1>3, <1>6
    <3> WITNESS [id |-> r.id, slot |-> SlotOf(r)] \in billed
    <3> QED BY <1>3, <1>4, <1>6
  <2> QED BY <1>3, <1>4, <2>1 DEF RecordInv
<1>12. SeenInv
  BY <1>3, <1>4, <1>5, <1>6 DEF SeenInv, Seen
<1> QED BY <1>2, <1>8, <1>9, <1>10, <1>11, <1>12 DEF AccountInv

(***************************************************************************)
(* II.3  No slot is committed beyond its limit.                            *)
(***************************************************************************)

\* The sets that are counted are finite, because the calls are.
LEMMA RecordsFinite == TypeInv => IsFiniteSet(records)
<1> SUFFICES ASSUME TypeInv PROVE IsFiniteSet(records)
  OBVIOUS
<1> DEFINE Kinds == {"named", "unknown"}
           S == ((Calls \X Kinds) \X (Scopes \X Statuses)) \X (1 .. Days)
           f == [x \in S |-> [id |-> [call |-> x[1][1][1], kind |-> x[1][1][2]],
                              scope |-> x[1][2][1], day |-> x[2], status |-> x[1][2][2]]]
<1>1. IsFiniteSet(S)
  <2>1. IsFiniteSet(Kinds) /\ IsFiniteSet(Scopes) /\ IsFiniteSet(Statuses)
    <3>1. IsFiniteSet({"named"}) /\ IsFiniteSet({"core"}) /\ IsFiniteSet({"completed"})
      BY FS_Singleton
    <3>2. Kinds = {"named"} \cup {"unknown"} /\ Scopes = {"core"} \cup {"enrichment"}
          /\ Statuses = ({"completed"} \cup {"submitted"}) \cup {"submission_unknown"}
      BY DEF Scopes, Statuses
    <3>3. IsFiniteSet({"completed"} \cup {"submitted"})
      BY <3>1, FS_AddElement
    <3> QED BY <3>1, <3>2, <3>3, FS_AddElement
  <2>2. IsFiniteSet(1 .. Days)
    BY DaysAssumption, FS_Interval
  <2>3. IsFiniteSet(Calls \X Kinds) /\ IsFiniteSet(Scopes \X Statuses)
    BY <2>1, FS_Product, PastCallsAssumption
  <2>4. IsFiniteSet((Calls \X Kinds) \X (Scopes \X Statuses))
    BY <2>3, FS_Product
  <2> QED BY <2>2, <2>4, FS_Product
<1>2. f \in Surjection(S, UsageRecords)
  <2>1. f \in [S -> UsageRecords]
    BY DEF UsageRecords, ActivityIds
  <2>2. ASSUME NEW r \in UsageRecords PROVE \E x \in S : f[x] = r
    <3> DEFINE x == <<<<<<r.id.call, r.id.kind>>, <<r.scope, r.status>>>>, r.day>>
    <3>1. x \in S
      BY DEF UsageRecords, ActivityIds
    <3>2. f[x] = r
      BY <3>1 DEF UsageRecords, ActivityIds
    <3> QED BY <3>1, <3>2
  <2> QED BY <2>1, <2>2 DEF Surjection
<1>3. IsFiniteSet(UsageRecords)
  <2> HIDE DEF f, S
  <2> QED BY <1>1, <1>2, FS_Surjection
<1> QED BY <1>3, TypedState, FS_Subset

\* Reservation numbers are bounded by the last one given out.
LEMMA ReservationsFinite ==
  ASSUME TypeInv, NEW s PROVE IsFiniteSet(ReservedFor(s))
<1>1. IsFiniteSet(1 .. nextReservation)
  BY TypedState, FS_Interval
<1> QED BY <1>1, TypedState, FS_Subset DEF ReservedFor

\* The committed calls, and the charged ones, are calls.
LEMMA CallsFinite ==
  ASSUME TypeInv, NEW s
  PROVE  /\ IsFiniteSet(Committed(s))
         /\ IsFiniteSet({b.id.call : b \in ChargedTo(s)})
<1>1. Committed(s) \subseteq Calls
  BY TypedState DEF Committed, ChargedTo, Activities, ActivityIds, NewCalls
<1> QED BY <1>1, PastCallsAssumption, FS_Subset DEF Committed

\* The calls that may have taken a unit are no more than the records that count
\* for the slot and the reservations of the slot: what authorize() looks at.
LEMMA CommittedIsCounted ==
  ASSUME AccountInv, NEW s \in CallSlots
  PROVE  Cardinality(Committed(s)) <= Cardinality(UsedBy(s)) + Cardinality(ReservedFor(s))
<1>0. TypeInv /\ HoldInv /\ CallInv /\ BillInv /\ RecordInv /\ SeenInv
  BY DEF AccountInv
<1> DEFINE RC == {r.id.call : r \in UsedBy(s)}
           HC == {c \in NewCalls : hold[c] \in ReservedFor(s)}
           f == [r \in UsedBy(s) |-> r.id.call]
           g == [c \in HC |-> hold[c]]
<1>1. IsFiniteSet(UsedBy(s)) /\ IsFiniteSet(ReservedFor(s))
  BY <1>0, RecordsFinite, ReservationsFinite, FS_Subset DEF UsedBy
<1>2. IsFiniteSet(RC) /\ Cardinality(RC) <= Cardinality(UsedBy(s))
  <2>1. f \in Surjection(UsedBy(s), RC)
    BY DEF Surjection
  <2> HIDE DEF f, RC
  <2> QED BY <1>1, <2>1, FS_Surjection
<1>3. IsFiniteSet(HC) /\ Cardinality(HC) <= Cardinality(ReservedFor(s))
  <2>1. \A c \in HC : hold[c] # None
    BY <1>0, TypedState, NoneAssumption DEF ReservedFor
  <2>2. g \in Injection(HC, ReservedFor(s))
    BY <1>0, <2>1 DEF Injection, IsInjective, HoldInv
  <2> HIDE DEF g, HC
  <2> QED BY <1>1, <2>2, FS_Injection
<1>4. Committed(s) \subseteq RC \cup HC
  <2>1. SUFFICES ASSUME NEW b \in ChargedTo(s) PROVE b.id.call \in RC \cup HC
    BY <2>1 DEF Committed
  <2>2. b \in billed /\ b.slot = s
    BY DEF ChargedTo
  <2>3. CASE Seen(b)
    <3>1. PICK r \in records : r.id.call = b.id.call /\ r.scope = s.scope /\ OpenOn(s, r.day)
      BY <2>2, <2>3 DEF Seen
    <3>2. r.day \in 1 .. Days /\ r.day <= today
      BY <1>0, TypedState DEF RecordInv, UsageRecords
    <3>3. s.day \in {None, r.day}
      BY <1>0, <3>1, <3>2, FieldFacts, TypedState DEF CallSlots, OpenOn
    <3> QED BY <3>1, <3>3 DEF UsedBy
  <2>4. CASE ~ Seen(b)
    <3>1. b.id.call \in NewCalls /\ Live(b.id.call) /\ slot[b.id.call] = s
      BY <1>0, <2>2, <2>4 DEF SeenInv, BillInv
    <3>2. ~ Rerecords(b.id.call)
      <4>1. SUFFICES ASSUME Rerecords(b.id.call) PROVE FALSE
        OBVIOUS
      <4>2. PICK r \in records : r.id = b.id
        BY <1>0, <2>2, <3>1, <4>1 DEF Rerecords, Recorded, BillInv
      <4>3. PICK e \in billed : e.id = r.id /\ e.slot.scope = r.scope /\ OpenOn(e.slot, r.day)
        BY <1>0, <2>2, <4>2 DEF RecordInv, BillInv
      <4> QED BY <1>0, <2>2, <2>4, <4>2, <4>3 DEF BillInv, Seen
    <3>3. Holds(b.id.call)
      BY <1>0, <3>1, <3>2 DEF HoldInv
    <3> QED BY <3>1, <3>3 DEF Holds, ReservedFor
  <2> QED BY <2>3, <2>4
<1>5. /\ IsFiniteSet(RC \cup HC)
      /\ Cardinality(RC \cup HC) = Cardinality(RC) + Cardinality(HC) - Cardinality(RC \cap HC)
      /\ Cardinality(RC \cap HC) \in Nat
  <2> HIDE DEF RC, HC
  <2>1. IsFiniteSet(RC \cap HC)
    BY <1>2, FS_Subset
  <2> QED BY <1>2, <1>3, <2>1, FS_Union, FS_CardinalityType
<1>6. Cardinality(Committed(s)) <= Cardinality(RC \cup HC)
  <2> HIDE DEF RC, HC
  <2> QED BY <1>4, <1>5, FS_Subset
<1>7. /\ Cardinality(RC) \in Nat /\ Cardinality(HC) \in Nat
      /\ Cardinality(UsedBy(s)) \in Nat /\ Cardinality(ReservedFor(s)) \in Nat
      /\ Cardinality(Committed(s)) \in Nat
  <2>1. IsFiniteSet(Committed(s))
    BY <1>0, CallsFinite
  <2> HIDE DEF RC, HC
  <2> QED BY <1>1, <1>2, <1>3, <2>1, FS_CardinalityType
<1> HIDE DEF RC, HC
<1> QED BY <1>2, <1>3, <1>5, <1>6, <1>7

\* Nothing but authorize() makes a call commit to a unit.
LEMMA OnlyStartCommits ==
  ASSUME AccountInv, AccountInv', [Next]_vars, NEW s \in Slots
  PROVE  \/ Committed(s)' \subseteq Committed(s)
         \/ \E c \in NewCalls : /\ s \in CallSlots /\ Authorize(s)
                                /\ Committed(s)' \subseteq Committed(s) \cup {c}
<1> USE DEF ledgerVars, storeVars, ghostVars
<1>0. TypeInv /\ HoldInv /\ BillInv
  BY DEF AccountInv
<1>1. ASSUME NEW c \in NewCalls, NEW t \in CallSlots, Start(c, t)
      PROVE  \/ Committed(s)' \subseteq Committed(s)
             \/ \E d \in NewCalls : /\ s \in CallSlots /\ Authorize(s)
                                    /\ Committed(s)' \subseteq Committed(s) \cup {d}
  <2>1. /\ Authorize(t) /\ billed' = billed /\ hold' = [hold EXCEPT ![c] = Granted(t)]
    BY <1>1 DEF Start
  <2>2. ReservedFor(s)' \subseteq
          ReservedFor(s) \cup (IF s = t THEN {Granted(t)} ELSE {})
    BY <1>0, <2>1, TypedState DEF Authorize, ReservedFor
  <2>3. Granted(t) \notin ReservedFor(s)
    BY <1>0, TypedState, NoneAssumption DEF Granted, ReservedFor
  <2>4. \A d \in NewCalls : d # c => hold'[d] = hold[d]
    BY <1>0, <2>1, TypedState
  <2>5. \A d \in NewCalls : hold[d] # Granted(t) \/ hold[d] = None
    BY <1>0, TypedState DEF HoldInv, Granted
  <2>6. \A i \in ReservedFor(s)' : i # None
    <3>1. DOMAIN reservations' \subseteq 1 .. nextReservation' /\ nextReservation' \in Nat
      BY DEF AccountInv, TypeInv, TypeOK, LedgerTypeOK
    <3> QED BY <3>1, NoneAssumption DEF ReservedFor
  <2>7. \A d \in NewCalls : d # c /\ hold'[d] \in ReservedFor(s)' => hold[d] \in ReservedFor(s)
    BY <2>2, <2>4, <2>5, <2>6
  <2>8. ChargedTo(s)' = ChargedTo(s)
    BY <2>1 DEF ChargedTo
  <2>9. Committed(s)' \subseteq Committed(s) \cup {c}
    BY <2>7, <2>8 DEF Committed
  <2>10. CASE s = t
    BY <2>1, <2>9, <2>10
  <2>11. CASE s # t
    <3>1. hold'[c] = Granted(t)
      BY <1>0, <2>1, TypedState
    <3>2. hold'[c] \notin ReservedFor(s)'
      BY <2>2, <2>3, <2>11, <3>1
    <3> QED BY <2>7, <2>8, <3>2 DEF Committed
  <2> QED BY <2>10, <2>11
<1>2. ASSUME NEW c \in NewCalls, pc[c] = "posting", hold' = hold, ledgerVars' = ledgerVars,
             slot[c] = s \/ billed' = billed,
             billed' \in {billed, billed \cup {StartedActivity(c)}}
      PROVE  Committed(s)' \subseteq Committed(s)
  <2>1. ReservedFor(s)' = ReservedFor(s)
    BY <1>2 DEF ReservedFor
  <2>2. slot[c] = s => hold[c] \in ReservedFor(s)
    BY <1>0, <1>2 DEF HoldInv, Live, Rerecords, Holds, ReservedFor
  <2>3. \A b \in billed' \ billed : b.id.call = c /\ slot[c] = s
    BY <1>2, FieldFacts DEF StartedActivity
  <2> QED BY <1>2, <2>1, <2>2, <2>3 DEF Committed, ChargedTo
<1>3. ASSUME hold' = hold, ReservedFor(s)' \subseteq ReservedFor(s),
             ChargedTo(s)' = ChargedTo(s)
      PROVE  Committed(s)' \subseteq Committed(s)
  BY <1>3 DEF Committed
<1>4. ASSUME NEW c \in NewCalls, Pop(hold[c]) PROVE ReservedFor(s)' \subseteq ReservedFor(s)
  BY <1>4 DEF Pop, ReservedFor
<1>5. ASSUME ledgerVars' = ledgerVars PROVE ReservedFor(s)' = ReservedFor(s)
  BY <1>5 DEF ReservedFor
<1>6. ASSUME billed' = billed PROVE ChargedTo(s)' = ChargedTo(s)
  BY <1>6 DEF ChargedTo
<1>7. ASSUME NEW c \in NewCalls, pc[c] = "posting", hold' = hold, ledgerVars' = ledgerVars,
             billed' \in {billed, billed \cup {StartedActivity(c)}}
      PROVE  Committed(s)' \subseteq Committed(s)
  <2>1. CASE slot[c] = s
    BY <1>2, <1>7, <2>1
  <2>2. CASE slot[c] # s
    <3>1. ChargedTo(s)' = ChargedTo(s)
      BY <1>7, <2>2 DEF ChargedTo, StartedActivity
    <3> QED BY <1>3, <1>5, <1>7, <3>1
  <2> QED BY <2>1, <2>2
<1>8. ASSUME NEW c \in NewCalls, Proceed(c) PROVE Committed(s)' \subseteq Committed(s)
  <2>1. ASSUME NEW id \in AnswerIds(c), PostAnswered(c, id)
        PROVE  Committed(s)' \subseteq Committed(s)
    BY <1>7, <2>1 DEF PostAnswered
  <2>2. CASE PostAmbiguous(c)
    BY <1>7, <2>2 DEF PostAmbiguous
  <2>3. CASE RecordCompleted(c) \/ RecordSubmitted(c) \/ RecordUnknown(c) \/ ReleaseRejected(c)
    <3>1. Pop(hold[c]) /\ hold' = hold /\ billed' = billed
      BY <2>3 DEF RecordCompleted, RecordSubmitted, RecordUnknown, ReleaseRejected,
                  RecordUsage, Record, ReleaseCall
    <3> QED BY <1>3, <1>4, <1>6, <3>1
  <2>4. CASE PostRejected(c) \/ PollEnds(c) \/ RaiseUnreserved(c) \/ Persist(c) \/ PersistFails(c)
    <3>1. ledgerVars' = ledgerVars /\ hold' = hold /\ billed' = billed
      BY <2>4 DEF PostRejected, PollEnds, RaiseUnreserved, Persist, PersistFails
    <3> QED BY <1>3, <1>5, <1>6, <3>1
  <2> QED BY <1>8, <2>1, <2>2, <2>3, <2>4 DEF Proceed
<1>9. ASSUME NEW c \in NewCalls, NEW t \in CallSlots, Refuse(c, t)
      PROVE  Committed(s)' \subseteq Committed(s)
  <2>1. ledgerVars' = ledgerVars /\ hold' = hold /\ billed' = billed
    BY <1>9 DEF Refuse
  <2> QED BY <1>3, <1>5, <1>6, <2>1
<1>10. CASE Midnight \/ UNCHANGED vars
  <2>1. ledgerVars' = ledgerVars /\ hold' = hold /\ billed' = billed
    BY <1>10 DEF Midnight, vars, callVars
  <2> QED BY <1>3, <1>5, <1>6, <2>1
<1> QED BY <1>1, <1>8, <1>9, <1>10 DEF Next, Submit, Idle

\* What earlier processes were billed for does not change.
LEMMA InheritedFixed ==
  ASSUME AccountInv, AccountInv', [Next]_vars, NEW s \in Slots
  PROVE  Inherited(s)' = Inherited(s)
<1> USE DEF ghostVars
<1>1. billed' = billed \/ \E c \in NewCalls : billed' = billed \cup {StartedActivity(c)}
  <2>1. ASSUME NEW c \in NewCalls, Proceed(c)
        PROVE  billed' = billed \/ billed' = billed \cup {StartedActivity(c)}
    BY <2>1 DEF Proceed, PostAnswered, PostAmbiguous, PostRejected, PollEnds, RecordCompleted,
       RecordSubmitted, RecordUnknown, RecordUsage, ReleaseRejected, RaiseUnreserved, Persist,
       PersistFails
  <2>2. ASSUME NEW c \in NewCalls, Submit(c) PROVE billed' = billed
    BY <2>2 DEF Submit, Start, Refuse
  <2>3. CASE Midnight \/ UNCHANGED vars
    BY <2>3 DEF Midnight, vars
  <2> QED BY <2>1, <2>2, <2>3 DEF Next, Idle
<1>2. \A c \in NewCalls : StartedActivity(c).id.call \notin PastCalls
  BY FieldFacts DEF StartedActivity, NewCalls
<1> QED BY <1>1, <1>2 DEF Inherited, ChargedTo

\* Larger is an upper bound of both.
LEMMA LargerFacts ==
  ASSUME NEW m \in Nat, NEW n \in Nat
  PROVE  Larger(m, n) \in Nat /\ Larger(m, n) >= m /\ Larger(m, n) >= n
BY DEF Larger

\* Seen through b.id.call, the charged activities lose none: an id is billed once.
LEMMA ChargedCalls ==
  ASSUME AccountInv, NEW s, NEW T, T \subseteq ChargedTo(s)
  PROVE  /\ IsFiniteSet(T)
         /\ Cardinality(T) = Cardinality({b.id.call : b \in T})
         /\ IsFiniteSet({b.id.call : b \in T})
<1> DEFINE C == {b.id.call : b \in T}
           f == [b \in T |-> b.id.call]
<1>0. TypeInv /\ BillInv /\ T \subseteq billed
  BY DEF AccountInv, ChargedTo
<1>1. IsFiniteSet(C)
  <2>1. C \subseteq {b.id.call : b \in ChargedTo(s)}
    OBVIOUS
  <2> QED BY <1>0, <2>1, CallsFinite, FS_Subset
<1>2. \A b, e \in T : b.id.call = e.id.call => b = e
  <2>1. \A b \in T : b.id \in ActivityIds /\ b.id.kind = "named"
    BY <1>0, TypedState DEF Activities, BillInv
  <2>2. \A b \in T : b.id = ProviderId(b.id.call)
    BY <2>1, IdParts
  <2> QED BY <1>0, <2>2 DEF BillInv
<1>3. f \in Injection(T, C) /\ f \in Surjection(T, C)
  BY <1>2 DEF Injection, IsInjective, Surjection
<1> HIDE DEF f, C
<1>4. IsFiniteSet(T)
  BY <1>1, <1>3, FS_Injection
<1>5. Cardinality(T) = Cardinality(C)
  BY <1>1, <1>3, FS_Injection
<1> QED BY <1>1, <1>4, <1>5 DEF C

\* At first only the inherited activities are committed.
LEMMA InitCommitted == Init => CommittedInv
<1> SUFFICES ASSUME Init, NEW s \in Slots, Limit(s) # None
             PROVE  Cardinality(Committed(s)) <= Larger(Limit(s), Cardinality(Inherited(s)))
  BY DEF CommittedInv
<1>0. AccountInv /\ TypeInv
  BY InitAccount DEF AccountInv
<1>1. PICK history \in Histories :
        /\ LedgerInit(history)
        /\ billed = {[id |-> r.id, slot |-> SlotOf(r)] : r \in history}
  BY DEF Init
<1>2. ChargedTo(s) = Inherited(s)
  <2>1. \A r \in history : r.id.call \in PastCalls
    BY <1>1, FieldFacts DEF Histories, PastRecords
  <2> QED BY <1>1, <2>1 DEF ChargedTo, Inherited
<1>3. \A c \in NewCalls : hold[c] \notin ReservedFor(s)
  BY <1>1 DEF LedgerInit, ReservedFor
<1>4. Committed(s) = {b.id.call : b \in ChargedTo(s)}
  BY <1>3 DEF Committed
<1>5. Cardinality(Committed(s)) = Cardinality(Inherited(s)) /\ IsFiniteSet(Inherited(s))
  BY <1>0, <1>2, <1>4, ChargedCalls
<1>6. Limit(s) \in Nat /\ Cardinality(Inherited(s)) \in Nat
  BY <1>5, FS_CardinalityType, BudgetAssumption DEF Limit
<1> QED BY <1>5, <1>6, LargerFacts

\* authorize() commits a call only below the limit; nothing else commits any.
LEMMA StepCommitted ==
  ASSUME Budget \in Nat, AccountInv, AccountInv', CommittedInv, [Next]_vars
  PROVE  CommittedInv'
<1> SUFFICES ASSUME NEW s \in Slots, Limit(s) # None
             PROVE  Cardinality(Committed(s)') <= Larger(Limit(s), Cardinality(Inherited(s)))
  BY InheritedFixed DEF CommittedInv, Limit
<1>0. TypeInv /\ TypeInv'
  BY DEF AccountInv
<1>1. /\ Limit(s) \in Nat /\ Cardinality(Inherited(s)) \in Nat
      /\ IsFiniteSet(Committed(s)) /\ Cardinality(Committed(s)) \in Nat
  <2>1. IsFiniteSet(Inherited(s))
    BY ChargedCalls DEF Inherited
  <2>2. IsFiniteSet(Committed(s))
    BY <1>0, CallsFinite
  <2> QED BY <2>1, <2>2, FS_CardinalityType, BudgetAssumption DEF Limit
<1>2. Cardinality(Committed(s)) <= Larger(Limit(s), Cardinality(Inherited(s)))
  BY DEF CommittedInv
<1>3. CASE Committed(s)' \subseteq Committed(s)
  <2>1. Cardinality(Committed(s)') <= Cardinality(Committed(s))
        /\ IsFiniteSet(Committed(s)')
    BY <1>1, <1>3, FS_Subset
  <2>2. Cardinality(Committed(s)') \in Nat
    BY <2>1, FS_CardinalityType
  <2> QED BY <1>1, <1>2, <2>1, <2>2, LargerFacts
<1>4. ASSUME NEW c \in NewCalls, s \in CallSlots, Authorize(s),
             Committed(s)' \subseteq Committed(s) \cup {c}
      PROVE  Cardinality(Committed(s)') <= Larger(Limit(s), Cardinality(Inherited(s)))
  <2>1. /\ IsFiniteSet(UsedBy(s)) /\ IsFiniteSet(ReservedFor(s))
    BY <1>0, RecordsFinite, ReservationsFinite, FS_Subset DEF UsedBy
  <2>2. Cardinality(UsedBy(s)) \in Nat /\ Cardinality(ReservedFor(s)) \in Nat
    BY <2>1, FS_CardinalityType
  <2>3. Cardinality(UsedBy(s)) + Cardinality(ReservedFor(s)) < Limit(s)
    BY <1>1, <1>4, <2>2 DEF Authorize, Refuses, Remaining
  <2>4. Cardinality(Committed(s)) < Limit(s)
    BY <1>1, <1>4, <2>2, <2>3, CommittedIsCounted
  <2>5. /\ IsFiniteSet(Committed(s) \cup {c})
        /\ Cardinality(Committed(s) \cup {c}) <= Cardinality(Committed(s)) + 1
        /\ Cardinality(Committed(s) \cup {c}) \in Nat
    <3>1. /\ IsFiniteSet(Committed(s) \cup {c})
          /\ Cardinality(Committed(s) \cup {c}) =
               IF c \in Committed(s) THEN Cardinality(Committed(s))
               ELSE Cardinality(Committed(s)) + 1
      BY <1>1, FS_AddElement
    <3> QED BY <1>1, <3>1
  <2>6. /\ IsFiniteSet(Committed(s)')
        /\ Cardinality(Committed(s)') <= Cardinality(Committed(s) \cup {c})
    BY <1>4, <2>5, FS_Subset
  <2>7. Cardinality(Committed(s)') \in Nat
    BY <2>6, FS_CardinalityType
  <2> QED BY <1>1, <2>4, <2>5, <2>6, <2>7, LargerFacts
<1> QED BY <1>3, <1>4, OnlyStartCommits

(***************************************************************************)
(* II.4  The theorems.                                                     *)
(***************************************************************************)

(***************************************************************************)
(* The account of a client that has a core budget: types, reservations,    *)
(* calls, bills and records agree, and no slot is committed beyond its     *)
(* limit.                                                                  *)
(***************************************************************************)
THEOREM AccountInvariance ==
  ASSUME Budget \in Nat PROVE Spec => [](AccountInv /\ CommittedInv)
<1>1. Init => AccountInv /\ CommittedInv
  BY InitAccount, InitCommitted
<1>2. AccountInv /\ CommittedInv /\ [Next]_vars => (AccountInv /\ CommittedInv)'
  BY StepAccount, StepCommitted
<1> QED BY <1>1, <1>2, PTL DEF Spec

\* The charged activities are committed, so the limit bounds them too.
LEMMA CommittedBoundsCharged ==
  ASSUME AccountInv, CommittedInv, NEW s \in Slots PROVE WithinLimit(s)
<1> SUFFICES ASSUME Limit(s) # None
             PROVE  Cardinality(ChargedTo(s)) <= Larger(Limit(s), Cardinality(Inherited(s)))
  BY DEF WithinLimit
<1>0. TypeInv
  BY DEF AccountInv
<1> DEFINE C == {b.id.call : b \in ChargedTo(s)}
<1>1. Cardinality(ChargedTo(s)) = Cardinality(C) /\ IsFiniteSet(C)
  BY ChargedCalls
<1>2. C \subseteq Committed(s) /\ IsFiniteSet(Committed(s))
  BY <1>0, CallsFinite DEF Committed
<1>3. IsFiniteSet(Inherited(s))
  BY ChargedCalls DEF Inherited
<1> HIDE DEF C
<1>4. Cardinality(C) <= Cardinality(Committed(s))
  BY <1>2, FS_Subset
<1>5. /\ Cardinality(C) \in Nat /\ Cardinality(Committed(s)) \in Nat
      /\ Larger(Limit(s), Cardinality(Inherited(s))) \in Nat
  <2>1. Limit(s) \in Nat
    BY BudgetAssumption DEF Limit
  <2>2. Cardinality(Inherited(s)) \in Nat
    BY <1>3, FS_CardinalityType
  <2> QED BY <1>1, <1>2, <2>1, <2>2, FS_CardinalityType, LargerFacts
<1> QED BY <1>1, <1>4, <1>5 DEF CommittedInv

(***************************************************************************)
(* The provider never starts more core activities than the core budget     *)
(* allows, whatever the number of threads, however they interleave, and    *)
(* whether or not a budget is configured (without one there is no bound).  *)
(***************************************************************************)
THEOREM CoreBudgetSafe == Spec => []CoreBudgetRespected
<1>1. CASE Budget \in Nat
  <2>1. AccountInv /\ CommittedInv => CoreBudgetRespected
    BY CommittedBoundsCharged, SlotFacts DEF CoreBudgetRespected
  <2>2. Spec => [](AccountInv /\ CommittedInv)
    BY <1>1, AccountInvariance
  <2> QED BY <2>1, <2>2, PTL
<1>2. CASE Budget = None
  <2>1. CoreBudgetRespected
    BY <1>2 DEF CoreBudgetRespected, WithinLimit, Limit, CoreSlot
  <2> QED BY <2>1, PTL
<1> QED BY <1>1, <1>2, BudgetAssumption

(***************************************************************************)
(* With a core budget, the provider never starts more enrichment           *)
(* activities authorised on one UTC day than the enrichment budget allows, *)
(* though a record carries the day it is written and not that day.         *)
(* Without a core budget a core call settles an enrichment reservation     *)
(* that is not its own, and nothing is claimed.                            *)
(***************************************************************************)
THEOREM EnrichmentBudgetSafe ==
  ASSUME Budget \in Nat PROVE Spec => []EnrichmentBudgetRespected
<1>1. AccountInv /\ CommittedInv => EnrichmentBudgetRespected
  BY CommittedBoundsCharged, SlotFacts DEF EnrichmentBudgetRespected
<1> QED BY <1>1, AccountInvariance, PTL

(***************************************************************************)
(* With a core budget, the reservations are exactly those of the calls     *)
(* that have one to settle: none is left behind and none is taken.         *)
(***************************************************************************)
THEOREM ReservationsSettled ==
  ASSUME Budget \in Nat PROVE Spec => []ReservationsMatchCalls
<1>1. AccountInv => ReservationsMatchCalls
  BY DEF AccountInv, HoldInv, ReservationsMatchCalls, Holds, Rerecords
<1> QED BY <1>1, AccountInvariance, PTL

(***************************************************************************)
(* With a core budget, an activity the provider has started is at every    *)
(* moment either recorded or covered by the reservation of its call.       *)
(***************************************************************************)
THEOREM NothingUnseen ==
  ASSUME Budget \in Nat PROVE Spec => []NoUnseenActivity
<1>1. AccountInv => NoUnseenActivity
  <2>1. SUFFICES ASSUME AccountInv, NEW b \in billed, ~ Counted(b.id)
                 PROVE  Live(b.id.call) /\ Holds(b.id.call) /\ slot[b.id.call] = b.slot
    BY <2>1 DEF NoUnseenActivity, Holds
  <2>0. TypeInv /\ HoldInv /\ BillInv /\ SeenInv
    BY <2>1 DEF AccountInv
  <2>2. b.id \in ActivityIds /\ b.id = ProviderId(b.id.call)
    BY <2>0, TypedState, IdParts DEF Activities, BillInv
  <2>3. ~ Seen(b)
    <3>1. \A r \in records : r.id \in ActivityIds
      BY <2>0, TypedState DEF UsageRecords
    <3>2. \A r \in records : r.id.call = b.id.call =>
            r.id = b.id \/ r.id = UnknownId(b.id.call)
      BY <2>2, <3>1, IdParts
    <3> QED BY <2>1, <3>2 DEF Counted, Recorded, Seen
  <2>4. b.id.call \in NewCalls /\ Live(b.id.call) /\ slot[b.id.call] = b.slot
        /\ activity[b.id.call] \in {None, b.id}
    BY <2>0, <2>3 DEF SeenInv, BillInv
  <2>5. ~ Rerecords(b.id.call)
    BY <2>1, <2>4 DEF Rerecords, Counted
  <2> QED BY <2>0, <2>4, <2>5 DEF HoldInv
<1> QED BY <1>1, AccountInvariance, PTL

(***************************************************************************)
(* II.5  The core account is a CallBudget.                                 *)
(***************************************************************************)

CoreSpent == Cardinality(UsedBy(CoreSlot))
CoreHeld  == Cardinality(ReservedFor(CoreSlot))

\* Both sides of the core account are numbers.
LEMMA CoreAccountType ==
  ASSUME TypeInv
  PROVE  /\ IsFiniteSet(UsedBy(CoreSlot)) /\ IsFiniteSet(ReservedFor(CoreSlot))
         /\ CoreSpent \in Nat /\ CoreHeld \in Nat
<1>1. IsFiniteSet(UsedBy(CoreSlot)) /\ IsFiniteSet(ReservedFor(CoreSlot))
  BY RecordsFinite, ReservationsFinite, FS_Subset DEF UsedBy
<1> QED BY <1>1, FS_CardinalityType DEF CoreSpent, CoreHeld

\* authorize() reserves one unit of the core account, or none for an enrichment.
LEMMA StartRefines ==
  ASSUME Budget \in Nat, AccountInv, NEW c \in NewCalls, NEW s \in CallSlots, Start(c, s)
  PROVE  Account!Reserve \/ (CoreSpent' = CoreSpent /\ CoreHeld' = CoreHeld)
<1>0. TypeInv /\ s \in Slots
  BY TypedState, SlotFacts DEF AccountInv, CallSlots
<1> DEFINE n == nextReservation + 1
<1>1. /\ Authorize(s) /\ records' = records /\ n \notin DOMAIN reservations
      /\ reservations' = [i \in DOMAIN reservations \cup {n} |->
                            IF i = n THEN s ELSE reservations[i]]
  BY <1>0, TypedState, AuthorizeReserves DEF Start
<1>2. UsedBy(CoreSlot)' = UsedBy(CoreSlot)
  BY <1>1 DEF UsedBy
<1>3. CASE s = CoreSlot
  <2>1. ReservedFor(CoreSlot)' = ReservedFor(CoreSlot) \cup {n} /\ n \notin ReservedFor(CoreSlot)
    BY <1>1, <1>3 DEF ReservedFor
  <2>2. CoreHeld' = CoreHeld + 1
    BY <1>0, <2>1, CoreAccountType, FS_AddElement DEF CoreHeld
  <2>3. CoreSpent + CoreHeld < Budget
    <3>1. Limit(CoreSlot) = Budget /\ Budget # None
      BY FieldFacts, NoneAssumption DEF Limit
    <3>2. Remaining(CoreSlot) > 0
      BY <1>0, <1>1, <1>3, <3>1, CoreAccountType
         DEF Authorize, Refuses, Remaining, CoreSpent, CoreHeld
    <3> QED
      BY <1>0, <3>1, <3>2, CoreAccountType DEF Remaining, CoreSpent, CoreHeld
  <2> QED
    BY <1>2, <2>2, <2>3 DEF Account!Reserve, CoreSpent, CoreHeld
<1>4. CASE s # CoreSlot
  <2>1. ReservedFor(CoreSlot)' = ReservedFor(CoreSlot)
    BY <1>1, <1>4 DEF ReservedFor
  <2> QED BY <1>2, <2>1 DEF CoreSpent, CoreHeld
<1> QED BY <1>3, <1>4

\* The reservation a call gives up is one of its own slot.
LEMMA PopRefines ==
  ASSUME AccountInv, NEW c \in NewCalls, Begun(c), Pop(hold[c])
  PROVE  \/ /\ slot[c] = CoreSlot /\ hold[c] \in ReservedFor(CoreSlot)
            /\ CoreHeld > 0 /\ CoreHeld' = CoreHeld - 1
         \/ ~ (slot[c] = CoreSlot /\ hold[c] \in ReservedFor(CoreSlot)) /\ CoreHeld' = CoreHeld
<1>0. TypeInv /\ HoldInv
  BY DEF AccountInv
<1>1. hold[c] # None
  BY <1>0 DEF HoldInv
<1>2. reservations' = [i \in DOMAIN reservations \ {hold[c]} |-> reservations[i]]
  BY <1>1 DEF Pop, Popped
<1>3. ReservedFor(CoreSlot)' = ReservedFor(CoreSlot) \ {hold[c]}
  BY <1>2 DEF ReservedFor
<1>4. hold[c] \in ReservedFor(CoreSlot) => slot[c] = CoreSlot
  BY <1>0, <1>1 DEF HoldInv, ReservedFor
<1>5. CoreHeld' = IF hold[c] \in ReservedFor(CoreSlot) THEN CoreHeld - 1 ELSE CoreHeld
  BY <1>0, <1>3, CoreAccountType, FS_RemoveElement DEF CoreHeld
<1>6. CASE hold[c] \in ReservedFor(CoreSlot)
  <2>1. CoreHeld # 0
    BY <1>0, <1>6, CoreAccountType, FS_EmptySet DEF CoreHeld
  <2> QED BY <1>0, <1>4, <1>5, <1>6, <2>1, CoreAccountType
<1>7. CASE hold[c] \notin ReservedFor(CoreSlot)
  BY <1>5, <1>7
<1> QED BY <1>6, <1>7

\* record() spends the unit of the call, or puts it back if the activity is known.
LEMMA RecordRefines ==
  ASSUME AccountInv, NEW c \in NewCalls, pc[c] \in {"completing", "failed"},
         NEW usage, Record(usage, hold[c]), usage.scope = slot[c].scope, Names(c, usage)
  PROVE  \/ Account!Spend \/ Account!Refund
         \/ CoreSpent' = CoreSpent /\ CoreHeld' = CoreHeld
<1>0. TypeInv /\ HoldInv /\ Begun(c) /\ Live(c) /\ slot[c] \in Slots
  BY TypedState DEF AccountInv, Begun, Live
<1>1. \/ /\ slot[c] = CoreSlot /\ hold[c] \in ReservedFor(CoreSlot)
         /\ CoreHeld > 0 /\ CoreHeld' = CoreHeld - 1
      \/ ~ (slot[c] = CoreSlot /\ hold[c] \in ReservedFor(CoreSlot)) /\ CoreHeld' = CoreHeld
  BY <1>0, PopRefines DEF Record
<1>2. CASE Recorded(usage.id)
  <2>1. CoreSpent' = CoreSpent
    BY <1>2 DEF Record, CoreSpent, UsedBy
  <2> QED BY <1>1, <2>1 DEF Account!Refund, CoreSpent, CoreHeld
<1>3. CASE ~ Recorded(usage.id)
  <2>0. records' = records \cup {usage} /\ usage \notin records
    BY <1>3 DEF Record, Recorded
  <2>1. Holds(c)
    BY <1>0, <1>3 DEF HoldInv, Rerecords, Names
  <2>2. CASE slot[c] = CoreSlot
    <3>1. UsedBy(CoreSlot)' = UsedBy(CoreSlot) \cup {usage} /\ usage \notin UsedBy(CoreSlot)
      BY <2>0, <2>2, FieldFacts DEF UsedBy
    <3>2. CoreSpent' = CoreSpent + 1
      BY <1>0, <3>1, CoreAccountType, FS_AddElement DEF CoreSpent
    <3>3. hold[c] \in ReservedFor(CoreSlot)
      BY <2>1, <2>2 DEF Holds, ReservedFor
    <3> QED BY <1>1, <2>2, <3>2, <3>3 DEF Account!Spend, CoreSpent, CoreHeld
  <2>3. CASE slot[c] # CoreSlot
    <3>1. slot[c].scope # "core"
      BY <1>0, <2>3, SlotFacts
    <3>2. UsedBy(CoreSlot)' = UsedBy(CoreSlot)
      BY <2>0, <3>1, FieldFacts DEF UsedBy
    <3> QED BY <1>1, <2>3, <3>2 DEF CoreSpent
  <2> QED BY <2>2, <2>3
<1> QED BY <1>2, <1>3

\* Every step of the client is a step of the account or leaves it alone.
LEMMA StepRefines ==
  ASSUME Budget \in Nat, AccountInv, [Next]_vars
  PROVE  Account!Next \/ (CoreSpent' = CoreSpent /\ CoreHeld' = CoreHeld)
<1> USE DEF ghostVars, storeVars, ledgerVars
<1>1. ASSUME UNCHANGED ledgerVars PROVE CoreSpent' = CoreSpent /\ CoreHeld' = CoreHeld
  BY <1>1 DEF CoreSpent, CoreHeld, UsedBy, ReservedFor
<1>2. ASSUME NEW c \in NewCalls, Submit(c)
      PROVE  Account!Next \/ (CoreSpent' = CoreSpent /\ CoreHeld' = CoreHeld)
  <2>1. PICK s \in CallSlots : Start(c, s) \/ Refuse(c, s)
    BY <1>2 DEF Submit
  <2>2. CASE Start(c, s)
    BY <2>2, StartRefines DEF Account!Next
  <2>3. CASE Refuse(c, s)
    BY <1>1, <2>3 DEF Refuse
  <2> QED BY <2>1, <2>2, <2>3
<1>3. ASSUME NEW c \in NewCalls, Proceed(c)
      PROVE  Account!Next \/ (CoreSpent' = CoreSpent /\ CoreHeld' = CoreHeld)
  <2>0. TypeInv
    BY DEF AccountInv
  <2>1. ASSUME NEW usage, NEW ending, pc[c] \in {"completing", "failed"},
               RecordUsage(c, usage, ending), usage.scope = slot[c].scope, Names(c, usage)
        PROVE  Account!Next \/ (CoreSpent' = CoreSpent /\ CoreHeld' = CoreHeld)
    BY <2>1, RecordRefines DEF RecordUsage, Account!Next
  <2>2. CASE RecordCompleted(c)
    <3>1. activity[c] # None
      BY <2>0, <2>2, IdAssumption DEF RecordCompleted, TypeInv
    <3> DEFINE usage == Usage(c, activity[c], today, "completed")
    <3>2. usage.scope = slot[c].scope /\ Names(c, usage)
      BY <3>1 DEF Usage, Names
    <3>3. RecordUsage(c, usage, "returned") /\ pc[c] = "completing"
      BY <2>2 DEF RecordCompleted
    <3> HIDE DEF usage
    <3> QED BY <2>1, <3>2, <3>3
  <2>3. CASE RecordSubmitted(c)
    <3> DEFINE usage == Usage(c, activity[c], today, "submitted")
    <3>1. usage.scope = slot[c].scope /\ Names(c, usage)
      BY <2>3 DEF RecordSubmitted, Usage, Names
    <3>2. RecordUsage(c, usage, "raised") /\ pc[c] = "failed"
      BY <2>3 DEF RecordSubmitted
    <3> HIDE DEF usage
    <3> QED BY <2>1, <3>1, <3>2
  <2>4. CASE RecordUnknown(c)
    <3> DEFINE usage == Usage(c, UnknownId(c), attempted[c], "submission_unknown")
    <3>1. usage.scope = slot[c].scope /\ Names(c, usage)
      BY <2>4 DEF RecordUnknown, Usage, Names
    <3>2. RecordUsage(c, usage, "raised") /\ pc[c] = "failed"
      BY <2>4 DEF RecordUnknown
    <3> HIDE DEF usage
    <3> QED BY <2>1, <3>1, <3>2
  <2>5. CASE ReleaseRejected(c)
    <3>1. Begun(c) /\ Pop(hold[c]) /\ records' = records
      BY <2>5 DEF ReleaseRejected, ReleaseCall, Begun
    <3>2. CoreSpent' = CoreSpent
      BY <3>1 DEF CoreSpent, UsedBy
    <3> QED
      BY <3>1, <3>2, PopRefines DEF Account!Next, Account!Refund, CoreSpent, CoreHeld
  <2>6. ASSUME NEW id \in AnswerIds(c), PostAnswered(c, id)
        PROVE  CoreSpent' = CoreSpent /\ CoreHeld' = CoreHeld
    BY <1>1, <2>6 DEF PostAnswered
  <2>7. CASE \/ PostAmbiguous(c) \/ PostRejected(c) \/ PollEnds(c)
             \/ RaiseUnreserved(c) \/ Persist(c) \/ PersistFails(c)
    BY <1>1, <2>7 DEF PostAmbiguous, PostRejected, PollEnds, RaiseUnreserved, Persist, PersistFails
  <2> QED BY <1>3, <2>2, <2>3, <2>4, <2>5, <2>6, <2>7 DEF Proceed
<1>4. CASE Midnight \/ UNCHANGED vars
  BY <1>1, <1>4 DEF Midnight, vars
<1> QED BY <1>2, <1>3, <1>4 DEF Next, Idle

\* The account starts with the records of earlier processes and nothing held.
LEMMA InitRefines == Init => Account!Init
<1> SUFFICES ASSUME Init PROVE Account!Init
  OBVIOUS
<1>1. TypeInv
  BY InitTypeInv
<1>2. ReservedFor(CoreSlot) = {}
  BY DEF Init, LedgerInit, ReservedFor
<1> QED
  BY <1>1, <1>2, CoreAccountType, FS_EmptySet DEF Account!Init, CoreSpent, CoreHeld

(***************************************************************************)
(* With a core budget, the client implements CallBudget: whatever the      *)
(* threads, the provider and the disk do, the core account only ever       *)
(* reserves a unit it has, spends a reserved unit, or puts one back.       *)
(***************************************************************************)
THEOREM ClientRefinesCallBudget ==
  ASSUME Budget \in Nat PROVE Spec => ImplementsCallBudget
<1>1. Init => Account!Init
  BY InitRefines
<1>2. AccountInv /\ [Next]_vars => [Account!Next]_<<CoreSpent, CoreHeld>>
  BY StepRefines
<1>3. Spec => []AccountInv
  BY AccountInvariance, PTL
<1> QED
  BY <1>1, <1>2, <1>3, PTL DEF Spec, ImplementsCallBudget, Account!Spec, CoreSpent, CoreHeld

-----------------------------------------------------------------------------
(***************************************************************************)
(* Chapter III.  Crashes and restarts.                                     *)
(*                                                                         *)
(* What the ledger knows after a crash, for any number of calls and        *)
(* restarts: an activity the provider has started is forgotten only with   *)
(* the call that was in flight or the line that could not be written, and  *)
(* the core budget is exceeded by no more than that.                       *)
(*                                                                         *)
(* Why HoldInv of chapter II does not do: a crash starts the reservation   *)
(* numbers again at one, so the number a crashed call held may be          *)
(* another's.  What is unique is the number of a call in flight.  And what *)
(* authorize() counts after a restart was read from the file, so           *)
(* everything said of the records is said of the lines as well.            *)
(***************************************************************************)

Flying(c) == pc[c] \in InFlight

\* A call in flight has a number of its own and holds its unit, unless its activity is
\* recorded already; a process that is down has no calls.
UnitInv ==
  /\ \A c \in NewCalls : Flying(c) => up /\ hold[c] \in 1 .. nextReservation
  /\ \A c, d \in NewCalls : Flying(c) /\ Flying(d) /\ hold[c] = hold[d] => c = d
  /\ \A c \in NewCalls : Live(c) => Holds(c) \/ Rerecords(c)

\* Whose activity a call was answered with, and what it is about to write.
AnswerInv ==
  /\ \A c \in NewCalls : ~ Posted(c) => activity[c] = None
  /\ \A c \in NewCalls : activity[c] # None =>
       \E b \in billed : b.id = activity[c] /\ b.slot.scope = slot[c].scope
  /\ \A c \in NewCalls : pc[c] = "persisting" =>
       /\ pending[c] \in records
       /\ pending[c].id \in {activity[c], UnknownId(c)}
       /\ pending[c].status = "completed" => pending[c].id = activity[c]

\* An activity is billed once, to the slot its call was authorised against.
StartedInv ==
  /\ \A b \in billed : b.id.kind = "named"
  /\ \A b, e \in billed : b.id = e.id => b = e
  /\ \A b \in billed : b.id.call \in NewCalls =>
       /\ b.slot = slot[b.id.call]
       /\ Posted(b.id.call)
       /\ activity[b.id.call] \in {None, b.id}

\* A record, in memory or in the file, counts for the scope of what it is a record of.
ScopeInv ==
  /\ \A r \in records \cup file : r.id.kind = "named" =>
       \E b \in billed : b.id = r.id /\ b.slot.scope = r.scope
  /\ \A r \in records \cup file : r.id.kind = "unknown" =>
       r.id.call \in NewCalls /\ Begun(r.id.call) /\ slot[r.id.call].scope = r.scope

\* What a restart would not find is lost or on its way.
WrittenInv ==
  up /\ ~ torn => \A r \in records : r \in file \/ r.id \in lost \/ OnItsWay(r)

\* The file would count the activity.
Filed(id) == \E r \in file : r.id \in {id, UnknownId(id.call)}

\* An activity is forgotten, or a process that runs knows of it, or the next one will.
KnownInv ==
  \A b \in billed :
    \/ Forgotten(b.id)
    \/ up /\ Counted(b.id)
    \/ b.id.call \in NewCalls /\ Live(b.id.call)
    \/ ~ up /\ (torn \/ Filed(b.id))

AgreementInv == UnitInv /\ AnswerInv /\ StartedInv /\ ScopeInv /\ WrittenInv /\ KnownInv

RestartInv == TypeInv /\ AgreementInv

-----------------------------------------------------------------------------
\* The steps that touch neither the ledger, its file, a call nor a bill.
LEMMA QuietKept ==
  ASSUME AgreementInv,
         UNCHANGED <<ledgerVars, storeVars, pc, slot, hold, activity, pending, billed, lost>>
  PROVE  AgreementInv'
<1> USE DEF ledgerVars, storeVars
<1>1. UnitInv' /\ AnswerInv' /\ StartedInv'
  BY DEF AgreementInv, UnitInv, AnswerInv, StartedInv, Flying, Live, Holds, Rerecords, Recorded,
         Posted, Begun
<1>2. ScopeInv' /\ WrittenInv'
  BY DEF AgreementInv, ScopeInv, WrittenInv, OnItsWay, Begun
<1>3. KnownInv'
  BY DEF AgreementInv, KnownInv, Forgotten, Counted, Recorded, Filed, Live
<1> QED BY <1>1, <1>2, <1>3 DEF AgreementInv

\* A step that moves a call that is not writing, and touches nothing else.
LEMMA MoveKept ==
  ASSUME RestartInv, NEW c \in NewCalls, NEW location \in Locations, Goto(c, location),
         UNCHANGED <<ledgerVars, storeVars, slot, hold, activity, pending, billed, lost>>,
         pc[c] # "persisting", location # "persisting",
         Begun(c) <=> location \notin {"idle", "refused"},
         location \in {"idle", "refused", "posting", "rejected"} => ~ Posted(c),
         Live(c) <=> location \in LiveLocations,
         Live(c) => Holds(c)
  PROVE  AgreementInv'
<1> USE DEF ledgerVars, storeVars
<1>0. /\ TypeInv /\ UnitInv /\ AnswerInv /\ StartedInv /\ ScopeInv /\ WrittenInv /\ KnownInv
  BY DEF RestartInv, AgreementInv
<1>1. pc'[c] = location /\ \A d \in NewCalls : d # c => pc'[d] = pc[d]
  BY <1>0, TypedState DEF Goto
<1>2. \A d \in NewCalls : Begun(d)' <=> Begun(d)
  BY <1>1 DEF Begun
<1>3. \A d \in NewCalls : Posted(d) => Posted(d)'
  BY <1>1, <1>2 DEF Posted, Begun
<1>4. \A d \in NewCalls : Live(d)' <=> Live(d)
  BY <1>1 DEF Live, LiveLocations
<1>5. \A d \in NewCalls : pc'[d] = "persisting" <=> pc[d] = "persisting"
  BY <1>1
<1>6. \A d \in NewCalls : Flying(d)' <=> Flying(d)
  BY <1>4, <1>5 DEF Flying, Live, InFlight
<1>7. UnitInv'
  <2>1. \A d \in NewCalls : Live(d)' => Holds(d)' \/ Rerecords(d)'
    <3>1. \A d \in NewCalls : Holds(d)' <=> Holds(d)
      BY DEF Holds
    <3>2. \A d \in NewCalls \ {c} : Rerecords(d)' <=> Rerecords(d)
      BY <1>1 DEF Rerecords, Recorded
    <3> QED BY <1>0, <1>4, <3>1, <3>2 DEF UnitInv
  <2> QED BY <1>0, <1>6, <2>1 DEF UnitInv
<1>8. AnswerInv'
  BY <1>0, <1>3, <1>5 DEF AnswerInv
<1>9. StartedInv'
  BY <1>0, <1>3 DEF StartedInv
<1>10. ScopeInv'
  BY <1>0, <1>2 DEF ScopeInv
<1>11. WrittenInv'
  <2>1. \A r : OnItsWay(r)' <=> OnItsWay(r)
    BY <1>5 DEF OnItsWay
  <2> QED BY <1>0, <2>1 DEF WrittenInv
<1>12. KnownInv'
  BY <1>0, <1>4 DEF KnownInv, Forgotten, Counted, Recorded, Filed
<1> QED BY <1>7, <1>8, <1>9, <1>10, <1>11, <1>12 DEF AgreementInv

\* authorize() gives a call a number no call in flight has.
LEMMA StartKept ==
  ASSUME Budget \in Nat, RestartInv, NEW c \in NewCalls, NEW s \in CallSlots, Start(c, s)
  PROVE  AgreementInv'
<1> USE DEF storeVars, ghostVars
<1>0. /\ TypeInv /\ UnitInv /\ AnswerInv /\ StartedInv /\ ScopeInv /\ WrittenInv /\ KnownInv
      /\ s \in Slots /\ pc[c] = "idle" /\ up
  BY TypedState, SlotFacts DEF RestartInv, AgreementInv, CallSlots, Start
<1> DEFINE n == nextReservation + 1
<1>1. /\ nextReservation' = n /\ records' = records /\ n \in Nat
      /\ DOMAIN reservations' = DOMAIN reservations \cup {n}
      /\ reservations'[n] = s
      /\ \A i \in DOMAIN reservations : reservations'[i] = reservations[i]
      /\ n \notin DOMAIN reservations /\ Granted(s) = n
  <2>1. n \notin DOMAIN reservations /\ n \in Nat
    BY <1>0, TypedState
  <2>2. /\ Granted(s) = n /\ nextReservation' = n /\ records' = records
        /\ reservations' = [i \in DOMAIN reservations \cup {n} |->
                               IF i = n THEN s ELSE reservations[i]]
    BY <1>0, TypedState, AuthorizeReserves DEF Start
  <2> QED BY <2>1, <2>2
<1>2. /\ pc'[c] = "posting" /\ slot'[c] = s /\ hold'[c] = n
      /\ \A d \in NewCalls \ {c} : pc'[d] = pc[d] /\ slot'[d] = slot[d] /\ hold'[d] = hold[d]
      /\ UNCHANGED <<activity, pending, billed, lost, file, torn, up>>
  BY <1>0, <1>1, TypedState DEF Start, Goto
<1>3. ~ Begun(c) /\ ~ Posted(c) /\ ~ Live(c) /\ activity[c] = None /\ ~ Flying(c)
  BY <1>0 DEF Begun, Posted, Live, AnswerInv, Flying, InFlight
<1>4. /\ Begun(c)' /\ ~ Posted(c)' /\ Live(c)' /\ Flying(c)'
      /\ \A d \in NewCalls \ {c} : /\ Begun(d)' <=> Begun(d)
                                   /\ Posted(d)' <=> Posted(d)
                                   /\ Live(d)' <=> Live(d)
                                   /\ Flying(d)' <=> Flying(d)
  BY <1>2 DEF Begun, Posted, Live, Flying, InFlight
<1>5. UnitInv'
  <2>1. \A d \in NewCalls \ {c} : Flying(d) => hold[d] \in 1 .. nextReservation /\ hold[d] # n
    BY <1>0, TypedState DEF UnitInv
  <2>2. \A d \in NewCalls : Flying(d)' => up' /\ hold'[d] \in 1 .. n
    BY <1>0, <1>1, <1>2, <1>4, <2>1, TypedState DEF UnitInv
  <2>3. \A d, e \in NewCalls : Flying(d)' /\ Flying(e)' /\ hold'[d] = hold'[e] => d = e
    BY <1>0, <1>2, <1>4, <2>1 DEF UnitInv
  <2>4. \A d \in NewCalls : Live(d)' => Holds(d)' \/ Rerecords(d)'
    <3>1. Holds(c)'
      BY <1>1, <1>2 DEF Holds
    <3>2. \A d \in NewCalls \ {c} : (Holds(d) => Holds(d)') /\ (Rerecords(d) => Rerecords(d)')
      BY <1>1, <1>2 DEF Holds, Rerecords, Recorded
    <3> QED BY <1>0, <1>4, <3>1, <3>2 DEF UnitInv
  <2> QED BY <1>1, <2>2, <2>3, <2>4 DEF UnitInv
<1>6. AnswerInv'
  BY <1>0, <1>1, <1>2, <1>3, <1>4 DEF AnswerInv
<1>7. StartedInv'
  BY <1>0, <1>2, <1>3, <1>4 DEF StartedInv
<1>8. ScopeInv'
  BY <1>0, <1>1, <1>2, <1>3, <1>4 DEF ScopeInv
<1>9. WrittenInv'
  <2>1. \A r : OnItsWay(r) => OnItsWay(r)'
    BY <1>0, <1>2 DEF OnItsWay
  <2> QED BY <1>0, <1>1, <1>2, <2>1 DEF WrittenInv
<1>10. KnownInv'
  BY <1>0, <1>1, <1>2, <1>4 DEF KnownInv, Forgotten, Counted, Recorded, Filed
<1> QED BY <1>5, <1>6, <1>7, <1>8, <1>9, <1>10 DEF AgreementInv

\* The provider's answer, or its silence: what it starts, it starts for a call in flight.
LEMMA PostKept ==
  ASSUME RestartInv, NEW c \in NewCalls, pc[c] = "posting",
         NEW location \in {"polling", "failed"}, Goto(c, location),
         UNCHANGED <<ledgerVars, storeVars, slot, hold, pending, lost>>,
         billed' \in {billed, billed \cup {StartedActivity(c)}},
         NEW id, activity' = [activity EXCEPT ![c] = id],
         id # None => \E b \in billed' : b.id = id /\ b.slot.scope = slot[c].scope,
         StartedActivity(c) \in billed' => id \in {None, ProviderId(c)}
  PROVE  AgreementInv'
<1> USE DEF ledgerVars, storeVars
<1>0. /\ TypeInv /\ UnitInv /\ AnswerInv /\ StartedInv /\ ScopeInv /\ WrittenInv /\ KnownInv
  BY DEF RestartInv, AgreementInv
<1>1. /\ pc'[c] = location /\ activity'[c] = id
      /\ \A d \in NewCalls : d # c => pc'[d] = pc[d] /\ activity'[d] = activity[d]
  BY <1>0, TypedState DEF Goto
<1>2. Begun(c) /\ ~ Posted(c) /\ Live(c) /\ Flying(c) /\ Holds(c)
  BY <1>0 DEF Begun, Posted, Live, UnitInv, Rerecords, Flying, InFlight
<1>3. Begun(c)' /\ Posted(c)' /\ Live(c)' /\ Flying(c)' /\ Holds(c)'
  BY <1>1, <1>2 DEF Begun, Posted, Live, Holds, Flying, InFlight
<1>4. \A d \in NewCalls : d # c =>
        /\ Begun(d)' <=> Begun(d)
        /\ Posted(d)' <=> Posted(d)
        /\ Live(d)' <=> Live(d)
        /\ Flying(d)' <=> Flying(d)
        /\ Holds(d)' <=> Holds(d)
        /\ Rerecords(d)' <=> Rerecords(d)
  BY <1>1 DEF Begun, Posted, Live, Holds, Rerecords, Recorded, Flying
<1>5. \A b \in billed' \ billed : b = StartedActivity(c)
  OBVIOUS
<1>6. /\ StartedActivity(c).id = ProviderId(c) /\ StartedActivity(c).slot = slot[c]
      /\ \A b \in billed : b.id.call # c
  BY <1>0, <1>2 DEF StartedActivity, StartedInv
<1>7. UnitInv'
  BY <1>0, <1>2, <1>3, <1>4 DEF UnitInv
<1>8. AnswerInv'
  <2>1. \A d \in NewCalls : ~ Posted(d)' => activity'[d] = None
    BY <1>0, <1>1, <1>3, <1>4 DEF AnswerInv
  <2>2. \A d \in NewCalls : activity'[d] # None =>
          \E b \in billed' : b.id = activity'[d] /\ b.slot.scope = slot'[d].scope
    BY <1>0, <1>1 DEF AnswerInv
  <2>3. \A d \in NewCalls : pc'[d] = "persisting" => d # c /\ pc[d] = "persisting"
    BY <1>1
  <2> QED BY <1>0, <1>1, <2>1, <2>2, <2>3 DEF AnswerInv
<1>9. StartedInv'
  <2>1. \A b \in billed' : b.id.kind = "named"
    BY <1>0, <1>5, <1>6, FieldFacts DEF StartedInv
  <2>2. \A b, e \in billed' : b.id = e.id => b = e
    BY <1>0, <1>5, <1>6, FieldFacts DEF StartedInv
  <2>3. \A b \in billed' : b.id.call \in NewCalls =>
          /\ b.slot = slot'[b.id.call]
          /\ Posted(b.id.call)'
          /\ activity'[b.id.call] \in {None, b.id}
    <3>1. CASE StartedActivity(c) \in billed'
      BY <1>0, <1>1, <1>3, <1>4, <1>5, <1>6, <3>1, FieldFacts DEF StartedInv
    <3>2. CASE StartedActivity(c) \notin billed'
      BY <1>0, <1>1, <1>4, <1>5, <1>6, <3>2 DEF StartedInv
    <3> QED BY <3>1, <3>2
  <2> QED BY <2>1, <2>2, <2>3 DEF StartedInv
<1>10. ScopeInv'
  BY <1>0, <1>2, <1>3, <1>4 DEF ScopeInv
<1>11. WrittenInv'
  <2>1. \A r : OnItsWay(r) => OnItsWay(r)'
    BY <1>1 DEF OnItsWay
  <2> QED BY <1>0, <2>1 DEF WrittenInv
<1>12. KnownInv'
  <2>1. \A b \in billed : b.id.call \in NewCalls /\ Live(b.id.call) => Live(b.id.call)'
    BY <1>3, <1>4
  <2>2. \A b \in billed' \ billed : b.id.call = c
    BY <1>5, <1>6, FieldFacts
  <2> QED BY <1>0, <1>3, <2>1, <2>2 DEF KnownInv, Forgotten, Counted, Recorded, Filed
<1> QED BY <1>7, <1>8, <1>9, <1>10, <1>11, <1>12 DEF AgreementInv

\* A call that gives its unit up takes no other call's.
LEMMA PopKept ==
  ASSUME RestartInv, NEW c \in NewCalls, Flying(c), Pop(hold[c]), UNCHANGED <<hold, slot>>
  PROVE  /\ \A d \in NewCalls : d # c /\ Flying(d) /\ Holds(d) => Holds(d)'
         /\ DOMAIN reservations' \subseteq DOMAIN reservations
         /\ \A i \in DOMAIN reservations' : reservations'[i] = reservations[i]
<1>1. hold[c] # None
  BY NoneAssumption, TypedState DEF RestartInv, AgreementInv, UnitInv
<1>2. reservations' = [i \in DOMAIN reservations \ {hold[c]} |-> reservations[i]]
  BY <1>1 DEF Pop, Popped
<1>3. \A d \in NewCalls : d # c /\ Flying(d) => hold[d] # hold[c]
  BY DEF RestartInv, AgreementInv, UnitInv
<1> QED BY <1>2, <1>3 DEF Holds

\* What a call puts in a record: the activity it knows, or an id of its own.
Identifies(c, usage) ==
  \/ usage.id = activity[c] /\ activity[c] # None
  \/ activity[c] = None /\ usage.id = UnknownId(c) /\ usage.status # "completed"

\* record(): what the call may have started is counted from now on, and its line is
\* written, or on its way.
LEMMA RecordKept ==
  ASSUME RestartInv, NEW c \in NewCalls, pc[c] \in {"completing", "failed"},
         NEW usage \in UsageRecords, NEW ending \in {"returned", "raised"},
         RecordUsage(c, usage, ending), usage.scope = slot[c].scope, Identifies(c, usage)
  PROVE  AgreementInv'
<1> USE DEF ghostVars, storeVars
<1>0. /\ TypeInv /\ UnitInv /\ AnswerInv /\ StartedInv /\ ScopeInv /\ WrittenInv /\ KnownInv
  BY DEF RestartInv, AgreementInv
<1>1. /\ Pop(hold[c])
      /\ UNCHANGED <<nextReservation, slot, hold, activity, billed, lost, file, torn, up>>
      /\ records' = IF Recorded(usage.id) THEN records ELSE records \cup {usage}
  BY DEF RecordUsage, Record
<1>2. /\ \A d \in NewCalls : d # c => pc'[d] = pc[d] /\ pending'[d] = pending[d]
      /\ pc'[c] \in {"persisting", "returned", "raised"}
      /\ pc'[c] = "persisting" <=> ~ Recorded(usage.id)
      /\ ~ Recorded(usage.id) => pending'[c] = usage
  BY <1>0, TypedState DEF RecordUsage, Goto
<1>3. Begun(c) /\ Posted(c) /\ Live(c) /\ Flying(c) /\ Begun(c)' /\ Posted(c)' /\ ~ Live(c)'
  BY <1>2 DEF Begun, Posted, Live, Flying, InFlight
<1>4. \A d \in NewCalls : /\ Begun(d)' <=> Begun(d)
                          /\ Posted(d)' <=> Posted(d)
                          /\ d # c => (Live(d)' <=> Live(d))
                          /\ Flying(d)' => Flying(d)
  BY <1>2, <1>3 DEF Begun, Posted, Live, Flying
<1>5. /\ \A id : Recorded(id) => Recorded(id)'
      /\ Recorded(usage.id)'
  BY <1>1 DEF Recorded
<1>6. UnitInv'
  <2>1. \A d \in NewCalls : d # c /\ Flying(d) /\ Holds(d) => Holds(d)'
    BY <1>1, <1>3, PopKept
  <2>2. \A d \in NewCalls : d # c /\ Rerecords(d) => Rerecords(d)'
    BY <1>1, <1>2, <1>5 DEF Rerecords
  <2>3. \A d \in NewCalls : Live(d) => Flying(d)
    BY DEF Live, Flying, InFlight
  <2>4. \A d \in NewCalls : Live(d)' => Holds(d)' \/ Rerecords(d)'
    BY <1>0, <1>3, <1>4, <2>1, <2>2, <2>3 DEF UnitInv
  <2> QED BY <1>0, <1>1, <1>4, <2>4 DEF UnitInv
<1>7. AnswerInv'
  <2>1. ASSUME NEW d \in NewCalls, pc'[d] = "persisting"
        PROVE  /\ pending'[d] \in records'
               /\ pending'[d].id \in {activity[d], UnknownId(d)}
               /\ pending'[d].status = "completed" => pending'[d].id = activity[d]
    <3>1. CASE d = c
      BY <1>1, <1>2, <2>1, <3>1 DEF Identifies
    <3>2. CASE d # c
      BY <1>0, <1>1, <1>2, <2>1, <3>2 DEF AnswerInv
    <3> QED BY <3>1, <3>2
  <2> QED BY <1>0, <1>1, <1>4, <2>1 DEF AnswerInv
<1>8. StartedInv'
  BY <1>0, <1>1, <1>4 DEF StartedInv
<1>9. ScopeInv'
  <2>1. activity[c] # None => activity[c].kind = "named"
    BY <1>0 DEF AnswerInv, StartedInv
  <2>2. usage.id.kind = "named" => \E b \in billed : b.id = usage.id /\ b.slot.scope = usage.scope
    BY <1>0, FieldFacts DEF Identifies, AnswerInv
  <2>3. usage.id.kind = "unknown" =>
          usage.id.call \in NewCalls /\ Begun(usage.id.call)
          /\ slot[usage.id.call].scope = usage.scope
    BY <1>3, <2>1, FieldFacts DEF Identifies
  <2>4. \A r \in records' \cup file' : r = usage \/ r \in records \cup file
    BY <1>1
  <2> QED BY <1>0, <1>1, <1>4, <2>2, <2>3, <2>4 DEF ScopeInv
<1>10. WrittenInv'
  <2>1. \A r : OnItsWay(r) => OnItsWay(r)'
    BY <1>2 DEF OnItsWay
  <2>2. ~ Recorded(usage.id) => OnItsWay(usage)'
    BY <1>2 DEF OnItsWay
  <2> QED BY <1>0, <1>1, <2>1, <2>2 DEF WrittenInv
<1>11. KnownInv'
  <2>1. \A id : Counted(id) => Counted(id)'
    BY <1>5 DEF Counted
  <2>2. ASSUME NEW b \in billed, b.id.call = c PROVE up' /\ Counted(b.id)'
    <3>1. up'
      BY <1>0, <1>1, <1>3 DEF UnitInv
    <3>2. usage.id \in {b.id, UnknownId(b.id.call)}
      BY <1>0, <2>2 DEF StartedInv, Identifies
    <3> QED BY <1>5, <3>1, <3>2 DEF Counted
  <2> QED BY <1>0, <1>1, <1>4, <2>1, <2>2 DEF KnownInv, Forgotten, Filed
<1> QED BY <1>6, <1>7, <1>8, <1>9, <1>10, <1>11 DEF AgreementInv

\* release_call() after a rejected submission, which started nothing.
LEMMA ReleaseKept ==
  ASSUME RestartInv, NEW c \in NewCalls, ReleaseRejected(c)
  PROVE  AgreementInv'
<1> USE DEF ghostVars, storeVars
<1>0. /\ TypeInv /\ UnitInv /\ AnswerInv /\ StartedInv /\ ScopeInv /\ WrittenInv /\ KnownInv
  BY DEF RestartInv, AgreementInv
<1>1. /\ Pop(hold[c]) /\ pc[c] = "rejected"
      /\ UNCHANGED <<records, nextReservation, slot, hold, activity, pending, billed, lost,
                     file, torn, up>>
  BY DEF ReleaseRejected, ReleaseCall
<1>2. pc'[c] = "raised" /\ \A d \in NewCalls : d # c => pc'[d] = pc[d]
  BY <1>0, TypedState DEF ReleaseRejected, Goto
<1>3. Begun(c) /\ ~ Posted(c) /\ Flying(c) /\ Begun(c)' /\ Posted(c)' /\ ~ Live(c)' /\ ~ Flying(c)'
  BY <1>1, <1>2 DEF Begun, Posted, Live, Flying, InFlight
<1>4. \A d \in NewCalls : /\ Begun(d)' <=> Begun(d)
                          /\ Posted(d) => Posted(d)'
                          /\ d # c => (Live(d)' <=> Live(d))
                          /\ Flying(d)' => Flying(d)
                          /\ Live(d) => Flying(d)
                          /\ pc'[d] = "persisting" <=> pc[d] = "persisting"
  BY <1>1, <1>2, <1>3 DEF Begun, Posted, Live, Flying, InFlight
<1>5. UnitInv'
  <2>1. \A d \in NewCalls : d # c /\ Flying(d) /\ Holds(d) => Holds(d)'
    BY <1>1, <1>3, PopKept
  <2>2. \A d \in NewCalls : d # c /\ Rerecords(d) => Rerecords(d)'
    BY <1>1, <1>2 DEF Rerecords, Recorded
  <2>3. \A d \in NewCalls : Live(d)' => Holds(d)' \/ Rerecords(d)'
    BY <1>0, <1>3, <1>4, <2>1, <2>2 DEF UnitInv
  <2> QED BY <1>0, <1>1, <1>4, <2>3 DEF UnitInv
<1>6. AnswerInv' /\ StartedInv' /\ ScopeInv'
  BY <1>0, <1>1, <1>4 DEF AnswerInv, StartedInv, ScopeInv
<1>7. WrittenInv'
  <2>1. \A r : OnItsWay(r) <=> OnItsWay(r)'
    BY <1>1, <1>4 DEF OnItsWay
  <2> QED BY <1>0, <1>1, <2>1 DEF WrittenInv
<1>8. KnownInv'
  <2>1. \A b \in billed : b.id.call # c
    BY <1>0, <1>3 DEF StartedInv
  <2> QED BY <1>0, <1>1, <1>4, <2>1 DEF KnownInv, Forgotten, Counted, Recorded, Filed
<1> QED BY <1>5, <1>6, <1>7, <1>8 DEF AgreementInv

\* The write of one line, done or failed: the record is in the file, lost, or behind a torn
\* line, and a call that goes on to record its activity again finds it there.
LEMMA WriteKept ==
  ASSUME RestartInv, NEW c \in NewCalls, Persist(c) \/ PersistFails(c)
  PROVE  AgreementInv'
<1> USE DEF ledgerVars
<1>0. /\ TypeInv /\ UnitInv /\ AnswerInv /\ StartedInv /\ ScopeInv /\ WrittenInv /\ KnownInv
  BY DEF RestartInv, AgreementInv
<1>1. /\ pc[c] = "persisting"
      /\ UNCHANGED <<records, reservations, nextReservation, slot, hold, activity, pending, billed,
                     up>>
      /\ file \subseteq file' /\ file' \subseteq file \cup {pending[c]}
      /\ lost \subseteq lost'
      /\ ~ torn' => ~ torn /\ (pending[c] \in file' \/ pending[c].id \in lost')
  <2>1. CASE Persist(c)
    BY <2>1 DEF Persist, Append, ghostVars
  <2>2. CASE PersistFails(c)
    <3>1. torn' = torn \/ torn' = TRUE
      BY <2>2 DEF PersistFails, AppendFails
    <3> QED BY <2>2, <3>1 DEF PersistFails, AppendFails
  <2> QED BY <2>1, <2>2
<1>2. /\ \A d \in NewCalls : d # c => pc'[d] = pc[d]
      /\ pc'[c] \in {"returned", "raised", "failed"}
      /\ pc'[c] = "failed" => pending[c].status = "completed"
  BY <1>0, TypedState DEF Persist, PersistFails, Goto
<1>3. Begun(c) /\ Posted(c) /\ ~ Live(c) /\ Flying(c) /\ Begun(c)' /\ Posted(c)'
  BY <1>1, <1>2 DEF Begun, Posted, Live, Flying, InFlight
<1>4. \A d \in NewCalls : /\ Begun(d)' <=> Begun(d)
                          /\ Posted(d)' <=> Posted(d)
                          /\ d # c => (Live(d)' <=> Live(d))
                          /\ Flying(d)' => Flying(d)
                          /\ pc'[d] = "persisting" => pc[d] = "persisting" /\ d # c
  BY <1>1, <1>2, <1>3 DEF Begun, Posted, Live, Flying
<1>5. UnitInv'
  <2>1. \A d \in NewCalls : d # c => (Holds(d)' <=> Holds(d)) /\ (Rerecords(d)' <=> Rerecords(d))
    BY <1>1, <1>2 DEF Holds, Rerecords, Recorded
  <2>2. pc'[c] = "failed" => Rerecords(c)'
    <3>1. pc'[c] = "failed" => pending[c].id = activity[c] /\ pending[c] \in records
      BY <1>0, <1>1, <1>2 DEF AnswerInv
    <3>2. pending[c].id # None
      BY <1>0, <1>1, IdAssumption DEF TypeInv, UsageRecords
    <3> QED BY <1>1, <3>1, <3>2 DEF Rerecords, Recorded
  <2>3. Live(c)' => Rerecords(c)'
    BY <1>2, <2>2 DEF Live
  <2>4. \A d \in NewCalls : Live(d)' => Holds(d)' \/ Rerecords(d)'
    BY <1>0, <1>4, <2>1, <2>3 DEF UnitInv
  <2> QED BY <1>0, <1>1, <1>4, <2>4 DEF UnitInv
<1>6. AnswerInv' /\ StartedInv'
  BY <1>0, <1>1, <1>4 DEF AnswerInv, StartedInv
<1>7. ScopeInv'
  <2>1. records' \cup file' \subseteq records \cup file
    BY <1>0, <1>1 DEF AnswerInv
  <2> QED BY <1>0, <1>1, <1>4, <2>1 DEF ScopeInv
<1>8. WrittenInv'
  <2>1. \A r : OnItsWay(r) => OnItsWay(r)' \/ r = pending[c]
    BY <1>1, <1>2 DEF OnItsWay
  <2> QED BY <1>0, <1>1, <2>1 DEF WrittenInv
<1>9. KnownInv'
  <2>1. /\ \A id : Forgotten(id) => Forgotten(id)'
        /\ \A id : Counted(id)' <=> Counted(id)
    BY <1>1 DEF Forgotten, Counted, Recorded
  <2>2. up
    BY <1>0, <1>3 DEF UnitInv
  <2> QED BY <1>0, <1>1, <1>3, <1>4, <2>1, <2>2 DEF KnownInv
<1> QED BY <1>5, <1>6, <1>7, <1>8, <1>9 DEF AgreementInv

\* A crash: of what a process knew, the file will be read again, and what was in flight
\* is given up.
LEMMA CrashKept ==
  ASSUME RestartInv, Crash
  PROVE  RestartInv'
<1>0. /\ TypeInv /\ UnitInv /\ AnswerInv /\ StartedInv /\ ScopeInv /\ WrittenInv /\ KnownInv
  BY DEF RestartInv, AgreementInv
<1>1. /\ up /\ up' = FALSE /\ records' = {} /\ nextReservation' = 0 /\ DOMAIN reservations' = {}
      /\ UNCHANGED <<file, today, slot, hold, activity, attempted, pending, billed>>
      /\ lost' = lost \cup UNION {IdsOf(c) : c \in CallsInFlight}
      /\ pc' = [c \in NewCalls |-> IF c \in CallsInFlight THEN "crashed" ELSE pc[c]]
  BY DEF Crash
<1>2. torn' \in BOOLEAN /\ (torn => torn')
  <2>1. torn' = torn \/ torn' = TRUE
    BY DEF Crash
  <2>2. torn \in BOOLEAN
    BY <1>0 DEF TypeInv, TypeOK, StoreTypeOK
  <2>3. torn' \in BOOLEAN
    BY <2>1, <2>2
  <2>4. torn => torn'
    BY <2>1
  <2> QED BY <2>3, <2>4
<1>3. \A c \in NewCalls : /\ Flying(c) => pc'[c] = "crashed"
                          /\ ~ Flying(c) => pc'[c] = pc[c]
  BY <1>1 DEF Flying, CallsInFlight
<1>4. \A c \in NewCalls : /\ ~ Flying(c)' /\ ~ Live(c)' /\ pc'[c] # "persisting"
                          /\ Begun(c)' <=> Begun(c)
                          /\ Posted(c) => Posted(c)'
  BY <1>3 DEF Flying, Live, Begun, Posted, InFlight
<1>5. \A c \in NewCalls : Flying(c) =>
        /\ IdsOf(c) \subseteq ActivityIds
        /\ IdsOf(c) \subseteq lost'
        /\ ProviderId(c) \in lost' /\ UnknownId(c) \in lost'
        /\ activity[c] # None => activity[c] \in lost'
  <2>1. \A c \in NewCalls : IdsOf(c) \subseteq ActivityIds
    BY <1>0, IdFacts, TypedState DEF IdsOf, NewCalls
  <2>2. \A c \in NewCalls : Flying(c) => IdsOf(c) \subseteq lost'
    BY <1>1 DEF Flying, CallsInFlight
  <2> QED BY <2>1, <2>2 DEF IdsOf
<1>6. TypeInv'
  <2>1. lost' \in SUBSET ActivityIds
    <3>1. \A c \in CallsInFlight : IdsOf(c) \subseteq ActivityIds
      BY <1>5 DEF CallsInFlight, Flying
    <3>2. lost \subseteq ActivityIds
      BY <1>0 DEF TypeInv, TypeOK
    <3> QED BY <1>1, <3>1, <3>2
  <2>2. pc' \in [NewCalls -> Locations]
    BY <1>0, <1>1, TypedState DEF Locations, Ended
  <2>3. LedgerTypeOK' /\ StoreTypeOK'
    BY <1>0, <1>1, <1>2 DEF TypeInv, TypeOK, LedgerTypeOK, StoreTypeOK
  <2>4. TypeOK'
    BY <1>0, <1>1, <2>1, <2>2, <2>3 DEF TypeInv, TypeOK
  <2>5. \A c \in NewCalls : pc'[c] \notin {"polling", "completing", "persisting"}
    BY <1>4 DEF Flying, InFlight
  <2> QED BY <2>4, <2>5 DEF TypeInv
<1>7. UnitInv' /\ AnswerInv' /\ StartedInv' /\ WrittenInv'
  BY <1>0, <1>1, <1>4 DEF UnitInv, AnswerInv, StartedInv, WrittenInv
<1>8. ScopeInv'
  BY <1>0, <1>1, <1>4 DEF ScopeInv
<1>9. KnownInv'
  <2> SUFFICES ASSUME NEW b \in billed
               PROVE  Forgotten(b.id)' \/ torn' \/ Filed(b.id)'
    BY <1>1 DEF KnownInv
  <2>1. CASE Forgotten(b.id)
    BY <1>1, <2>1 DEF Forgotten
  <2>2. CASE Counted(b.id)
    <3>1. PICK r \in records : r.id \in {b.id, UnknownId(b.id.call)}
      BY <2>2 DEF Counted, Recorded
    <3>2. CASE r \in file
      BY <1>1, <3>1, <3>2 DEF Filed
    <3>3. CASE r.id \in lost
      BY <1>1, <3>1, <3>3 DEF Forgotten
    <3>4. CASE OnItsWay(r)
      <4>1. PICK c \in NewCalls : pc[c] = "persisting" /\ pending[c] = r
        BY <3>4 DEF OnItsWay
      <4>2. r.id # None
        BY <1>0, IdAssumption, TypedState DEF UsageRecords
      <4>3. r.id \in {activity[c], UnknownId(c)} /\ Flying(c)
        BY <1>0, <4>1 DEF AnswerInv, Flying, InFlight
      <4>4. r.id \in lost'
        BY <1>5, <4>2, <4>3
      <4> QED BY <3>1, <4>4 DEF Forgotten
    <3> QED BY <1>0, <1>1, <1>2, <3>2, <3>3, <3>4 DEF WrittenInv
  <2>3. CASE b.id.call \in NewCalls /\ Live(b.id.call)
    <3>1. b.id = ProviderId(b.id.call)
      BY <1>0, IdParts, TypedState DEF Activities, StartedInv
    <3>2. Flying(b.id.call)
      BY <2>3 DEF Flying, Live, InFlight
    <3> QED BY <1>5, <2>3, <3>1, <3>2 DEF Forgotten
  <2> QED BY <1>0, <1>1, <2>1, <2>2, <2>3 DEF KnownInv
<1> QED BY <1>6, <1>7, <1>8, <1>9 DEF RestartInv, AgreementInv

\* load(): the next process knows what stands in the file.
LEMMA LoadKept ==
  ASSUME RestartInv, Restart
  PROVE  RestartInv'
<1> USE DEF callVars, ghostVars
<1>0. /\ TypeInv /\ UnitInv /\ AnswerInv /\ StartedInv /\ ScopeInv /\ WrittenInv /\ KnownInv
  BY DEF RestartInv, AgreementInv
<1>1. /\ ~ up /\ up' = TRUE /\ ~ torn /\ records' = file
      /\ nextReservation' = 0 /\ DOMAIN reservations' = {}
      /\ UNCHANGED <<file, torn, today, pc, slot, hold, activity, attempted, pending, billed, lost>>
  BY DEF Restart, Load
<1>2. \A c \in NewCalls : ~ Flying(c) /\ ~ Live(c) /\ pc[c] # "persisting"
  BY <1>0, <1>1 DEF UnitInv, Flying, Live, InFlight
<1>3. TypeInv'
  <2>1. LedgerTypeOK' /\ StoreTypeOK'
    BY <1>0, <1>1 DEF TypeInv, TypeOK, LedgerTypeOK, StoreTypeOK
  <2>2. TypeOK'
    BY <1>0, <1>1, <2>1 DEF TypeInv, TypeOK
  <2> QED BY <1>0, <1>1, <2>2 DEF TypeInv
<1>4. UnitInv' /\ AnswerInv' /\ StartedInv' /\ WrittenInv'
  BY <1>0, <1>1, <1>2 DEF UnitInv, AnswerInv, StartedInv, WrittenInv, Flying, Live, Posted, Begun
<1>5. ScopeInv'
  BY <1>0, <1>1 DEF ScopeInv, Begun
<1>6. KnownInv'
  BY <1>0, <1>1, <1>2 DEF KnownInv, Forgotten, Filed, Counted, Recorded
<1> QED BY <1>3, <1>4, <1>5, <1>6 DEF RestartInv, AgreementInv

\* A call goes on after authorize().
LEMMA ProceedKept ==
  ASSUME RestartInv, NEW c \in NewCalls, Proceed(c)
  PROVE  AgreementInv'
<1> USE DEF ghostVars
<1>0. /\ TypeInv /\ UnitInv /\ AnswerInv /\ StartedInv /\ c \in Calls
  BY DEF RestartInv, AgreementInv, NewCalls
<1>a. \A x \in ActivityIds, day \in 1 .. Days, status \in Statuses :
        Usage(c, x, day, status) \in UsageRecords
  BY <1>0, UsageType DEF TypeInv
<1>1. ASSUME NEW id \in AnswerIds(c), PostAnswered(c, id) PROVE AgreementInv'
  <2>1. ~ Posted(c) /\ \A b \in billed : b.id.call # c
    BY <1>0, <1>1 DEF PostAnswered, Posted, StartedInv
  <2>2. StartedActivity(c) \notin billed
    BY <2>1, FieldFacts DEF StartedActivity
  <2>3. \E b \in billed' : b.id = id /\ b.slot.scope = slot[c].scope
    <3>1. CASE id = ProviderId(c)
      <4>1. StartedActivity(c) \in billed'
        BY <1>1, <3>1 DEF PostAnswered
      <4> QED BY <3>1, <4>1 DEF StartedActivity
    <3>2. CASE id # ProviderId(c)
      <4>1. \E b \in billed : b.id = id /\ b.slot.scope = slot[c].scope
        BY <3>2 DEF AnswerIds
      <4> QED BY <1>1, <3>2, <4>1 DEF PostAnswered
    <3> QED BY <3>1, <3>2
  <2>4. billed' \in {billed, billed \cup {StartedActivity(c)}}
    BY <1>1 DEF PostAnswered
  <2>5. StartedActivity(c) \in billed' => id = ProviderId(c)
    BY <1>1, <2>2 DEF PostAnswered
  <2> QED BY <1>1, <2>3, <2>4, <2>5, PostKept DEF PostAnswered
<1>2. CASE PostAmbiguous(c)
  <2>1. activity' = [activity EXCEPT ![c] = None]
    BY <1>0, <1>2, TypedState DEF PostAmbiguous, AnswerInv, Posted
  <2> QED BY <1>2, <2>1, PostKept DEF PostAmbiguous
<1>3. CASE PostRejected(c) \/ PollEnds(c)
  <2>1. PICK location \in {"rejected", "completing", "failed"} :
          Goto(c, location) /\ (location = "rejected" => pc[c] = "posting")
    BY <1>3 DEF PostRejected, PollEnds
  <2>2. /\ pc[c] \in {"posting", "polling"}
        /\ UNCHANGED <<ledgerVars, storeVars, slot, hold, activity, pending, billed, lost>>
    BY <1>3 DEF PostRejected, PollEnds
  <2>3. /\ Begun(c) /\ Live(c) /\ Holds(c)
        /\ location = "rejected" => ~ Posted(c)
    BY <1>0, <2>1, <2>2 DEF Begun, Posted, Live, UnitInv, Rerecords
  <2>4. location \in Locations /\ location \in LiveLocations
    BY <2>1, LocationFacts DEF LiveLocations
  <2> QED BY <2>1, <2>2, <2>3, <2>4, MoveKept
<1>4. CASE RecordCompleted(c)
  <2> DEFINE usage == Usage(c, activity[c], today, "completed")
  <2>1. activity[c] \in ActivityIds /\ activity[c] # None
    BY <1>0, <1>4, IdAssumption DEF RecordCompleted, TypeInv
  <2>2. usage \in UsageRecords /\ usage.scope = slot[c].scope /\ Identifies(c, usage)
    BY <1>0, <1>a, <2>1, TypedState DEF Statuses, Usage, Identifies
  <2>3. pc[c] \in {"completing", "failed"} /\ RecordUsage(c, usage, "returned")
    BY <1>4 DEF RecordCompleted
  <2> HIDE DEF usage
  <2> QED BY <2>2, <2>3, RecordKept
<1>5. CASE RecordSubmitted(c)
  <2> DEFINE usage == Usage(c, activity[c], today, "submitted")
  <2>1. activity[c] \in ActivityIds /\ activity[c] # None
    BY <1>0, <1>5, TypedState DEF RecordSubmitted
  <2>2. usage \in UsageRecords /\ usage.scope = slot[c].scope /\ Identifies(c, usage)
    BY <1>0, <1>a, <2>1, TypedState DEF Statuses, Usage, Identifies
  <2>3. pc[c] \in {"completing", "failed"} /\ RecordUsage(c, usage, "raised")
    BY <1>5 DEF RecordSubmitted
  <2> HIDE DEF usage
  <2> QED BY <2>2, <2>3, RecordKept
<1>6. CASE RecordUnknown(c)
  <2> DEFINE usage == Usage(c, UnknownId(c), attempted[c], "submission_unknown")
  <2>1. usage \in UsageRecords
    BY <1>0, <1>a, IdFacts, TypedState DEF Statuses
  <2>2. usage.scope = slot[c].scope /\ Identifies(c, usage)
    BY <1>6 DEF RecordUnknown, Usage, Identifies
  <2>3. pc[c] \in {"completing", "failed"} /\ RecordUsage(c, usage, "raised")
    BY <1>6 DEF RecordUnknown
  <2> HIDE DEF usage
  <2> QED BY <2>1, <2>2, <2>3, RecordKept
<1>7. CASE ReleaseRejected(c)
  BY <1>7, ReleaseKept
<1>8. CASE RaiseUnreserved(c)
  <2>1. Flying(c)
    BY <1>8 DEF RaiseUnreserved, Flying, InFlight
  <2> QED BY <1>0, <1>8, <2>1, NoneAssumption, TypedState DEF RaiseUnreserved, UnitInv
<1>9. CASE Persist(c) \/ PersistFails(c)
  BY <1>9, WriteKept
<1> QED BY <1>1, <1>2, <1>3, <1>4, <1>5, <1>6, <1>7, <1>8, <1>9 DEF Proceed

\* The agreement is inductive across crashes, provided a core budget is configured.
LEMMA StepKept ==
  ASSUME Budget \in Nat, RestartInv, [NextWithRestarts]_vars
  PROVE  RestartInv'
<1> USE DEF ghostVars
<1>0. TypeInv /\ AgreementInv
  BY DEF RestartInv
<1>1. ASSUME NEW c \in NewCalls, Submit(c) PROVE AgreementInv'
  <2>1. PICK s \in CallSlots : Start(c, s) \/ Refuse(c, s)
    BY <1>1 DEF Submit
  <2>2. CASE Start(c, s)
    BY <2>2, StartKept
  <2>3. CASE Refuse(c, s)
    <3>1. ~ Begun(c) /\ ~ Posted(c) /\ ~ Live(c) /\ pc[c] = "idle"
      BY <2>3 DEF Refuse, Begun, Posted, Live
    <3>2. /\ Goto(c, "refused") /\ "refused" \in Locations
          /\ UNCHANGED <<ledgerVars, storeVars, slot, hold, activity, pending, billed, lost>>
      BY <2>3, LocationFacts DEF Refuse
    <3>3. "refused" \notin LiveLocations /\ "refused" # "persisting"
      BY DEF LiveLocations
    <3> QED BY <3>1, <3>2, <3>3, MoveKept
  <2> QED BY <2>1, <2>2, <2>3
<1>2. CASE Next \/ UNCHANGED vars
  <2>1. TypeInv'
    BY <1>0, <1>2, StepType
  <2>2. CASE Midnight \/ UNCHANGED vars
    <3>1. UNCHANGED <<ledgerVars, storeVars, pc, slot, hold, activity, pending, billed, lost>>
      BY <2>2 DEF Midnight, vars, callVars
    <3> QED BY <1>0, <2>1, <3>1, QuietKept DEF RestartInv
  <2> QED BY <1>1, <1>2, <2>1, <2>2, ProceedKept DEF Next, Idle, RestartInv
<1> QED BY <1>2, CrashKept, LoadKept DEF NextWithRestarts, StaysDown

\* At first memory and file hold what earlier processes recorded.
LEMMA InitKept == Init => RestartInv
<1> SUFFICES ASSUME Init PROVE RestartInv
  OBVIOUS
<1>1. TypeInv /\ AccountInv
  BY InitTypeInv, InitAccount
<1>2. HoldInv /\ CallInv /\ BillInv /\ RecordInv /\ SeenInv
  BY <1>1 DEF AccountInv
<1>3. file = records /\ up /\ \A c \in NewCalls : pc[c] = "idle"
  BY DEF Init, LedgerInit, StoreInit
<1>4. \A c \in NewCalls : ~ Flying(c) /\ ~ Live(c) /\ pc[c] # "persisting"
  BY <1>3 DEF Flying, InFlight, Live
<1>5. UnitInv /\ AnswerInv /\ StartedInv /\ WrittenInv
  BY <1>2, <1>3, <1>4 DEF CallInv, BillInv, UnitInv, AnswerInv, StartedInv, WrittenInv
<1>6. ScopeInv
  <2>1. \A r \in records : SlotOf(r).scope = r.scope
    BY <1>1, SlotOfFacts, TypedState
  <2> QED BY <1>2, <1>3, <2>1 DEF RecordInv, ScopeInv
<1>7. KnownInv
  <2> SUFFICES ASSUME NEW b \in billed PROVE Counted(b.id)
    BY <1>3 DEF KnownInv
  <2>1. PICK r \in records : r.id.call = b.id.call
    BY <1>2, <1>4 DEF SeenInv, Seen
  <2>2. r.id = ProviderId(r.id.call) \/ r.id = UnknownId(r.id.call)
    BY <1>1, IdParts, TypedState DEF UsageRecords
  <2>3. b.id = ProviderId(b.id.call)
    BY <1>1, <1>2, IdParts, TypedState DEF Activities, BillInv
  <2> QED BY <2>1, <2>2, <2>3 DEF Counted, Recorded
<1> QED BY <1>1, <1>5, <1>6, <1>7 DEF RestartInv, AgreementInv

(***************************************************************************)
(* With a core budget, a process that runs knows of every activity the     *)
(* provider has started, but those of calls that were in flight at a crash *)
(* and those whose line could not be written, however often it restarts.   *)
(***************************************************************************)
THEOREM OnlyLostAreForgotten ==
  ASSUME Budget \in Nat PROVE SpecWithRestarts => []OnlyLostForgotten
<1>1. RestartInv => OnlyLostForgotten
  <2> SUFFICES ASSUME RestartInv, up, NEW b \in billed, ~ Counted(b.id), ~ Forgotten(b.id)
               PROVE  Live(b.id.call) /\ hold[b.id.call] \in DOMAIN reservations
    BY DEF OnlyLostForgotten
  <2>0. TypeInv /\ UnitInv /\ StartedInv /\ KnownInv
    BY DEF RestartInv, AgreementInv
  <2>1. b.id.call \in NewCalls /\ Live(b.id.call)
    BY <2>0 DEF KnownInv
  <2>2. ~ Rerecords(b.id.call)
    BY <2>0, <2>1 DEF Rerecords, Counted, StartedInv
  <2> QED BY <2>0, <2>1, <2>2 DEF UnitInv, Holds
<1>2. RestartInv /\ [NextWithRestarts]_vars => RestartInv'
  BY StepKept
<1> QED BY <1>1, <1>2, InitKept, PTL DEF SpecWithRestarts

-----------------------------------------------------------------------------
\* The calls that have taken a core unit the ledger may still know of, or may yet take one.
Remembered == {b \in ChargedTo(CoreSlot) : ~ Forgotten(b.id)}
InUse == {b.id.call : b \in Remembered}
           \cup {c \in NewCalls : Flying(c) /\ hold[c] \in ReservedFor(CoreSlot)}

LossInv ==
  Limit(CoreSlot) # None =>
    Cardinality(InUse) <= Larger(Budget, Cardinality(Inherited(CoreSlot)))

\* Seen through their calls, the charged activities are as many, and finite.
LEMMA ChargedKept ==
  ASSUME RestartInv, NEW T, T \subseteq billed
  PROVE  /\ IsFiniteSet(T)
         /\ IsFiniteSet({b.id.call : b \in T})
         /\ Cardinality(T) = Cardinality({b.id.call : b \in T})
<1> DEFINE C == {b.id.call : b \in T}
           f == [b \in T |-> b.id.call]
<1>0. TypeInv /\ StartedInv
  BY DEF RestartInv, AgreementInv
<1>1. IsFiniteSet(C)
  <2>1. C \subseteq Calls
    BY <1>0, TypedState DEF Activities, ActivityIds
  <2> QED BY <2>1, PastCallsAssumption, FS_Subset
<1>2. \A b, e \in T : b.id.call = e.id.call => b = e
  <2>1. \A b \in T : b.id \in ActivityIds /\ b.id.kind = "named"
    BY <1>0, TypedState DEF Activities, StartedInv
  <2>2. \A b \in T : b.id = ProviderId(b.id.call)
    BY <2>1, IdParts
  <2> QED BY <1>0, <2>2 DEF StartedInv
<1>3. f \in Injection(T, C) /\ f \in Surjection(T, C)
  BY <1>2 DEF Injection, IsInjective, Surjection
<1> HIDE DEF f, C
<1>4. IsFiniteSet(T) /\ Cardinality(T) = Cardinality(C)
  BY <1>1, <1>3, FS_Injection
<1> QED BY <1>1, <1>4 DEF C

\* The calls in use are calls.
LEMMA InUseFinite == RestartInv => IsFiniteSet(InUse)
<1> SUFFICES ASSUME RestartInv PROVE IsFiniteSet(InUse)
  OBVIOUS
<1>1. InUse \subseteq Calls
  BY TypedState DEF RestartInv, InUse, Remembered, ChargedTo, Activities, ActivityIds, NewCalls
<1> QED BY <1>1, PastCallsAssumption, FS_Subset

\* A record of an activity counts for the scope the activity was charged to.
LEMMA ScopeOfRecord ==
  ASSUME RestartInv, NEW b \in billed, NEW r \in records, r.id \in {b.id, UnknownId(b.id.call)}
  PROVE  r.scope = b.slot.scope /\ r.id.call = b.id.call
<1>0. TypeInv /\ StartedInv /\ ScopeInv
  BY DEF RestartInv, AgreementInv
<1>1. CASE r.id = b.id
  BY <1>0, <1>1 DEF StartedInv, ScopeInv
<1>2. CASE r.id = UnknownId(b.id.call)
  BY <1>0, <1>2, FieldFacts DEF StartedInv, ScopeInv
<1> QED BY <1>1, <1>2

\* What authorize() looks at, the records and the reservations of the core budget, covers
\* the calls in use, also after a restart.
LEMMA InUseIsCounted ==
  ASSUME RestartInv, up
  PROVE  Cardinality(InUse) <= Cardinality(UsedBy(CoreSlot)) + Cardinality(ReservedFor(CoreSlot))
<1>0. TypeInv /\ UnitInv /\ StartedInv /\ KnownInv
  BY DEF RestartInv, AgreementInv
<1> DEFINE Used == UsedBy(CoreSlot)
           Reserved == ReservedFor(CoreSlot)
           RC == {r.id.call : r \in Used}
           HC == {c \in NewCalls : Flying(c) /\ hold[c] \in Reserved}
           f == [r \in Used |-> r.id.call]
           g == [c \in HC |-> hold[c]]
<1>1. IsFiniteSet(Used) /\ IsFiniteSet(Reserved)
  BY <1>0, RecordsFinite, ReservationsFinite, FS_Subset DEF UsedBy
<1>2. IsFiniteSet(RC) /\ Cardinality(RC) <= Cardinality(Used)
  <2>1. f \in Surjection(Used, RC)
    BY DEF Surjection
  <2> HIDE DEF f, RC, Used
  <2> QED BY <1>1, <2>1, FS_Surjection
<1>3. IsFiniteSet(HC) /\ Cardinality(HC) <= Cardinality(Reserved)
  <2>1. g \in Injection(HC, Reserved)
    BY <1>0 DEF Injection, IsInjective, UnitInv
  <2> HIDE DEF g, HC, Reserved
  <2> QED BY <1>1, <2>1, FS_Injection
<1>4. InUse \subseteq RC \cup HC
  <2> SUFFICES ASSUME NEW b \in Remembered PROVE b.id.call \in RC \cup HC
    BY DEF InUse
  <2>1. b \in billed /\ b.slot = CoreSlot /\ ~ Forgotten(b.id)
    BY DEF Remembered, ChargedTo
  <2>2. CASE Counted(b.id)
    <3>1. PICK r \in records : r.id \in {b.id, UnknownId(b.id.call)}
      BY <2>2 DEF Counted, Recorded
    <3>2. r.scope = CoreSlot.scope /\ r.id.call = b.id.call
      BY <2>1, <3>1, ScopeOfRecord
    <3> QED BY <3>2, FieldFacts DEF UsedBy
  <2>3. CASE ~ Counted(b.id)
    <3>1. b.id.call \in NewCalls /\ Live(b.id.call) /\ slot[b.id.call] = CoreSlot
      BY <1>0, <2>1, <2>3 DEF KnownInv, StartedInv
    <3>2. Holds(b.id.call)
      BY <1>0, <2>1, <2>3, <3>1 DEF UnitInv, Rerecords, Counted, StartedInv
    <3>3. Flying(b.id.call)
      BY <3>1 DEF Flying, Live, InFlight
    <3> QED BY <3>1, <3>2, <3>3 DEF Holds, ReservedFor
  <2> QED BY <2>2, <2>3
<1>5. /\ IsFiniteSet(RC \cup HC)
      /\ Cardinality(RC \cup HC) = Cardinality(RC) + Cardinality(HC) - Cardinality(RC \cap HC)
      /\ Cardinality(RC \cap HC) \in Nat
  <2> HIDE DEF RC, HC
  <2>1. IsFiniteSet(RC \cap HC)
    BY <1>2, FS_Subset
  <2> QED BY <1>2, <1>3, <2>1, FS_Union, FS_CardinalityType
<1>6. Cardinality(InUse) <= Cardinality(RC \cup HC)
  <2> HIDE DEF RC, HC
  <2> QED BY <1>4, <1>5, FS_Subset
<1>7. /\ Cardinality(RC) \in Nat /\ Cardinality(HC) \in Nat
      /\ Cardinality(Used) \in Nat /\ Cardinality(Reserved) \in Nat
      /\ Cardinality(InUse) \in Nat
  <2> HIDE DEF RC, HC, Used, Reserved
  <2> QED BY <1>1, <1>2, <1>3, InUseFinite, FS_CardinalityType
<1> HIDE DEF RC, HC
<1> QED BY <1>2, <1>3, <1>5, <1>6, <1>7

\* What leaves the account as it is, or takes from it, puts no further call in use.
LEMMA UseShrinks ==
  ASSUME billed' = billed, lost \subseteq lost',
         \A d \in NewCalls : Flying(d)' /\ hold'[d] \in ReservedFor(CoreSlot)' =>
                               Flying(d) /\ hold[d] \in ReservedFor(CoreSlot)
  PROVE  InUse' \subseteq InUse
<1>1. Remembered' \subseteq Remembered
  BY DEF Remembered, ChargedTo, Forgotten
<1> QED BY <1>1 DEF InUse

\* The call that POSTs has its unit already.
LEMMA PostUses ==
  ASSUME RestartInv, NEW c \in NewCalls, pc[c] = "posting",
         pc' = [pc EXCEPT ![c] = "polling"] \/ pc' = [pc EXCEPT ![c] = "failed"],
         UNCHANGED <<ledgerVars, hold, lost>>,
         billed' \in {billed, billed \cup {StartedActivity(c)}}
  PROVE  InUse' \subseteq InUse
<1>0. TypeInv /\ UnitInv
  BY DEF RestartInv, AgreementInv
<1>1. \A d \in NewCalls : Flying(d)' => Flying(d)
  BY <1>0, TypedState DEF Flying, InFlight
<1>2. ReservedFor(CoreSlot)' = ReservedFor(CoreSlot)
  BY DEF ReservedFor, ledgerVars
<1>3. slot[c] = CoreSlot => Flying(c) /\ hold[c] \in ReservedFor(CoreSlot)
  BY <1>0 DEF UnitInv, Flying, InFlight, Live, Rerecords, Holds, ReservedFor
<1>4. \A b \in Remembered' : b \in Remembered \/ (b.id.call = c /\ slot[c] = CoreSlot)
  BY FieldFacts DEF Remembered, ChargedTo, Forgotten, StartedActivity
<1> QED BY <1>1, <1>2, <1>3, <1>4 DEF InUse

\* Nothing but authorize() puts a call in use: a crash and a restart only take away.
LEMMA OnlyStartUses ==
  ASSUME Budget \in Nat, RestartInv, RestartInv', [NextWithRestarts]_vars
  PROVE  \/ InUse' \subseteq InUse
         \/ \E c \in NewCalls : up /\ Authorize(CoreSlot) /\ InUse' \subseteq InUse \cup {c}
<1> USE DEF ledgerVars, storeVars, ghostVars
<1>0. TypeInv /\ UnitInv /\ TypeInv'
  BY DEF RestartInv, AgreementInv
<1>1. ASSUME NEW c \in NewCalls, NEW t \in CallSlots, Start(c, t)
      PROVE  \/ InUse' \subseteq InUse
             \/ up /\ Authorize(CoreSlot) /\ InUse' \subseteq InUse \cup {c}
  <2>1. /\ up /\ Authorize(t) /\ billed' = billed /\ lost' = lost
        /\ hold' = [hold EXCEPT ![c] = Granted(t)] /\ pc' = [pc EXCEPT ![c] = "posting"]
    BY <1>1 DEF Start, Goto
  <2>2. ReservedFor(CoreSlot)' \subseteq
          ReservedFor(CoreSlot) \cup (IF t = CoreSlot THEN {Granted(t)} ELSE {})
    BY <1>0, <2>1, TypedState DEF Authorize, ReservedFor
  <2>3. Granted(t) \notin ReservedFor(CoreSlot)
    BY <1>0, TypedState, NoneAssumption DEF Granted, ReservedFor
  <2>4. \A d \in NewCalls \ {c} : hold'[d] = hold[d] /\ (Flying(d)' => Flying(d))
    BY <1>0, <2>1, TypedState DEF Flying
  <2>5. \A d \in NewCalls : Flying(d) => hold[d] # Granted(t)
    BY <1>0, TypedState, NoneAssumption DEF UnitInv, Granted
  <2>6. \A d \in NewCalls \ {c} :
          Flying(d)' /\ hold'[d] \in ReservedFor(CoreSlot)' =>
            Flying(d) /\ hold[d] \in ReservedFor(CoreSlot)
    BY <2>2, <2>4, <2>5
  <2>7. Remembered' = Remembered
    BY <2>1 DEF Remembered, ChargedTo, Forgotten
  <2>8. CASE t = CoreSlot
    <3>1. InUse' \subseteq InUse \cup {c}
      BY <2>6, <2>7 DEF InUse
    <3> QED BY <2>1, <2>8, <3>1
  <2>9. CASE t # CoreSlot
    <3>1. hold'[c] \notin ReservedFor(CoreSlot)'
      BY <1>0, <2>1, <2>2, <2>3, <2>9, TypedState
    <3> QED BY <2>6, <2>7, <3>1 DEF InUse
  <2> QED BY <2>8, <2>9
<1>2. ASSUME NEW c \in NewCalls, Proceed(c) PROVE InUse' \subseteq InUse
  <2>1. CASE (\E id \in AnswerIds(c) : PostAnswered(c, id)) \/ PostAmbiguous(c)
    <3>1. /\ pc[c] = "posting" /\ UNCHANGED <<ledgerVars, hold, lost>>
          /\ pc' = [pc EXCEPT ![c] = "polling"] \/ pc' = [pc EXCEPT ![c] = "failed"]
          /\ billed' \in {billed, billed \cup {StartedActivity(c)}}
      BY <2>1 DEF PostAnswered, PostAmbiguous, Goto
    <3> QED BY <3>1, PostUses
  <2>2. CASE RecordCompleted(c) \/ RecordSubmitted(c) \/ RecordUnknown(c) \/ ReleaseRejected(c)
    <3>1. Flying(c) /\ Pop(hold[c]) /\ hold' = hold /\ billed' = billed /\ lost' = lost
      BY <2>2 DEF RecordCompleted, RecordSubmitted, RecordUnknown, ReleaseRejected,
                  RecordUsage, Record, ReleaseCall, Flying, InFlight
    <3>2. \E l : pc' = [pc EXCEPT ![c] = l]
      BY <2>2 DEF RecordCompleted, RecordSubmitted, RecordUnknown, ReleaseRejected,
                  RecordUsage, Goto
    <3>3. \A d \in NewCalls : Flying(d)' => Flying(d)
      BY <1>0, <3>1, <3>2, TypedState DEF Flying
    <3>4. ReservedFor(CoreSlot)' \subseteq ReservedFor(CoreSlot)
      BY <3>1 DEF Pop, ReservedFor
    <3> QED BY <3>1, <3>3, <3>4, UseShrinks
  <2>3. CASE PostRejected(c) \/ PollEnds(c) \/ RaiseUnreserved(c) \/ Persist(c) \/ PersistFails(c)
    <3>1. /\ Flying(c) /\ ledgerVars' = ledgerVars /\ hold' = hold /\ billed' = billed
          /\ lost \subseteq lost'
      BY <2>3 DEF PostRejected, PollEnds, RaiseUnreserved, Persist, PersistFails, Flying, InFlight
    <3>2. \E l : pc' = [pc EXCEPT ![c] = l]
      BY <2>3 DEF PostRejected, PollEnds, RaiseUnreserved, Persist, PersistFails, Goto
    <3>3. \A d \in NewCalls : Flying(d)' => Flying(d)
      BY <1>0, <3>1, <3>2, TypedState DEF Flying
    <3>4. ReservedFor(CoreSlot)' = ReservedFor(CoreSlot)
      BY <3>1 DEF ReservedFor
    <3> QED BY <3>1, <3>3, <3>4, UseShrinks
  <2> QED BY <1>2, <2>1, <2>2, <2>3 DEF Proceed
<1>3. ASSUME NEW c \in NewCalls, NEW t \in CallSlots, Refuse(c, t)
      PROVE  InUse' \subseteq InUse
  <2>1. /\ ledgerVars' = ledgerVars /\ hold' = hold /\ billed' = billed /\ lost' = lost
        /\ pc' = [pc EXCEPT ![c] = "refused"]
    BY <1>3 DEF Refuse, Goto
  <2>2. ReservedFor(CoreSlot)' = ReservedFor(CoreSlot)
    BY <2>1 DEF ReservedFor
  <2>3. \A d \in NewCalls : Flying(d)' => Flying(d)
    BY <1>0, <2>1, TypedState DEF Flying, InFlight
  <2> QED BY <2>1, <2>2, <2>3, UseShrinks
<1>4. CASE Midnight \/ UNCHANGED vars
  <2>1. UNCHANGED <<ledgerVars, hold, billed, lost, pc>>
    BY <1>4 DEF Midnight, vars, callVars
  <2> QED BY <2>1, UseShrinks DEF ReservedFor, Flying
<1>5. CASE Crash \/ Restart
  <2>1. billed' = billed /\ lost \subseteq lost' /\ ReservedFor(CoreSlot)' = {}
    BY <1>5 DEF Crash, Restart, Load, LedgerInit, ReservedFor
  <2> QED BY <2>1, UseShrinks
<1> QED BY <1>1, <1>2, <1>3, <1>4, <1>5 DEF NextWithRestarts, StaysDown, Next, Submit, Idle

\* What earlier processes were billed for does not change, whatever is killed.
LEMMA InheritedKept ==
  ASSUME [NextWithRestarts]_vars
  PROVE  Inherited(CoreSlot)' = Inherited(CoreSlot)
<1> USE DEF ghostVars
<1>1. billed' = billed \/ \E c \in NewCalls : billed' = billed \cup {StartedActivity(c)}
  <2>1. ASSUME NEW c \in NewCalls, Proceed(c)
        PROVE  billed' = billed \/ billed' = billed \cup {StartedActivity(c)}
    BY <2>1 DEF Proceed, PostAnswered, PostAmbiguous, PostRejected, PollEnds, RecordCompleted,
       RecordSubmitted, RecordUnknown, RecordUsage, ReleaseRejected, RaiseUnreserved, Persist,
       PersistFails
  <2>2. ASSUME NEW c \in NewCalls, Submit(c) PROVE billed' = billed
    BY <2>2 DEF Submit, Start, Refuse
  <2>3. CASE Midnight \/ Crash \/ Restart \/ UNCHANGED vars
    BY <2>3 DEF Midnight, Crash, Restart, vars
  <2> QED BY <2>1, <2>2, <2>3 DEF NextWithRestarts, StaysDown, Next, Idle
<1>2. \A c \in NewCalls : StartedActivity(c).id.call \notin PastCalls
  BY FieldFacts DEF StartedActivity, NewCalls
<1> QED BY <1>1, <1>2 DEF Inherited, ChargedTo

\* The inherited activities are charged activities.
LEMMA InheritedFinite ==
  RestartInv => IsFiniteSet(Inherited(CoreSlot)) /\ Cardinality(Inherited(CoreSlot)) \in Nat
BY ChargedKept, FS_CardinalityType DEF Inherited, ChargedTo

\* At first only the inherited calls are in use.
LEMMA InitLoss == ASSUME Budget \in Nat PROVE Init => LossInv
<1> SUFFICES ASSUME Init
             PROVE  Cardinality(InUse) <= Larger(Budget, Cardinality(Inherited(CoreSlot)))
  BY DEF LossInv
<1>1. RestartInv
  BY InitKept
<1>2. PICK history \in Histories :
        /\ LedgerInit(history)
        /\ billed = {[id |-> r.id, slot |-> SlotOf(r)] : r \in history}
  BY DEF Init
<1>3. ChargedTo(CoreSlot) = Inherited(CoreSlot)
  <2>1. \A r \in history : r.id.call \in PastCalls
    BY <1>2, FieldFacts DEF Histories, PastRecords
  <2> QED BY <1>2, <2>1 DEF ChargedTo, Inherited
<1>4. \A c \in NewCalls : hold[c] \notin ReservedFor(CoreSlot)
  BY <1>2 DEF LedgerInit, ReservedFor
<1>5. lost = {}
  BY DEF Init
<1>6. InUse = {b.id.call : b \in Inherited(CoreSlot)}
  BY <1>3, <1>4, <1>5 DEF InUse, Remembered, Forgotten
<1>7. Cardinality(InUse) = Cardinality(Inherited(CoreSlot))
  BY <1>1, <1>6, ChargedKept DEF Inherited, ChargedTo
<1> QED BY <1>1, <1>7, InheritedFinite, LargerFacts

\* authorize() puts a call in use only below the budget; nothing else puts any.
LEMMA StepLoss ==
  ASSUME Budget \in Nat, RestartInv, RestartInv', LossInv, [NextWithRestarts]_vars
  PROVE  LossInv'
<1> DEFINE most == Larger(Budget, Cardinality(Inherited(CoreSlot)))
<1>1. Limit(CoreSlot) = Budget /\ Budget # None
  BY FieldFacts, NoneAssumption DEF Limit, CoreSlot
<1>2. /\ most \in Nat /\ most >= Budget
      /\ IsFiniteSet(InUse) /\ Cardinality(InUse) \in Nat /\ Cardinality(InUse) <= most
  BY <1>1, InheritedFinite, LargerFacts, InUseFinite, FS_CardinalityType DEF LossInv
<1> HIDE DEF most
<1>3. ASSUME InUse' \subseteq InUse PROVE Cardinality(InUse') <= most
  <2>1. Cardinality(InUse') <= Cardinality(InUse) /\ Cardinality(InUse') \in Nat
    BY <1>2, <1>3, FS_Subset, FS_CardinalityType
  <2> QED BY <1>2, <2>1
<1>4. ASSUME NEW c \in NewCalls, up, Authorize(CoreSlot), InUse' \subseteq InUse \cup {c}
      PROVE  Cardinality(InUse') <= most
  <2>1. IsFiniteSet(UsedBy(CoreSlot)) /\ IsFiniteSet(ReservedFor(CoreSlot))
    BY RecordsFinite, ReservationsFinite, FS_Subset DEF UsedBy, RestartInv
  <2>2. Cardinality(UsedBy(CoreSlot)) \in Nat /\ Cardinality(ReservedFor(CoreSlot)) \in Nat
    BY <2>1, FS_CardinalityType
  <2>3. Cardinality(UsedBy(CoreSlot)) + Cardinality(ReservedFor(CoreSlot)) < Budget
    BY <1>1, <1>4, <2>2 DEF Authorize, Refuses, Remaining
  <2>4. Cardinality(InUse) < Budget
    BY <1>2, <1>4, <2>2, <2>3, InUseIsCounted
  <2>5. /\ IsFiniteSet(InUse \cup {c})
        /\ Cardinality(InUse \cup {c}) =
             IF c \in InUse THEN Cardinality(InUse) ELSE Cardinality(InUse) + 1
    BY <1>2, FS_AddElement
  <2>6. /\ Cardinality(InUse') <= Cardinality(InUse \cup {c})
        /\ Cardinality(InUse') \in Nat /\ Cardinality(InUse \cup {c}) \in Nat
    BY <1>4, <2>5, FS_Subset, FS_CardinalityType
  <2> QED BY <1>2, <2>4, <2>5, <2>6
<1>5. Cardinality(InUse') <= most
  BY <1>3, <1>4, OnlyStartUses
<1> QED BY <1>5, InheritedKept DEF LossInv, most

(***************************************************************************)
(* Killed and restarted at whatever step, the processes together have the  *)
(* provider start no more core activities than the budget, not counting    *)
(* the ones the ledger was made to forget.                                 *)
(***************************************************************************)
THEOREM OverspendBounded == SpecWithRestarts => []OverspendBoundedByLoss
<1>1. CASE Budget = None
  <2>1. OverspendBoundedByLoss
    BY <1>1, FieldFacts DEF OverspendBoundedByLoss, Limit, CoreSlot
  <2> QED BY <2>1, PTL
<1>2. CASE Budget \in Nat
  <2>1. RestartInv /\ LossInv => OverspendBoundedByLoss
    <3> SUFFICES ASSUME RestartInv, LossInv, Limit(CoreSlot) # None
                 PROVE  Cardinality(Remembered) <= Larger(Budget, Cardinality(Inherited(CoreSlot)))
      BY DEF OverspendBoundedByLoss, Remembered
    <3>1. /\ Cardinality(Remembered) = Cardinality({b.id.call : b \in Remembered})
          /\ IsFiniteSet({b.id.call : b \in Remembered})
      BY ChargedKept DEF Remembered, ChargedTo
    <3>2. {b.id.call : b \in Remembered} \subseteq InUse
      BY DEF InUse
    <3>3. Cardinality({b.id.call : b \in Remembered}) <= Cardinality(InUse)
      BY <3>2, InUseFinite, FS_Subset
    <3>4. /\ Cardinality(InUse) <= Larger(Budget, Cardinality(Inherited(CoreSlot)))
          /\ Cardinality(InUse) \in Nat /\ Cardinality(Remembered) \in Nat
          /\ Larger(Budget, Cardinality(Inherited(CoreSlot))) \in Nat
      BY <1>2, <3>1, InUseFinite, InheritedFinite, LargerFacts, FS_CardinalityType DEF LossInv
    <3> QED BY <3>1, <3>3, <3>4
  <2>2. Init => RestartInv /\ LossInv
    BY <1>2, InitKept, InitLoss
  <2>3. RestartInv /\ LossInv /\ [NextWithRestarts]_vars => RestartInv' /\ LossInv'
    BY <1>2, StepKept, StepLoss
  <2> QED BY <2>1, <2>2, <2>3, PTL DEF SpecWithRestarts
<1> QED BY <1>1, <1>2, BudgetAssumption


-----------------------------------------------------------------------------
(***************************************************************************)
(* Chapter IV.  What the end of a call rests on.                           *)
(*                                                                         *)
(* That a call ends (CallsEnd) is liveness and is left to TLC.  What it    *)
(* rests on besides fairness is proved: a call takes at most six steps     *)
(* after its authorisation, and what the provider has started for it is    *)
(* counted by the time it has ended.                                       *)
(***************************************************************************)
StepsLeft(c) ==
  CASE pc[c] = "idle"       -> 7
    [] pc[c] = "posting"    -> 6
    [] pc[c] = "polling"    -> 5
    [] pc[c] = "completing" -> 4
    [] pc[c] = "persisting" -> IF pending[c].status = "completed" THEN 3 ELSE 1
    [] pc[c] = "failed"     -> 2
    [] pc[c] = "rejected"   -> 1
    [] OTHER                -> 0

Steady(c) == pc'[c] = pc[c] /\ pending'[c] = pending[c]

\* A record written under a call takes it to the file or to its end.
LEMMA RecordRunsDown ==
  ASSUME TypeInv, NEW c \in NewCalls, NEW id, NEW day, NEW status, NEW ending \in Ended,
         RecordUsage(c, Usage(c, id, day, status), ending)
  PROVE  /\ StepsLeft(c)' <= IF status = "completed" THEN 3 ELSE 1
         /\ \A d \in NewCalls \ {c} : Steady(d)
<1>1. pc \in [NewCalls -> Locations] /\ pending \in [NewCalls -> UsageRecords \cup {None}]
  BY DEF TypeInv, TypeOK
<1>2. Usage(c, id, day, status).status = status
  BY DEF Usage
<1>3. CASE Recorded(Usage(c, id, day, status).id)
  BY <1>1, <1>3 DEF RecordUsage, Goto, StepsLeft, Ended, Steady
<1>4. CASE ~ Recorded(Usage(c, id, day, status).id)
  BY <1>1, <1>2, <1>4 DEF RecordUsage, Goto, StepsLeft, Steady
<1> QED BY <1>3, <1>4

\* Every step of a call brings it nearer to its end and leaves the others where they are.
LEMMA ProceedRunsDown ==
  ASSUME TypeInv, NEW c \in NewCalls, Proceed(c)
  PROVE  StepsLeft(c)' < StepsLeft(c) /\ \A d \in NewCalls \ {c} : Steady(d)
<1>1. pc \in [NewCalls -> Locations]
  BY DEF TypeInv, TypeOK
<1>2. ASSUME NEW id \in AnswerIds(c), PostAnswered(c, id)
      PROVE  StepsLeft(c)' < StepsLeft(c) /\ \A d \in NewCalls \ {c} : Steady(d)
  BY <1>1, <1>2 DEF PostAnswered, Goto, StepsLeft, Steady
<1>3. CASE PostAmbiguous(c)
  BY <1>1, <1>3 DEF PostAmbiguous, Goto, StepsLeft, Steady
<1>4. CASE PostRejected(c)
  BY <1>1, <1>4 DEF PostRejected, Goto, StepsLeft, Steady
<1>5. CASE PollEnds(c)
  BY <1>1, <1>5 DEF PollEnds, Goto, StepsLeft, Steady
<1>6. CASE RecordCompleted(c)
  <2>1. StepsLeft(c) = 4
    BY <1>6 DEF RecordCompleted, StepsLeft
  <2>2. StepsLeft(c)' <= 3 /\ \A d \in NewCalls \ {c} : Steady(d)
    BY <1>6, RecordRunsDown, LocationFacts DEF RecordCompleted
  <2> HIDE DEF StepsLeft
  <2>3. StepsLeft(c)' < 4
    <3>1. StepsLeft(c)' \in Int
      BY DEF StepsLeft
    <3> QED BY <2>2, <3>1
  <2> QED BY <2>1, <2>2, <2>3
<1>7. CASE RecordSubmitted(c) \/ RecordUnknown(c)
  <2>1. StepsLeft(c) = 2
    BY <1>7 DEF RecordSubmitted, RecordUnknown, StepsLeft
  <2>2. StepsLeft(c)' <= 1 /\ \A d \in NewCalls \ {c} : Steady(d)
    BY <1>7, RecordRunsDown, LocationFacts DEF RecordSubmitted, RecordUnknown
  <2>3. StepsLeft(c)' < 2
    <3>1. StepsLeft(c)' \in Int
      BY DEF StepsLeft
    <3> QED BY <2>2, <3>1
  <2> QED BY <2>1, <2>2, <2>3
<1>8. CASE ReleaseRejected(c) \/ RaiseUnreserved(c)
  BY <1>1, <1>8 DEF ReleaseRejected, RaiseUnreserved, Goto, StepsLeft, Steady
<1>9. CASE Persist(c)
  BY <1>1, <1>9 DEF Persist, Goto, StepsLeft, Steady
<1>10. CASE PersistFails(c)
  BY <1>1, <1>10 DEF PersistFails, Goto, StepsLeft, Steady
<1> QED BY <1>2, <1>3, <1>4, <1>5, <1>6, <1>7, <1>8, <1>9, <1>10 DEF Proceed

(***************************************************************************)
(* No call runs for ever or submits twice: each step of submit_and_poll    *)
(* brings its call nearer to the end, through retried records and failed   *)
(* writes too, and no step of another call takes it back                   *)
(* (client.py:61-219).                                                     *)
(***************************************************************************)
THEOREM CallsRunDown ==
  Spec => /\ [](\A c \in NewCalls : StepsLeft(c) \in 0 .. 7)
          /\ [][\A c \in NewCalls :
                  /\ Proceed(c) => StepsLeft(c)' < StepsLeft(c)
                  /\ StepsLeft(c)' <= StepsLeft(c)]_vars
<1> DEFINE Few == \A c \in NewCalls : StepsLeft(c) \in 0 .. 7
           Down == \A c \in NewCalls :
             /\ Proceed(c) => StepsLeft(c)' < StepsLeft(c)
             /\ StepsLeft(c)' <= StepsLeft(c)
<1>0. \A c \in NewCalls : StepsLeft(c) \in 0 .. 7 /\ StepsLeft(c)' \in 0 .. 7
  BY DEF StepsLeft
<1>1. \A c \in NewCalls : Steady(c) => StepsLeft(c)' = StepsLeft(c)
  BY DEF Steady, StepsLeft
<1> HIDE DEF StepsLeft
<1>2. TypeInv /\ [Next]_vars => [Down]_vars
  <2> SUFFICES ASSUME TypeInv, Next PROVE Down
    BY DEF Down
  <2>1. ASSUME NEW c \in NewCalls, Proceed(c) PROVE Down
    <3>1. StepsLeft(c)' < StepsLeft(c) /\ \A d \in NewCalls \ {c} : Steady(d)
      BY <2>1, ProceedRunsDown
    <3>2. \A d \in NewCalls : Proceed(d) => StepsLeft(d)' < StepsLeft(d)
      BY ProceedRunsDown
    <3> QED BY <1>0, <1>1, <3>1, <3>2
  <2>2. ASSUME \A c \in NewCalls : ~ Proceed(c) PROVE Down
    <3>1. CASE \E c \in NewCalls : Submit(c)
      <4>1. PICK c \in NewCalls : Submit(c)
        BY <3>1
      <4>2. pc \in [NewCalls -> Locations]
        BY DEF TypeInv, TypeOK
      <4>3. \A d \in NewCalls \ {c} : Steady(d)
        BY <4>1, <4>2 DEF Submit, Start, Refuse, Goto, Steady
      <4>4. StepsLeft(c)' <= StepsLeft(c)
        BY <4>1, <4>2 DEF Submit, Start, Refuse, Goto, StepsLeft
      <4> QED BY <1>0, <1>1, <2>2, <4>3, <4>4
    <3>2. CASE Midnight \/ Idle
      <4>1. \A c \in NewCalls : Steady(c)
        BY <3>2 DEF Midnight, Idle, vars, callVars, Steady
      <4> QED BY <1>0, <1>1, <2>2, <4>1
    <3> QED BY <2>2, <3>1, <3>2 DEF Next
  <2> QED BY <2>1, <2>2
<1>3. Few
  BY <1>0
<1> HIDE DEF Few, Down
<1>4. Spec => []Few /\ [][Down]_vars
  BY <1>2, <1>3, TypeInvariance, PTL DEF Spec
<1> QED BY <1>4 DEF Few, Down

-----------------------------------------------------------------------------
\* The provider has started the activity of the call.
HasBill(c) == \E b \in billed : b.id = ProviderId(c)

\* Where a call stands whose activity the provider has started: past the submission, with
\* the activity's own id if it knows one, and once it has recorded it, with it counted.
SettledBy(c) ==
  /\ pc[c] # "crashed" /\ (pc[c] \in {"idle", "posting"} => activity[c] = None)
  /\ HasBill(c) =>
       /\ pc[c] \notin {"idle", "posting", "refused", "rejected"}
       /\ pc[c] \in {"polling", "completing"} => activity[c] = ProviderId(c)
       /\ pc[c] \in {"failed", "persisting"} => activity[c] \in {None, ProviderId(c)}
       /\ pc[c] \in {"persisting", "returned", "raised"} /\ hold[c] # None =>
            Counted(ProviderId(c))

SettledInv == \A c \in NewCalls : SettledBy(c)

\* A call that another step leaves alone.
LEMMA LeftAlone ==
  ASSUME NEW c, SettledBy(c), UNCHANGED <<pc[c], activity[c], hold[c]>>,
         records \subseteq records', HasBill(c)' => HasBill(c)
  PROVE  SettledBy(c)'
<1>1. Counted(ProviderId(c)) => Counted(ProviderId(c))'
  BY DEF Counted, Recorded
<1> QED BY <1>1 DEF SettledBy

\* At first nothing is started for a new call.
LEMMA SettledInit == Init => SettledInv
<1> SUFFICES ASSUME Init, NEW c \in NewCalls PROVE SettledBy(c)
  BY DEF SettledInv
<1>1. pc[c] = "idle" /\ activity[c] = None
  BY DEF Init
<1>2. ~ HasBill(c)
  <2>1. PICK history \in Histories : billed = {[id |-> r.id, slot |-> SlotOf(r)] : r \in history}
    BY DEF Init
  <2>2. \A r \in history : r.id \in {ProviderId(d) : d \in PastCalls}
    BY DEF Histories, PastRecords
  <2>3. \A d \in PastCalls : ProviderId(d) # ProviderId(c)
    BY DEF NewCalls, ProviderId
  <2> QED BY <2>1, <2>2, <2>3 DEF HasBill
<1> QED BY <1>1, <1>2 DEF SettledBy

\* A record of the call's own activity, under the provider's id or one made up.
LEMMA RecordSettles ==
  ASSUME TypeInv, NEW c \in NewCalls, SettledBy(c), NEW id, NEW day, NEW status,
         NEW ending \in {"returned", "raised"}, RecordUsage(c, Usage(c, id, day, status), ending),
         pc[c] \in {"completing", "failed"},
         HasBill(c) /\ hold[c] # None => id \in {ProviderId(c), UnknownId(c)}
  PROVE  SettledBy(c)'
<1>1. pc \in [NewCalls -> Locations]
  BY DEF TypeInv, TypeOK
<1>2. \E r \in records' : r.id = id
  <2> DEFINE usage == Usage(c, id, day, status)
  <2>1. usage.id = id
    BY DEF Usage
  <2> HIDE DEF usage
  <2>2. records' = IF Recorded(usage.id) THEN records ELSE records \cup {usage}
    BY DEF RecordUsage, Record, usage
  <2> QED BY <2>1, <2>2 DEF Recorded
<1>3. pc'[c] \in {"persisting", "returned", "raised"}
  BY <1>1 DEF RecordUsage, Goto
<1>4. UNCHANGED <<hold, activity, billed>>
  BY DEF RecordUsage, ghostVars
<1>5. HasBill(c) /\ hold[c] # None => Counted(ProviderId(c))'
  BY <1>2 DEF Counted, Recorded, ProviderId
<1> QED BY <1>3, <1>4, <1>5 DEF SettledBy, HasBill

\* A step of a call leaves it settled and the others alone.
LEMMA ProceedSettles ==
  ASSUME TypeInv, NEW c \in NewCalls, SettledBy(c), Proceed(c)
  PROVE  /\ SettledBy(c)'
         /\ records \subseteq records'
         /\ \A d \in NewCalls \ {c} :
              UNCHANGED <<pc[d], activity[d], hold[d]>> /\ (HasBill(d)' => HasBill(d))
<1> DEFINE Others == \A d \in NewCalls \ {c} :
             UNCHANGED <<pc[d], activity[d], hold[d]>> /\ (HasBill(d)' => HasBill(d))
<1>0. /\ pc \in [NewCalls -> Locations] /\ activity \in [NewCalls -> ActivityIds \cup {None}]
      /\ \A d \in NewCalls \ {c} : ProviderId(d) # ProviderId(c)
  BY DEF TypeInv, TypeOK, ProviderId
<1>u. ASSUME billed' = billed PROVE \A d : HasBill(d)' = HasBill(d)
  BY <1>u DEF HasBill
<1>s. ASSUME billed' \in {billed, billed \cup {StartedActivity(c)}}
      PROVE  \A d \in NewCalls \ {c} : HasBill(d)' => HasBill(d)
  <2>1. StartedActivity(c).id = ProviderId(c)
    BY DEF StartedActivity
  <2>2. \A b \in billed' : b \in billed \/ b = StartedActivity(c)
    BY <1>s
  <2> QED BY <1>0, <2>1, <2>2 DEF HasBill
<1>1. ASSUME NEW id \in AnswerIds(c), PostAnswered(c, id)
      PROVE  SettledBy(c)' /\ records \subseteq records' /\ Others
  <2>1. /\ pc'[c] = "polling" /\ activity'[c] = id /\ records' = records /\ hold' = hold
        /\ \A d \in NewCalls \ {c} : pc'[d] = pc[d] /\ activity'[d] = activity[d]
    BY <1>0, <1>1 DEF PostAnswered, Goto, ledgerVars
  <2>2. billed' \in {billed, billed \cup {StartedActivity(c)}}
    BY <1>1 DEF PostAnswered
  <2>3. HasBill(c)' => id = ProviderId(c)
    <3>1. ~ HasBill(c)
      BY <1>1 DEF PostAnswered, SettledBy
    <3> QED BY <1>1, <3>1 DEF PostAnswered, HasBill
  <2> QED BY <1>s, <2>1, <2>2, <2>3 DEF SettledBy
<1>2. CASE PostAmbiguous(c)
  <2>1. /\ pc'[c] = "failed" /\ activity' = activity /\ records' = records /\ hold' = hold
        /\ \A d \in NewCalls \ {c} : pc'[d] = pc[d]
    BY <1>0, <1>2 DEF PostAmbiguous, Goto, ledgerVars
  <2>2. billed' \in {billed, billed \cup {StartedActivity(c)}} /\ activity[c] = None
    BY <1>2 DEF PostAmbiguous, SettledBy
  <2> QED BY <1>s, <2>1, <2>2 DEF SettledBy
<1>3. CASE PostRejected(c) \/ PollEnds(c) \/ ReleaseRejected(c) \/ RaiseUnreserved(c)
  <2>1. /\ UNCHANGED <<activity, records, hold, billed>>
        /\ \A d \in NewCalls \ {c} : pc'[d] = pc[d]
    BY <1>0, <1>3 DEF PostRejected, PollEnds, ReleaseRejected, ReleaseCall, RaiseUnreserved,
                      Goto, ledgerVars, ghostVars
  <2>2. \/ pc[c] = "posting" /\ pc'[c] = "rejected"
        \/ pc[c] = "polling" /\ pc'[c] \in {"completing", "failed"}
        \/ pc[c] = "rejected" /\ pc'[c] = "raised"
        \/ hold[c] = None /\ pc'[c] = "raised"
    BY <1>0, <1>3 DEF PostRejected, PollEnds, ReleaseRejected, RaiseUnreserved, Goto
  <2> QED BY <1>u, <2>1, <2>2 DEF SettledBy
<1>4. CASE RecordCompleted(c) \/ RecordSubmitted(c) \/ RecordUnknown(c)
  <2>1. SettledBy(c)'
    <3>1. CASE RecordCompleted(c)
      BY <3>1, RecordSettles DEF RecordCompleted, SettledBy
    <3>2. CASE RecordSubmitted(c)
      BY <3>2, RecordSettles DEF RecordSubmitted, SettledBy
    <3>3. CASE RecordUnknown(c)
      BY <3>3, RecordSettles DEF RecordUnknown
    <3> QED BY <1>4, <3>1, <3>2, <3>3
  <2>2. /\ UNCHANGED <<activity, hold, billed>> /\ records \subseteq records'
        /\ \A d \in NewCalls \ {c} : pc'[d] = pc[d]
    BY <1>0, <1>4 DEF RecordCompleted, RecordSubmitted, RecordUnknown, RecordUsage, Record, Goto,
                      ghostVars
  <2> QED BY <1>u, <2>1, <2>2
<1>5. CASE Persist(c) \/ PersistFails(c)
  <2>1. /\ UNCHANGED <<activity, records, hold, billed>>
        /\ \A d \in NewCalls \ {c} : pc'[d] = pc[d]
    BY <1>0, <1>5 DEF Persist, PersistFails, Goto, ledgerVars, ghostVars
  <2>2. pc[c] = "persisting" /\ pc'[c] \in {"returned", "raised", "failed"}
    BY <1>0, <1>5 DEF Persist, PersistFails, Goto
  <2>3. Counted(ProviderId(c)) => Counted(ProviderId(c))'
    BY <2>1 DEF Counted, Recorded
  <2> QED BY <1>u, <2>1, <2>2, <2>3 DEF SettledBy
<1> QED BY <1>1, <1>2, <1>3, <1>4, <1>5 DEF Proceed

\* So does every step.
LEMMA SettledStep == TypeInv /\ SettledInv /\ [Next]_vars => SettledInv'
<1> SUFFICES ASSUME TypeInv, SettledInv, [Next]_vars PROVE SettledInv'
  OBVIOUS
<1>1. ASSUME NEW c \in NewCalls, Proceed(c) PROVE SettledInv'
  <2>1. /\ SettledBy(c)' /\ records \subseteq records'
        /\ \A d \in NewCalls \ {c} :
             UNCHANGED <<pc[d], activity[d], hold[d]>> /\ (HasBill(d)' => HasBill(d))
    BY <1>1, ProceedSettles DEF SettledInv
  <2>2. ASSUME NEW d \in NewCalls \ {c} PROVE SettledBy(d)'
    BY <2>1, LeftAlone DEF SettledInv
  <2> QED BY <2>1, <2>2 DEF SettledInv
<1>2. ASSUME NEW c \in NewCalls, Submit(c) PROVE SettledInv'
  <2>0. pc \in [NewCalls -> Locations] /\ hold \in [NewCalls -> Nat \cup {None}]
    BY DEF TypeInv, TypeOK
  <2>1. /\ pc[c] = "idle" /\ pc'[c] \in {"posting", "refused"}
        /\ UNCHANGED <<activity, records, billed>>
        /\ \A d \in NewCalls \ {c} : pc'[d] = pc[d] /\ hold'[d] = hold[d]
    BY <1>2, <2>0 DEF Submit, Start, Refuse, Goto, Authorize, ledgerVars, ghostVars
  <2>2. \A d : HasBill(d)' = HasBill(d)
    BY <2>1 DEF HasBill
  <2>3. SettledBy(c)'
    BY <2>1, <2>2 DEF SettledInv, SettledBy
  <2>4. ASSUME NEW d \in NewCalls \ {c} PROVE SettledBy(d)'
    BY <2>1, <2>2, LeftAlone DEF SettledInv
  <2> QED BY <2>3, <2>4 DEF SettledInv
<1>3. CASE Midnight \/ UNCHANGED vars
  <2>1. UNCHANGED <<pc, activity, hold, records, billed>>
    BY <1>3 DEF Midnight, vars, callVars, ledgerVars, ghostVars
  <2>2. \A d : HasBill(d)' = HasBill(d)
    BY <2>1 DEF HasBill
  <2> QED BY <2>1, <2>2, LeftAlone DEF SettledInv
<1> QED BY <1>1, <1>2, <1>3 DEF Next, Idle

(***************************************************************************)
(* When a call has returned or raised, the activity the provider started   *)
(* for it, even one whose answer was lost, is counted, if the call was     *)
(* authorised against a reservation; with any budgets, and also when       *)
(* another call has taken the reservation away (client.py:61-219).  It is  *)
(* what CallsEnd says of the end of a call.                                *)
(***************************************************************************)
THEOREM EndedAreCounted ==
  Spec => [](\A c \in NewCalls :
               pc[c] \in Ended /\ hold[c] # None /\ StartedActivity(c) \in billed =>
                 Counted(ProviderId(c)))
<1> DEFINE Settled == \A c \in NewCalls :
             pc[c] \in Ended /\ hold[c] # None /\ StartedActivity(c) \in billed =>
               Counted(ProviderId(c))
<1>1. SettledInv => Settled
  <2> SUFFICES ASSUME SettledInv, NEW c \in NewCalls, pc[c] \in Ended, hold[c] # None,
                      StartedActivity(c) \in billed
               PROVE  Counted(ProviderId(c))
    BY DEF Settled
  <2>1. HasBill(c)
    BY DEF HasBill, StartedActivity
  <2> QED BY <2>1 DEF SettledInv, SettledBy, Ended
<1> HIDE DEF Settled
<1>2. Spec => []Settled
  BY <1>1, SettledInit, SettledStep, TypeInvariance, PTL DEF Spec
<1> QED BY <1>2 DEF Settled

=============================================================================
