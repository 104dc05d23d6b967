--------------------------- MODULE ClientRestarts ---------------------------
(***************************************************************************)
(* The client of FortyGuardClient in a process that can be killed at any   *)
(* step and started again: build_ledger loads the ledger from its file.    *)
(*                                                                         *)
(* Records that were not written, and every reservation, die with the      *)
(* process.  The provider goes on with what it was given.                  *)
(***************************************************************************)
EXTENDS FortyGuardClient

\* The ids under which a call could have been counted.
IdsOf(c) == {ProviderId(c), UnknownId(c)} \cup ({activity[c]} \ {None})

CallsInFlight == {c \in NewCalls : pc[c] \in InFlight}

\* A kill while a line is being written can leave part of it in the file.
Crash ==
  /\ up
  /\ up' = FALSE
  /\ torn' \in {torn, TRUE}
  /\ torn' # torn => \E c \in NewCalls : pc[c] = "persisting"
  /\ lost' = lost \cup UNION {IdsOf(c) : c \in CallsInFlight}
  /\ pc' = [c \in NewCalls |-> IF c \in CallsInFlight THEN "crashed" ELSE pc[c]]
  /\ records' = {}
  /\ reservations' = [i \in {} |-> CoreSlot]
  /\ nextReservation' = 0
  /\ UNCHANGED <<file, today, slot, hold, activity, attempted, pending, billed>>

\* A file with a torn line stops the start-up with a ValueError.
Restart ==
  /\ ~ up
  /\ Load
  /\ UNCHANGED <<callVars, ghostVars>>

StaysDown == ~ up /\ torn /\ UNCHANGED vars

NextWithRestarts == Next \/ Crash \/ Restart \/ StaysDown

SpecWithRestarts == Init /\ [][NextWithRestarts]_vars

-----------------------------------------------------------------------------
Forgotten(id) == id \in lost \/ UnknownId(id.call) \in lost

(***************************************************************************)
(* A process that runs knows of every activity the provider has started,   *)
(* except those whose record got no line of its own: the calls that were   *)
(* in flight at a crash, and the writes that failed.  No other record is   *)
(* forgotten, however often the process restarts, and a file some line of  *)
(* which cannot be read is never taken for the whole ledger.               *)
(***************************************************************************)
OnlyLostForgotten ==
  up => \A b \in billed :
          \/ Counted(b.id)
          \/ Forgotten(b.id)
          \/ Live(b.id.call) /\ hold[b.id.call] \in DOMAIN reservations

\* So the core budget is exceeded by no more than what was lost.
OverspendBoundedByLoss ==
  Limit(CoreSlot) # None =>
    Cardinality({b \in ChargedTo(CoreSlot) : ~ Forgotten(b.id)})
      <= Larger(Budget, Cardinality(Inherited(CoreSlot)))
=============================================================================
