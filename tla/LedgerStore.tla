---------------------------- MODULE LedgerStore -----------------------------
(***************************************************************************)
(* The JSONL file behind the ledger, app/services/ledger_store.py: one     *)
(* line per recorded call, written by the on_record callback after the     *)
(* ledger's lock is released, and read back once, when the process starts. *)
(*                                                                         *)
(* A write that fails may leave part of a line behind.  The next line is   *)
(* then glued to it, and read_all refuses the whole file: the process does *)
(* not start again until somebody repairs it.                              *)
(***************************************************************************)
EXTENDS CreditLedger

VARIABLES file,   \* the call records that stand on a line of their own
          torn,   \* the file ends in, or contains, a line that does not parse
          up      \* the process is running

storeVars == <<file, torn, up>>

StoreInit(initialRecords) == file = initialRecords /\ torn = FALSE /\ up = TRUE

AppendFaulty(usage) == \* only completed calls are worth a line
  /\ file' = IF torn \/ usage.status # "completed" THEN file ELSE file \cup {usage}
  /\ UNCHANGED <<torn, up>>

\* append(): a line glued to a torn one is lost to the reader.
Append(usage) ==
  /\ file' = IF torn THEN file ELSE file \cup {usage}
  /\ UNCHANGED <<torn, up>>

\* The write raises OSError, with or without part of the line in the file.
AppendFails ==
  /\ torn' \in {torn, TRUE}
  /\ UNCHANGED <<file, up>>

\* load(): the ledger starts from the file's records, without reservations.
LoadFaulty == \* skips the lines that do not parse
  /\ records' = file
  /\ reservations' = [i \in {} |-> CoreSlot]
  /\ nextReservation' = 0
  /\ up' = TRUE
  /\ UNCHANGED <<file, torn>>

Load ==
  /\ ~ torn
  /\ records' = file
  /\ reservations' = [i \in {} |-> CoreSlot]
  /\ nextReservation' = 0
  /\ up' = TRUE
  /\ UNCHANGED <<file, torn>>

StoreTypeOK ==
  /\ file \in SUBSET UsageRecords
  /\ torn \in BOOLEAN
  /\ up \in BOOLEAN
=============================================================================
