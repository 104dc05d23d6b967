----------------------------- MODULE CallBudget -----------------------------
(***************************************************************************)
(* What the core budget of the ledger promises, without calls, threads or  *)
(* records: a unit is set aside before anything is submitted, and is then  *)
(* spent for good or put back.  Nothing else changes the account.          *)
(***************************************************************************)
EXTENDS Integers

CONSTANT Units  \* the number of units, or anything but a number for no limit

VARIABLES spent,  \* units used up
          held    \* units set aside for calls that are not settled

Reserve ==
  /\ Units \in Int => spent + held < Units
  /\ held' = held + 1
  /\ UNCHANGED spent

Spend ==
  /\ held > 0
  /\ spent' = spent + 1
  /\ held' = held - 1

Refund ==
  /\ held > 0
  /\ held' = held - 1
  /\ UNCHANGED spent

Init == spent \in Nat /\ held = 0

Next == Reserve \/ Spend \/ Refund

Spec == Init /\ [][Next]_<<spent, held>>
=============================================================================
