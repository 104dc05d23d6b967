------------------------------- MODULE Optional -------------------------------
(* The value that stands for one that is missing. *)
CONSTANT None  \* Python's None
=============================================================================
