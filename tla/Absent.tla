------------------------------- MODULE Absent -------------------------------
(* What the modules share: a value for an optional field that is not set. *)
CONSTANT None  \* stands for Python's None
=============================================================================
