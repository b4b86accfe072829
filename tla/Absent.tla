------------------------------- MODULE Absent -------------------------------
(* What stands for a value that is not there: Python's None, an empty field *)
(* of a document, a request without an answer. Components that are checked  *)
(* together share it.                                                       *)
CONSTANT None
=============================================================================
