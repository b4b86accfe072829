------------------------------ MODULE Workspace ------------------------------
(* What the tools share that run in one working tree: the processes they run *)
(* as, and a file that was opened for writing and has not been filled.       *)
EXTENDS Absent
CONSTANTS Processes, Torn
=============================================================================
