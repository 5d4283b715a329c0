------------------------------ MODULE MCJobQueue ------------------------------
(* Small instances of JobQueue for TLC. *)
EXTENDS JobQueue

CONSTANTS w1, w2

MCJobs == 1 .. 2
OneJob == {1}
FirstHandled == {1}
MCWorkers == {w1, w2}
OneWorker == {w1}
===============================================================================
