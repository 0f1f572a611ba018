---------------------------- MODULE MCJobQueue ----------------------------
(* Small instances of JobQueue. *)
EXTENDS JobQueue

CONSTANTS j1, j2, j3

TwoJobs   == {j1, j2}
ThreeJobs == {j1, j2, j3}
===========================================================================
