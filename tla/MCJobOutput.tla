----------------------------- MODULE MCJobOutput -----------------------------
(* Small instances of JobOutput are given by the configurations alone. *)
EXTENDS JobOutput
==============================================================================
