----------------------------- MODULE MCLogViewer -----------------------------
(* Instances of LogViewer for TLC; the numbers are in the configurations.   *)
EXTENDS LogViewer
==============================================================================
