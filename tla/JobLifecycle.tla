---------------------------- MODULE JobLifecycle ----------------------------
(***************************************************************************)
(* What the job subsystem promises to the rest of the panel, without the   *)
(* queue, the threads or the database: a job is accepted once, is executed *)
(* at most once and by itself, and its terminal status never changes.      *)
(* JobQueue is shown to implement this specification.                      *)
(***************************************************************************)
CONSTANT Jobs                 \* identities of the rows of the table ``jobs``

VARIABLES
    status,                   \* status[j], what the row of j says
    executing                 \* the set of jobs whose handler is on the CPU

avars == <<status, executing>>

\* "none": the row does not exist; the rest is models.JobStatus.
Terminal == {"success", "failed"}
Statuses == {"none", "pending", "running"} \cup Terminal

AInit ==
    /\ status = [j \in Jobs |-> "none"]
    /\ executing = {}

\* A request thread or the scheduler enqueues a job.
Accept(j) ==
    /\ status[j] = "none"
    /\ status' = [status EXCEPT ![j] = "pending"]
    /\ UNCHANGED executing

\* The only way into a handler: from "pending", and with no other handler
\* running.
Execute(j) ==
    /\ status[j] = "pending"
    /\ executing = {}
    /\ status' = [status EXCEPT ![j] = "running"]
    /\ executing' = {j}

\* The handler of j is over and its result is on the row.
Report(j) ==
    /\ executing = {j}
    /\ \E r \in Terminal : status' = [status EXCEPT ![j] = r]
    /\ executing' = {}

\* The handler of j is over, and its result could not be written; or the
\* process died.
Abandon ==
    /\ executing # {}
    /\ executing' = {}
    /\ UNCHANGED status

\* A restarted panel declares every job found "running" failed.
FailOrphans ==
    /\ executing = {}
    /\ status' = [j \in Jobs |-> IF status[j] = "running" THEN "failed" ELSE status[j]]
    /\ UNCHANGED executing

ANext ==
    \/ \E j \in Jobs : Accept(j) \/ Execute(j) \/ Report(j)
    \/ Abandon
    \/ FailOrphans

ASpec == AInit /\ [][ANext]_avars
=============================================================================
