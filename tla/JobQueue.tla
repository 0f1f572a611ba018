------------------------------ MODULE JobQueue ------------------------------
(***************************************************************************)
(* jobs.py and the part of main.py that starts, stops and recovers it: the *)
(* table ``jobs``, the in-memory queue, the single worker thread, and the  *)
(* process around them, which may be stopped or killed at any step.        *)
(*                                                                         *)
(* The three copies of a job are kept apart on purpose: the row (durable), *)
(* the id in the queue (lost with the process) and the id the worker holds *)
(* (lost with the thread).  The hazards of this code are all about one of  *)
(* them outliving another.                                                 *)
(*                                                                         *)
(* Not modelled here: the text of the log (module JobOutput).  Two early      *)
(* returns of _execute are unreachable and have no disjunct: no code       *)
(* deletes a job row (225-227), and a kind accepted by enqueue (274) still *)
(* has its handler when the same process runs it (234-236).                *)
(***************************************************************************)
EXTENDS Naturals, Sequences, FiniteSets

CONSTANTS
    Jobs,          \* identities of the rows
    Sentinel,      \* the None that stop() puts on the queue
    MaxRestarts,   \* bound on the times the process ends
    MaxFaults      \* bound on the database writes that raise

ASSUME JobQueueAssumption ==
    /\ Sentinel \notin Jobs
    /\ MaxRestarts \in Nat
    /\ MaxFaults \in Nat

VARIABLES
    status,      \* status[j]: the row; "none" before enqueue commits it
    handing,     \* rows committed by enqueue and not yet put on the queue
    queue,       \* JobWorker._queue
    panel,       \* the process: see Panels
    wpc,         \* where the worker thread is: see WorkerSteps
    current,     \* job_id of _loop/_execute, Sentinel when it has none
    outcome,     \* the status _finish is about to write
    stopSet,     \* JobWorker._stop
    restarts,    \* number of times the process has ended
    faults,      \* number of database writes that have raised
    runs,        \* history: how often the handler of j was entered
    returned,    \* history: jobs whose handler returned normally
    unreported,  \* history: jobs whose final status could not be written
    ahead        \* history: ahead[j], the jobs that were on the queue, or
                 \* taken from it, when the row of j was committed

rows    == <<status>>
process == <<handing, queue, panel, wpc, current, outcome, stopSet>>
bounds  == <<restarts, faults>>
history == <<runs, returned, unreported, ahead>>
vars    == <<rows, process, bounds, history>>

Terminal    == {"success", "failed"}
Statuses    == {"none", "pending", "running"} \cup Terminal
Panels      == {"down",      \* no process
                "recovered", \* lifespan is past its session_scope block
                "up",        \* worker.start() was called, requests are served
                "stopping",  \* stop(): _stop is set
                "joining"}   \* stop(): the sentinel is on the queue
WorkerSteps == {"none",      \* no thread
                "loop",      \* about to test _stop
                "get",       \* blocked in _queue.get()
                "claim",     \* _execute, before the row says RUNNING
                "handler",   \* in the handler
                "finish",    \* in _finish, before the row is terminal
                "exited"}    \* _loop returned

Alive    == panel # "down"
Enqueued == {queue[i] : i \in 1..Len(queue)} \ {Sentinel}
Held     == {current} \ {Sentinel}

Init ==
    /\ status = [j \in Jobs |-> "none"]
    /\ handing = {}
    /\ queue = <<>>
    /\ panel = "down"
    /\ wpc = "none"
    /\ current = Sentinel
    /\ outcome = "none"
    /\ stopSet = FALSE
    /\ restarts = 0
    /\ faults = 0
    /\ runs = [j \in Jobs |-> 0]
    /\ returned = {}
    /\ unreported = {}
    /\ ahead = [j \in Jobs |-> {}]

-----------------------------------------------------------------------------
(* The process: main.lifespan *)

\* Faulty variant: the recovery block is missing.
RecoverForgets ==
    /\ panel = "down"
    /\ panel' = "recovered"
    /\ UNCHANGED <<rows, handing, queue, wpc, current, outcome, stopSet, bounds, history>>

\* Faulty variant: the recovery block selects every row that is not terminal.
RecoverFailsPending ==
    /\ panel = "down"
    /\ panel' = "recovered"
    /\ status' = [j \in Jobs |->
                    IF status[j] \in {"pending", "running"} THEN "failed" ELSE status[j]]
    /\ UNCHANGED <<handing, queue, wpc, current, outcome, stopSet, bounds, history>>

\* Everything up to and including the commit of the recovery block.
Recover ==
    /\ panel = "down"
    /\ panel' = "recovered"
    /\ status' = [j \in Jobs |-> IF status[j] = "running" THEN "failed" ELSE status[j]]
    /\ UNCHANGED <<handing, queue, wpc, current, outcome, stopSet, bounds, history>>

\* worker.start(); a new process has a new queue and a new event.
StartWorker ==
    /\ panel = "recovered"
    /\ panel' = "up"
    /\ wpc' = "loop"
    /\ stopSet' = FALSE
    /\ UNCHANGED <<rows, handing, queue, current, outcome, bounds, history>>

\* stop() sets the event and, in a second step, queues the sentinel.
StopSet ==
    /\ panel = "up"
    /\ restarts < MaxRestarts
    /\ panel' = "stopping"
    /\ stopSet' = TRUE
    /\ UNCHANGED <<rows, handing, queue, wpc, current, outcome, bounds, history>>

StopPut ==
    /\ panel = "stopping"
    /\ panel' = "joining"
    /\ queue' = Append(queue, Sentinel)
    /\ UNCHANGED <<rows, handing, wpc, current, outcome, stopSet, bounds, history>>

\* What ends with the process, whatever the worker (a daemon thread) is doing.
Vanish ==
    /\ panel' = "down"
    /\ handing' = {}
    /\ queue' = <<>>
    /\ wpc' = "none"
    /\ current' = Sentinel
    /\ outcome' = "none"
    /\ stopSet' = FALSE
    /\ restarts' = restarts + 1
    /\ UNCHANGED <<rows, faults, history>>

\* join() returned, or its five seconds are over.
Exit ==
    /\ panel = "joining"
    /\ Vanish

\* Killed, out of memory, power loss: at any step.
Crash ==
    /\ Alive
    /\ restarts < MaxRestarts
    /\ Vanish

-----------------------------------------------------------------------------
(* enqueue: two steps of the calling thread, and others run in between. *)

Serving == panel \in {"up", "stopping", "joining"}

\* db.commit(): the row exists.
CommitRow(j) ==
    /\ Serving
    /\ status[j] = "none"
    /\ status' = [status EXCEPT ![j] = "pending"]
    /\ handing' = handing \cup {j}
    /\ ahead' = [ahead EXCEPT ![j] =
                    Enqueued \cup Held \cup {k \in Jobs : runs[k] > 0}]
    /\ UNCHANGED <<queue, panel, wpc, current, outcome, stopSet, bounds,
                   runs, returned, unreported>>

\* Faulty variant: a queue.LifoQueue.
SubmitOnTop(j) ==
    /\ Serving
    /\ j \in handing
    /\ handing' = handing \ {j}
    /\ queue' = <<j>> \o queue
    /\ UNCHANGED <<rows, panel, wpc, current, outcome, stopSet, bounds, history>>

\* worker.submit(job.id)
Submit(j) ==
    /\ Serving
    /\ j \in handing
    /\ handing' = handing \ {j}
    /\ queue' = Append(queue, j)
    /\ UNCHANGED <<rows, panel, wpc, current, outcome, stopSet, bounds, history>>

-----------------------------------------------------------------------------
(* The worker thread *)

\* while not self._stop.is_set()
TestStop ==
    /\ wpc = "loop"
    /\ wpc' = IF stopSet THEN "exited" ELSE "get"
    /\ UNCHANGED <<rows, handing, queue, panel, current, outcome, stopSet, bounds, history>>

\* _queue.get(): the sentinel ends the loop, an id is claimed.
Get ==
    /\ wpc = "get"
    /\ queue # <<>>
    /\ queue' = Tail(queue)
    /\ current' = Head(queue)
    /\ wpc' = IF Head(queue) = Sentinel THEN "exited" ELSE "claim"
    /\ UNCHANGED <<rows, handing, panel, outcome, stopSet, bounds, history>>

\* First session_scope of _execute commits: the row is RUNNING; the handler
\* is entered.
Claim ==
    /\ wpc = "claim"
    /\ status' = [status EXCEPT ![current] = "running"]
    /\ wpc' = "handler"
    /\ runs' = [runs EXCEPT ![current] = @ + 1]
    /\ UNCHANGED <<handing, queue, panel, current, outcome, stopSet, bounds,
                   returned, unreported, ahead>>

\* The handler returns ...
HandlerReturns ==
    /\ wpc = "handler"
    /\ wpc' = "finish"
    /\ outcome' = "success"
    /\ returned' = returned \cup {current}
    /\ UNCHANGED <<rows, handing, queue, panel, current, stopSet, bounds,
                   runs, unreported, ahead>>

\* Faulty variant: the status is written in a finally block.
HandlerRaisesUnseen ==
    /\ wpc = "handler"
    /\ wpc' = "finish"
    /\ outcome' = "success"
    /\ UNCHANGED <<rows, handing, queue, panel, current, stopSet, bounds, history>>

\* Faulty variant: the exception leaves _loop and ends the thread.
HandlerKillsWorker ==
    /\ wpc = "handler"
    /\ wpc' = "exited"
    /\ current' = Sentinel
    /\ UNCHANGED <<rows, handing, queue, panel, outcome, stopSet, bounds, history>>

\* ... or raises JobFailed, or any other exception.
HandlerRaises ==
    /\ wpc = "handler"
    /\ wpc' = "finish"
    /\ outcome' = "failed"
    /\ UNCHANGED <<rows, handing, queue, panel, current, stopSet, bounds, history>>

\* _finish commits the status; _loop goes round.
Finish ==
    /\ wpc = "finish"
    /\ status' = [status EXCEPT ![current] = outcome]
    /\ wpc' = "loop"
    /\ current' = Sentinel
    /\ outcome' = "none"
    /\ UNCHANGED <<handing, queue, panel, stopSet, bounds, history>>

\* Faulty variant: the worker puts the job back to try again.
WriteRaisesAndRetries ==
    /\ wpc \in {"claim", "finish"}
    /\ faults < MaxFaults
    /\ faults' = faults + 1
    /\ queue' = Append(queue, current)
    /\ wpc' = "loop"
    /\ current' = Sentinel
    /\ outcome' = "none"
    /\ UNCHANGED <<rows, handing, panel, stopSet, restarts, history>>

\* A write of the worker raises ("database is locked", disk full): _loop logs
\* the exception and goes round.  Before the claim the row stays PENDING, in
\* _finish it stays RUNNING; nothing tries again.
WriteRaises ==
    /\ wpc \in {"claim", "finish"}
    /\ faults < MaxFaults
    /\ faults' = faults + 1
    /\ unreported' = IF wpc = "finish" THEN unreported \cup {current} ELSE unreported
    /\ wpc' = "loop"
    /\ current' = Sentinel
    /\ outcome' = "none"
    /\ UNCHANGED <<rows, handing, queue, panel, stopSet, restarts,
                   runs, returned, ahead>>

-----------------------------------------------------------------------------
Lifespan == Recover \/ StartWorker \/ StopSet \/ StopPut \/ Exit \/ Crash
Enqueue  == \E j \in Jobs : CommitRow(j) \/ Submit(j)
Handler  == HandlerReturns \/ HandlerRaises
Worker   == TestStop \/ Get \/ Claim \/ Handler \/ Finish

Next == Lifespan \/ Enqueue \/ Worker \/ WriteRaises

Spec == Init /\ [][Next]_vars

(***************************************************************************)
(* Fairness.  The worker is a thread of its own, and handlers are assumed  *)
(* to end: an assumption, since the timeout of shell.stream starts only    *)
(* when the output of the command has ended.  A thread that has committed  *)
(* a row goes on to submit it.  systemd starts the service again           *)
(* (lite-panel.service: Restart=on-failure), and a stop that has begun     *)
(* ends with the process.  No fairness for requests, crashes or faults.    *)
(***************************************************************************)
Fairness ==
    /\ WF_vars(Worker)
    /\ \A j \in Jobs : WF_vars(Submit(j))
    /\ WF_vars(Recover \/ StartWorker)
    /\ WF_vars(StopPut \/ Exit)

FairSpec == Spec /\ Fairness

-----------------------------------------------------------------------------
(* Properties *)

TypeOK ==
    /\ status \in [Jobs -> Statuses]
    /\ handing \subseteq Jobs
    /\ queue \in Seq(Jobs \cup {Sentinel})
    /\ panel \in Panels
    /\ wpc \in WorkerSteps
    /\ current \in Jobs \cup {Sentinel}
    /\ outcome \in Terminal \cup {"none"}
    /\ stopSet \in BOOLEAN
    /\ restarts \in 0..MaxRestarts
    /\ faults \in 0..MaxFaults
    /\ runs \in [Jobs -> Nat]
    /\ returned \subseteq Jobs
    /\ unreported \subseteq Jobs
    /\ ahead \in [Jobs -> SUBSET Jobs]

\* No crash, stop, restart or failed write makes a handler run a second time
\* (jobs.py 209-248, main.py 96-107): most handlers are not idempotent.
RunsAtMostOnce == \A j \in Jobs : runs[j] <= 1

\* Once lifespan has recovered, a row that says RUNNING is the job the worker
\* is executing, or one whose final status the database refused.  This is
\* what lets the log page trust the row (main.py 96-107).
RunningIsOwned ==
    panel # "down" =>
        \A j \in Jobs : status[j] = "running" =>
            \/ j = current /\ wpc \in {"handler", "finish"}
            \/ j \in unreported

\* SUCCESS is never shown for a handler that raised or was cut short by the
\* end of the process (jobs.py 238-248).
SuccessMeansReturned == \A j \in Jobs : status[j] = "success" => j \in returned

\* What a row says of its job is so: that it has not run, is running, or has
\* come to a good end.
RowsAreHonest == RunsAtMostOnce /\ RunningIsOwned /\ SuccessMeansReturned

\* "An orderly queue" (jobs.py 8-10): a job that was on the queue before the
\* row of k was committed has left it when k is claimed, although the two
\* steps of enqueue of several threads interleave.
NoOvertaking ==
    \A k \in Jobs : (k = current \/ runs[k] > 0) => ahead[k] \cap Enqueued = {}

(***************************************************************************)
(* The inductive invariant behind the four above and the refinement.       *)
(***************************************************************************)

\* Without a worker nothing is queued; a stop was allowed by the bound.
InvProcess ==
    /\ panel \in {"down", "recovered"} =>
            wpc = "none" /\ queue = <<>> /\ handing = {}
    /\ panel \in {"stopping", "joining"} => restarts < MaxRestarts

\* The row agrees with the step the worker is at.
InvWorker ==
    /\ current \in Jobs <=> wpc \in {"claim", "handler", "finish"}
    /\ wpc = "claim" => status[current] = "pending"
    /\ wpc \in {"handler", "finish"} => status[current] = "running"
    /\ wpc = "finish" => outcome \in Terminal
    /\ wpc = "finish" /\ outcome = "success" => current \in returned

\* A job is in one place: handed over, queued once, or held by the worker.
InvQueue ==
    /\ \A j \in handing : status[j] = "pending" /\ j # current
    /\ \A p \in 1..Len(queue) : queue[p] \in Jobs =>
            /\ status[queue[p]] = "pending"
            /\ queue[p] \notin handing
            /\ queue[p] # current
    /\ \A p, q \in 1..Len(queue) :
            queue[p] = queue[q] /\ queue[p] \in Jobs => p = q

\* The row tells whether the handler was entered.
InvRuns ==
    \A j \in Jobs : runs[j] = IF status[j] \in {"none", "pending"} THEN 0 ELSE 1

\* What was ahead of k has been submitted, and stays ahead of k.
InvAhead ==
    \A k \in Jobs :
        /\ \A j \in ahead[k] : status[j] # "none" /\ j \notin handing
        /\ \A p, q \in 1..Len(queue) :
                queue[p] = k /\ queue[q] \in ahead[k] => q < p

IInv ==
    /\ TypeOK
    /\ InvProcess
    /\ InvWorker
    /\ InvQueue
    /\ InvRuns
    /\ InvAhead
    /\ RunningIsOwned
    /\ SuccessMeansReturned
    /\ NoOvertaking

\* The detailed system implements JobLifecycle.
Lifecycle == INSTANCE JobLifecycle WITH
    executing <- IF wpc \in {"handler", "finish"} THEN {current} ELSE {}

ImplementsLifecycle == Lifecycle!ASpec

\* A job that was started is seen to end, even when the panel is stopped or
\* killed in the middle of it: the next lifespan declares it FAILED (main.py
\* 96-107).  The one exception is a job whose last write failed, until the next
\* restart.
RunningEnds ==
    \A j \in Jobs : status[j] = "running"
                        ~> status[j] \in Terminal \/ j \in unreported

\* As long as the process lives and the database takes its writes, an accepted
\* row is executed, whatever other handlers do (jobs.py 209-219).
ExecutedMeanwhile ==
    \A j \in Jobs : status[j] = "pending"
                        ~> runs[j] > 0 \/ restarts > 0 \/ faults > 0

\* "Every privileged operation is therefore a row in jobs executed by a
\* worker thread" (jobs.py 4-6): an accepted row is executed in the end.
EveryRowIsExecuted == \A j \in Jobs : status[j] = "pending" ~> runs[j] > 0
=============================================================================
