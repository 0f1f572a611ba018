------------------------------ MODULE JobOutput ------------------------------
(***************************************************************************)
(* What a job's handler does to the outside while the worker runs it: the  *)
(* lines it logs (JobContext.log, flush), the commands it runs             *)
(* (JobContext.run, shell.stream) and the result _finish writes.           *)
(*                                                                         *)
(* Lines are numbered as they are logged, so the log column of a row is a  *)
(* sequence of numbers.  A flush opens a second session next to the one    *)
(* the handler works with: it raises if the database refuses the write,    *)
(* and it always does if the handler itself holds SQLite's write lock,     *)
(* which it does from its first db.flush() to its commit.                  *)
(***************************************************************************)
EXTENDS Naturals, Sequences, FiniteSets

CONSTANTS
    NumJobs,            \* bound: jobs run one after the other
    MaxLines,           \* bound: lines of a handler and its commands
    MaxFaults,          \* bound: writes refused for an outside reason
    MaxGarbled,         \* bound: jobs with output that is not UTF-8
    FlushAt,            \* pending lines that make log() flush (20)
    WritesWhileLogging  \* TRUE: handlers log between db.flush() and commit,
                        \* as services/sites.py does

ASSUME JobOutputAssumption ==
    /\ NumJobs \in Nat /\ MaxLines \in Nat /\ MaxFaults \in Nat /\ MaxGarbled \in Nat
    /\ FlushAt \in Nat \ {0}
    /\ WritesWhileLogging \in BOOLEAN

VARIABLES
    job,       \* the job in execution, or the last one
    wpc,       \* where the worker is: see Steps
    outcome,   \* the status _finish was called with
    status,    \* status[j] of the row
    rowLog,    \* rowLog[j], the log column of the row
    emitted,   \* emitted[j], lines logged so far
    pending,   \* JobContext._pending of the job in execution
    txn,       \* the handler's session holds the write lock
    child,     \* the process stream() reads: "none", "open" (its output is),
               \* "closed" (the output ended, the process did not)
    orphans,   \* jobs with a process nobody waits for
    refusals,  \* refused writes: how many for an outside reason, and
               \* history: of which jobs, for whatever reason
    garbled    \* history: jobs a command of which printed what is not UTF-8

vars == <<job, wpc, outcome, status, rowLog, emitted, pending, txn, child,
          orphans, refusals, garbled>>

Jobs     == 1..NumJobs
Terminal == {"success", "failed"}
Steps    == {"idle",     \* in _loop
             "handler",  \* in handler code
             "running",  \* in shell.stream
             "raised",   \* an exception is on its way out of the handler
             "unwound",  \* ... and has reached _execute
             "finish",   \* in _finish, before ctx.flush()
             "mark"}     \* in _finish, after it

Init ==
    /\ job = 0
    /\ wpc = "idle"
    /\ outcome = "none"
    /\ status = [j \in Jobs |-> "pending"]
    /\ rowLog = [j \in Jobs |-> <<>>]
    /\ emitted = [j \in Jobs |-> 0]
    /\ pending = <<>>
    /\ txn = FALSE
    /\ child = "none"
    /\ orphans = {}
    /\ refusals = [outside |-> 0, of |-> {}]
    /\ garbled = {}

-----------------------------------------------------------------------------
(* JobContext.flush: the pending lines are forgotten, then written. *)

WriteRefused ==
    \/ /\ txn
       /\ refusals' = [refusals EXCEPT !.of = @ \cup {job}]
    \/ /\ ~txn
       /\ refusals.outside < MaxFaults
       /\ refusals' = [outside |-> refusals.outside + 1, of |-> refusals.of \cup {job}]

\* Faulty variant: the lines are not forgotten.
FlushAndKeep(batch, ok, raise) ==
    \/ /\ ~txn
       /\ rowLog' = [rowLog EXCEPT ![job] = @ \o batch]
       /\ pending' = batch
       /\ wpc' = ok
       /\ UNCHANGED refusals
    \/ /\ WriteRefused
       /\ pending' = batch
       /\ wpc' = raise
       /\ UNCHANGED rowLog

\* The worker goes on at ``ok``, or with an exception at ``raise``.
Flush(batch, ok, raise) ==
    /\ pending' = <<>>
    /\ \/ /\ ~txn
          /\ rowLog' = [rowLog EXCEPT ![job] = @ \o batch]
          /\ wpc' = ok
          /\ UNCHANGED refusals
       \/ /\ WriteRefused
          /\ wpc' = raise
          /\ UNCHANGED rowLog

\* Faulty variant: the line that fills the batch is not part of it.
LogAfterFlush(ok, raise) ==
    /\ emitted' = [emitted EXCEPT ![job] = @ + 1]
    /\ LET line == emitted[job] + 1 IN
       \/ /\ Len(pending) + 1 < FlushAt
          /\ pending' = Append(pending, line)
          /\ wpc' = ok
          /\ UNCHANGED <<rowLog, refusals>>
       \/ /\ Len(pending) + 1 >= FlushAt
          /\ Flush(pending, ok, raise)

\* JobContext.log
Log(ok, raise) ==
    /\ emitted' = [emitted EXCEPT ![job] = @ + 1]
    /\ LET batch == Append(pending, emitted[job] + 1) IN
       \/ /\ Len(batch) < FlushAt
          /\ pending' = batch
          /\ wpc' = ok
          /\ UNCHANGED <<rowLog, refusals>>
       \/ /\ Len(batch) >= FlushAt
          /\ Flush(batch, ok, raise)

-----------------------------------------------------------------------------
(* _execute up to the handler *)

Begin ==
    /\ wpc = "idle"
    /\ job < NumJobs
    /\ job' = job + 1
    /\ status' = [status EXCEPT ![job + 1] = "running"]
    /\ pending' = <<>>
    /\ wpc' = "handler"
    /\ UNCHANGED <<outcome, rowLog, emitted, txn, child, orphans, refusals,
                   garbled>>

(* The handler *)

HandlerLogs ==
    /\ wpc = "handler"
    /\ emitted[job] < MaxLines
    /\ Log("handler", "raised")
    /\ UNCHANGED <<job, outcome, status, txn, child, orphans, garbled>>

\* db.flush() sends the first INSERT or UPDATE: the lock is taken.
HandlerWrites ==
    /\ wpc = "handler"
    /\ WritesWhileLogging
    /\ ~txn
    /\ txn' = TRUE
    /\ UNCHANGED <<job, wpc, outcome, status, rowLog, emitted, pending,
                   child, orphans, refusals, garbled>>

HandlerCommits ==
    /\ wpc = "handler"
    /\ txn
    /\ txn' = FALSE
    /\ UNCHANGED <<job, wpc, outcome, status, rowLog, emitted, pending,
                   child, orphans, refusals, garbled>>

\* JobFailed or anything else; some handlers catch it and go on
\* (services/sites.py delete_site, tasks.py backup.create).
HandlerRaises ==
    /\ wpc = "handler"
    /\ wpc' = "raised"
    /\ UNCHANGED <<job, outcome, status, rowLog, emitted, pending, txn,
                   child, orphans, refusals, garbled>>

HandlerCatches ==
    /\ wpc = "raised"
    /\ wpc' = "handler"
    /\ UNCHANGED <<job, outcome, status, rowLog, emitted, pending, txn,
                   child, orphans, refusals, garbled>>

(* JobContext.run, JobContext.check, shell.stream *)

\* The command line is logged, then the process started.
RunCommand ==
    /\ wpc = "handler"
    /\ emitted[job] < MaxLines
    /\ Log("running", "raised")
    /\ child' = IF wpc' = "running" THEN "open" ELSE child
    /\ UNCHANGED <<job, outcome, status, txn, orphans, garbled>>

\* One line of output reaches on_line.  If that raises, stream() closes its
\* end of the pipe and the process is left alone, alive.
CommandPrints ==
    /\ wpc = "running"
    /\ child = "open"
    /\ emitted[job] < MaxLines
    /\ Log("running", "raised")
    /\ child' = IF wpc' = "raised" THEN "none" ELSE child
    /\ orphans' = IF wpc' = "raised" THEN orphans \cup {job} ELSE orphans
    /\ UNCHANGED <<job, outcome, status, txn, garbled>>

\* A line is not UTF-8 and cannot be decoded: the loop over the output raises,
\* and the process is left alone here too.
CommandGarbles ==
    /\ wpc = "running"
    /\ child = "open"
    /\ Cardinality(garbled) < MaxGarbled
    /\ garbled' = garbled \cup {job}
    /\ wpc' = "raised"
    /\ child' = "none"
    /\ orphans' = orphans \cup {job}
    /\ UNCHANGED <<job, outcome, status, rowLog, emitted, pending, txn, refusals>>

\* End of file on the output: stream() goes on to proc.wait(timeout).
CommandCloses ==
    /\ wpc = "running"
    /\ child = "open"
    /\ child' = "closed"
    /\ UNCHANGED <<job, wpc, outcome, status, rowLog, emitted, pending, txn,
                   orphans, refusals, garbled>>

CommandSucceeds ==
    /\ wpc = "running"
    /\ child = "closed"
    /\ child' = "none"
    /\ wpc' = "handler"
    /\ UNCHANGED <<job, outcome, status, rowLog, emitted, pending, txn,
                   orphans, refusals, garbled>>

\* A code other than 0 is logged (one line here, two after a timeout);
\* check() then raises, run() returns the code.  The
\* process is gone: it exited, or the time was over and it was killed.
LogCode ==
    /\ child' = "none"
    /\ \E next \in {"handler", "raised"} : Log(next, "raised")
    /\ UNCHANGED <<job, outcome, status, txn, orphans, garbled>>

CommandFails ==
    /\ wpc = "running"
    /\ child = "closed"
    /\ LogCode

\* Faulty variant: a process that outlives its time is not killed.
TimesOutAlive ==
    /\ wpc = "running"
    /\ child = "closed"
    /\ child' = "none"
    /\ orphans' = orphans \cup {job}
    /\ \E next \in {"handler", "raised"} : Log(next, "raised")
    /\ UNCHANGED <<job, outcome, status, txn, garbled>>

CommandTimesOut ==
    /\ wpc = "running"
    /\ child = "closed"
    /\ LogCode

OrphanEnds ==
    /\ \E j \in orphans : orphans' = orphans \ {j}
    /\ UNCHANGED <<job, wpc, outcome, status, rowLog, emitted, pending, txn,
                   child, refusals, garbled>>

(* The rest of _execute, and _finish *)

\* The exception has left the handler, and its session was rolled back.
Unwind ==
    /\ wpc = "raised"
    /\ wpc' = "unwound"
    /\ txn' = FALSE
    /\ UNCHANGED <<job, outcome, status, rowLog, emitted, pending, child,
                   orphans, refusals, garbled>>

\* ctx.log("error: ..."); an exception from here ends _execute.
LogError ==
    /\ wpc = "unwound"
    /\ Log("finish", "idle")
    /\ outcome' = "failed"
    /\ UNCHANGED <<job, status, txn, child, orphans, garbled>>

\* Leaving the handler commits its session.
HandlerReturns ==
    /\ wpc = "handler"
    /\ wpc' = "finish"
    /\ txn' = FALSE
    /\ outcome' = "success"
    /\ UNCHANGED <<job, status, rowLog, emitted, pending, child, orphans,
                   refusals, garbled>>

FinalFlush ==
    /\ wpc = "finish"
    /\ \/ /\ pending = <<>>
          /\ wpc' = "mark"
          /\ UNCHANGED <<rowLog, pending, refusals>>
       \/ /\ pending # <<>>
          /\ Flush(pending, "mark", "idle")
    /\ UNCHANGED <<job, outcome, status, emitted, txn, child, orphans,
                   garbled>>

\* Faulty variant: the status is written before the last lines.
MarkFirst ==
    /\ wpc \in {"finish", "mark"}
    /\ status' = [status EXCEPT ![job] = outcome]
    /\ wpc' = IF wpc = "mark" THEN "idle" ELSE wpc
    /\ UNCHANGED <<job, outcome, rowLog, emitted, pending, txn, child,
                   orphans, refusals, garbled>>

Mark ==
    /\ wpc = "mark"
    /\ status' = [status EXCEPT ![job] = outcome]
    /\ wpc' = "idle"
    /\ UNCHANGED <<job, outcome, rowLog, emitted, pending, txn, child,
                   orphans, refusals, garbled>>

MarkRefused ==
    /\ wpc = "mark"
    /\ WriteRefused
    /\ wpc' = "idle"
    /\ UNCHANGED <<job, outcome, status, rowLog, emitted, pending, txn,
                   child, orphans, garbled>>

-----------------------------------------------------------------------------
Handler == \/ HandlerLogs \/ HandlerWrites \/ HandlerCommits
           \/ HandlerRaises \/ HandlerCatches \/ RunCommand \/ HandlerReturns
Command == \/ CommandPrints \/ CommandGarbles \/ CommandCloses
           \/ CommandSucceeds \/ CommandFails
Panel   == \/ Begin \/ CommandTimesOut \/ Unwind \/ LogError
           \/ FinalFlush \/ Mark \/ MarkRefused

Next == Handler \/ Command \/ Panel \/ OrphanEnds

Spec == Init /\ [][Next]_vars

-----------------------------------------------------------------------------
(* Properties *)

TypeOK ==
    /\ job \in 0..NumJobs
    /\ wpc \in Steps
    /\ outcome \in Terminal \cup {"none"}
    /\ status \in [Jobs -> {"pending", "running"} \cup Terminal]
    /\ rowLog \in [Jobs -> Seq(Nat)]
    /\ emitted \in [Jobs -> Nat]
    /\ pending \in Seq(Nat) /\ Len(pending) < FlushAt
    /\ txn \in BOOLEAN
    /\ child \in {"none", "open", "closed"}
    /\ orphans \subseteq Jobs
    /\ refusals \in [outside : 0..MaxFaults, of : SUBSET Jobs]
    /\ garbled \subseteq Jobs

\* The row never shows a line twice or out of order, whatever write failed
\* (jobs.py 168-177).
LinesInOrder ==
    \A j \in Jobs : \A p, q \in 1..Len(rowLog[j]) :
        p < q => rowLog[j][p] < rowLog[j][q]

\* "The full command output is retained" (models.py 123-124): what stream() has
\* delivered is on the row of every finished job of which the database refused
\* no write.
FullOutputRetained ==
    \A j \in Jobs : status[j] \in Terminal /\ j \notin refusals.of =>
        rowLog[j] = [i \in 1..emitted[j] |-> i]

\* A single worker, so that no two commands run at once (jobs.py 8-10).
OneCommandAtATime ==
    Cardinality(orphans) + (IF child = "none" THEN 0 ELSE 1) <= 1

\* Only a refused write, or a line that cannot be decoded, can leave a command
\* running behind its job: one that outlives its time does not (shell.py 179-187).
OrphansAreRefused == orphans \subseteq refusals.of \cup garbled

\* Short of a refused write, the row gets what is delivered whole and in order;
\* and short of a line that is not UTF-8 too, from commands that end before
\* their job does.
OutputIsKept == LinesInOrder /\ FullOutputRetained /\ OrphansAreRefused

\* Who reads a terminal row reads the log it will always have: job_detail,
\* job_poll and the stream stop looking at that point (routers/jobs.py).
LogIsFinal ==
    [][\A j \in Jobs : status[j] \in Terminal => rowLog'[j] = rowLog[j]]_vars

\* Seen from the rows alone, handlers that log, run commands and fail move them as
\* JobLifecycle says, which JobQueue implements too: one job at a time, from
\* PENDING over RUNNING to one status that stands, or to none (jobs.py _execute).
Lifecycle == INSTANCE JobLifecycle WITH
    executing <- IF wpc = "idle" THEN {} ELSE {job}

RowsKeepLifecycle == [][Lifecycle!ANext]_(Lifecycle!avars)

\* A page that follows the job sees one line after the other and then an end, with
\* all of them on the row, short of a refused write: what LogViewer takes a job for.
LinesThenEnd ==
    [][\A j \in Jobs \ refusals'.of :
        \/ /\ emitted'[j] = emitted[j]
           /\ status'[j] \in Terminal <=> status[j] \in Terminal
        \/ /\ emitted'[j] = emitted[j] + 1
           /\ status[j] \notin Terminal /\ status'[j] \notin Terminal
        \/ /\ emitted'[j] = emitted[j]
           /\ status[j] \notin Terminal /\ status'[j] \in Terminal
           /\ rowLog'[j] = [i \in 1..emitted[j] |-> i]]_vars

\* An end is an end: for the lines, for the log and for the status.
EndIsFinal == LogIsFinal /\ LinesThenEnd /\ RowsKeepLifecycle

-----------------------------------------------------------------------------
(* The inductive invariant *)

\* Line numbers that increase, up to n.
Ordered(lines, n) ==
    /\ \A p \in 1..Len(lines) : lines[p] \in 1..n
    /\ \A p, q \in 1..Len(lines) : p < q => lines[p] < lines[q]

\* What the row will show once the pending lines are written.
Output == rowLog[job] \o pending

\* Where the worker is decides which row it may still write.
JobStands ==
    /\ \A j \in Jobs : j > job => status[j] = "pending" /\ rowLog[j] = <<>> /\ emitted[j] = 0
    /\ wpc # "idle" => job \in Jobs /\ status[job] = "running"
    /\ wpc \in {"finish", "mark"} => outcome \in Terminal
    /\ wpc = "mark" => pending = <<>>

RowsInOrder == \A j \in Jobs : Ordered(rowLog[j], emitted[j])

\* Written and pending lines together are in order, and complete unless a write was refused.
OutputInOrder == wpc # "idle" => Ordered(Output, emitted[job])
OutputIsWhole ==
    wpc # "idle" /\ job \notin refusals.of => Output = [i \in 1..emitted[job] |-> i]

IInv ==
    /\ TypeOK
    /\ JobStands
    /\ RowsInOrder
    /\ OutputInOrder
    /\ OutputIsWhole
    /\ FullOutputRetained
    /\ OrphansAreRefused
==============================================================================
