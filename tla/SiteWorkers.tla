----------------------------- MODULE SiteWorkers -----------------------------
(***************************************************************************)
(* services/workers.py, its pages in routers/sites.py and its jobs in      *)
(* tasks.py: the background workers of a site, each a row, a systemd       *)
(* template unit and as many instances of it as the row says.  Jobs run    *)
(* one at a time, long after the pages that asked for them; a command of   *)
(* theirs may fail, and the panel or the machine may go down at any step.  *)
(***************************************************************************)
EXTENDS Integers, Sequences, FiniteSetsExt

CONSTANTS
    WkNames,
    WkCommands,
    WkMaxProcs,      \* MAX_WORKER_PROCESSES
    WkMaxWorkers,    \* MAX_WORKERS_PER_SITE
    WkMaxAsked       \* bound: requests

WkNone  == [id |-> 0, procs |-> 0, cmd |-> "none"]    \* no row
WkNoUnit == "no unit"

ASSUME SiteWorkersAssumption ==
    {WkMaxProcs, WkMaxWorkers, WkMaxAsked} \subseteq Nat /\ WkNoUnit \notin WkCommands

WkStopped == "stopped"
WkRows == [id : Nat \ {0}, procs : 1..WkMaxProcs, cmd : WkCommands]

VARIABLES
    wkRow,       \* the row of each name
    wkFile,      \* the command in its unit file
    wkUnit,      \* the command systemd knows, from the file as it last read it
    wkRuns,      \* what each instance runs
    wkEnabled,   \* the instances that start with the machine
    wkQueue,     \* jobs not yet begun
    wkJob,       \* the one that runs
    wkAsked,
    wkMissed     \* history, by name, what a job has ended before: "commit" of
                 \* the command it had rendered, "drop" of surplus instances,
                 \* "restart" of those with the old command

wkSystem == <<wkFile, wkUnit, wkRuns, wkEnabled>>
wkVars == <<wkRow, wkSystem, wkQueue, wkJob, wkAsked, wkMissed>>

WkIdle == [step |-> "idle"]
WkExists(n) == wkRow[n] # WkNone
WkInstances(n) == 1..wkRow[n].procs
WkActive(n) == {i \in 1..WkMaxProcs : wkRuns[n][i] # WkStopped}

WkInit ==
    /\ wkRow = [n \in WkNames |-> WkNone]
    /\ wkFile = [n \in WkNames |-> WkNoUnit] /\ wkUnit = wkFile
    /\ wkRuns = [n \in WkNames |-> [i \in 1..WkMaxProcs |-> WkStopped]]
    /\ wkEnabled = [n \in WkNames |-> {}]
    /\ wkQueue = <<>> /\ wkJob = WkIdle /\ wkAsked = 0
    /\ wkMissed = [n \in WkNames |-> {}]

-----------------------------------------------------------------------------
(* Pages *)

WkAsk(r) ==
    /\ wkAsked < WkMaxAsked
    /\ wkAsked' = wkAsked + 1
    /\ wkQueue' = Append(wkQueue, r)
    /\ UNCHANGED <<wkRow, wkSystem, wkJob, wkMissed>>

WkFree(n) == ~WkExists(n) /\ Cardinality({m \in WkNames : WkExists(m)}) < WkMaxWorkers

\* worker_add; validate_new is asked again by the job.
AskWorker == \E n \in WkNames, p \in 1..WkMaxProcs, c \in WkCommands :
    WkFree(n) /\ WkAsk([op |-> "add", name |-> n, procs |-> p, cmd |-> c])

\* worker_settings, worker_control, worker_delete: jobs know a row by its id.
AskChange == \E n \in WkNames, p \in 1..WkMaxProcs, c \in WkCommands :
    WkExists(n) /\ WkAsk([op |-> "update", id |-> wkRow[n].id, procs |-> p, cmd |-> c])
AskControl == \E n \in WkNames, op \in {"start", "stop", "restart", "delete"} :
    WkExists(n) /\ WkAsk([op |-> op, id |-> wkRow[n].id])

\* sites.delete_site
AskSiteDeleted == (\E n \in WkNames : WkExists(n)) /\ WkAsk([op |-> "site"])

-----------------------------------------------------------------------------
(* Jobs *)

WkStep(step) == [wkJob EXCEPT !.step = step]
WkAt(step)   == wkJob.step = step

\* _site_and_worker, validate_new
WkFound(r) ==
    IF r.op = "add" THEN {n \in {r.name} : WkFree(n)}
    ELSE IF r.op = "site" THEN {n \in WkNames : WkExists(n)}
    ELSE {n \in WkNames : wkRow[n].id = r.id}

\* How a job goes on from its first look at the row.
WkFirst(op) ==
    CASE op \in {"add", "update"} -> "render"
      [] op \in {"start", "restart"} -> "enable"
      [] op = "stop" -> "disable"
      [] OTHER -> "stop all"

WorkerJobBegins ==
    /\ wkJob = WkIdle /\ wkQueue # <<>>
    /\ wkQueue' = Tail(wkQueue)
    /\ LET r == Head(wkQueue) IN
       IF WkFound(r) = {} THEN UNCHANGED wkJob
       ELSE \E n \in WkFound(r) :
            /\ r.op = "site" => n = CHOOSE m \in WkFound(r) : TRUE
            /\ wkJob' = [step |-> WkFirst(r.op), op |-> r.op, name |-> n,
                         rest |-> IF r.op = "site" THEN WkFound(r) \ {n} ELSE {},
                         row |-> IF r.op \in {"add", "update"}
                                 THEN [id |-> IF r.op = "update" THEN r.id
                                              ELSE 1 + Max({0} \cup {wkRow[m].id : m \in WkNames}),
                                       procs |-> r.procs, cmd |-> r.cmd]
                                 ELSE wkRow[n],
                         previous |-> wkRow[n].procs,
                         was |-> WkActive(n) \cap WkInstances(n) # {}]
    /\ UNCHANGED <<wkRow, wkSystem, wkAsked, wkMissed>>

\* How a job goes on from a reload of systemd.
WkAfterReload ==
    CASE wkJob.op \in {"add", "update"} -> WkStep("commit")
      [] wkJob.op = "site" -> WkStep("forget")
      [] wkJob.op = "delete" -> WkIdle
      [] OTHER -> WkStep(WkFirst(wkJob.op))

\* The rows as the job's session sees them.
WkRowsSeen == IF WkAt("render") THEN [wkRow EXCEPT ![wkJob.name] = wkJob.row] ELSE wkRow

\* Faulty variant: the unit file of a worker that is there is left alone.
StaleFilesOnce == {n \in WkNames : WkRowsSeen[n] # WkNone /\ wkFile[n] = WkNoUnit}

\* The unit files that do not say what the rows do.
WkStaleFiles == {n \in WkNames : WkRowsSeen[n] # WkNone /\ wkFile[n] # WkRowsSeen[n].cmd}

\* render_files, before the commit, and for a control job whose unit file is not
\* there: every worker of the site, file by file; a write may raise.  A file that
\* says the same already asks for no reload, whatever systemd knows.
RenderFiles ==
    /\ \/ WkAt("render")
       \/ (WkAt("enable") \/ WkAt("disable")) /\ wkFile[wkJob.name] = WkNoUnit
    /\ \E written \in SUBSET WkStaleFiles :
          /\ wkFile' = [n \in WkNames |-> IF n \in written THEN WkRowsSeen[n].cmd ELSE wkFile[n]]
          /\ wkMissed' = [n \in WkNames |->
                            IF WkAt("render") /\ n \in written \cap {wkJob.name}
                            THEN wkMissed[n] \cup {"commit"} ELSE wkMissed[n]]
          /\ wkJob' = IF written # WkStaleFiles THEN WkIdle
                      ELSE IF written = {} THEN WkAfterReload ELSE WkStep("reload")
    /\ UNCHANGED <<wkRow, wkUnit, wkRuns, wkEnabled, wkQueue, wkAsked>>

\* systemd reads the unit files of some workers: what runs already does not change.
WkReads(ns) ==
    /\ wkUnit' = [n \in WkNames |-> IF n \in ns THEN wkFile[n] ELSE wkUnit[n]]
    /\ wkMissed' = [n \in WkNames |->
                      IF n \in ns /\ \E i \in WkActive(n) : wkRuns[n][i] # wkFile[n]
                      THEN wkMissed[n] \cup {"restart"} ELSE wkMissed[n]]

\* systemctl daemon-reload, which may fail or run out of time, and then the job
\* goes on all the same.
DaemonReload ==
    /\ WkAt("reload")
    /\ \E ns \in {{}, WkNames} : WkReads(ns)
    /\ wkJob' = WkAfterReload
    /\ UNCHANGED <<wkRow, wkFile, wkRuns, wkEnabled, wkQueue, wkAsked>>

\* From here on a failure leaves instances behind: of more processes than the
\* row has, or of the old command.
WorkerCommitted ==
    /\ WkAt("commit")
    /\ wkRow' = [wkRow EXCEPT ![wkJob.name] = wkJob.row]
    /\ wkJob' = WkStep(IF wkJob.op = "add" THEN "enable" ELSE "drop")
    /\ wkMissed' = [wkMissed EXCEPT ![wkJob.name] =
                      (@ \ {"commit"})
                        \cup (IF wkJob.row.procs < wkJob.previous THEN {"drop"} ELSE {})
                        \cup (IF wkJob.was THEN {"restart"} ELSE {})]
    /\ UNCHANGED <<wkSystem, wkQueue, wkAsked>>

\* systemctl disable --now: of the instances is; some may not stop.
WkDisable(n, is, left) ==
    /\ wkEnabled' = [wkEnabled EXCEPT ![n] = @ \ (is \ left)]
    /\ wkRuns' = [wkRuns EXCEPT ![n] = [i \in 1..WkMaxProcs |-> IF i \in is \ left THEN WkStopped ELSE @[i]]]

\* Faulty variant: range(processes + 1, previous).
DropSurplusButOne ==
    /\ WkAt("drop")
    /\ WkDisable(wkJob.name, (wkJob.row.procs + 1)..(wkJob.previous - 1), {})
    /\ wkMissed' = [wkMissed EXCEPT ![wkJob.name] = @ \ {"drop"}]
    /\ wkJob' = IF wkJob.was THEN WkStep("enable") ELSE WkIdle
    /\ UNCHANGED <<wkRow, wkFile, wkUnit, wkQueue, wkAsked>>

\* The instances beyond the new number; its exit code is not looked at.  Those
\* beyond the number before are not thought of.
DropSurplus ==
    /\ WkAt("drop")
    /\ LET is == (wkJob.row.procs + 1)..wkJob.previous IN
       \E left \in SUBSET is :
          /\ WkDisable(wkJob.name, is, left)
          /\ wkMissed' = [wkMissed EXCEPT ![wkJob.name] =
                            IF left = {} /\ wkEnabled[wkJob.name] \cup WkActive(wkJob.name) \subseteq 1..wkJob.previous
                            THEN @ \ {"drop"} ELSE @]
    /\ wkJob' = IF wkJob.was THEN WkStep("enable") ELSE WkIdle
    /\ UNCHANGED <<wkRow, wkFile, wkUnit, wkQueue, wkAsked>>

\* systemctl enable --now of what runs already does nothing to it.
StartInstances ==
    /\ WkAt("enable") /\ wkFile[wkJob.name] # WkNoUnit /\ wkUnit[wkJob.name] # WkNoUnit
    /\ LET n == wkJob.name IN
       /\ wkEnabled' = [wkEnabled EXCEPT ![n] = @ \cup WkInstances(n)]
       /\ wkRuns' = [wkRuns EXCEPT ![n] = [i \in 1..WkMaxProcs |->
                       IF i \in WkInstances(n)
                          /\ (wkJob.op \in {"restart", "update"} \/ @[i] = WkStopped)
                       THEN wkUnit[n] ELSE @[i]]]
       /\ wkMissed' = [wkMissed EXCEPT ![n] =
                         IF wkJob.op \in {"restart", "update"} THEN @ \ {"restart"} ELSE @]
    /\ wkJob' = WkIdle
    /\ UNCHANGED <<wkRow, wkFile, wkUnit, wkQueue, wkAsked>>

StopInstances ==
    /\ WkAt("disable") /\ wkFile[wkJob.name] # WkNoUnit
    /\ WkDisable(wkJob.name, WkInstances(wkJob.name), {})
    /\ wkJob' = WkIdle
    /\ UNCHANGED <<wkRow, wkFile, wkUnit, wkQueue, wkAsked, wkMissed>>

\* ctx.check: some of the instances have been started, stopped or restarted.
InstancesFail ==
    /\ WkAt("enable") \/ WkAt("disable")
    /\ wkJob' = WkIdle
    /\ UNCHANGED <<wkRow, wkSystem, wkQueue, wkAsked, wkMissed>>

\* _stop_all_instances: every number there can be; unchecked.
StopAll ==
    /\ WkAt("stop all")
    /\ \E left \in SUBSET WkActive(wkJob.name) :
          /\ WkDisable(wkJob.name, 1..WkMaxProcs, left)
          /\ wkMissed' = [wkMissed EXCEPT ![wkJob.name] =
                            IF left = {} THEN @ \ {"drop", "restart"} ELSE @ \cup {"drop", "restart"}]
    /\ wkJob' = WkStep("unlink")
    /\ UNCHANGED <<wkRow, wkFile, wkUnit, wkQueue, wkAsked>>

\* remove_file; teardown has then to stop the site's others, one by one.
UnitRemoved ==
    /\ WkAt("unlink")
    /\ wkFile' = [wkFile EXCEPT ![wkJob.name] = WkNoUnit]
    /\ wkMissed' = [wkMissed EXCEPT ![wkJob.name] = @ \ {"commit"}]
    /\ wkJob' = IF wkJob.op = "delete" THEN WkStep("forget")
                ELSE IF wkJob.rest = {} THEN WkStep("reload")
                ELSE LET next == CHOOSE m \in wkJob.rest : TRUE IN
                     [WkStep("stop all") EXCEPT !.name = next, !.rest = @ \ {next}]
    /\ UNCHANGED <<wkRow, wkUnit, wkRuns, wkEnabled, wkQueue, wkAsked>>

\* delete_worker commits before it reloads systemd, the site's deletion after.
WorkerForgotten ==
    /\ WkAt("forget")
    /\ wkRow' = [m \in WkNames |-> IF wkJob.op = "site" \/ m = wkJob.name THEN WkNone ELSE wkRow[m]]
    /\ wkJob' = IF wkJob.op = "site" THEN WkIdle ELSE WkStep("reload")
    /\ UNCHANGED <<wkSystem, wkQueue, wkAsked, wkMissed>>

-----------------------------------------------------------------------------
(* Everything else *)

\* A process ends: Restart=always starts it again from the unit, or gives up.
InstanceEnds == \E n \in WkNames : \E i \in WkActive(n) : \E c \in {wkUnit[n], WkStopped} \ {WkNoUnit} :
    /\ wkRuns' = [wkRuns EXCEPT ![n][i] = c]
    /\ UNCHANGED <<wkRow, wkFile, wkUnit, wkEnabled, wkQueue, wkJob, wkAsked, wkMissed>>

\* systemd reads a unit's file for reasons of its own: another job's reload,
\* `systemctl enable`, an instance it no longer had in memory.
SystemdReads == \E n \in WkNames :
    /\ wkUnit[n] # wkFile[n] /\ WkReads({n})
    /\ UNCHANGED <<wkRow, wkFile, wkRuns, wkEnabled, wkQueue, wkJob, wkAsked>>

\* The panel dies: the job is not begun again and the queue is gone.
WorkersPanelDies ==
    /\ wkJob' = WkIdle /\ wkQueue' = <<>>
    /\ UNCHANGED <<wkRow, wkSystem, wkAsked, wkMissed>>

MachineRestarts ==
    /\ wkRuns' = [n \in WkNames |-> [i \in 1..WkMaxProcs |->
                    IF i \in wkEnabled[n] /\ wkFile[n] # WkNoUnit THEN wkFile[n] ELSE WkStopped]]
    /\ wkUnit' = wkFile
    /\ wkJob' = WkIdle /\ wkQueue' = <<>>
    /\ UNCHANGED <<wkRow, wkFile, wkEnabled, wkAsked, wkMissed>>

WorkersNext ==
    \/ AskWorker \/ AskChange \/ AskControl \/ AskSiteDeleted
    \/ WorkerJobBegins \/ RenderFiles \/ DaemonReload \/ WorkerCommitted \/ DropSurplus
    \/ StartInstances \/ StopInstances \/ InstancesFail \/ StopAll \/ UnitRemoved \/ WorkerForgotten
    \/ InstanceEnds \/ SystemdReads \/ WorkersPanelDies \/ MachineRestarts

WorkersSpec == WkInit /\ [][WorkersNext]_wkVars

-----------------------------------------------------------------------------
WkTypeOK ==
    /\ \A n \in WkNames : wkRow[n] \in WkRows \cup {WkNone}
    /\ \A n, m \in WkNames : WkExists(n) /\ wkRow[n].id = wkRow[m].id => n = m
    /\ {wkFile, wkUnit} \subseteq [WkNames -> WkCommands \cup {WkNoUnit}]
    /\ wkRuns \in [WkNames -> [1..WkMaxProcs -> WkCommands \cup {WkStopped}]]
    /\ wkEnabled \in [WkNames -> SUBSET (1..WkMaxProcs)]

\* Between jobs no process of a worker runs that its row does not count, and
\* that its page would neither show nor stop (workers.py 197-200, 335-339):
\* unless the job that lowered the number ended between its commit and its
\* `systemctl disable`, or that did not succeed, which no later change makes up for.
NoSurplusInstance ==
    wkJob = WkIdle =>
        \A n \in WkNames : WkActive(n) \subseteq WkInstances(n) \/ "drop" \in wkMissed[n]

\* Between jobs what runs is what the page shows (workers.py 316-344), unless a
\* job has ended between the rendering of the file and its commit, or between the
\* commit and the restart, or the restart failed; or systemd has not read the
\* file, because a job ended before the daemon-reload or that failed, and then no
\* later save of the same command makes up for it (workers.py 172-174).
SavedIsWhatRuns ==
    wkJob = WkIdle =>
        \A n \in WkNames : \A i \in WkActive(n) :
            wkRuns[n][i] = wkRow[n].cmd \/ wkMissed[n] # {} \/ wkUnit[n] # wkFile[n]

\* What runs is what the rows count, with the command they name.
WorkersAreTheirRows == NoSurplusInstance /\ SavedIsWhatRuns
=============================================================================
