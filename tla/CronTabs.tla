------------------------------- MODULE CronTabs -------------------------------
(***************************************************************************)
(* services/cron.py, routers/cron.py and cron.sync: the crontab of one     *)
(* user is rendered from the enabled rows by a job that every change of a  *)
(* row enqueues, in a commit of its own after the change's.                *)
(***************************************************************************)
EXTENDS Integers, FiniteSets

CONSTANTS
    CtIds,         \* rows
    CtCommands,    \* schedules with their commands
    CtThreads,     \* request threads
    CtMaxAsked     \* bound: requests

ASSUME CronTabsAssumption == CtMaxAsked \in Nat

VARIABLES
    ctRows,       \* cron_jobs of the user
    ctTab,        \* the lines of the installed crontab
    ctReq,        \* the threads that have changed a row and not enqueued yet
    ctQueue,      \* cron.sync jobs that wait
    ctJob,        \* the one that runs, with the rows it has read
    ctAsked,
    ctLost        \* history: a change whose job was not enqueued, was lost or
                  \* failed, since the last job that read the rows and installed them

ctVars == <<ctRows, ctTab, ctReq, ctQueue, ctJob, ctAsked, ctLost>>

CtNoRow == [on |-> FALSE, command |-> "none"]
CtNoJob == [busy |-> FALSE, lines |-> {}]

\* render_crontab; none where no row is enabled.
CtRendered(rows) == {<<i, rows[i].command>> : i \in {j \in CtIds : rows[j].on}}

CronInit ==
    /\ ctRows = [i \in CtIds |-> CtNoRow]
    /\ ctTab = {}
    /\ ctReq = {} /\ ctQueue = 0 /\ ctJob = CtNoJob /\ ctAsked = 0
    /\ ctLost = FALSE

-----------------------------------------------------------------------------
(* routers/cron.py: create, edit, toggle, delete *)

CtCommit(t, i, row) ==
    /\ t \notin ctReq /\ ctAsked < CtMaxAsked
    /\ ctRows' = [ctRows EXCEPT ![i] = row]
    /\ ctReq' = ctReq \cup {t}
    /\ ctAsked' = ctAsked + 1
    /\ UNCHANGED <<ctTab, ctQueue, ctJob, ctLost>>

CreateOrEdit(t, i) ==
    \E c \in CtCommands :
        CtCommit(t, i, [on |-> ctRows[i] = CtNoRow \/ ctRows[i].on, command |-> c])

ToggleCron(t, i) == ctRows[i] # CtNoRow /\ CtCommit(t, i, [ctRows[i] EXCEPT !.on = ~@])
DeleteCron(t, i) == ctRows[i] # CtNoRow /\ CtCommit(t, i, CtNoRow)

\* _sync; its commit may raise.
EnqueueSync(t) ==
    /\ t \in ctReq
    /\ ctReq' = ctReq \ {t}
    /\ \E ok \in BOOLEAN :
          /\ ctQueue' = IF ok THEN ctQueue + 1 ELSE ctQueue
          /\ ctLost' = (ctLost \/ ~ok)
    /\ UNCHANGED <<ctRows, ctTab, ctJob, ctAsked>>

-----------------------------------------------------------------------------
(* cron.sync *)

SyncReads ==
    /\ ~ctJob.busy /\ ctQueue > 0
    /\ ctQueue' = ctQueue - 1
    /\ ctJob' = [busy |-> TRUE, lines |-> CtRendered(ctRows)]
    /\ ctLost' = FALSE
    /\ UNCHANGED <<ctRows, ctTab, ctReq, ctAsked>>

\* Faulty variant: with no enabled row there is nothing to install.
InstallLines ==
    /\ ctJob.busy
    /\ ctTab' = IF ctJob.lines = {} THEN ctTab ELSE ctJob.lines
    /\ ctJob' = CtNoJob
    /\ UNCHANGED <<ctRows, ctReq, ctQueue, ctAsked, ctLost>>

\* apply_crontab: crontab -u, or -r for none.
InstallCrontab ==
    /\ ctJob.busy
    /\ ctTab' = ctJob.lines
    /\ ctJob' = CtNoJob
    /\ UNCHANGED <<ctRows, ctReq, ctQueue, ctAsked, ctLost>>

\* cron is not installed, or crontab refuses the text.
SyncFails ==
    /\ ctJob.busy
    /\ ctJob' = CtNoJob
    /\ ctLost' = TRUE
    /\ UNCHANGED <<ctRows, ctTab, ctReq, ctQueue, ctAsked>>

CronPanelDies ==
    /\ <<ctReq, ctQueue, ctJob>> # <<{}, 0, CtNoJob>>
    /\ ctReq' = {} /\ ctQueue' = 0 /\ ctJob' = CtNoJob
    /\ ctLost' = TRUE
    /\ UNCHANGED <<ctRows, ctTab, ctAsked>>

CronNext ==
    \/ \E t \in CtThreads :
          \/ EnqueueSync(t)
          \/ \E i \in CtIds : CreateOrEdit(t, i) \/ ToggleCron(t, i) \/ DeleteCron(t, i)
    \/ SyncReads \/ InstallCrontab \/ SyncFails \/ CronPanelDies

CronSpec == CronInit /\ [][CronNext]_ctVars

-----------------------------------------------------------------------------
CronTypeOK ==
    /\ ctRows \in [CtIds -> [on : BOOLEAN, command : CtCommands \cup {"none"}]]
    /\ ctTab \cup ctJob.lines \subseteq CtIds \X CtCommands
    /\ ctReq \subseteq CtThreads /\ ctQueue \in 0 .. CtMaxAsked

\* "This table is the source of truth" (models.py 336-340): once every change's
\* job has run, the crontab is the enabled rows, though the rows change while a
\* job installs those it has read; a change whose job is lost is made good by
\* the next one.
CrontabIsRows ==
    ctReq = {} /\ ctQueue = 0 /\ ~ctJob.busy /\ ~ctLost => ctTab = CtRendered(ctRows)
=============================================================================
