-------------------------- MODULE RowPartsProofs --------------------------
(*************************************************************************)
(* Proofs about the parts of the panel that keep what is on the host in  *)
(* step with rows of its database: the tasks of cron, the keys of SSH,   *)
(* the users of FTP and the workers of supervisor; about the row that    *)
(* counts an address's failed logins; and about the tables themselves.   *)
(*************************************************************************)
EXTENDS CronTabs, SshKeys, SchemaRebuild, FtpAccounts, SiteWorkers, LoginThrottle,
        FiniteSetTheorems, WellFoundedInduction, TLAPS

(*************************************************************************)
(* CronTabs, for any rows, commands, threads and number of requests:     *)
(* once every job has run the crontab is the enabled rows.               *)
(*************************************************************************)

CtLines == SUBSET (CtIds \X CtCommands)

\* An enabled row has a command, so that what is rendered are lines.
CtTypes ==
    /\ ctRows \in [CtIds -> [on : BOOLEAN, command : CtCommands \cup {"none"}]]
    /\ \A i \in CtIds : ctRows[i].on => ctRows[i].command \in CtCommands
    /\ ctTab \in CtLines
    /\ ctJob \in [busy : BOOLEAN, lines : CtLines]
    /\ ctReq \subseteq CtThreads
    /\ ctLost \in BOOLEAN

\* Every request enqueues one job at most, so that the queue is bounded by
\* their number.
CtCounts ==
    /\ IsFiniteSet(ctReq)
    /\ ctQueue \in Nat /\ ctAsked \in Nat
    /\ ctQueue + Cardinality(ctReq) <= ctAsked
    /\ ctAsked <= CtMaxAsked

\* Nothing is on its way that would read the rows again.
CtSettled == ctReq = {} /\ ctQueue = 0 /\ ~ctLost

\* A job that runs when nothing else is on its way has read the rows as they
\* are: whoever changed them since is still to enqueue, or has enqueued.
JobHasTheRows == CtSettled /\ ctJob.busy => ctJob.lines = CtRendered(ctRows)

CtInv == CtTypes /\ CtCounts /\ JobHasTheRows /\ CrontabIsRows

LEMMA RenderedAreLines ==
    ASSUME CtTypes
    PROVE  CtRendered(ctRows) \in CtLines
  BY DEF CtTypes, CtLines, CtRendered

LEMMA CtInitial ==
    CronInit => CtInv
<1>. SUFFICES ASSUME CronInit PROVE CtInv
  OBVIOUS
<1>1. CtTypes
  BY DEF CronInit, CtTypes, CtLines, CtNoRow, CtNoJob
<1>2. CtCounts
  BY FS_EmptySet, CronTabsAssumption DEF CronInit, CtCounts, CronTabsAssumption
<1>3. CtRendered(ctRows) = {}
  BY DEF CronInit, CtRendered, CtNoRow
<1>. QED
  BY <1>1, <1>2, <1>3 DEF CtInv, CronInit, JobHasTheRows, CrontabIsRows, CtNoJob

-----------------------------------------------------------------------------
(* The steps *)

\* A request changes a row and is then one more that has not enqueued.
LEMMA CtCommitKeeps ==
    ASSUME CtInv, NEW t \in CtThreads, NEW i \in CtIds,
           NEW row \in [on : BOOLEAN, command : CtCommands \cup {"none"}],
           row.on => row.command \in CtCommands,
           CtCommit(t, i, row)
    PROVE  CtInv'
<1>1. CtTypes'
  BY DEF CtInv, CtTypes, CtCommit
<1>2. CtCounts'
  <2>1. /\ IsFiniteSet(ctReq')
        /\ Cardinality(ctReq') = Cardinality(ctReq) + 1
    BY FS_AddElement DEF CtInv, CtCounts, CtCommit
  <2>2. Cardinality(ctReq) \in Nat
    BY FS_CardinalityType DEF CtInv, CtCounts
  <2>. QED
    BY <2>1, <2>2, CronTabsAssumption DEF CtInv, CtCounts, CtCommit, CronTabsAssumption
<1>3. ctReq' # {}
  BY DEF CtCommit
<1>. QED
  BY <1>1, <1>2, <1>3 DEF CtInv, JobHasTheRows, CrontabIsRows, CtSettled

LEMMA CtChangesKeep ==
    ASSUME CtInv, NEW t \in CtThreads, NEW i \in CtIds,
           CreateOrEdit(t, i) \/ ToggleCron(t, i) \/ DeleteCron(t, i)
    PROVE  CtInv'
<1>. DEFINE Row == [on : BOOLEAN, command : CtCommands \cup {"none"}]
<1>1. ctRows[i] \in Row
  BY DEF CtInv, CtTypes
<1>2. CASE CreateOrEdit(t, i)
  <2>1. PICK c \in CtCommands :
            CtCommit(t, i, [on |-> ctRows[i] = CtNoRow \/ ctRows[i].on, command |-> c])
    BY <1>2 DEF CreateOrEdit
  <2>2. (ctRows[i] = CtNoRow \/ ctRows[i].on) \in BOOLEAN
    BY <1>1
  <2>. QED
    BY <2>1, <2>2, CtCommitKeeps
<1>3. CASE ToggleCron(t, i)
  <2>. DEFINE row == [ctRows[i] EXCEPT !.on = ~@]
  <2>1. row \in Row
    BY <1>1
  <2>2. row.on => row.command \in CtCommands
    BY <1>1, <1>3 DEF CtInv, CtTypes, ToggleCron, CtNoRow
  <2>. QED
    BY <1>3, <2>1, <2>2, CtCommitKeeps DEF ToggleCron
<1>4. CASE DeleteCron(t, i)
  BY <1>4, CtCommitKeeps DEF DeleteCron, CtNoRow
<1>. QED
  BY <1>2, <1>3, <1>4

LEMMA CtEnqueueKeeps ==
    ASSUME CtInv, NEW t \in CtThreads, EnqueueSync(t)
    PROVE  CtInv'
<1>1. PICK ok \in BOOLEAN : /\ ctQueue' = IF ok THEN ctQueue + 1 ELSE ctQueue
                            /\ ctLost' = (ctLost \/ ~ok)
  BY DEF EnqueueSync
<1>2. CtTypes'
  BY <1>1 DEF CtInv, CtTypes, EnqueueSync
<1>3. CtCounts'
  <2>1. /\ IsFiniteSet(ctReq')
        /\ Cardinality(ctReq') = Cardinality(ctReq) - 1
    BY FS_RemoveElement DEF CtInv, CtCounts, EnqueueSync
  <2>2. Cardinality(ctReq) \in Nat
    BY FS_CardinalityType DEF CtInv, CtCounts
  <2>. QED
    BY <1>1, <2>1, <2>2 DEF CtInv, CtCounts, EnqueueSync
<1>4. ~CtSettled'
  <2>1. CASE ok
    BY <1>1, <2>1 DEF CtInv, CtCounts, CtSettled
  <2>2. CASE ~ok
    BY <1>1, <2>2 DEF CtSettled
  <2>. QED
    BY <2>1, <2>2
<1>. QED
  BY <1>2, <1>3, <1>4 DEF CtInv, JobHasTheRows, CrontabIsRows, CtSettled

LEMMA CtJobKeeps ==
    ASSUME CtInv, SyncReads \/ InstallCrontab \/ SyncFails
    PROVE  CtInv'
<1>1. CtTypes'
  <2>1. CtNoJob \in [busy : BOOLEAN, lines : CtLines]
    BY DEF CtNoJob, CtLines
  <2>2. CASE SyncReads
    BY <2>2, RenderedAreLines DEF CtInv, CtTypes, SyncReads
  <2>3. CASE InstallCrontab
    BY <2>1, <2>3 DEF CtInv, CtTypes, InstallCrontab
  <2>4. CASE SyncFails
    BY <2>1, <2>4 DEF CtInv, CtTypes, SyncFails
  <2>. QED
    BY <2>2, <2>3, <2>4
<1>2. CtCounts'
  BY FS_CardinalityType DEF CtInv, CtCounts, SyncReads, InstallCrontab, SyncFails
<1>3. JobHasTheRows' /\ CrontabIsRows'
  BY DEF CtInv, CtTypes, JobHasTheRows, CrontabIsRows, CtSettled, CtRendered, CtNoJob,
         SyncReads, InstallCrontab, SyncFails
<1>. QED
  BY <1>1, <1>2, <1>3 DEF CtInv

LEMMA CtDeathKeeps ==
    ASSUME CtInv, CronPanelDies
    PROVE  CtInv'
<1>1. CtTypes'
  BY DEF CtInv, CtTypes, CtLines, CronPanelDies, CtNoJob
<1>2. CtCounts'
  BY FS_EmptySet, FS_CardinalityType DEF CtInv, CtCounts, CronPanelDies
<1>. QED
  BY <1>1, <1>2 DEF CtInv, JobHasTheRows, CrontabIsRows, CtSettled, CronPanelDies

-----------------------------------------------------------------------------
LEMMA CtNextKeeps ==
    CtInv /\ [CronNext]_ctVars => CtInv'
<1>. SUFFICES ASSUME CtInv, [CronNext]_ctVars PROVE CtInv'
  OBVIOUS
<1>1. CASE \E t \in CtThreads : EnqueueSync(t)
  BY <1>1, CtEnqueueKeeps
<1>2. CASE \E t \in CtThreads : \E i \in CtIds :
               CreateOrEdit(t, i) \/ ToggleCron(t, i) \/ DeleteCron(t, i)
  BY <1>2, CtChangesKeep
<1>3. CASE SyncReads \/ InstallCrontab \/ SyncFails
  BY <1>3, CtJobKeeps
<1>4. CASE CronPanelDies
  BY <1>4, CtDeathKeeps
<1>5. CASE UNCHANGED ctVars
  BY <1>5 DEF CtInv, CtTypes, CtCounts, JobHasTheRows, CrontabIsRows, CtSettled, CtRendered,
              ctVars
<1>. QED
  BY <1>1, <1>2, <1>3, <1>4, <1>5 DEF CronNext

\* CtInv holds in every reachable state of the crontab (services/cron.py,
\* routers/cron.py, cron.sync).
THEOREM CtInvariance == CronSpec => []CtInv
<1>. QED
  BY CtInitial, CtNextKeeps, PTL DEF CronSpec

\* The variables keep their types, and no more jobs wait than were asked for.
THEOREM CtTypeCorrect == CronSpec => []CronTypeOK
<1>1. CtInv => CronTypeOK
  BY FS_CardinalityType, CronTabsAssumption
  DEF CtInv, CtTypes, CtLines, CtCounts, CronTypeOK, CronTabsAssumption
<1>. QED
  BY <1>1, CtInvariance, PTL

\* Once every change's job has run, the crontab is the enabled rows (models.py
\* 336-340), however changes and jobs interleave.
THEOREM RowsAreInstalled == CronSpec => []CrontabIsRows
<1>1. CtInv => CrontabIsRows
  BY DEF CtInv
<1>. QED
  BY <1>1, CtInvariance, PTL

(*************************************************************************)
(* SshKeys, for any keys, threads and number of requests: a request that *)
(* runs alone and to its end leaves the file in step with the rows,      *)
(* whatever overlapping and broken requests had left.                    *)
(*************************************************************************)

SkRequest == [step : {"idle", "read", "write", "shell"}, keys : SUBSET SkKeys, alone : BOOLEAN]

SkTypes ==
    /\ skRows \subseteq SkKeys /\ skFile \subseteq SkKeys
    /\ skBash \in BOOLEAN /\ skSkewed \in BOOLEAN
    /\ skReq \in [SkThreads -> SkRequest]

\* A request that has been alone so far holds the rows it has read: nobody
\* else was there to change them.
AloneHasTheRows ==
    \A t \in SkThreads : ~SkAt(t, "idle") /\ skReq[t].alone =>
        /\ \A u \in SkThreads \ {t} : SkAt(u, "idle")
        /\ SkAt(t, "write") \/ SkAt(t, "shell") => skReq[t].keys = skRows

\* While nothing is skewed a request is alone, and has written what it read.
NothingSkewed ==
    ~skSkewed => \A t \in SkThreads : ~SkAt(t, "idle") =>
        skReq[t].alone /\ (SkAt(t, "shell") => skFile = skReq[t].keys)

SkInv == SkTypes /\ AloneHasTheRows /\ NothingSkewed /\ KeysInSync

LEMMA SkInitial ==
    SkInit => SkInv
<1>. SUFFICES ASSUME SkInit PROVE SkInv
  OBVIOUS
<1>1. SkTypes
  BY DEF SkInit, SkTypes, SkRequest, SkIdle
<1>2. \A t \in SkThreads : SkAt(t, "idle")
  BY DEF SkInit, SkAt, SkIdle
<1>3. skBash = (skRows # {}) /\ skFile = skRows
  BY DEF SkInit
<1>. QED
  BY <1>1, <1>2, <1>3 DEF SkInv, AloneHasTheRows, NothingSkewed, KeysInSync

-----------------------------------------------------------------------------
(* The steps *)

\* A request that begins ends the solitude of all that have begun.
LEMMA SkCommitKeeps ==
    ASSUME SkInv, NEW t \in SkThreads, NEW rows \in SUBSET SkKeys, SkCommit(t, rows)
    PROVE  SkInv'
<1>. DEFINE others == {u \in SkThreads \ {t} : ~SkAt(u, "idle")}
<1>1. /\ skReq' = [u \in SkThreads |->
              IF u = t THEN [step |-> "read", keys |-> {}, alone |-> others = {}]
              ELSE [skReq[u] EXCEPT !.alone = SkAt(u, "idle")]]
      /\ skSkewed' = (skSkewed \/ others # {})
      /\ skRows' = rows /\ UNCHANGED <<skFile, skBash>>
  BY DEF SkCommit
<1>2. \A u \in SkThreads \ {t} : SkAt(u, "idle")' <=> SkAt(u, "idle")
  BY <1>1 DEF SkInv, SkTypes, SkRequest, SkAt
<1>3. SkAt(t, "read")' /\ (skReq'[t].alone <=> others = {})
  BY <1>1 DEF SkAt
<1>4. SkTypes'
  <2>1. \A u \in SkThreads : skReq'[u] \in SkRequest
    BY <1>1 DEF SkInv, SkTypes, SkRequest, SkAt
  <2>2. (others # {}) \in BOOLEAN
    OBVIOUS
  <2>3. skReq' \in [SkThreads -> SkRequest]
    BY <1>1, <2>1
  <2>. QED
    BY <1>1, <2>3 DEF SkInv, SkTypes
<1>5. \A u \in SkThreads \ {t} : ~SkAt(u, "idle")' => ~skReq'[u].alone /\ others # {}
  BY <1>1, <1>2 DEF SkInv, SkTypes, SkRequest
<1>6. AloneHasTheRows'
  BY <1>2, <1>3, <1>5 DEF AloneHasTheRows, SkAt
<1>7. NothingSkewed'
  BY <1>1, <1>3, <1>5 DEF NothingSkewed, SkAt
<1>8. KeysInSync'
  BY <1>3 DEF KeysInSync, SkAt
<1>. QED
  BY <1>4, <1>6, <1>7, <1>8 DEF SkInv

LEMMA SkReadKeeps ==
    ASSUME SkInv, NEW t \in SkThreads, ReadKeys(t)
    PROVE  SkInv'
  BY DEF SkInv, SkTypes, SkRequest, AloneHasTheRows, NothingSkewed, KeysInSync, SkAt, ReadKeys

LEMMA SkWriteKeeps ==
    ASSUME SkInv, NEW t \in SkThreads, WriteKeys(t) \/ UnlinkPassedOver(t)
    PROVE  SkInv'
<1>1. /\ SkAt(t, "write") /\ skReq' = [skReq EXCEPT ![t].step = "shell"]
      /\ UNCHANGED <<skRows, skBash>>
      /\ \/ skFile' = skReq[t].keys /\ UNCHANGED skSkewed
         \/ skSkewed' = TRUE /\ UNCHANGED skFile
  BY DEF WriteKeys, UnlinkPassedOver, SkGoes
<1>2. SkTypes'
  BY <1>1 DEF SkInv, SkTypes, SkRequest
<1>3. AloneHasTheRows'
  BY <1>1 DEF SkInv, SkTypes, SkRequest, AloneHasTheRows, SkAt
<1>4. NothingSkewed'
  BY <1>1 DEF SkInv, SkTypes, SkRequest, AloneHasTheRows, NothingSkewed, SkAt
<1>5. KeysInSync'
  BY <1>1 DEF SkInv, SkTypes, SkRequest, KeysInSync, SkAt
<1>. QED
  BY <1>2, <1>3, <1>4, <1>5 DEF SkInv

LEMMA SkRaisesKeeps ==
    ASSUME SkInv, NEW t \in SkThreads, SkRaises(t)
    PROVE  SkInv'
  BY DEF SkInv, SkTypes, SkRequest, AloneHasTheRows, NothingSkewed, KeysInSync, SkAt, SkIdle,
         SkRaises

\* The last step, which forgets what was skewed when the request was alone.
LEMMA SkShellKeeps ==
    ASSUME SkInv, NEW t \in SkThreads, SetShell(t)
    PROVE  SkInv'
<1>1. PICK ok \in BOOLEAN :
          /\ skBash' = IF ok THEN skReq[t].keys # {} ELSE skBash
          /\ skSkewed' = ((skSkewed \/ ~ok) /\ ~(ok /\ skReq[t].alone /\ skFile = skReq[t].keys))
  BY DEF SetShell
<1>2. SkAt(t, "shell") /\ skReq' = [skReq EXCEPT ![t] = SkIdle] /\ UNCHANGED <<skRows, skFile>>
  BY DEF SetShell
<1>3. ~skSkewed' => /\ ok /\ skReq[t].alone
                    /\ skFile = skReq[t].keys /\ skReq[t].keys = skRows
  BY <1>1, <1>2 DEF SkInv, SkTypes, SkRequest, AloneHasTheRows, NothingSkewed, SkAt
<1>4. SkTypes'
  <2>1. SkIdle \in SkRequest
    BY DEF SkIdle, SkRequest
  <2>. QED
    BY <1>1, <1>2, <2>1 DEF SkInv, SkTypes
<1>5. AloneHasTheRows'
  BY <1>2 DEF SkInv, SkTypes, SkRequest, AloneHasTheRows, SkAt, SkIdle
<1>6. NothingSkewed'
  BY <1>2, <1>3 DEF SkInv, SkTypes, SkRequest, AloneHasTheRows, NothingSkewed, SkAt, SkIdle
<1>7. KeysInSync'
  BY <1>1, <1>2, <1>3 DEF KeysInSync
<1>. QED
  BY <1>4, <1>5, <1>6, <1>7 DEF SkInv

-----------------------------------------------------------------------------
LEMMA SkNextKeeps ==
    SkInv /\ [SshNext]_skVars => SkInv'
<1>. SUFFICES ASSUME SkInv, [SshNext]_skVars PROVE SkInv'
  OBVIOUS
<1>1. ASSUME NEW t \in SkThreads, NEW k \in SkKeys, AddKey(t, k) \/ RevokeKey(t, k)
      PROVE  SkInv'
  <2>1. skRows \cup {k} \in SUBSET SkKeys /\ skRows \ {k} \in SUBSET SkKeys
    BY DEF SkInv, SkTypes
  <2>. QED
    BY <1>1, <2>1, SkCommitKeeps DEF AddKey, RevokeKey
<1>2. CASE UNCHANGED skVars
  BY <1>2 DEF SkInv, SkTypes, AloneHasTheRows, NothingSkewed, KeysInSync, SkAt, skVars
<1>. QED
  BY <1>1, <1>2, SkReadKeeps, SkWriteKeeps, SkRaisesKeeps, SkShellKeeps DEF SshNext

\* SkInv holds in every reachable state of a user's keys (services/ssh_keys.py).
THEOREM SkInvariance == SshSpec => []SkInv
<1>. QED
  BY SkInitial, SkNextKeeps, PTL DEF SshSpec

\* The variables keep their types.
THEOREM SkTypeCorrect == SshSpec => []SshTypeOK
<1>1. SkInv => SshTypeOK
  BY DEF SkInv, SkTypes, SkRequest, SshTypeOK
<1>. QED
  BY <1>1, SkInvariance, PTL

\* After a request that ran alone and to its end authorized_keys and the shell
\* are what the rows say (models.py 440-441).
THEOREM KeysStayInSync == SshSpec => []KeysInSync
<1>1. SkInv => KeysInSync
  BY DEF SkInv
<1>. QED
  BY <1>1, SkInvariance, PTL

(*************************************************************************)
(* SchemaRebuild, for any rows, columns and number of starts: no end of  *)
(* the panel in the middle of a rebuild loses a row.                     *)
(*************************************************************************)

SrSteps == {"down", "create", "columns", "rename", "new", "copy", "drop", "up"}
SrRebuilding == srStep \in {"new", "copy", "drop"}

SrTypes ==
    /\ SrTypeOK
    /\ srStep \in SrSteps /\ srCut \in BOOLEAN
    /\ srTable.there \/ srTable.rows = {}
    /\ srOld.there \/ srOld.rows = {}

\* What init_db has found or made by each of its steps.  A table aside means
\* that the one in its place is today's, so that no second rebuild begins and
\* renames over it.
SrPlaced ==
    /\ srOld.there /\ srTable.there => srTable.nullable
    /\ srStep = "columns" => srTable.there
    /\ srStep = "rename" => srTable.there /\ ~srTable.nullable
    /\ srStep = "new" => ~srTable.there
    /\ srStep \in {"copy", "drop"} => srTable.rows = {}
    /\ srStep \in {"copy", "drop", "up"} => srTable.there /\ srTable.nullable /\ srTable.columns = SrColumns
    /\ srStep = "drop" => srBegun = srOld.rows

\* Where the rows are when no start was cut short.
SrWhere ==
    ~srCut => IF SrRebuilding THEN srOld.rows = srWas
              ELSE srTable.rows = srWas /\ srOld.rows = {}

SrInv == SrTypes /\ SrPlaced /\ SrWhere /\ NoRowIsLost

LEMMA SrInitial ==
    SrInit => SrInv
<1>. SUFFICES ASSUME SrInit PROVE SrInv
  OBVIOUS
<1>1. srTable \in SrTables /\ (srTable.there \/ srTable.rows = {})
  <2>1. CASE srTable = SrAbsent
    BY <2>1 DEF SrTables, SrAbsent
  <2>2. CASE srTable # SrAbsent
    <3>1. PICK rows \in SUBSET SrRows, nullable \in BOOLEAN, columns \in SUBSET SrColumns :
              srTable = SrTable(rows, nullable, columns)
      BY <2>2 DEF SrInit
    <3>. QED
      BY <3>1 DEF SrTable, SrTables
  <2>. QED
    BY <2>1, <2>2
<1>2. srOld \in SrTables /\ ~srOld.there /\ srOld.rows = {}
  BY DEF SrInit, SrTables, SrAbsent
<1>. QED
  BY <1>1, <1>2
  DEF SrInit, SrInv, SrTypes, SrTypeOK, SrSteps, SrPlaced, SrWhere, SrRebuilding, NoRowIsLost

-----------------------------------------------------------------------------
(* The steps *)

LEMMA CreateAllKeeps ==
    ASSUME SrInv, CreateAll
    PROVE  SrInv'
  BY DEF SrInv, SrTypes, SrTypeOK, SrTables, SrSteps, SrPlaced, SrWhere, SrRebuilding, NoRowIsLost,
         CreateAll, SrAt, SrRest, SrTable

LEMMA ColumnsKeep ==
    ASSUME SrInv, AddColumn \/ ColumnsAdded
    PROVE  SrInv'
<1>1. CASE AddColumn
  BY <1>1
  DEF SrInv, SrTypes, SrTypeOK, SrTables, SrSteps, SrPlaced, SrWhere, SrRebuilding, NoRowIsLost,
      AddColumn, SrAt, SrRest
<1>2. CASE ColumnsAdded
  BY <1>2
  DEF SrInv, SrTypes, SrTypeOK, SrSteps, SrPlaced, SrWhere, SrRebuilding, NoRowIsLost,
      ColumnsAdded, SrAt, SrRest
<1>. QED
  BY <1>1, <1>2

\* The table goes aside; there is none aside yet.
LEMMA RenameKeeps ==
    ASSUME SrInv, RenameAside
    PROVE  SrInv'
<1>1. ~srOld.there /\ srOld.rows = {}
  BY DEF SrInv, SrTypes, SrPlaced, RenameAside, SrAt
<1>2. SrAbsent \in SrTables /\ ~SrAbsent.there /\ SrAbsent.rows = {}
  BY DEF SrAbsent, SrTables
<1>. QED
  BY <1>1, <1>2
  DEF SrInv, SrTypes, SrTypeOK, SrSteps, SrPlaced, SrWhere, SrRebuilding, NoRowIsLost,
      RenameAside, SrAt, SrRest

LEMMA RowsCopyKeeps ==
    ASSUME SrInv, CreateNew \/ CopyRows
    PROVE  SrInv'
<1>1. CASE CreateNew
  <2>1. /\ SrTable({}, TRUE, SrColumns) \in SrTables
        /\ SrTable({}, TRUE, SrColumns).there /\ SrTable({}, TRUE, SrColumns).nullable
        /\ SrTable({}, TRUE, SrColumns).rows = {}
        /\ SrTable({}, TRUE, SrColumns).columns = SrColumns
    BY DEF SrTable, SrTables
  <2>. QED
    BY <1>1, <2>1
    DEF SrInv, SrTypes, SrTypeOK, SrSteps, SrPlaced, SrWhere, SrRebuilding, NoRowIsLost,
        CreateNew, SrAt, SrRest
<1>2. CASE CopyRows
  BY <1>2
  DEF SrInv, SrTypes, SrTypeOK, SrTables, SrSteps, SrPlaced, SrWhere, SrRebuilding, NoRowIsLost,
      CopyRows, SrAt, SrRest
<1>. QED
  BY <1>1, <1>2

\* The copy is all the old table had, so that dropping it loses nothing.
LEMMA DropKeeps ==
    ASSUME SrInv, DropOld
    PROVE  SrInv'
<1>1. SrAbsent \in SrTables /\ ~SrAbsent.there /\ SrAbsent.rows = {}
  BY DEF SrAbsent, SrTables
<1>2. /\ srTable' \in SrTables /\ srTable'.rows = srOld.rows
      /\ srTable'.there /\ srTable'.nullable /\ srTable'.columns = SrColumns
  BY DEF SrInv, SrTypes, SrTypeOK, SrTables, SrPlaced, DropOld, SrAt
<1>. QED
  BY <1>1, <1>2
  DEF SrInv, SrTypes, SrTypeOK, SrSteps, SrPlaced, SrWhere, SrRebuilding, NoRowIsLost,
      DropOld, SrAt, SrRest

LEMMA EndsKeep ==
    ASSUME SrInv, StartInitDb \/ SrPanelEnds
    PROVE  SrInv'
<1>1. CASE StartInitDb
  BY <1>1
  DEF SrInv, SrTypes, SrTypeOK, SrSteps, SrPlaced, SrWhere, SrRebuilding, NoRowIsLost,
      StartInitDb, SrAt
<1>2. CASE SrPanelEnds
  BY <1>2
  DEF SrInv, SrTypes, SrTypeOK, SrSteps, SrPlaced, SrWhere, SrRebuilding, NoRowIsLost, SrPanelEnds
<1>. QED
  BY <1>1, <1>2

-----------------------------------------------------------------------------
LEMMA SrNextKeeps ==
    SrInv /\ [SrNext]_srVars => SrInv'
<1>. SUFFICES ASSUME SrInv, [SrNext]_srVars PROVE SrInv'
  OBVIOUS
<1>1. CASE UNCHANGED srVars
  BY <1>1 DEF SrInv, SrTypes, SrTypeOK, SrPlaced, SrWhere, SrRebuilding, NoRowIsLost, srVars
<1>. QED
  BY <1>1, CreateAllKeeps, ColumnsKeep, RenameKeeps, RowsCopyKeeps, DropKeeps, EndsKeep DEF SrNext

\* SrInv holds in every reachable state of the start (database.py init_db).
THEOREM SrInvariance == SrSpec => []SrInv
<1>. QED
  BY SrInitial, SrNextKeeps, PTL DEF SrSpec

\* The variables keep their types.
THEOREM SrTypeCorrect == SrSpec => []SrTypeOK
<1>1. SrInv => SrTypeOK
  BY DEF SrInv, SrTypes
<1>. QED
  BY <1>1, SrInvariance, PTL

\* No row is in neither of the tables, wherever the panel ends (database.py
\* 96-149).
THEOREM RowsSurvive == SrSpec => []NoRowIsLost
<1>1. SrInv => NoRowIsLost
  BY DEF SrInv
<1>. QED
  BY <1>1, SrInvariance, PTL

\* A panel that is up reads every row from today's table, unless a start was
\* cut short between the RENAME and the commit of the copy.
THEOREM RowsArrive == SrSpec => []RowsArePlain
<1>1. SrInv => RowsArePlain
  BY DEF SrInv, SrPlaced, SrWhere, SrRebuilding, RowsArePlain
<1>. QED
  BY <1>1, SrInvariance, PTL

\* A rebuild keeps the rows, and the panel that is up finds them (database.py
\* 96-149).
THEOREM RowsKept == SrSpec => []RowsAreKept
<1>1. RowsArePlain /\ NoRowIsLost => RowsAreKept
  BY DEF RowsAreKept
<1>. QED
  BY <1>1, RowsSurvive, RowsArrive, PTL

(*************************************************************************)
(* FtpAccounts, for any users, names, folders and number of jobs: when   *)
(* no job has stopped half way on a user, vsftpd lets in whom the page   *)
(* lists, each into the folder it names; and no folder is in another's.  *)
(*************************************************************************)

FpCreating == {"user", "own", "password", "config", "list", "restart", "row"}
FpDeleting == {"unconfig", "unlist", "lock", "userdel", "unrow"}

\* What is left of a job that has begun.
FpLeft(u) ==
    LET leave == IF u = FpSiteUser THEN "lock" ELSE "userdel" IN
    {<<"user", "own", "password", "config", "list", "restart", "row">>,
     <<"own", "password", "config", "list", "restart", "row">>,
     <<"password", "config", "list", "restart", "row">>,
     <<"config", "list", "restart", "row">>,
     <<"list", "restart", "row">>,
     <<"restart", "row">>,
     <<"row">>,
     <<"unconfig", "unlist", leave, "unrow">>,
     <<"unlist", leave, "unrow">>,
     <<leave, "unrow">>,
     <<"unrow">>}

FpAsks == [op : {"create"}, user : FpNames, dir : FpDirs] \cup [op : {"delete"}, user : FpAll, dir : FpDirs]

FpTypes ==
    /\ FtpTypeOK
    /\ fpQueue \in Seq(FpAsks)
    /\ fpSite \in BOOLEAN
    /\ fpJob # FpIdle => fpJob \in [steps : FpLeft(fpJob.user), user : FpAll, dir : FpDirs]

\* The site's user is there as long as the site is; its row is of the site's folder.
SiteUserStays ==
    /\ fpSite => FpSiteUser \in fpUsers
    /\ \A r \in fpRows : r.user = FpSiteUser => fpSite /\ r.dir = FpSiteDir

FpStep == Head(fpJob.steps)
FpAt(steps) == fpJob # FpIdle /\ FpStep \in steps

\* What a job that makes an account has made, and that nobody else has the folder.
FpMade ==
    FpAt(FpCreating) =>
        /\ ~Conflicting(fpJob.dir)
        /\ \A r \in fpRows : r.user # fpJob.user
        /\ fpJob.user = FpSiteUser => fpSite /\ fpJob.dir = FpSiteDir
        /\ ~FpAt({"user"}) => fpJob.user \in fpUsers
        /\ FpAt({"config", "list", "restart", "row"}) => fpJob.user \in fpPass
        /\ FpAt({"list", "restart", "row"}) => fpConf[fpJob.user] = fpJob.dir
        /\ FpAt({"restart", "row"}) => fpJob.user \in fpList

\* What a job that takes one away has taken.
FpTaken ==
    /\ FpAt({"lock", "userdel", "unrow"}) => fpJob.user \notin fpList
    /\ FpAt({"userdel"}) => fpJob.user # FpSiteUser

FpInv == FpTypes /\ SiteUserStays /\ FpMade /\ FpTaken /\ LoginsAreRows /\ FoldersApart

\* The step that comes after another.
FpFollowing(u, step) ==
    CASE step = "user" -> "own" [] step = "own" -> "password" [] step = "password" -> "config"
      [] step = "config" -> "list" [] step = "list" -> "restart" [] step = "restart" -> "row"
      [] step = "unconfig" -> "unlist"
      [] step = "unlist" -> IF u = FpSiteUser THEN "lock" ELSE "userdel"
      [] OTHER -> "unrow"

LEMMA FpTails ==
    ASSUME NEW u, NEW q \in FpLeft(u)
    PROVE  /\ q # <<>> /\ Head(q) \in FpCreating \cup FpDeleting
           /\ Len(q) = 1 <=> Head(q) \in {"row", "unrow"}
           /\ Len(q) # 1 => Tail(q) \in FpLeft(u) /\ Head(Tail(q)) = FpFollowing(u, Head(q))
           /\ Head(q) = "userdel" => u # FpSiteUser
<1> DEFINE leave == IF u = FpSiteUser THEN "lock" ELSE "userdel"
<1>1. CASE q = <<"user", "own", "password", "config", "list", "restart", "row">>
  <2>1. Tail(q) = <<"own", "password", "config", "list", "restart", "row">>
    BY <1>1
  <2> QED
    BY <1>1, <2>1 DEF FpLeft, FpFollowing, FpCreating
<1>2. CASE q = <<"own", "password", "config", "list", "restart", "row">>
  <2>1. Tail(q) = <<"password", "config", "list", "restart", "row">>
    BY <1>2
  <2> QED
    BY <1>2, <2>1 DEF FpLeft, FpFollowing, FpCreating
<1>3. CASE q = <<"password", "config", "list", "restart", "row">>
  <2>1. Tail(q) = <<"config", "list", "restart", "row">>
    BY <1>3
  <2> QED
    BY <1>3, <2>1 DEF FpLeft, FpFollowing, FpCreating
<1>4. CASE q = <<"config", "list", "restart", "row">>
  <2>1. Tail(q) = <<"list", "restart", "row">>
    BY <1>4
  <2> QED
    BY <1>4, <2>1 DEF FpLeft, FpFollowing, FpCreating
<1>5. CASE q = <<"list", "restart", "row">>
  <2>1. Tail(q) = <<"restart", "row">>
    BY <1>5
  <2> QED
    BY <1>5, <2>1 DEF FpLeft, FpFollowing, FpCreating
<1>6. CASE q = <<"restart", "row">>
  <2>1. Tail(q) = <<"row">>
    BY <1>6
  <2> QED
    BY <1>6, <2>1 DEF FpLeft, FpFollowing, FpCreating
<1>7. CASE q = <<"row">>
  BY <1>7 DEF FpCreating
<1>8. CASE q = <<"unconfig", "unlist", leave, "unrow">>
  <2>1. Tail(q) = <<"unlist", leave, "unrow">>
    BY <1>8
  <2> QED
    BY <1>8, <2>1 DEF FpLeft, FpFollowing, FpDeleting
<1>9. CASE q = <<"unlist", leave, "unrow">>
  <2>1. Tail(q) = <<leave, "unrow">>
    BY <1>9
  <2> QED
    BY <1>9, <2>1 DEF FpLeft, FpFollowing, FpDeleting
<1>10. CASE q = <<leave, "unrow">>
  <2>1. Tail(q) = <<"unrow">>
    BY <1>10
  <2> QED
    BY <1>10, <2>1 DEF FpLeft, FpFollowing, FpDeleting
<1>11. CASE q = <<"unrow">>
  BY <1>11 DEF FpDeleting
<1> QED
  BY <1>1, <1>2, <1>3, <1>4, <1>5, <1>6, <1>7, <1>8, <1>9, <1>10, <1>11 DEF FpLeft

\* A job that is not at its last step goes on to the next; else it ends.
LEMMA FpGoesOn ==
    ASSUME FpTypes, fpJob # FpIdle, FpThen
    PROVE  /\ FpStep \in FpCreating \cup FpDeleting /\ fpJob.user \in FpAll /\ fpJob.dir \in FpDirs
           /\ FpStep \in {"row", "unrow"} => fpJob' = FpIdle
           /\ FpStep \notin {"row", "unrow"} =>
                /\ fpJob' # FpIdle /\ fpJob'.user = fpJob.user /\ fpJob'.dir = fpJob.dir
                /\ fpJob' \in [steps : FpLeft(fpJob.user), user : FpAll, dir : FpDirs]
                /\ FpStep' = FpFollowing(fpJob.user, FpStep)
           /\ FpStep = "userdel" => fpJob.user # FpSiteUser
<1>1. fpJob \in [steps : FpLeft(fpJob.user), user : FpAll, dir : FpDirs]
  BY DEF FpTypes
<1>2. /\ FpStep \in FpCreating \cup FpDeleting
      /\ Len(fpJob.steps) = 1 <=> FpStep \in {"row", "unrow"}
      /\ Len(fpJob.steps) # 1 => /\ Tail(fpJob.steps) \in FpLeft(fpJob.user)
                                 /\ Head(Tail(fpJob.steps)) = FpFollowing(fpJob.user, FpStep)
      /\ FpStep = "userdel" => fpJob.user # FpSiteUser
  BY <1>1, FpTails DEF FpStep
<1>3. ASSUME Len(fpJob.steps) # 1
      PROVE  fpJob' \in [steps : FpLeft(fpJob.user), user : {fpJob.user}, dir : {fpJob.dir}] /\ fpJob'.steps = Tail(fpJob.steps)
  BY <1>1, <1>2, <1>3 DEF FpThen
<1>4. ASSUME Len(fpJob.steps) # 1 PROVE fpJob'.steps # <<>>
  BY <1>2, <1>3, <1>4, FpTails
<1> QED
  BY <1>1, <1>2, <1>3, <1>4 DEF FpThen, FpIdle, FpStep

\* vsftpd lets u in exactly where the page says.
FpAsListed(u) == {fpConf[u] : v \in {w \in {u} : FpLogsIn(w)}} = {r.dir : r \in {q \in fpRows : q.user = u}}

LEMMA FpEachListed == LoginsAreRows <=> \A u \in FpAll : ~FpBusy(u) => FpAsListed(u)
  BY DEF LoginsAreRows, FpAsListed

\* What a step leaves of a user it is not about.
FpUntouched(u) ==
    /\ fpConf'[u] = fpConf[u]
    /\ (u \in fpUsers') = (u \in fpUsers) /\ (u \in fpPass') = (u \in fpPass) /\ (u \in fpList') = (u \in fpList)
    /\ {q \in fpRows' : q.user = u} = {q \in fpRows : q.user = u}

LEMMA FpStaysListed ==
    ASSUME NEW u, FpUntouched(u), FpAsListed(u)
    PROVE  FpAsListed(u)'
<1>1. {w \in {u} : FpLogsIn(w)}' = {w \in {u} : FpLogsIn(w)}
  BY DEF FpUntouched, FpLogsIn
<1> QED
  BY <1>1 DEF FpAsListed, FpUntouched

\* While a job works on a user, the others are as they were.
LEMMA FpWorking ==
    ASSUME FpInv, fpJob # FpIdle, fpJob' # FpIdle, fpJob'.user = fpJob.user,
           UNCHANGED <<fpRows, fpCut>>, \A u \in FpAll \ {fpJob.user} : FpUntouched(u)
    PROVE  LoginsAreRows' /\ FoldersApart'
<1>1. ASSUME NEW u \in FpAll, ~FpBusy(u)' PROVE FpAsListed(u)'
  <2>1. u # fpJob.user /\ ~FpBusy(u)
    BY <1>1 DEF FpBusy
  <2> QED
    BY <2>1, FpStaysListed, FpEachListed DEF FpInv
<1>2. FoldersApart'
  BY DEF FpInv, FoldersApart
<1> QED
  BY <1>1, <1>2 DEF LoginsAreRows, FpAsListed

LEMMA FpInitial == FpInit => FpInv
<1> SUFFICES ASSUME FpInit PROVE FpInv
  OBVIOUS
<1>1. FpTypes
  BY FpAssumption DEF FpInit, FpTypes, FtpTypeOK, FpAll, FpIdle
<1>2. SiteUserStays /\ FpMade /\ FpTaken /\ FoldersApart
  BY DEF FpInit, SiteUserStays, FpMade, FpTaken, FoldersApart, FpAt
<1>3. \A u \in FpAll : FpAsListed(u)
  BY DEF FpInit, FpAsListed, FpLogsIn
<1> QED
  BY <1>1, <1>2, <1>3, FpEachListed DEF FpInv

LEMMA FpAsksKeep ==
    ASSUME FpInv, AskFtpAccount \/ AskFtpDelete
    PROVE  FpInv'
<1>1. /\ UNCHANGED <<fpSystem, fpRows, fpSite, fpJob, fpCut>>
      /\ \E ask \in FpAsks : fpQueue' = Append(fpQueue, ask)
  BY DEF AskFtpAccount, AskFtpDelete, FpAsk, FpAsks, FpInv, FpTypes, FtpTypeOK
<1>2. fpQueue' \in Seq(FpAsks)
  BY <1>1 DEF FpInv, FpTypes
<1> QED
  BY <1>1, <1>2 DEF FpInv, FpTypes, FtpTypeOK, fpSystem, SiteUserStays, FpMade, FpTaken, LoginsAreRows,
                    FoldersApart, FpAt, FpStep, FpBusy, FpLogsIn, Conflicting

LEMMA FpBeginsKeeps ==
    ASSUME FpInv, FtpJobBegins
    PROVE  FpInv'
<1> DEFINE ask == Head(fpQueue)
           u == IF ask.op = "create" THEN FpUserOf(ask.dir, ask.user) ELSE ask.user
           known == \E r \in fpRows : r.user = u
           goes == IF ask.op = "create" THEN ~Conflicting(ask.dir) /\ (u = FpSiteUser \/ ~known) ELSE known
<1>1. fpQueue \in Seq(FpAsks) /\ fpQueue # <<>>
  BY DEF FpInv, FpTypes, FtpJobBegins
<1>2. /\ fpJob = FpIdle /\ UNCHANGED <<fpSystem, fpRows, fpSite, fpAsked, fpCut>>
      /\ fpQueue' \in Seq(FpAsks) /\ ask \in FpAsks
  BY <1>1 DEF FtpJobBegins
<1>3. /\ u \in FpAll /\ ask.dir \in FpDirs
      /\ ask.op = "create" => (u = FpSiteUser <=> ask.dir = FpSiteDir /\ fpSite)
  BY <1>2, FpAssumption DEF FpAsks, FpAll, FpUserOf, FpAssumption
<1>4. fpJob' = IF ~goes THEN FpIdle
               ELSE [steps |-> IF ask.op = "create" THEN FpCreateSteps(u) ELSE FpDeleteSteps(u),
                     user |-> u, dir |-> ask.dir]
  BY DEF FtpJobBegins
<1>5. CASE ~goes
  <2> HIDE DEF u, goes, ask, known
  <2>1. fpJob' = fpJob
    BY <1>2, <1>4, <1>5
  <2> QED
    BY <1>2, <2>1 DEF FpInv, FpTypes, FtpTypeOK, fpSystem, SiteUserStays, FpMade, FpTaken, LoginsAreRows,
                      FoldersApart, FpAt, FpStep, FpBusy, FpLogsIn, Conflicting
<1>6. CASE goes
  <2>1. /\ ask.op \in {"create", "delete"}
        /\ ask.op = "create" => ~Conflicting(ask.dir) /\ \A r \in fpRows : r.user # u
    <3>1. ASSUME ask.op = "create", NEW r \in fpRows, r.user = u PROVE FALSE
      <4>1. u = FpSiteUser /\ ~Conflicting(ask.dir)
        BY <1>6, <3>1
      <4>2. r.dir = FpSiteDir /\ ask.dir = FpSiteDir
        BY <1>3, <3>1, <4>1 DEF FpInv, SiteUserStays
      <4> QED
        BY <4>1, <4>2 DEF Conflicting
    <3>2. ask.op \in {"create", "delete"}
      BY <1>2 DEF FpAsks
    <3> QED
      BY <1>6, <3>1, <3>2
  <2> HIDE DEF u, goes, ask, known
  <2>2. /\ fpJob'.user = u /\ fpJob'.dir = ask.dir
        /\ fpJob'.steps = IF ask.op = "create" THEN FpCreateSteps(u) ELSE FpDeleteSteps(u)
        /\ fpJob' = [steps |-> fpJob'.steps, user |-> u, dir |-> ask.dir]
    BY <1>4, <1>6
  <2>3. fpJob'.steps \in FpLeft(u) /\ fpJob'.steps # <<>>
        /\ FpStep' = IF ask.op # "create" THEN "unconfig" ELSE IF u = FpSiteUser THEN "password" ELSE "user"
    BY <2>2 DEF FpLeft, FpCreateSteps, FpDeleteSteps, FpStep
  <2>4. fpJob' # FpIdle /\ FpTypes'
    BY <1>2, <1>3, <2>2, <2>3 DEF FpInv, FpTypes, FtpTypeOK, fpSystem, FpIdle
  <2>5. FpMade'
    <3>1. FpAt(FpCreating)' => ask.op = "create"
      BY <2>3 DEF FpAt, FpCreating
    <3>2. ask.op = "create" => ~Conflicting(fpJob.dir)'
      BY <1>2, <2>1, <2>2 DEF Conflicting
    <3> QED
      BY <1>2, <1>3, <2>1, <2>2, <2>3, <2>4, <3>1, <3>2
         DEF FpMade, FpAt, FpInv, SiteUserStays, fpSystem
  <2>6. FpTaken'
    BY <2>3 DEF FpTaken, FpAt
  <2>7. LoginsAreRows'
    BY <1>2, <2>4 DEF FpInv, LoginsAreRows, FpBusy, FpLogsIn, fpSystem
  <2> QED
    BY <1>2, <2>4, <2>5, <2>6, <2>7 DEF FpInv, SiteUserStays, FoldersApart, fpSystem
<1> QED
  BY <1>5, <1>6

LEMMA FpStepsKeep ==
    ASSUME FpInv, MakeFtpUser \/ FpRuns \/ SetFtpPassword \/ WriteFtpConfig \/ WriteUserlist \/ RemoveFtpUser
    PROVE  FpInv'
<1> DEFINE u == fpJob.user
<1>1. /\ fpJob # FpIdle /\ FpThen /\ FpRest /\ fpRows' = fpRows
      /\ FpStep \notin {"row", "unrow"}
  BY DEF MakeFtpUser, FpRuns, SetFtpPassword, WriteFtpConfig, WriteUserlist, RemoveFtpUser, FpStepIs, FpStep
<1>2. /\ FpStep \in FpCreating \cup FpDeleting /\ u \in FpAll /\ fpJob.dir \in FpDirs
      /\ fpJob' # FpIdle /\ fpJob'.user = u /\ fpJob'.dir = fpJob.dir
      /\ fpJob' \in [steps : FpLeft(u), user : FpAll, dir : FpDirs]
      /\ FpStep' = FpFollowing(u, FpStep)
      /\ FpStep = "userdel" => u # FpSiteUser
  BY <1>1, FpGoesOn DEF FpInv
<1> HIDE DEF u
<1>3. /\ fpUsers' = IF FpStep = "user" THEN fpUsers \cup {u}
                    ELSE IF FpStep = "userdel" THEN fpUsers' ELSE fpUsers
      /\ FpStep = "userdel" => fpUsers' = fpUsers \/ fpUsers' = fpUsers \ {u}
      /\ FpStep = "password" => fpPass' = fpPass \cup {u}
      /\ FpStep \in {"lock", "userdel"} => fpPass' = fpPass \/ fpPass' = fpPass \ {u}
      /\ FpStep \notin {"password", "lock", "userdel"} => fpPass' = fpPass
      /\ fpConf' = IF FpStep = "config" THEN [fpConf EXCEPT ![u] = fpJob.dir]
                   ELSE IF FpStep = "unconfig" THEN [fpConf EXCEPT ![u] = FpNoDir] ELSE fpConf
      /\ fpList' = IF FpStep = "list" THEN fpList \cup {u}
                   ELSE IF FpStep = "unlist" THEN fpList \ {u} ELSE fpList
  <2>1. CASE MakeFtpUser
    BY <2>1 DEF MakeFtpUser, FpStepIs, FpStep, u
  <2>2. CASE FpRuns
    BY <2>2 DEF FpRuns, FpStepIs, FpStep, fpSystem
  <2>3. CASE SetFtpPassword
    BY <2>3 DEF SetFtpPassword, FpStepIs, FpStep, u
  <2>4. CASE WriteFtpConfig
    BY <2>4 DEF WriteFtpConfig, FpStepIs, FpStep, u
  <2>5. CASE WriteUserlist
    BY <2>5 DEF WriteUserlist, FpStepIs, FpStep, u
  <2>6. CASE RemoveFtpUser
    BY <2>6 DEF RemoveFtpUser, FpStepIs, FpStep, u
  <2> QED
    BY <2>1, <2>2, <2>3, <2>4, <2>5, <2>6
<1>4. FpTypes'
  <2>1. fpConf' \in [FpAll -> FpDirs \cup {FpNoDir}]
    BY <1>2, <1>3 DEF FpInv, FpTypes, FtpTypeOK
  <2>2. fpUsers' \cup fpPass' \cup fpList' \subseteq FpAll
    BY <1>2, <1>3 DEF FpInv, FpTypes, FtpTypeOK
  <2> QED
    BY <1>1, <1>2, <2>1, <2>2 DEF FpInv, FpTypes, FtpTypeOK, FpRest
<1>5. \A v \in FpAll \ {u} : FpUntouched(v)
  BY <1>1, <1>2, <1>3 DEF FpUntouched, FpInv, FpTypes, FtpTypeOK
<1>6. LoginsAreRows' /\ FoldersApart'
  BY <1>1, <1>2, <1>5, FpWorking DEF FpRest, u
<1>7. SiteUserStays'
  BY <1>1, <1>2, <1>3 DEF FpInv, SiteUserStays, FpRest
<1>8. FpMade'
  <2> SUFFICES ASSUME FpAt(FpCreating)' PROVE FpMade'
    BY DEF FpMade
  <2>1. FpStep \in FpCreating
    BY <1>1, <1>2 DEF FpAt, FpFollowing, FpCreating, FpDeleting
  <2>2. /\ ~Conflicting(fpJob.dir) /\ \A r \in fpRows : r.user # u
        /\ u = FpSiteUser => fpSite /\ fpJob.dir = FpSiteDir
        /\ FpStep # "user" => u \in fpUsers
        /\ FpStep \in {"config", "list", "restart", "row"} => u \in fpPass
        /\ FpStep \in {"list", "restart", "row"} => fpConf[u] = fpJob.dir
        /\ FpStep \in {"restart", "row"} => u \in fpList
    BY <1>1, <2>1 DEF FpInv, FpMade, FpAt, u
  <2>3. ~Conflicting(fpJob.dir)'
    BY <1>1, <1>2, <2>2 DEF Conflicting
  <2>4. /\ u \in fpUsers'
        /\ FpStep' \in {"config", "list", "restart", "row"} => u \in fpPass'
        /\ FpStep' \in {"list", "restart", "row"} => fpConf'[u] = fpJob.dir
        /\ FpStep' \in {"restart", "row"} => u \in fpList'
    <3>1. fpConf \in [FpAll -> FpDirs \cup {FpNoDir}]
      BY DEF FpInv, FpTypes, FtpTypeOK
    <3> QED
      BY <1>2, <1>3, <2>1, <2>2, <3>1 DEF FpFollowing, FpCreating
  <2> QED
    BY <1>1, <1>2, <2>2, <2>3, <2>4 DEF FpMade, FpAt, FpRest
<1>9. FpTaken'
  <2>1. FpStep' \in {"lock", "userdel", "unrow"} => FpStep \in {"unlist", "lock", "userdel"}
    BY <1>1, <1>2 DEF FpFollowing, FpCreating, FpDeleting
  <2>2. FpStep \in {"lock", "userdel"} => u \notin fpList
    BY <1>1 DEF FpInv, FpTaken, FpAt, u
  <2>3. FpStep' \in {"lock", "userdel", "unrow"} => u \notin fpList'
    BY <1>3, <2>1, <2>2
  <2>4. FpStep' = "userdel" => u # FpSiteUser
    BY <1>1, <1>2 DEF FpFollowing, FpCreating, FpDeleting
  <2> QED
    BY <1>2, <2>3, <2>4 DEF FpTaken, FpAt
<1> QED
  BY <1>4, <1>6, <1>7, <1>8, <1>9 DEF FpInv

\* The row is written when the account is whole, and goes when it is closed.
LEMMA FpCommitKeeps ==
    ASSUME FpInv, CommitFtpRow
    PROVE  FpInv'
<1>0. PICK u : u = fpJob.user
  OBVIOUS
<1>1. /\ fpJob # FpIdle /\ FpThen /\ FpStep \in {"row", "unrow"}
      /\ UNCHANGED <<fpSystem, fpSite, fpQueue, fpAsked>> /\ fpCut' = fpCut \ {u}
      /\ fpRows' = IF FpStep = "row" THEN fpRows \cup {[user |-> u, dir |-> fpJob.dir]}
                   ELSE {r \in fpRows : r.user # u}
  BY <1>0 DEF CommitFtpRow, FpStepIs, FpStep
<1>2. fpJob' = FpIdle /\ u \in FpAll /\ fpJob.dir \in FpDirs
  BY <1>0, <1>1, FpGoesOn DEF FpInv
<1>3. FpTypes'
  BY <1>1, <1>2, FpAssumption DEF FpInv, FpTypes, FtpTypeOK, fpSystem, FpIdle, FpAll
<1>4. FpMade' /\ FpTaken'
  BY <1>2 DEF FpMade, FpTaken, FpAt
<1>5. /\ FpStep = "row" =>
           /\ ~Conflicting(fpJob.dir) /\ \A r \in fpRows : r.user # u
           /\ u = FpSiteUser => fpSite /\ fpJob.dir = FpSiteDir
           /\ FpLogsIn(u) /\ fpConf[u] = fpJob.dir
      /\ FpStep = "unrow" => ~FpLogsIn(u)
  BY <1>0, <1>1 DEF FpInv, FpMade, FpTaken, FpAt, FpCreating, FpLogsIn
<1>6. SiteUserStays'
  BY <1>1, <1>5 DEF FpInv, SiteUserStays, fpSystem
<1>7. FoldersApart'
  <2>1. CASE FpStep = "row"
    <3>1. \A r \in fpRows' : r \notin fpRows => r.dir = fpJob.dir /\ r = [user |-> u, dir |-> fpJob.dir]
      <4>1. fpRows' = fpRows \cup {[user |-> u, dir |-> fpJob.dir]}
        BY <1>1, <2>1
      <4>2. [user |-> u, dir |-> fpJob.dir].dir = fpJob.dir
        OBVIOUS
      <4> QED
        BY <4>1, <4>2
    <3>2. \A r \in fpRows : r.dir # fpJob.dir /\ <<r.dir, fpJob.dir>> \notin FpInside
                            /\ <<fpJob.dir, r.dir>> \notin FpInside
      BY <1>5, <2>1 DEF Conflicting
    <3> QED
      BY <3>1, <3>2 DEF FpInv, FoldersApart
  <2>2. CASE FpStep = "unrow"
    BY <1>1, <2>2 DEF FpInv, FoldersApart
  <2> QED
    BY <1>1, <2>1, <2>2
<1>8. LoginsAreRows'
  <2>1. FpAsListed(u)'
    <3>1. CASE FpStep = "row"
      <4>1. {q \in fpRows' : q.user = u} = {[user |-> u, dir |-> fpJob.dir]}
        BY <1>1, <1>5, <3>1
      <4>2. {w \in {u} : FpLogsIn(w)}' = {u} /\ fpConf'[u] = fpJob.dir
        BY <1>1, <1>5, <3>1 DEF FpLogsIn, fpSystem
      <4>3. {fpConf'[u] : v \in {w \in {u} : FpLogsIn(w)}'} = {fpJob.dir}
        BY <4>2
      <4>4. {r.dir : r \in {q \in fpRows' : q.user = u}} = {fpJob.dir}
        <5>1. [user |-> u, dir |-> fpJob.dir].dir = fpJob.dir
          OBVIOUS
        <5> QED
          BY <4>1, <5>1
      <4> QED
        BY <4>3, <4>4 DEF FpAsListed
    <3>2. CASE FpStep = "unrow"
      <4>1. {q \in fpRows' : q.user = u} = {}
        BY <1>1, <3>2
      <4>2. {w \in {u} : FpLogsIn(w)}' = {}
        BY <1>1, <1>5, <3>2 DEF FpLogsIn, fpSystem
      <4>3. {fpConf'[u] : v \in {w \in {u} : FpLogsIn(w)}'} = {}
        BY <4>2
      <4>4. {r.dir : r \in {q \in fpRows' : q.user = u}} = {}
        BY <4>1
      <4> QED
        BY <4>3, <4>4 DEF FpAsListed
    <3> QED
      BY <1>1, <3>1, <3>2
  <2>2. ASSUME NEW v \in FpAll, v # u, ~FpBusy(v)' PROVE FpAsListed(v)'
    <3>1. ~FpBusy(v) /\ FpUntouched(v)
      BY <1>0, <1>1, <2>2 DEF FpBusy, FpUntouched, fpSystem
    <3> QED
      BY <3>1, FpStaysListed, FpEachListed DEF FpInv
  <2> QED
    BY <2>1, <2>2 DEF LoginsAreRows, FpAsListed
<1> QED
  BY <1>3, <1>4, <1>6, <1>7, <1>8 DEF FpInv

\* A job that ends half way, or with the panel, marks its user.
LEMMA FpEndsKeep ==
    ASSUME FpInv, FtpJobFails \/ FpPanelDies
    PROVE  FpInv'
<1>1. /\ fpJob' = FpIdle /\ UNCHANGED <<fpSystem, fpRows, fpSite, fpAsked>>
      /\ fpQueue' \in Seq(FpAsks)
      /\ fpCut' = IF fpJob = FpIdle THEN fpCut ELSE fpCut \cup {fpJob.user}
  <2>1. fpQueue \in Seq(FpAsks) /\ <<>> \in Seq(FpAsks)
    BY DEF FpInv, FpTypes
  <2> QED
    BY <2>1 DEF FtpJobFails, FpPanelDies
<1>2. FpTypes'
  BY <1>1, FpAssumption DEF FpInv, FpTypes, FtpTypeOK, fpSystem, FpIdle, FpAll
<1>3. \A u \in FpAll : ~FpBusy(u)' => ~FpBusy(u)
  BY <1>1 DEF FpBusy
<1>4. LoginsAreRows'
  BY <1>1, <1>3 DEF FpInv, LoginsAreRows, FpLogsIn, fpSystem
<1> QED
  BY <1>1, <1>2, <1>4 DEF FpInv, SiteUserStays, FpMade, FpTaken, FpAt, FoldersApart, fpSystem

LEMMA FpSiteKeeps ==
    ASSUME FpInv, FtpSiteDeleted
    PROVE  FpInv'
<1>1. /\ fpJob = FpIdle /\ fpJob' = FpIdle /\ UNCHANGED <<fpQueue, fpAsked, fpCut>>
      /\ fpSite' = FALSE /\ fpConf' = [fpConf EXCEPT ![FpSiteUser] = FpNoDir]
      /\ fpList' = fpList \ {FpSiteUser}
      /\ fpRows' = {r \in fpRows : r.user # FpSiteUser}
      /\ fpUsers' = fpUsers \/ fpUsers' = fpUsers \ {FpSiteUser}
      /\ fpPass' = fpPass \/ fpPass' = fpPass \ {FpSiteUser}
  BY DEF FtpSiteDeleted
<1>2. FpTypes'
  BY <1>1, FpAssumption DEF FpInv, FpTypes, FtpTypeOK, FpIdle, FpAll
<1>3. FpAsListed(FpSiteUser)'
  <2>1. {q \in fpRows' : q.user = FpSiteUser} = {}
    BY <1>1
  <2>2. {w \in {FpSiteUser} : FpLogsIn(w)}' = {}
    BY <1>1 DEF FpLogsIn
  <2> QED
    BY <2>1, <2>2 DEF FpAsListed
<1>4. ASSUME NEW u \in FpAll, u # FpSiteUser, ~FpBusy(u)' PROVE FpAsListed(u)'
  <2>1. ~FpBusy(u) /\ FpUntouched(u)
    BY <1>1, <1>4 DEF FpBusy, FpUntouched, FpInv, FpTypes, FtpTypeOK
  <2> QED
    BY <2>1, FpStaysListed, FpEachListed DEF FpInv
<1>5. LoginsAreRows'
  BY <1>3, <1>4 DEF LoginsAreRows, FpAsListed
<1> QED
  BY <1>1, <1>2, <1>5 DEF FpInv, SiteUserStays, FpMade, FpTaken, FpAt, FoldersApart

LEMMA FpNextKeeps == FpInv /\ [FtpNext]_fpVars => FpInv'
<1> SUFFICES ASSUME FpInv, [FtpNext]_fpVars PROVE FpInv'
  OBVIOUS
<1>1. CASE UNCHANGED fpVars
  BY <1>1 DEF fpVars, FpInv, FpTypes, FtpTypeOK, fpSystem, SiteUserStays, FpMade, FpTaken, LoginsAreRows,
              FoldersApart, FpAt, FpStep, FpBusy, FpLogsIn, Conflicting
<1> QED
  BY <1>1, FpAsksKeep, FpBeginsKeeps, FpStepsKeep, FpCommitKeeps, FpEndsKeep, FpSiteKeeps DEF FtpNext

\* FpInv holds in every reachable state.
THEOREM FpInvariance == FtpSpec => []FpInv
  BY FpInitial, FpNextKeeps, PTL DEF FtpSpec

\* Every variable of FtpAccounts keeps its type.
THEOREM FpTypeCorrect == FtpSpec => []FtpTypeOK
<1>1. FpInv => FtpTypeOK
  BY DEF FpInv, FpTypes
<1> QED
  BY FpInvariance, <1>1, PTL

\* Unless a job stopped half way on a user, vsftpd lets the user in exactly
\* where the page says; and no account's folder is inside another's: whatever
\* jobs waited when the page was read, and whatever became of the site.
THEOREM AccountsRight == FtpSpec => []AccountsAreRows
<1>1. FpInv => AccountsAreRows
  BY DEF FpInv, AccountsAreRows
<1> QED
  BY FpInvariance, <1>1, PTL

(*************************************************************************)
(* The greatest of some numbers                                          *)
(*************************************************************************)

Less == {p \in Nat \X Nat : p[1] < p[2]}

\* Every set of numbers that has one has a least.
LEMMA Least ==
    ASSUME NEW T, T \subseteq Nat, T # {}
    PROVE  \E x \in T : \A y \in T : x <= y
<1>1. IsWellFoundedOn(OpToRel(<, Nat), Nat)
  BY NatLessThanWellFounded
<1>2. IsWellFoundedOn(Less, Nat)
  BY <1>1 DEF OpToRel, Less
<1>3. PICK x \in T : \A y \in T : <<y, x>> \notin Less
  BY <1>2, WFMin
<1>4. ASSUME NEW y \in T PROVE x <= y
  <2>1. <<y, x>> \in Nat \X Nat /\ <<y, x>>[1] = y /\ <<y, x>>[2] = x
    OBVIOUS
  <2>2. y < x => <<y, x>> \in Less
    BY <2>1 DEF Less
  <2> QED
    BY <1>3, <2>2
<1> QED
  BY <1>4

\* The greatest number of a bounded set is one of the set, and no number of it is greater.
LEMMA MaxIsGreatest ==
    ASSUME NEW n \in Nat, NEW T, T \subseteq 0..n, T # {}
    PROVE  Max(T) \in T /\ \A y \in T : y <= Max(T)
<1> DEFINE Bounds == {b \in Nat : \A y \in T : y <= b}
<1>1. n \in Bounds
  OBVIOUS
<1>2. PICK b \in Bounds : \A c \in Bounds : b <= c
  BY <1>1, Least
<1>3. b \in T
  <2> SUFFICES ASSUME b \notin T PROVE FALSE
    OBVIOUS
  <2>1. \A y \in T : y < b
    BY <1>2
  <2>2. b # 0 /\ b - 1 \in Nat
    <3>1. PICK y \in T : TRUE
      OBVIOUS
    <3>2. y \in Nat /\ b \in Nat /\ y < b
      BY <2>1, <3>1
    <3> QED
      BY <3>2
  <2>3. b - 1 \in Bounds
    BY <1>2, <2>1, <2>2
  <2> QED
    BY <1>2, <2>2, <2>3
<1>4. \E x \in T : \A y \in T : x >= y
  BY <1>2, <1>3
<1> QED
  BY <1>4 DEF Max

(*************************************************************************)
(* SiteWorkers, for any names, commands and limits: what runs between    *)
(* jobs is what the rows count, with the command they name, unless a job *)
(* on that worker ended before it had seen to it.                        *)
(*************************************************************************)

WkOps == {"add", "update", "start", "restart", "stop", "delete", "site"}
WkSteps == {"render", "reload", "commit", "drop", "enable", "disable", "stop all", "unlink", "forget"}
WkJobs == [step : WkSteps, op : WkOps, name : WkNames, row : WkRows \cup {WkNone},
           rest : SUBSET WkNames, previous : 0..WkMaxProcs, was : BOOLEAN]
WkRequests ==
    [op : {"add"}, name : WkNames, procs : 1..WkMaxProcs, cmd : WkCommands]
    \cup [op : {"update"}, id : Nat \ {0}, procs : 1..WkMaxProcs, cmd : WkCommands]
    \cup [op : {"start", "stop", "restart", "delete"}, id : Nat \ {0}]
    \cup [op : {"site"}]

WkTypes ==
    /\ WkTypeOK
    /\ wkRow \in [WkNames -> WkRows \cup {WkNone}]
    /\ wkQueue \in Seq(WkRequests)
    /\ wkJob \in WkJobs \cup {WkIdle}
    /\ wkAsked \in Nat
    /\ wkMissed \in [WkNames -> SUBSET {"commit", "drop", "restart"}]

\* No id has been given that a request did not ask for.
WkIds ==
    /\ Len(wkQueue) <= wkAsked
    /\ \A n \in WkNames : wkRow[n].id <= wkAsked - Len(wkQueue)

\* What systemd knows of, apart from the unit's file.
WkUsed(n) == wkEnabled[n] \cup WkActive(n)

\* No instance is beyond the number of the row, or a job has missed to drop it.
WkCounted(n) == "drop" \in wkMissed[n] \/ WkUsed(n) \subseteq 1..wkRow[n].procs

\* Nothing runs without a unit but what could not be stopped.
WkUnitless(n) == wkFile[n] = WkNoUnit => "drop" \in wkMissed[n] \/ WkUsed(n) = {}

\* The file says what the row says, and so does what runs, when systemd has read it.
WkRendered(n) == "commit" \in wkMissed[n] \/ wkFile[n] \in {wkRow[n].cmd, WkNoUnit}
WkCurrent(n) ==
    wkMissed[n] = {} /\ wkUnit[n] = wkFile[n] => \A i \in WkActive(n) : wkRuns[n][i] = wkRow[n].cmd

WkSaves == wkJob.step \in {"render", "commit"} \/ (wkJob.step = "reload" /\ wkJob.op \in {"add", "update"})

\* A job that changes a row has looked at it: until its commit ...
WkChanging ==
    WkSaves =>
        LET n == wkJob.name IN
        /\ wkJob.row \in WkRows
        /\ wkJob.row.id <= wkAsked - Len(wkQueue)
        /\ \A m \in WkNames \ {n} : wkRow[m].id # wkJob.row.id
        /\ wkJob.previous = wkRow[n].procs
        /\ ~wkJob.was => WkActive(n) \cap (1..wkJob.previous) = {}
        /\ wkJob.op \in {"add", "update"}
        /\ wkJob.step # "render" => wkFile[n] = wkJob.row.cmd
\* ... and after it.
WkChanged ==
    wkJob.step = "drop" =>
        LET n == wkJob.name IN
        /\ wkRow[n] = wkJob.row /\ wkFile[n] # WkNoUnit /\ wkJob.op \in {"add", "update"}
        /\ IF wkJob.was THEN "restart" \in wkMissed[n]
           ELSE WkActive(n) \cap (1..wkJob.previous) = {}

\* The other steps are of a worker that is there; it is forgotten without its
\* file, and a site's workers without any of theirs.
WkPlaced ==
    /\ \/ wkJob.step \in {"drop", "enable", "disable"}
       \/ wkJob.step = "reload" /\ wkJob.op \in {"start", "stop", "restart"}
       => WkExists(wkJob.name)
    /\ wkJob.step \in {"enable", "disable"} =>
          \/ wkJob.op \in {"start", "stop", "restart"}
          \/ wkJob.op \in {"add", "update"} /\ wkFile[wkJob.name] # WkNoUnit
    /\ wkJob.step \in {"stop all", "unlink", "forget"} => wkJob.op \in {"delete", "site"}
    /\ wkJob.step = "unlink" => "drop" \in wkMissed[wkJob.name] \/ WkUsed(wkJob.name) = {}
    /\ wkJob.step = "forget" /\ wkJob.op = "delete" => wkFile[wkJob.name] = WkNoUnit
    /\ wkJob.step \in {"stop all", "unlink", "reload", "forget"} /\ wkJob.op = "site" =>
          \A m \in WkNames :
             \/ wkRow[m] = WkNone \/ wkFile[m] = WkNoUnit
             \/ wkJob.step \in {"stop all", "unlink"} /\ m \in wkJob.rest \cup {wkJob.name}

WkInv ==
    /\ WkTypes /\ WkIds
    /\ \A n \in WkNames : WkCounted(n) /\ WkUnitless(n) /\ WkRendered(n) /\ WkCurrent(n)
    /\ WkChanging /\ WkChanged /\ WkPlaced

WkSound(n) == WkCounted(n) /\ WkUnitless(n) /\ WkRendered(n) /\ WkCurrent(n)

\* A step that is not about a worker leaves it as it was.
LEMMA WkSame ==
    ASSUME NEW n, WkSound(n), wkRow'[n] = wkRow[n], wkFile'[n] = wkFile[n], wkUnit'[n] = wkUnit[n], wkRuns'[n] = wkRuns[n],
           wkEnabled'[n] = wkEnabled[n], wkMissed'[n] = wkMissed[n]
    PROVE  WkSound(n)' /\ WkActive(n)' = WkActive(n)
  BY DEF WkSound, WkCounted, WkUnitless, WkRendered, WkCurrent, WkActive, WkUsed

\* Without a job nothing is said of one.
LEMMA WkNoJob ==
    ASSUME wkJob' = WkIdle
    PROVE  WkChanging' /\ WkChanged' /\ WkPlaced'
  BY DEF WkIdle, WkSaves, WkChanging, WkChanged, WkPlaced

\* The step of a job that runs.
LEMMA WkStepIs ==
    ASSUME WkTypes, NEW step \in WkSteps, WkAt(step)
    PROVE  /\ wkJob \in WkJobs /\ wkJob.step = step
           /\ \A next \in WkSteps : /\ WkStep(next) \in WkJobs /\ WkStep(next).step = next
                                    /\ WkStep(next).op = wkJob.op /\ WkStep(next).name = wkJob.name
                                    /\ WkStep(next).row = wkJob.row /\ WkStep(next).was = wkJob.was
                                    /\ WkStep(next).previous = wkJob.previous
                                    /\ WkStep(next).rest = wkJob.rest
<1>1. wkJob \in WkJobs /\ wkJob.step = step
  <2>1. "idle" \notin WkSteps /\ WkIdle.step = "idle"
    BY DEF WkSteps, WkIdle
  <2> QED
    BY <2>1 DEF WkTypes, WkAt
<1> QED
  BY <1>1 DEF WkStep, WkJobs

LEMMA WkNamed ==
    ASSUME WkTypes, wkJob.step \in WkSteps
    PROVE  wkJob \in WkJobs /\ wkJob.name \in WkNames
<1>1. "idle" \notin WkSteps /\ WkIdle.step = "idle"
  BY DEF WkSteps, WkIdle
<1>2. wkJob \in WkJobs
  BY <1>1 DEF WkTypes
<1> QED
  BY <1>2 DEF WkJobs

LEMMA WkRowTypes ==
    ASSUME WkTypes, NEW n \in WkNames
    PROVE  /\ wkRow[n].id \in Nat /\ wkRow[n].procs \in 0..WkMaxProcs
           /\ WkExists(n) <=> wkRow[n].id # 0
           /\ WkExists(n) <=> wkRow[n] \in WkRows
           /\ WkActive(n) \subseteq 1..WkMaxProcs /\ WkUsed(n) \subseteq 1..WkMaxProcs
           /\ wkMissed[n] \subseteq {"commit", "drop", "restart"}
  BY SiteWorkersAssumption
     DEF SiteWorkersAssumption, WkTypes, WkTypeOK, WkRows, WkNone, WkExists, WkActive, WkUsed

LEMMA WkInitial == WkInit => WkInv
<1> SUFFICES ASSUME WkInit PROVE WkInv
  OBVIOUS
<1>1. WkTypes /\ WkIds
  BY SiteWorkersAssumption
     DEF WkInit, WkTypes, WkTypeOK, WkIds, WkExists, WkNone, SiteWorkersAssumption
<1>2. \A n \in WkNames : WkActive(n) = {} /\ WkUsed(n) = {}
  BY DEF WkInit, WkActive, WkUsed
<1>3. \A n \in WkNames : WkCounted(n) /\ WkUnitless(n) /\ WkRendered(n) /\ WkCurrent(n)
  BY <1>2 DEF WkInit, WkCounted, WkUnitless, WkRendered, WkCurrent
<1> QED
  BY <1>1, <1>3 DEF WkInit, WkInv, WkIdle, WkSaves, WkChanging, WkChanged, WkPlaced

LEMMA WkAsksKeep ==
    ASSUME WkInv, AskWorker \/ AskChange \/ AskControl \/ AskSiteDeleted
    PROVE  WkInv'
<1>1. \E r \in WkRequests : WkAsk(r)
  <2>1. \A n \in WkNames : WkExists(n) => wkRow[n].id \in Nat \ {0}
    BY WkRowTypes DEF WkInv
  <2> QED
    BY <2>1 DEF AskWorker, AskChange, AskControl, AskSiteDeleted, WkRequests
<1>2. /\ UNCHANGED <<wkRow, wkSystem, wkJob, wkMissed>> /\ wkAsked' = wkAsked + 1
      /\ wkQueue' \in Seq(WkRequests) /\ Len(wkQueue') = Len(wkQueue) + 1
      /\ wkAsked \in Nat /\ Len(wkQueue) \in Nat
  BY <1>1 DEF WkAsk, WkInv, WkTypes
<1>3. wkAsked' - Len(wkQueue') = wkAsked - Len(wkQueue) /\ wkAsked' \in Nat /\ Len(wkQueue') <= wkAsked'
  BY <1>2 DEF WkInv, WkIds
<1>4. WkTypes' /\ WkIds'
  BY <1>2, <1>3 DEF WkInv, WkTypes, WkTypeOK, WkIds, WkExists, wkSystem
<1>5. \A n \in WkNames : WkSound(n)' /\ WkActive(n)' = WkActive(n)
  BY <1>2, WkSame DEF WkInv, WkSound, wkSystem
<1>6. WkChanging' /\ WkChanged' /\ WkPlaced'
  <2>1. wkJob.step \in WkSteps => wkJob.name \in WkNames
    BY WkNamed DEF WkInv
  <2> QED
    BY <1>2, <1>3, <1>5, <2>1 DEF WkInv, WkSaves, WkChanging, WkChanged, WkPlaced, WkExists, WkSteps, WkUsed, wkSystem
<1> QED
  BY <1>4, <1>5, <1>6 DEF WkInv, WkSound

\* A worker that is added gets an id no row has.
LEMMA WkNewId ==
    ASSUME WkTypes, WkIds
    PROVE  /\ 1 + Max({0} \cup {wkRow[m].id : m \in WkNames}) \in Nat \ {0}
           /\ 1 + Max({0} \cup {wkRow[m].id : m \in WkNames}) <= wkAsked - Len(wkQueue) + 1
           /\ \A m \in WkNames : wkRow[m].id # 1 + Max({0} \cup {wkRow[m2].id : m2 \in WkNames})
<1> DEFINE T == {0} \cup {wkRow[m].id : m \in WkNames}
           given == wkAsked - Len(wkQueue)
<1>1. given \in Nat
  BY DEF WkTypes, WkIds
<1>2. T \subseteq 0..given /\ T # {}
  BY <1>1, WkRowTypes DEF WkIds
<1> HIDE DEF T, given
<1>3. Max(T) \in T /\ \A y \in T : y <= Max(T)
  BY <1>1, <1>2, MaxIsGreatest
<1>4. \A m \in WkNames : wkRow[m].id \in T
  BY DEF T
<1>5. Max(T) \in Nat /\ Max(T) <= given
  <2>1. Max(T) \in 0..given
    BY <1>2, <1>3
  <2> QED
    BY <1>1, <2>1
<1>6. \A m \in WkNames : wkRow[m].id \in Nat /\ wkRow[m].id <= Max(T)
  BY <1>3, <1>4, WkRowTypes
<1>7. 1 + Max(T) \in Nat \ {0} /\ 1 + Max(T) <= given + 1 /\ \A m \in WkNames : wkRow[m].id # 1 + Max(T)
  BY <1>1, <1>5, <1>6
<1> QED
  BY <1>7 DEF T, given

LEMMA WkBeginsKeeps ==
    ASSUME WkInv, WorkerJobBegins
    PROVE  WkInv'
<1>0. PICK r : r = Head(wkQueue)
  OBVIOUS
<1>1. /\ wkJob = WkIdle /\ wkQueue \in Seq(WkRequests) /\ wkQueue # <<>> /\ r \in WkRequests
      /\ UNCHANGED <<wkRow, wkSystem, wkAsked, wkMissed>>
      /\ wkQueue' \in Seq(WkRequests) /\ Len(wkQueue') = Len(wkQueue) - 1 /\ Len(wkQueue) \in Nat
      /\ wkAsked \in Nat
  BY <1>0 DEF WorkerJobBegins, WkInv, WkTypes
<1>2. /\ WkIds' /\ wkAsked' - Len(wkQueue') = wkAsked - Len(wkQueue) + 1
  <2>1. \A n \in WkNames : wkRow[n].id \in Nat
    BY WkRowTypes DEF WkInv
  <2> QED
    BY <1>1, <2>1 DEF WkInv, WkIds
<1>3. \A n \in WkNames : WkSound(n)' /\ WkActive(n)' = WkActive(n)
  BY <1>1, WkSame DEF WkInv, WkSound, wkSystem
<1>4. CASE WkFound(r) = {}
  <2>1. wkJob' = WkIdle
    BY <1>0, <1>1, <1>4 DEF WorkerJobBegins
  <2>2. WkTypes'
    BY <1>1, <2>1 DEF WkInv, WkTypes, WkTypeOK, WkExists, wkSystem
  <2> QED
    BY <1>2, <1>3, <2>1, <2>2, WkNoJob DEF WkInv, WkSound
<1>5. CASE WkFound(r) # {}
  <2>1. PICK n \in WkFound(r) :
            wkJob' = [step |-> WkFirst(r.op), op |-> r.op, name |-> n,
                      rest |-> IF r.op = "site" THEN WkFound(r) \ {n} ELSE {},
                      row |-> IF r.op \in {"add", "update"}
                              THEN [id |-> IF r.op = "update" THEN r.id
                                           ELSE 1 + Max({0} \cup {wkRow[m].id : m \in WkNames}),
                                    procs |-> r.procs, cmd |-> r.cmd]
                              ELSE wkRow[n],
                      previous |-> wkRow[n].procs,
                      was |-> WkActive(n) \cap WkInstances(n) # {}]
    BY <1>0, <1>5 DEF WorkerJobBegins
  <2>2. PICK new : new = 1 + Max({0} \cup {wkRow[m].id : m \in WkNames})
    OBVIOUS
  <2>3. /\ new \in Nat \ {0} /\ new <= wkAsked - Len(wkQueue) + 1
        /\ \A m \in WkNames : wkRow[m].id # new
    BY <2>2, WkNewId DEF WkInv
  <2>4. n \in WkNames /\ (r.op \notin {"add", "site"} => wkRow[n].id = r.id)
    <3>1. CASE r.op = "add"
      <4>1. n = r.name /\ r.name \in WkNames
        BY <1>1, <2>1, <3>1 DEF WkFound, WkRequests
      <4> QED
        BY <3>1, <4>1
    <3>2. CASE r.op = "site"
      BY <2>1, <3>2 DEF WkFound
    <3>3. CASE r.op \notin {"add", "site"}
      BY <2>1, <3>3 DEF WkFound
    <3> QED
      BY <3>1, <3>2, <3>3
  <2>5. /\ wkRow[n].id \in Nat /\ wkRow[n].procs \in 0..WkMaxProcs
        /\ wkRow[n] \in WkRows \cup {WkNone}
    BY <2>4, WkRowTypes DEF WkInv, WkTypes, WkTypeOK
  <2>6. ASSUME r.op \in {"add", "update"}
        PROVE  /\ wkJob'.row \in WkRows
               /\ wkJob'.row.id <= wkAsked' - Len(wkQueue')
               /\ \A m \in WkNames \ {n} : wkRow[m].id # wkJob'.row.id
    <3>1. r.procs \in 1..WkMaxProcs /\ r.cmd \in WkCommands /\ (r.op = "update" => r.id \in Nat \ {0})
      BY <1>1, <2>6 DEF WkRequests
    <3>2. wkJob'.row = [id |-> IF r.op = "update" THEN r.id ELSE new, procs |-> r.procs, cmd |-> r.cmd]
      BY <2>1, <2>2, <2>6
    <3>3. CASE r.op = "add"
      <4>1. wkJob'.row = [id |-> new, procs |-> r.procs, cmd |-> r.cmd]
        BY <3>2, <3>3
      <4> QED
        BY <1>2, <2>3, <3>1, <4>1 DEF WkRows
    <3>4. CASE r.op = "update"
      <4>1. wkJob'.row = [id |-> r.id, procs |-> r.procs, cmd |-> r.cmd]
        BY <3>2, <3>4
      <4>2. wkRow[n].id = r.id /\ WkExists(n)
        BY <2>4, <3>1, <3>4, WkRowTypes DEF WkInv
      <4>3. \A m \in WkNames \ {n} : wkRow[m].id # r.id
        BY <2>4, <4>2 DEF WkInv, WkTypes, WkTypeOK
      <4>4. r.id <= wkAsked - Len(wkQueue) + 1
        <5>1. wkRow[n].id <= wkAsked - Len(wkQueue)
          BY <2>4 DEF WkInv, WkIds
        <5> QED
          BY <1>1, <2>5, <4>2, <5>1
      <4> QED
        BY <1>2, <3>1, <3>4, <4>1, <4>3, <4>4 DEF WkRows
    <3> QED
      BY <2>6, <3>3, <3>4
  <2>7. /\ r.op \in WkOps /\ WkFirst(r.op) \in {"render", "enable", "disable", "stop all"}
        /\ WkFirst(r.op) = "render" <=> r.op \in {"add", "update"}
        /\ WkFirst(r.op) \in {"enable", "disable"} => r.op \in {"start", "stop", "restart"}
        /\ WkFirst(r.op) = "stop all" => r.op \in {"delete", "site"}
    BY <1>1 DEF WkRequests, WkOps, WkFirst
  <2>8. /\ wkJob'.step = WkFirst(r.op) /\ wkJob'.op = r.op /\ wkJob'.name = n
        /\ wkJob'.previous = wkRow[n].procs /\ wkJob'.was = (WkActive(n) \cap WkInstances(n) # {})
        /\ wkJob'.row \in WkRows \cup {WkNone} /\ wkJob'.rest \subseteq WkNames
        /\ r.op = "site" => wkJob'.rest = {m \in WkNames : WkExists(m)} \ {n}
    <3>1. r.op = "site" => WkFound(r) = {m \in WkNames : WkExists(m)}
      BY DEF WkFound
    <3> QED
      BY <2>1, <2>5, <2>6, <3>1
  <2>9. wkJob' \in WkJobs
    BY <2>1, <2>4, <2>5, <2>7, <2>8 DEF WkJobs, WkSteps
  <2>10. WkTypes'
    BY <1>1, <2>9 DEF WkInv, WkTypes, WkTypeOK, WkExists, wkSystem
  <2>11. WkChanging'
    <3> SUFFICES ASSUME WkSaves' PROVE WkChanging'
      BY DEF WkChanging
    <3>1. r.op \in {"add", "update"} /\ wkJob'.step = "render"
      BY <2>7, <2>8 DEF WkSaves
    <3>2. ~wkJob'.was => WkActive(n) \cap (1..wkJob'.previous) = {}
      BY <2>8 DEF WkInstances
    <3> QED
      BY <1>1, <1>3, <2>4, <2>6, <2>8, <3>1, <3>2 DEF WkChanging
  <2>12. WkChanged'
    BY <2>7, <2>8 DEF WkChanged
  <2>13. WkPlaced'
    <3>1. ASSUME r.op \in {"start", "stop", "restart"} PROVE WkExists(n)
      <4>1. r.id \in Nat \ {0}
        BY <1>1, <3>1 DEF WkRequests
      <4> QED
        BY <2>4, <3>1, <4>1, WkRowTypes DEF WkInv
    <3> QED
      BY <1>1, <2>7, <2>8, <3>1 DEF WkPlaced, WkExists, wkSystem
  <2> QED
    BY <1>2, <1>3, <2>10, <2>11, <2>12, <2>13 DEF WkInv, WkSound
<1> QED
  BY <1>4, <1>5

\* What the steps of a job do to the worker they are about, and to no other.
LEMMA WkOthersStay ==
    ASSUME WkInv, NEW n \in WkNames, WkSound(n)', WkTypes', wkAsked' = wkAsked, wkQueue' = wkQueue,
           \A m \in WkNames : wkRow'[m].id <= wkAsked - Len(wkQueue),
           \A m \in WkNames \ {n} :
              /\ wkRow'[m] = wkRow[m] /\ wkFile'[m] = wkFile[m] /\ wkUnit'[m] = wkUnit[m] /\ wkRuns'[m] = wkRuns[m]
              /\ wkEnabled'[m] = wkEnabled[m] /\ wkMissed'[m] = wkMissed[m],
           WkChanging' /\ WkChanged' /\ WkPlaced'
    PROVE  WkInv'
<1>1. WkIds'
  BY DEF WkInv, WkIds
<1>2. \A m \in WkNames : WkSound(m)'
  BY WkSame DEF WkInv, WkSound
<1> QED
  BY <1>1, <1>2 DEF WkInv, WkSound

\* How a job goes on when systemd has been told, or need not be.
LEMMA WkGoesOn ==
    ASSUME WkInv, wkJob \in WkJobs, WkTypes', wkQueue' = wkQueue, wkAsked' = wkAsked, wkRow' = wkRow,
           \A m \in WkNames : WkActive(m)' = WkActive(m),
           wkJob' = WkAfterReload,
           \/ wkJob.op \in {"add", "update"} /\ WkSaves /\ wkFile'[wkJob.name] = wkJob.row.cmd
           \/ wkJob.op \in {"start", "stop", "restart"} /\ WkExists(wkJob.name)
           \/ wkJob.op = "delete"
           \/ wkJob.op = "site" /\ wkJob.step = "reload" /\ wkFile' = wkFile
    PROVE  WkChanging' /\ WkChanged' /\ WkPlaced'
<1>1. /\ wkJob.name \in WkNames
      /\ \A next \in WkSteps :
                   /\ WkStep(next).op = wkJob.op /\ WkStep(next).name = wkJob.name
                   /\ WkStep(next).row = wkJob.row /\ WkStep(next).was = wkJob.was
                   /\ WkStep(next).previous = wkJob.previous /\ WkStep(next).rest = wkJob.rest
                   /\ WkStep(next).step = next
      /\ {"commit", "enable", "disable", "forget"} \subseteq WkSteps
  BY DEF WkStep, WkJobs, WkSteps
<1>2. CASE wkJob.op \in {"add", "update"}
  <2>1. wkJob' = WkStep("commit")
    BY <1>2 DEF WkAfterReload
  <2>2. WkChanging'
    BY <1>1, <1>2, <2>1 DEF WkInv, WkChanging, WkSaves
  <2>3. wkJob'.step = "commit"
    BY <1>1, <2>1
  <2> QED
    BY <2>2, <2>3 DEF WkChanged, WkPlaced
<1>3. CASE wkJob.op \in {"start", "stop", "restart"}
  <2>1. wkJob' = WkStep("enable") \/ wkJob' = WkStep("disable")
    BY <1>3 DEF WkAfterReload, WkFirst
  <2>2. wkJob'.step \in {"enable", "disable"} /\ wkJob'.name = wkJob.name /\ wkJob'.op = wkJob.op
    BY <1>1, <2>1
  <2>3. WkExists(wkJob.name)
    BY <1>3
  <2> QED
    BY <1>3, <2>2, <2>3 DEF WkSaves, WkChanging, WkChanged, WkPlaced, WkExists
<1>4. CASE wkJob.op = "delete"
  BY <1>4, WkNoJob DEF WkAfterReload
<1>5. CASE wkJob.op = "site"
  <2>1. wkJob' = WkStep("forget")
    BY <1>5 DEF WkAfterReload
  <2>2. /\ wkJob'.step = "forget" /\ wkJob'.op = "site" /\ wkJob'.rest = wkJob.rest
        /\ wkJob.step = "reload" /\ wkFile' = wkFile
    BY <1>1, <1>5, <2>1
  <2> QED
    BY <1>5, <2>2 DEF WkInv, WkSaves, WkChanging, WkChanged, WkPlaced
<1> QED
  BY <1>2, <1>3, <1>4, <1>5

LEMMA RenderKeeps ==
    ASSUME WkInv, RenderFiles
    PROVE  WkInv'
<1>0. PICK n, seen : n = wkJob.name /\ seen = WkRowsSeen
  OBVIOUS
<1>1. /\ wkJob \in WkJobs /\ n \in WkNames
      /\ \/ wkJob.step = "render" /\ WkAt("render")
         \/ wkJob.step \in {"enable", "disable"} /\ ~WkAt("render") /\ wkFile[n] = WkNoUnit
  <2>1. wkJob \in WkJobs
    BY WkStepIs DEF RenderFiles, WkInv, WkSteps
  <2> QED
    BY <1>0, <2>1 DEF RenderFiles, WkAt, WkJobs
<1>2. PICK written \in SUBSET WkStaleFiles :
        /\ wkFile' = [m \in WkNames |-> IF m \in written THEN seen[m].cmd ELSE wkFile[m]]
        /\ wkMissed' = [m \in WkNames |->
                          IF WkAt("render") /\ m \in written \cap {n}
                          THEN wkMissed[m] \cup {"commit"} ELSE wkMissed[m]]
        /\ wkJob' = IF written # WkStaleFiles THEN WkIdle
                    ELSE IF written = {} THEN WkAfterReload ELSE WkStep("reload")
  BY <1>0 DEF RenderFiles
<1>3. /\ UNCHANGED <<wkRow, wkUnit, wkRuns, wkEnabled, wkQueue, wkAsked>>
      /\ \A m \in WkNames : WkActive(m)' = WkActive(m) /\ WkUsed(m)' = WkUsed(m)
  BY DEF RenderFiles, WkActive, WkUsed
<1>4. /\ WkAt("render") => /\ seen[n] = wkJob.row /\ wkJob.row \in WkRows /\ wkJob.op \in {"add", "update"}
                          /\ \A m \in WkNames \ {n} : seen[m] = wkRow[m]
      /\ ~WkAt("render") => /\ seen = wkRow /\ wkJob.op \in {"start", "stop", "restart"}
                           /\ WkExists(n)
      /\ WkNone \notin WkRows /\ WkNoUnit \notin WkCommands
  BY <1>0, <1>1, SiteWorkersAssumption
     DEF WkRowsSeen, WkInv, WkTypes, WkChanging, WkSaves, WkPlaced, WkRows, WkNone, SiteWorkersAssumption
<1>5. \A m \in WkNames : /\ seen[m] \in WkRows \cup {WkNone}
                         /\ seen[m] \in WkRows => seen[m].cmd \in WkCommands
                         /\ m \in WkStaleFiles <=> seen[m] \in WkRows /\ wkFile[m] # seen[m].cmd
  <2>1. \A m \in WkNames : seen[m] \in WkRows \cup {WkNone}
    BY <1>4 DEF WkInv, WkTypes
  <2> QED
    BY <1>0, <1>4, <2>1 DEF WkStaleFiles, WkRows
<1>6. /\ wkFile' \in [WkNames -> WkCommands \cup {WkNoUnit}]
      /\ wkMissed' \in [WkNames -> SUBSET {"commit", "drop", "restart"}]
  <2>1. \A m \in written : m \in WkNames /\ seen[m].cmd \in WkCommands
    BY <1>5 DEF WkStaleFiles
  <2> QED
    BY <1>2, <2>1 DEF WkInv, WkTypes, WkTypeOK
<1>7. WkAfterReload \in WkJobs \cup {WkIdle} /\ WkStep("reload") \in WkJobs
  BY <1>1 DEF WkAfterReload, WkFirst, WkStep, WkJobs, WkSteps, WkOps
<1>8. WkTypes'
  BY <1>2, <1>3, <1>6, <1>7 DEF WkInv, WkTypes, WkTypeOK, WkExists
<1>9. ASSUME NEW m \in WkNames PROVE WkSound(m)'
  <2>0. WkSound(m)
    BY DEF WkInv, WkSound
  <2>1. CASE m \notin written
    BY <1>2, <1>3, <2>0, <2>1, WkSame
  <2>2. CASE m \in written /\ WkAt("render") /\ m = n
    <3>1. wkMissed'[m] = wkMissed[m] \cup {"commit"} /\ wkFile'[m] # WkNoUnit
      BY <1>2, <1>4, <1>5, <2>2
    <3> QED
      BY <1>3, <2>0, <3>1 DEF WkSound, WkCounted, WkUnitless, WkRendered, WkCurrent
  <2>3. CASE m \in written /\ ~(WkAt("render") /\ m = n)
    <3>1. seen[m] = wkRow[m]
      BY <1>4, <2>3
    <3>2. /\ wkMissed'[m] = wkMissed[m] /\ wkFile'[m] = wkRow[m].cmd
          /\ wkFile[m] # wkRow[m].cmd /\ wkFile'[m] # WkNoUnit
      BY <1>2, <1>4, <1>5, <2>3, <3>1
    <3>3. WkCurrent(m)'
      <4> SUFFICES ASSUME wkMissed[m] = {} PROVE WkActive(m) = {}
        BY <1>3, <3>2 DEF WkCurrent
      <4>1. wkFile[m] = WkNoUnit
        BY <2>0, <3>2 DEF WkSound, WkRendered
      <4> QED
        BY <2>0, <4>1 DEF WkSound, WkUnitless, WkUsed
    <3> QED
      BY <1>3, <2>0, <3>2, <3>3 DEF WkSound, WkCounted, WkUnitless, WkRendered
  <2> QED
    BY <2>1, <2>2, <2>3
<1>10. written = WkStaleFiles => (WkAt("render") => wkFile'[n] = wkJob.row.cmd)
  BY <1>1, <1>2, <1>4, <1>5
<1>11. WkChanging' /\ WkChanged' /\ WkPlaced'
  <2>1. CASE wkJob' = WkIdle
    BY <2>1, WkNoJob
  <2>2. CASE written = WkStaleFiles /\ wkJob' = WkAfterReload
    BY <1>0, <1>1, <1>3, <1>4, <1>8, <1>10, <2>2, WkGoesOn DEF WkSaves
  <2>3. CASE written = WkStaleFiles /\ wkJob' = WkStep("reload")
    <3>1. /\ wkJob'.step = "reload" /\ wkJob'.op = wkJob.op /\ wkJob'.name = n /\ wkJob'.row = wkJob.row
          /\ wkJob'.previous = wkJob.previous /\ wkJob'.was = wkJob.was
      BY <1>0, <1>1, <2>3 DEF WkStep, WkJobs
    <3>2. WkChanging'
      BY <1>0, <1>1, <1>3, <1>4, <1>10, <2>3, <3>1 DEF WkInv, WkChanging, WkSaves
    <3> QED
      BY <1>3, <1>4, <3>1, <3>2 DEF WkChanged, WkPlaced, WkExists
  <2> QED
    BY <1>2, <2>1, <2>2, <2>3
<1>12. WkIds'
  BY <1>3 DEF WkInv, WkIds
<1> QED
  BY <1>8, <1>9, <1>11, <1>12 DEF WkInv, WkSound

\* systemd reads files: what it had started from others is to be restarted.
LEMMA WkReadsSound ==
    ASSUME WkInv, NEW ns, WkReads(ns), UNCHANGED <<wkRow, wkFile, wkRuns, wkEnabled, wkQueue, wkAsked>>
    PROVE  /\ wkJob' \in WkJobs \cup {WkIdle} => WkTypes'
           /\ WkIds' /\ \A m \in WkNames : WkSound(m)'
           /\ \A m \in WkNames : /\ WkActive(m)' = WkActive(m) /\ WkUsed(m)' = WkUsed(m)
                                 /\ wkMissed[m] \subseteq wkMissed'[m]
<1>1. \A m \in WkNames : WkActive(m)' = WkActive(m) /\ WkUsed(m)' = WkUsed(m)
  BY DEF WkActive, WkUsed
<1>2. \A m \in WkNames :
         /\ wkUnit'[m] = IF m \in ns THEN wkFile[m] ELSE wkUnit[m]
         /\ wkMissed'[m] = IF m \in ns /\ \E i \in WkActive(m) : wkRuns[m][i] # wkFile[m]
                           THEN wkMissed[m] \cup {"restart"} ELSE wkMissed[m]
  BY DEF WkReads
<1>3. /\ wkUnit' \in [WkNames -> WkCommands \cup {WkNoUnit}]
      /\ wkMissed' \in [WkNames -> SUBSET {"commit", "drop", "restart"}]
  BY DEF WkReads, WkInv, WkTypes, WkTypeOK
<1>4. wkJob' \in WkJobs \cup {WkIdle} => WkTypes'
  BY <1>3 DEF WkInv, WkTypes, WkTypeOK, WkExists
<1>5. WkIds'
  BY DEF WkInv, WkIds
<1>6. ASSUME NEW m \in WkNames PROVE WkSound(m)'
  <2>0. WkSound(m) /\ wkMissed[m] \subseteq wkMissed'[m]
    BY <1>2 DEF WkInv, WkSound
  <2>1. WkCounted(m)' /\ WkUnitless(m)' /\ WkRendered(m)'
    BY <1>1, <2>0 DEF WkSound, WkCounted, WkUnitless, WkRendered
  <2>2. WkCurrent(m)'
    <3> SUFFICES ASSUME wkMissed'[m] = {}, wkUnit'[m] = wkFile[m], NEW i \in WkActive(m)
                 PROVE  wkRuns[m][i] = wkRow[m].cmd
      BY <1>1 DEF WkCurrent
    <3>1. wkMissed[m] = {}
      BY <2>0
    <3>2. CASE m \notin ns
      BY <1>2, <2>0, <3>1, <3>2 DEF WkSound, WkCurrent
    <3>3. CASE m \in ns
      <4>1. wkRuns[m][i] = wkFile[m]
        BY <1>2, <3>3
      <4>2. wkFile[m] # WkNoUnit
        BY <2>0, <3>1 DEF WkSound, WkUnitless, WkUsed
      <4> QED
        BY <2>0, <3>1, <4>1, <4>2 DEF WkSound, WkRendered
    <3> QED
      BY <3>2, <3>3
  <2> QED
    BY <2>1, <2>2 DEF WkSound
<1> QED
  BY <1>1, <1>2, <1>4, <1>5, <1>6

LEMMA ReloadKeeps ==
    ASSUME WkInv, DaemonReload
    PROVE  WkInv'
<1>1. /\ wkJob \in WkJobs /\ wkJob.step = "reload" /\ wkJob' = WkAfterReload
      /\ UNCHANGED <<wkRow, wkFile, wkRuns, wkEnabled, wkQueue, wkAsked>>
  BY WkStepIs DEF DaemonReload, WkInv, WkSteps
<1>2. PICK ns \in {{}, WkNames} : WkReads(ns)
  BY DEF DaemonReload
<1>3. wkJob' \in WkJobs \cup {WkIdle}
  BY <1>1 DEF WkAfterReload, WkFirst, WkStep, WkJobs, WkSteps
<1>4. WkTypes' /\ WkIds' /\ \A m \in WkNames : WkSound(m)' /\ WkActive(m)' = WkActive(m)
  BY <1>1, <1>2, <1>3, WkReadsSound
<1>5. \/ wkJob.op \in {"add", "update"} /\ WkSaves /\ wkFile'[wkJob.name] = wkJob.row.cmd
      \/ wkJob.op \in {"start", "stop", "restart"} /\ WkExists(wkJob.name)
      \/ wkJob.op = "delete"
      \/ wkJob.op = "site" /\ wkJob.step = "reload" /\ wkFile' = wkFile
  <2>1. wkJob.op \in WkOps
    BY <1>1 DEF WkJobs
  <2> QED
    BY <1>1, <2>1 DEF WkOps, WkInv, WkChanging, WkSaves, WkPlaced
<1>6. WkChanging' /\ WkChanged' /\ WkPlaced'
  BY <1>1, <1>4, <1>5, WkGoesOn
<1> QED
  BY <1>4, <1>6 DEF WkInv, WkSound

LEMMA SystemdReadsKeeps ==
    ASSUME WkInv, SystemdReads
    PROVE  WkInv'
<1>1. PICK n \in WkNames : WkReads({n})
  BY DEF SystemdReads
<1>2. UNCHANGED <<wkRow, wkFile, wkRuns, wkEnabled, wkQueue, wkJob, wkAsked>> /\ wkJob \in WkJobs \cup {WkIdle}
  BY DEF SystemdReads, WkInv, WkTypes
<1>3. /\ WkTypes' /\ WkIds' /\ \A m \in WkNames : WkSound(m)'
      /\ \A m \in WkNames : /\ WkActive(m)' = WkActive(m) /\ WkUsed(m)' = WkUsed(m)
                            /\ wkMissed[m] \subseteq wkMissed'[m]
  BY <1>1, <1>2, WkReadsSound
<1>4. wkJob.step \in WkSteps => wkJob.name \in WkNames
  BY WkNamed DEF WkInv
<1>5. WkChanging'
  BY <1>2, <1>3, <1>4 DEF WkInv, WkChanging, WkSaves, WkSteps
<1>6. WkChanged'
  BY <1>2, <1>3, <1>4 DEF WkInv, WkChanged, WkSteps
<1>7. WkPlaced'
  BY <1>2, <1>3, <1>4 DEF WkInv, WkPlaced, WkSteps, WkExists
<1> QED
  BY <1>3, <1>5, <1>6, <1>7 DEF WkInv, WkSound

LEMMA WkCommitKeeps ==
    ASSUME WkInv, WorkerCommitted
    PROVE  WkInv'
<1>0. PICK n : n = wkJob.name
  OBVIOUS
<1>1. /\ wkJob \in WkJobs /\ n \in WkNames /\ wkJob' \in WkJobs
      /\ wkJob'.step = IF wkJob.op = "add" THEN "enable" ELSE "drop"
      /\ wkJob'.op = wkJob.op /\ wkJob'.name = n /\ wkJob'.row = wkJob.row
      /\ wkJob'.previous = wkJob.previous /\ wkJob'.was = wkJob.was
      /\ wkJob.step = "commit" /\ wkJob.previous \in Nat
  <2>1. /\ WkAt("commit") /\ "commit" \in WkSteps
        /\ \E next \in WkSteps : next = (IF wkJob.op = "add" THEN "enable" ELSE "drop") /\ wkJob' = WkStep(next)
    BY DEF WorkerCommitted, WkSteps
  <2>2. wkJob \in WkJobs /\ wkJob.step = "commit"
    BY <2>1, WkStepIs DEF WkInv
  <2> QED
    BY <1>0, <2>1, <2>2, WkStepIs DEF WkInv, WkJobs
<1>2. /\ UNCHANGED <<wkSystem, wkQueue, wkAsked>>
      /\ wkRow' = [wkRow EXCEPT ![n] = wkJob.row]
      /\ wkMissed' = [wkMissed EXCEPT ![n] = (@ \ {"commit"})
                        \cup (IF wkJob.row.procs < wkJob.previous THEN {"drop"} ELSE {})
                        \cup (IF wkJob.was THEN {"restart"} ELSE {})]
  BY <1>0 DEF WorkerCommitted
<1>3. /\ wkJob.row \in WkRows /\ wkJob.row.cmd \in WkCommands /\ wkJob.row.cmd # WkNoUnit
      /\ wkJob.row.procs \in Nat /\ wkJob.row.id \in Nat \ {0} /\ wkJob.row # WkNone
      /\ wkJob.row.id <= wkAsked - Len(wkQueue)
      /\ \A m \in WkNames \ {n} : wkRow[m].id # wkJob.row.id
      /\ wkJob.previous = wkRow[n].procs
      /\ ~wkJob.was => WkActive(n) \cap (1..wkJob.previous) = {}
      /\ wkFile[n] = wkJob.row.cmd /\ wkJob.op \in {"add", "update"}
  BY <1>0, <1>1, SiteWorkersAssumption
     DEF WkInv, WkChanging, WkSaves, WkRows, WkNone, SiteWorkersAssumption
<1>4. /\ wkRow'[n] = wkJob.row
      /\ wkMissed'[n] = (wkMissed[n] \ {"commit"})
                        \cup (IF wkJob.row.procs < wkJob.previous THEN {"drop"} ELSE {})
                        \cup (IF wkJob.was THEN {"restart"} ELSE {})
      /\ \A m \in WkNames \ {n} : wkRow'[m] = wkRow[m] /\ wkMissed'[m] = wkMissed[m]
  BY <1>1, <1>2 DEF WkInv, WkTypes
<1>5. WkTypes'
  <2>1. /\ wkRow' \in [WkNames -> WkRows \cup {WkNone}]
        /\ wkMissed' \in [WkNames -> SUBSET {"commit", "drop", "restart"}]
    BY <1>2, <1>3 DEF WkInv, WkTypes
  <2>2. \A m, k \in WkNames : wkRow'[m] # WkNone /\ wkRow'[m].id = wkRow'[k].id => m = k
    BY <1>3, <1>4 DEF WkInv, WkTypes, WkTypeOK, WkExists
  <2> QED
    BY <1>1, <1>2, <2>1, <2>2 DEF WkInv, WkTypes, WkTypeOK, WkExists, wkSystem
<1>6. WkActive(n)' = WkActive(n) /\ WkUsed(n)' = WkUsed(n) /\ WkActive(n) \subseteq WkUsed(n)
  BY <1>2 DEF WkActive, WkUsed, wkSystem
<1>7. WkSound(n)'
  <2>1. WkCounted(n) /\ wkFile'[n] = wkFile[n]
    BY <1>1, <1>2 DEF WkInv, wkSystem
  <2>2. WkCounted(n)'
    BY <1>1, <1>3, <1>4, <1>6, <2>1 DEF WkCounted
  <2>3. WkUnitless(n)' /\ WkRendered(n)'
    BY <1>3, <1>4, <2>1 DEF WkUnitless, WkRendered
  <2>4. WkCurrent(n)'
    <3> SUFFICES ASSUME wkMissed'[n] = {} PROVE WkActive(n) = {}
      BY <1>6 DEF WkCurrent
    <3>1. ~wkJob.was /\ "drop" \notin wkMissed[n]
      BY <1>4
    <3> QED
      BY <1>3, <1>6, <2>1, <3>1 DEF WkCounted
  <2> QED
    BY <2>2, <2>3, <2>4 DEF WkSound
<1>8. WkChanging'
  BY <1>1 DEF WkChanging, WkSaves
<1>9. WkChanged' /\ WkPlaced'
  BY <1>1, <1>2, <1>3, <1>4, <1>6 DEF WkChanged, WkPlaced, WkExists, wkSystem
<1> QED
  BY <1>1, <1>2, <1>3, <1>4, <1>5, <1>7, <1>8, <1>9, WkOthersStay DEF WkInv, WkIds, wkSystem

\* What systemctl disable --now leaves of a worker.
LEMMA WkDisabled ==
    ASSUME WkTypes, NEW n \in WkNames, NEW is, NEW left, WkDisable(n, is, left)
    PROVE  /\ wkEnabled' \in [WkNames -> SUBSET (1..WkMaxProcs)]
           /\ wkRuns' \in [WkNames -> [1..WkMaxProcs -> WkCommands \cup {WkStopped}]]
           /\ \A m \in WkNames \ {n} : wkEnabled'[m] = wkEnabled[m] /\ wkRuns'[m] = wkRuns[m]
           /\ wkEnabled'[n] = wkEnabled[n] \ (is \ left)
           /\ WkActive(n)' = WkActive(n) \ (is \ left)
           /\ WkUsed(n)' = WkUsed(n) \ (is \ left)
           /\ \A i \in WkActive(n)' : wkRuns'[n][i] = wkRuns[n][i]
<1>1. /\ wkEnabled' \in [WkNames -> SUBSET (1..WkMaxProcs)]
      /\ wkRuns' \in [WkNames -> [1..WkMaxProcs -> WkCommands \cup {WkStopped}]]
      /\ \A m \in WkNames \ {n} : wkEnabled'[m] = wkEnabled[m] /\ wkRuns'[m] = wkRuns[m]
      /\ wkEnabled'[n] = wkEnabled[n] \ (is \ left)
      /\ \A i \in 1..WkMaxProcs : wkRuns'[n][i] = IF i \in is \ left THEN WkStopped ELSE wkRuns[n][i]
  BY DEF WkDisable, WkTypes, WkTypeOK
<1>2. WkActive(n)' = WkActive(n) \ (is \ left) /\ \A i \in WkActive(n)' : wkRuns'[n][i] = wkRuns[n][i]
  BY <1>1 DEF WkActive
<1> QED
  BY <1>1, <1>2 DEF WkUsed

LEMMA WkDropKeeps ==
    ASSUME WkInv, DropSurplus
    PROVE  WkInv'
<1>0. PICK n : n = wkJob.name
  OBVIOUS
<1>1. /\ wkJob \in WkJobs /\ n \in WkNames /\ wkJob.step = "drop" /\ wkJob.row \in WkRows \cup {WkNone}
      /\ wkJob' = WkIdle \/ (wkJob' \in WkJobs /\ wkJob'.step = "enable" /\ wkJob'.name = n /\ wkJob'.op = wkJob.op)
      /\ wkJob.previous \in Nat
  <2>1. /\ WkAt("drop") /\ {"drop", "enable"} \subseteq WkSteps
        /\ wkJob' = WkIdle \/ wkJob' = WkStep("enable")
    BY DEF DropSurplus, WkSteps
  <2>2. wkJob \in WkJobs /\ wkJob.step = "drop"
    BY <2>1, WkStepIs DEF WkInv
  <2> QED
    BY <1>0, <2>1, <2>2, WkStepIs DEF WkInv, WkJobs
<1>2. PICK left \in SUBSET ((wkJob.row.procs + 1)..wkJob.previous) :
        /\ WkDisable(n, (wkJob.row.procs + 1)..wkJob.previous, left)
        /\ wkMissed' = [wkMissed EXCEPT ![n] =
              IF left = {} /\ wkEnabled[n] \cup WkActive(n) \subseteq 1..wkJob.previous
              THEN @ \ {"drop"} ELSE @]
  BY <1>0 DEF DropSurplus
<1>3. UNCHANGED <<wkRow, wkFile, wkUnit, wkQueue, wkAsked>>
  BY DEF DropSurplus
<1>4. /\ wkRow[n] = wkJob.row /\ wkRow[n].procs \in Nat /\ WkExists(n) /\ wkFile[n] # WkNoUnit /\ wkJob.op \in {"add", "update"}
      /\ IF wkJob.was THEN "restart" \in wkMissed[n] ELSE WkActive(n) \cap (1..wkJob.previous) = {}
  BY <1>0, <1>1, WkRowTypes DEF WkInv, WkChanged, WkPlaced
<1>5. PICK is : is = (wkRow[n].procs + 1)..wkJob.previous
  OBVIOUS
<1>6. /\ wkEnabled' \in [WkNames -> SUBSET (1..WkMaxProcs)]
      /\ wkRuns' \in [WkNames -> [1..WkMaxProcs -> WkCommands \cup {WkStopped}]]
      /\ \A m \in WkNames \ {n} : wkEnabled'[m] = wkEnabled[m] /\ wkRuns'[m] = wkRuns[m]
      /\ WkActive(n)' = WkActive(n) \ (is \ left)
      /\ WkUsed(n)' = WkUsed(n) \ (is \ left)
      /\ \A i \in WkActive(n)' : wkRuns'[n][i] = wkRuns[n][i]
  BY <1>1, <1>2, <1>4, <1>5, WkDisabled DEF WkInv
<1>7. /\ wkMissed'[n] = IF left = {} /\ WkUsed(n) \subseteq 1..wkJob.previous
                        THEN wkMissed[n] \ {"drop"} ELSE wkMissed[n]
      /\ \A m \in WkNames \ {n} : wkMissed'[m] = wkMissed[m]
      /\ wkMissed' \in [WkNames -> SUBSET {"commit", "drop", "restart"}]
  BY <1>1, <1>2 DEF WkInv, WkTypes, WkUsed
<1>8. WkTypes'
  BY <1>1, <1>3, <1>6, <1>7 DEF WkInv, WkTypes, WkTypeOK, WkExists
<1>9. WkSound(n)'
  <2>1. WkSound(n) /\ WkUsed(n) \subseteq 1..WkMaxProcs /\ WkActive(n) \subseteq WkUsed(n)
    BY <1>1, WkRowTypes DEF WkInv, WkSound, WkUsed
  <2>2. CASE left = {} /\ WkUsed(n) \subseteq 1..wkJob.previous
    <3>1. WkUsed(n)' \subseteq 1..wkRow[n].procs /\ WkUsed(n)' \subseteq WkUsed(n)
      BY <1>1, <1>4, <1>5, <1>6, <2>2
    <3>2. WkCounted(n)'
      BY <1>3, <3>1 DEF WkCounted
    <3>3. WkCurrent(n)'
      <4> SUFFICES ASSUME wkMissed'[n] = {} PROVE WkActive(n)' = {}
        BY DEF WkCurrent
      <4>1. "restart" \notin wkMissed[n]
        BY <1>7, <2>2
      <4>2. WkActive(n) \cap (1..wkJob.previous) = {}
        BY <1>4, <4>1
      <4> QED
        BY <1>6, <2>1, <2>2, <4>2
    <3>4. WkUnitless(n)' /\ WkRendered(n)'
      BY <1>3, <1>4, <1>7, <2>1, <2>2 DEF WkSound, WkUnitless, WkRendered
    <3> QED
      BY <3>2, <3>3, <3>4 DEF WkSound
  <2>3. CASE ~(left = {} /\ WkUsed(n) \subseteq 1..wkJob.previous)
    <3>1. wkMissed'[n] = wkMissed[n]
      BY <1>7, <2>3
    <3> QED
      BY <1>3, <1>4, <1>6, <2>1, <3>1 DEF WkSound, WkCounted, WkUnitless, WkRendered, WkCurrent
  <2> QED
    BY <2>2, <2>3
<1>10. WkChanging' /\ WkChanged' /\ WkPlaced'
  BY <1>1, <1>3, <1>4, WkNoJob DEF WkSaves, WkChanging, WkChanged, WkPlaced, WkExists
<1> QED
  BY <1>1, <1>3, <1>6, <1>7, <1>8, <1>9, <1>10, WkOthersStay DEF WkInv, WkIds

LEMMA StartKeeps ==
    ASSUME WkInv, StartInstances
    PROVE  WkInv'
<1>0. PICK n : n = wkJob.name
  OBVIOUS
<1>1. /\ wkJob \in WkJobs /\ n \in WkNames /\ wkJob.step = "enable" /\ wkJob' = WkIdle
      /\ WkExists(n) /\ wkUnit[n] # WkNoUnit /\ wkUnit[n] \in WkCommands /\ wkFile[n] # WkNoUnit
      /\ UNCHANGED <<wkRow, wkFile, wkUnit, wkQueue, wkAsked>>
  <2>1. wkJob \in WkJobs /\ n \in WkNames /\ wkJob.step = "enable"
    BY <1>0, WkStepIs DEF StartInstances, WkInv, WkSteps, WkJobs
  <2>2. WkExists(n)
    BY <1>0, <2>1 DEF WkInv, WkPlaced
  <2> QED
    BY <1>0, <2>1, <2>2 DEF StartInstances, WkInv, WkTypes, WkTypeOK
<1>2. PICK is : is = WkInstances(n)
  OBVIOUS
<1>3. PICK again \in BOOLEAN : again <=> wkJob.op \in {"restart", "update"}
  <2>1. CASE wkJob.op \in {"restart", "update"}
    BY <2>1
  <2>2. CASE wkJob.op \notin {"restart", "update"}
    BY <2>2
  <2> QED
    BY <2>1, <2>2
<1>4. /\ wkEnabled' = [wkEnabled EXCEPT ![n] = @ \cup is]
      /\ wkRuns' = [wkRuns EXCEPT ![n] = [i \in 1..WkMaxProcs |->
                       IF i \in is /\ (again \/ @[i] = WkStopped) THEN wkUnit[n] ELSE @[i]]]
      /\ wkMissed' = [wkMissed EXCEPT ![n] = IF again THEN @ \ {"restart"} ELSE @]
  BY <1>0, <1>2, <1>3 DEF StartInstances
<1>5. is \subseteq 1..WkMaxProcs /\ is = 1..wkRow[n].procs
  <2>1. wkRow[n].procs \in 0..WkMaxProcs
    BY <1>1, WkRowTypes DEF WkInv
  <2> QED
    BY <1>2, <2>1, SiteWorkersAssumption DEF WkInstances, SiteWorkersAssumption
<1>6. /\ wkEnabled' \in [WkNames -> SUBSET (1..WkMaxProcs)]
      /\ wkRuns' \in [WkNames -> [1..WkMaxProcs -> WkCommands \cup {WkStopped}]]
      /\ wkMissed' \in [WkNames -> SUBSET {"commit", "drop", "restart"}]
      /\ \A m \in WkNames \ {n} :
            wkEnabled'[m] = wkEnabled[m] /\ wkRuns'[m] = wkRuns[m] /\ wkMissed'[m] = wkMissed[m]
      /\ wkEnabled'[n] = wkEnabled[n] \cup is
      /\ wkMissed'[n] = IF again THEN wkMissed[n] \ {"restart"} ELSE wkMissed[n]
      /\ \A i \in 1..WkMaxProcs : wkRuns'[n][i] =
            IF i \in is /\ (again \/ wkRuns[n][i] = WkStopped) THEN wkUnit[n] ELSE wkRuns[n][i]
  BY <1>1, <1>4, <1>5 DEF WkInv, WkTypes, WkTypeOK
<1>7. WkActive(n)' \subseteq WkActive(n) \cup is /\ WkUsed(n)' \subseteq WkUsed(n) \cup is
  BY <1>6 DEF WkActive, WkUsed
<1>8. WkTypes'
  BY <1>1, <1>6 DEF WkInv, WkTypes, WkTypeOK, WkExists
<1>9. WkSound(n)'
  <2>1. WkSound(n) /\ WkActive(n) \subseteq WkUsed(n)
    BY <1>1 DEF WkInv, WkSound, WkUsed
  <2>2. WkCounted(n)' /\ WkUnitless(n)' /\ WkRendered(n)'
    BY <1>1, <1>5, <1>6, <1>7, <2>1 DEF WkSound, WkCounted, WkUnitless, WkRendered
  <2>3. WkCurrent(n)'
    <3> SUFFICES ASSUME wkMissed'[n] = {}, wkUnit[n] = wkFile[n], NEW i \in WkActive(n)'
                 PROVE  wkRuns'[n][i] = wkRow[n].cmd
      BY <1>1 DEF WkCurrent
    <3>1. wkUnit[n] = wkRow[n].cmd /\ WkActive(n) \subseteq is
      BY <1>1, <1>5, <1>6, <2>1 DEF WkSound, WkRendered, WkCounted
    <3>2. i \in is /\ i \in 1..WkMaxProcs
      BY <1>5, <1>7, <3>1
    <3>3. CASE again \/ wkRuns[n][i] = WkStopped
      BY <1>6, <3>1, <3>2, <3>3
    <3>4. CASE ~again /\ wkRuns[n][i] # WkStopped
      <4>1. i \in WkActive(n) /\ wkMissed[n] = {}
        BY <1>6, <3>2, <3>4 DEF WkActive
      <4> QED
        BY <1>6, <2>1, <3>2, <3>4, <4>1 DEF WkSound, WkCurrent
    <3> QED
      BY <3>3, <3>4
  <2> QED
    BY <2>2, <2>3 DEF WkSound
<1> QED
  BY <1>1, <1>6, <1>8, <1>9, WkNoJob, WkOthersStay DEF WkInv, WkIds

LEMMA StopInstancesKeeps ==
    ASSUME WkInv, StopInstances
    PROVE  WkInv'
<1>0. PICK n : n = wkJob.name
  OBVIOUS
<1>1. /\ wkJob \in WkJobs /\ n \in WkNames /\ wkJob' = WkIdle
      /\ UNCHANGED <<wkRow, wkFile, wkUnit, wkQueue, wkAsked, wkMissed>>
      /\ WkDisable(n, WkInstances(n), {})
  BY <1>0, WkStepIs DEF StopInstances, WkInv, WkSteps, WkJobs
<1>2. /\ wkEnabled' \in [WkNames -> SUBSET (1..WkMaxProcs)]
      /\ wkRuns' \in [WkNames -> [1..WkMaxProcs -> WkCommands \cup {WkStopped}]]
      /\ \A m \in WkNames \ {n} : wkEnabled'[m] = wkEnabled[m] /\ wkRuns'[m] = wkRuns[m]
      /\ WkActive(n)' \subseteq WkActive(n) /\ WkUsed(n)' \subseteq WkUsed(n)
      /\ \A i \in WkActive(n)' : wkRuns'[n][i] = wkRuns[n][i]
  BY <1>1, WkDisabled DEF WkInv
<1>3. WkTypes'
  BY <1>1, <1>2 DEF WkInv, WkTypes, WkTypeOK, WkExists
<1>4. WkSound(n)'
  BY <1>1, <1>2 DEF WkInv, WkSound, WkCounted, WkUnitless, WkRendered, WkCurrent
<1> QED
  BY <1>1, <1>2, <1>3, <1>4, WkNoJob, WkOthersStay DEF WkInv, WkIds

LEMMA StopAllKeeps ==
    ASSUME WkInv, StopAll
    PROVE  WkInv'
<1>0. PICK n : n = wkJob.name
  OBVIOUS
<1>1. /\ wkJob \in WkJobs /\ n \in WkNames /\ wkJob' \in WkJobs /\ wkJob.step = "stop all"
      /\ wkJob'.step = "unlink" /\ wkJob'.name = n /\ wkJob'.op = wkJob.op /\ wkJob'.rest = wkJob.rest
      /\ UNCHANGED <<wkRow, wkFile, wkUnit, wkQueue, wkAsked>>
  BY <1>0, WkStepIs DEF StopAll, WkInv, WkSteps, WkJobs
<1>2. PICK left \in SUBSET WkActive(n) :
        /\ WkDisable(n, 1..WkMaxProcs, left)
        /\ wkMissed' = [wkMissed EXCEPT ![n] =
                          IF left = {} THEN @ \ {"drop", "restart"} ELSE @ \cup {"drop", "restart"}]
  BY <1>0 DEF StopAll
<1>3. /\ wkEnabled' \in [WkNames -> SUBSET (1..WkMaxProcs)]
      /\ wkRuns' \in [WkNames -> [1..WkMaxProcs -> WkCommands \cup {WkStopped}]]
      /\ \A m \in WkNames \ {n} : wkEnabled'[m] = wkEnabled[m] /\ wkRuns'[m] = wkRuns[m]
      /\ WkUsed(n)' = WkUsed(n) \ ((1..WkMaxProcs) \ left)
  BY <1>1, <1>2, WkDisabled DEF WkInv
<1>4. /\ wkMissed' \in [WkNames -> SUBSET {"commit", "drop", "restart"}]
      /\ wkMissed'[n] = IF left = {} THEN wkMissed[n] \ {"drop", "restart"}
                                     ELSE wkMissed[n] \cup {"drop", "restart"}
      /\ \A m \in WkNames \ {n} : wkMissed'[m] = wkMissed[m]
  BY <1>1, <1>2 DEF WkInv, WkTypes, WkTypeOK
<1>5. WkTypes'
  BY <1>1, <1>3, <1>4 DEF WkInv, WkTypes, WkTypeOK, WkExists
<1>6. left = {} => WkUsed(n)' = {} /\ WkActive(n)' = {}
  <2>1. WkUsed(n) \subseteq 1..WkMaxProcs /\ WkActive(n)' \subseteq WkUsed(n)'
    BY <1>1, WkRowTypes DEF WkInv, WkUsed
  <2> QED
    BY <1>3, <2>1
<1>7. WkSound(n)'
  <2>1. WkRendered(n)
    BY <1>1 DEF WkInv
  <2> QED
    BY <1>1, <1>4, <1>6, <2>1 DEF WkSound, WkCounted, WkUnitless, WkRendered, WkCurrent
<1>8. WkChanging' /\ WkChanged'
  BY <1>1 DEF WkSaves, WkChanging, WkChanged
<1>9. WkPlaced'
  BY <1>0, <1>1, <1>4, <1>6 DEF WkInv, WkPlaced
<1> QED
  BY <1>1, <1>3, <1>4, <1>5, <1>7, <1>8, <1>9, WkOthersStay DEF WkInv, WkIds

LEMMA UnitRemovedKeeps ==
    ASSUME WkInv, UnitRemoved
    PROVE  WkInv'
<1>0. PICK n : n = wkJob.name
  OBVIOUS
<1>1. /\ wkJob \in WkJobs /\ n \in WkNames /\ wkJob.step = "unlink" /\ wkJob.rest \subseteq WkNames
      /\ wkJob.op \in {"delete", "site"} /\ ("drop" \in wkMissed[n] \/ WkUsed(n) = {})
  BY <1>0, WkStepIs DEF UnitRemoved, WkInv, WkSteps, WkJobs, WkPlaced
<1>2. /\ UNCHANGED <<wkRow, wkUnit, wkRuns, wkEnabled, wkQueue, wkAsked>>
      /\ wkFile' = [wkFile EXCEPT ![n] = WkNoUnit]
      /\ wkMissed' = [wkMissed EXCEPT ![n] = @ \ {"commit"}]
      /\ WkActive(n)' = WkActive(n) /\ WkUsed(n)' = WkUsed(n)
  BY <1>0 DEF UnitRemoved, WkActive, WkUsed
<1>3. /\ wkFile'[n] = WkNoUnit /\ wkMissed'[n] = wkMissed[n] \ {"commit"}
      /\ \A m \in WkNames \ {n} : wkFile'[m] = wkFile[m] /\ wkMissed'[m] = wkMissed[m]
      /\ wkFile' \in [WkNames -> WkCommands \cup {WkNoUnit}]
      /\ wkMissed' \in [WkNames -> SUBSET {"commit", "drop", "restart"}]
  BY <1>1, <1>2 DEF WkInv, WkTypes, WkTypeOK
<1>4. \/ wkJob.op = "delete" /\ wkJob' = WkStep("forget")
      \/ wkJob.op = "site" /\ wkJob.rest = {} /\ wkJob' = WkStep("reload")
      \/ wkJob.op = "site" /\ \E next \in wkJob.rest :
            wkJob' = [WkStep("stop all") EXCEPT !.name = next, !.rest = wkJob.rest \ {next}]
  <2>1. WkStep("stop all").rest = wkJob.rest
    BY <1>1 DEF WkStep, WkJobs
  <2>2. wkJob.rest # {} => (CHOOSE m \in wkJob.rest : TRUE) \in wkJob.rest
    OBVIOUS
  <2> QED
    BY <1>1, <2>1, <2>2 DEF UnitRemoved
<1>5. /\ wkJob' \in WkJobs /\ wkJob'.op = wkJob.op /\ wkJob'.step \in {"forget", "reload", "stop all"}
      /\ wkJob'.step = "reload" => wkJob.op = "site"
      /\ wkJob'.step = "forget" => wkJob.op = "delete" /\ wkJob'.name = n
      /\ wkJob.op = "site" => /\ (wkJob'.step = "reload" => wkJob.rest = {} /\ wkJob'.rest = {})
                             /\ (wkJob'.step = "stop all" => wkJob.rest = wkJob'.rest \cup {wkJob'.name})
                             /\ wkJob'.step # "forget"
  <2>1. /\ {"forget", "reload", "stop all"} \subseteq WkSteps
        /\ \A step \in WkSteps :
              /\ WkStep(step) \in WkJobs /\ WkStep(step).step = step /\ WkStep(step).op = wkJob.op
              /\ WkStep(step).name = n /\ WkStep(step).rest = wkJob.rest
    BY <1>0, <1>1 DEF WkStep, WkJobs, WkSteps
  <2>2. ASSUME NEW next \in wkJob.rest,
               wkJob' = [WkStep("stop all") EXCEPT !.name = next, !.rest = wkJob.rest \ {next}]
        PROVE  /\ wkJob' \in WkJobs /\ wkJob'.op = wkJob.op /\ wkJob'.step = "stop all"
               /\ wkJob'.name = next /\ wkJob'.rest = wkJob.rest \ {next}
    BY <1>1, <2>1, <2>2 DEF WkJobs
  <2>3. CASE wkJob.op = "delete" /\ wkJob' = WkStep("forget")
    BY <2>1, <2>3
  <2>4. CASE wkJob.op = "site" /\ wkJob.rest = {} /\ wkJob' = WkStep("reload")
    BY <2>1, <2>4
  <2>5. CASE wkJob.op = "site" /\ \E next \in wkJob.rest :
               wkJob' = [WkStep("stop all") EXCEPT !.name = next, !.rest = wkJob.rest \ {next}]
    BY <2>2, <2>5
  <2> QED
    BY <1>4, <2>3, <2>4, <2>5
<1>6. WkTypes'
  BY <1>2, <1>3, <1>5 DEF WkInv, WkTypes, WkTypeOK, WkExists
<1>7. WkSound(n)'
  <2>1. WkCounted(n) /\ WkActive(n) \subseteq WkUsed(n)
    BY <1>1 DEF WkInv, WkUsed
  <2>2. WkCurrent(n)'
    BY <1>1, <1>2, <1>3, <2>1 DEF WkCurrent
  <2> QED
    BY <1>1, <1>2, <1>3, <2>1, <2>2 DEF WkSound, WkCounted, WkUnitless, WkRendered
<1>8. WkChanging' /\ WkChanged'
  BY <1>1, <1>5 DEF WkSaves, WkChanging, WkChanged
<1>9. WkPlaced'
  <2>1. wkJob.op = "site" => \A m \in WkNames :
           wkRow[m] = WkNone \/ wkFile'[m] = WkNoUnit \/ m \in wkJob.rest
    BY <1>0, <1>1, <1>3 DEF WkInv, WkPlaced
  <2> QED
    BY <1>1, <1>2, <1>3, <1>5, <2>1 DEF WkPlaced
<1> QED
  BY <1>1, <1>2, <1>3, <1>6, <1>7, <1>8, <1>9, WkOthersStay DEF WkInv, WkIds

\* A row is forgotten when nothing is left of its unit.
LEMMA ForgottenKeeps ==
    ASSUME WkInv, WorkerForgotten
    PROVE  WkInv'
<1>0. PICK n : n = wkJob.name
  OBVIOUS
<1>1. /\ wkJob \in WkJobs /\ n \in WkNames /\ wkJob.step = "forget" /\ wkJob.op \in {"delete", "site"}
      /\ UNCHANGED <<wkSystem, wkQueue, wkAsked, wkMissed>>
      /\ wkRow' = [m \in WkNames |-> IF wkJob.op = "site" \/ m = n THEN WkNone ELSE wkRow[m]]
  BY <1>0, WkStepIs DEF WorkerForgotten, WkInv, WkSteps, WkJobs, WkPlaced
<1>2. \/ wkJob' = WkIdle
      \/ wkJob' \in WkJobs /\ wkJob'.step = "reload" /\ wkJob'.op = wkJob.op /\ wkJob.op = "delete"
  BY <1>1, WkStepIs DEF WorkerForgotten, WkInv, WkSteps, WkAt
<1>3. WkTypes'
  <2>1. wkRow' \in [WkNames -> WkRows \cup {WkNone}]
    BY <1>1 DEF WkInv, WkTypes
  <2>2. \A m, k \in WkNames : wkRow'[m] # WkNone /\ wkRow'[m].id = wkRow'[k].id => m = k
    <3>1. \A m \in WkNames : wkRow[m] # WkNone => wkRow[m].id # 0
      BY WkRowTypes DEF WkInv, WkExists
    <3>2. WkNone.id = 0
      BY DEF WkNone
    <3> QED
      BY <1>1, <3>1, <3>2 DEF WkInv, WkTypes, WkTypeOK, WkExists
  <2> QED
    BY <1>1, <1>2, <2>1, <2>2 DEF WkInv, WkTypes, WkTypeOK, WkExists, wkSystem
<1>4. WkIds'
  <2>1. \A m \in WkNames : wkRow'[m].id <= wkAsked - Len(wkQueue)
    <3>1. WkNone.id = 0 /\ wkAsked - Len(wkQueue) \in Nat
      BY DEF WkNone, WkInv, WkTypes, WkIds
    <3> QED
      BY <1>1, <3>1 DEF WkInv, WkIds
  <2> QED
    BY <1>1, <2>1 DEF WkInv, WkIds
<1>5. ASSUME NEW m \in WkNames PROVE WkSound(m)'
  <2>1. CASE wkRow'[m] = wkRow[m]
    BY <1>1, <2>1, WkSame DEF WkInv, WkSound, wkSystem
  <2>2. CASE wkRow'[m] # wkRow[m]
    <3>1. wkRow'[m] = WkNone /\ wkFile[m] = WkNoUnit
      <4>1. CASE wkJob.op = "delete"
        BY <1>0, <1>1, <2>2, <4>1 DEF WkInv, WkPlaced
      <4>2. CASE wkJob.op = "site"
        BY <1>1, <2>2, <4>2 DEF WkInv, WkPlaced
      <4> QED
        BY <1>1, <4>1, <4>2
    <3>2. "drop" \in wkMissed[m] \/ WkUsed(m) = {}
      BY <3>1 DEF WkInv, WkUnitless
    <3>3. WkUsed(m)' = WkUsed(m) /\ WkActive(m)' \subseteq WkUsed(m)
      BY <1>1 DEF WkUsed, WkActive, wkSystem
    <3> QED
      BY <1>1, <3>1, <3>2, <3>3
         DEF WkSound, WkCounted, WkUnitless, WkRendered, WkCurrent, wkSystem
  <2> QED
    BY <2>1, <2>2
<1>6. WkChanging' /\ WkChanged' /\ WkPlaced'
  BY <1>2, WkNoJob DEF WkSaves, WkChanging, WkChanged, WkPlaced
<1> QED
  BY <1>3, <1>4, <1>5, <1>6 DEF WkInv, WkSound

LEMMA InstanceEndsKeeps ==
    ASSUME WkInv, InstanceEnds
    PROVE  WkInv'
<1>0. PICK n \in WkNames :
        \E i \in WkActive(n), c \in {wkUnit[n], WkStopped} \ {WkNoUnit} : wkRuns' = [wkRuns EXCEPT ![n][i] = c]
  BY DEF InstanceEnds
<1>1. PICK i \in WkActive(n), c \in {wkUnit[n], WkStopped} \ {WkNoUnit} :
        wkRuns' = [wkRuns EXCEPT ![n][i] = c]
  BY <1>0
<1>2. UNCHANGED <<wkRow, wkFile, wkUnit, wkEnabled, wkQueue, wkJob, wkAsked, wkMissed>>
  BY DEF InstanceEnds
<1>3. /\ i \in 1..WkMaxProcs /\ c \in WkCommands \cup {WkStopped}
  BY <1>1 DEF WkInv, WkTypes, WkTypeOK, WkActive
<1>4. /\ wkRuns' \in [WkNames -> [1..WkMaxProcs -> WkCommands \cup {WkStopped}]]
      /\ \A m \in WkNames \ {n} : wkRuns'[m] = wkRuns[m]
      /\ \A k \in 1..WkMaxProcs : wkRuns'[n][k] = IF k = i THEN c ELSE wkRuns[n][k]
  BY <1>1, <1>3 DEF WkInv, WkTypes, WkTypeOK
<1>5. WkActive(n)' \subseteq WkActive(n) /\ WkUsed(n)' \subseteq WkUsed(n)
  BY <1>1, <1>2, <1>4 DEF WkActive, WkUsed
<1>6. \A m \in WkNames : WkActive(m)' \subseteq WkActive(m) /\ WkUsed(m)' \subseteq WkUsed(m)
  BY <1>2, <1>4, <1>5 DEF WkActive, WkUsed
<1>7. WkTypes'
  BY <1>2, <1>4 DEF WkInv, WkTypes, WkTypeOK, WkExists
<1>8. WkSound(n)'
  <2>1. WkSound(n)
    BY DEF WkInv, WkSound
  <2>2. WkCounted(n)' /\ WkUnitless(n)' /\ WkRendered(n)'
    BY <1>2, <1>5, <2>1 DEF WkSound, WkCounted, WkUnitless, WkRendered
  <2>3. WkCurrent(n)'
    <3> SUFFICES ASSUME wkMissed[n] = {}, wkUnit[n] = wkFile[n], NEW k \in WkActive(n)'
                 PROVE  wkRuns'[n][k] = wkRow[n].cmd
      BY <1>2 DEF WkCurrent
    <3>1. k \in WkActive(n) /\ k \in 1..WkMaxProcs /\ wkRuns'[n][k] # WkStopped
      BY <1>5 DEF WkActive
    <3>2. wkRuns[n][k] = wkRow[n].cmd /\ wkUnit[n] \in {wkRow[n].cmd, WkNoUnit}
      BY <2>1, <3>1 DEF WkSound, WkCurrent, WkRendered
    <3> QED
      BY <1>1, <1>4, <3>1, <3>2
  <2> QED
    BY <2>2, <2>3 DEF WkSound
<1>9. WkChanging' /\ WkChanged' /\ WkPlaced'
  <2>1. wkJob.step \in WkSteps => wkJob.name \in WkNames
    BY WkNamed DEF WkInv
  <2>2. WkChanging'
    BY <1>2, <1>6, <2>1 DEF WkInv, WkChanging, WkSaves, WkSteps
  <2>3. WkChanged'
    BY <1>2, <1>6, <2>1 DEF WkInv, WkChanged, WkSteps
  <2>4. WkPlaced'
    BY <1>2, <1>6, <2>1 DEF WkInv, WkPlaced, WkExists, WkSteps
  <2> QED
    BY <2>2, <2>3, <2>4
<1> QED
  BY <1>2, <1>4, <1>7, <1>8, <1>9, WkOthersStay DEF WkInv, WkIds

\* A job that fails, or ends with the panel, leaves the workers as they are.
LEMMA WkEndsKeep ==
    ASSUME WkInv, InstancesFail \/ WorkersPanelDies
    PROVE  WkInv'
<1>1. /\ wkJob' = WkIdle /\ UNCHANGED <<wkRow, wkSystem, wkAsked, wkMissed>>
      /\ wkQueue' = wkQueue \/ wkQueue' = <<>>
  BY DEF InstancesFail, WorkersPanelDies
<1>2. wkQueue' \in Seq(WkRequests) /\ Len(wkQueue') <= Len(wkQueue) /\ Len(wkQueue') \in Nat /\ Len(wkQueue) \in Nat
  <2>1. wkQueue \in Seq(WkRequests) /\ <<>> \in Seq(WkRequests) /\ Len(<<>>) = 0
    BY DEF WkInv, WkTypes
  <2>2. Len(wkQueue) \in Nat
    BY <2>1
  <2>3. CASE wkQueue' = wkQueue
    BY <2>1, <2>2, <2>3
  <2>4. CASE wkQueue' = <<>>
    BY <2>1, <2>2, <2>4
  <2> QED
    BY <1>1, <2>3, <2>4
<1>3. WkTypes'
  BY <1>1, <1>2 DEF WkInv, WkTypes, WkTypeOK, WkExists, wkSystem
<1>4. WkIds'
  <2>1. \A n \in WkNames : wkRow[n].id \in Nat
    BY WkRowTypes DEF WkInv
  <2> QED
    BY <1>1, <1>2, <2>1 DEF WkInv, WkTypes, WkIds
<1>5. \A n \in WkNames : WkSound(n)'
  BY <1>1, WkSame DEF WkInv, WkSound, wkSystem
<1> QED
  BY <1>1, <1>3, <1>4, <1>5, WkNoJob DEF WkInv, WkSound

LEMMA WkRestartKeeps ==
    ASSUME WkInv, MachineRestarts
    PROVE  WkInv'
<1>1. /\ wkJob' = WkIdle /\ wkQueue' = <<>> /\ UNCHANGED <<wkRow, wkFile, wkEnabled, wkAsked, wkMissed>>
      /\ wkUnit' = wkFile
      /\ wkRuns' = [n \in WkNames |-> [i \in 1..WkMaxProcs |->
                    IF i \in wkEnabled[n] /\ wkFile[n] # WkNoUnit THEN wkFile[n] ELSE WkStopped]]
  BY DEF MachineRestarts
<1>2. wkQueue' \in Seq(WkRequests) /\ Len(wkQueue') = 0
  BY <1>1
<1>3. WkTypes'
  BY <1>1, <1>2 DEF WkInv, WkTypes, WkTypeOK, WkExists
<1>4. WkIds'
  <2>1. \A n \in WkNames : wkRow[n].id \in Nat
    BY WkRowTypes DEF WkInv
  <2> QED
    BY <1>1, <1>2, <2>1 DEF WkInv, WkTypes, WkIds
<1>5. ASSUME NEW n \in WkNames PROVE WkSound(n)'
  <2>1. \A i \in WkActive(n)' : i \in wkEnabled[n] /\ wkFile[n] # WkNoUnit /\ wkRuns'[n][i] = wkFile[n]
    BY <1>1 DEF WkActive
  <2>2. WkUsed(n)' \subseteq WkUsed(n)
    BY <1>1, <2>1 DEF WkUsed
  <2> QED
    BY <1>1, <2>1, <2>2 DEF WkInv, WkSound, WkCounted, WkUnitless, WkRendered, WkCurrent
<1> QED
  BY <1>1, <1>3, <1>4, <1>5, WkNoJob DEF WkInv, WkSound

LEMMA WkNextKeeps == WkInv /\ [WorkersNext]_wkVars => WkInv'
<1> SUFFICES ASSUME WkInv, [WorkersNext]_wkVars PROVE WkInv'
  OBVIOUS
<1>1. ASSUME UNCHANGED wkVars PROVE WkInv'
  <2>1. \A n \in WkNames : WkSound(n)' /\ WkActive(n)' = WkActive(n)
    BY <1>1, WkSame DEF WkInv, WkSound, wkVars, wkSystem
  <2>2. WkTypes' /\ WkIds'
    BY <1>1 DEF wkVars, wkSystem, WkInv, WkTypes, WkTypeOK, WkIds, WkExists
  <2>3. WkChanging' /\ WkChanged' /\ WkPlaced'
    BY <1>1 DEF wkVars, wkSystem, WkInv, WkSaves, WkChanging, WkChanged, WkPlaced, WkExists, WkActive, WkUsed
  <2> QED
    BY <2>1, <2>2, <2>3 DEF WkInv, WkSound
<1> QED
  BY <1>1, WkAsksKeep, WkBeginsKeeps, RenderKeeps, WkCommitKeeps, WkDropKeeps, StartKeeps,
     ReloadKeeps, SystemdReadsKeeps, StopInstancesKeeps, StopAllKeeps, UnitRemovedKeeps, ForgottenKeeps,
     InstanceEndsKeeps,
     WkEndsKeep, WkRestartKeeps DEF WorkersNext

\* WkInv holds in every reachable state.
THEOREM WkInvariance == WorkersSpec => []WkInv
  BY WkInitial, WkNextKeeps, PTL DEF WorkersSpec

\* Every variable of SiteWorkers keeps its type, and no two rows one id.
THEOREM WkTypeCorrect == WorkersSpec => []WkTypeOK
<1>1. WkInv => WkTypeOK
  BY DEF WkInv, WkTypes
<1> QED
  BY WkInvariance, <1>1, PTL

\* Between jobs no process runs that its row does not count, and what runs is
\* what the row says: unless a job on that worker has ended before it had seen
\* to it, or systemd has not read the unit's file, whatever other jobs waited and wherever the panel or machine stopped.
THEOREM WorkersRight == WorkersSpec => []WorkersAreTheirRows
<1>1. ASSUME WkInv, NEW n \in WkNames
      PROVE  /\ WkActive(n) \subseteq WkInstances(n) \/ "drop" \in wkMissed[n]
             /\ \A i \in WkActive(n) : wkRuns[n][i] = wkRow[n].cmd \/ wkMissed[n] # {} \/ wkUnit[n] # wkFile[n]
  BY <1>1 DEF WkInv, WkCounted, WkCurrent, WkUsed, WkInstances
<1>2. WkInv => WorkersAreTheirRows
  BY <1>1 DEF WorkersAreTheirRows, NoSurplusInstance, SavedIsWhatRuns
<1> QED
  BY WkInvariance, <1>2, PTL

(***************************************************************************)
(* LoginThrottle, for any threads, limits and times                        *)
(***************************************************************************)

LtFailures == [at : Nat, serial : BOOLEAN]

LtTypes ==
    /\ ltRow \in LtRows
    /\ ltNow \in 1 .. LtMaxTime
    /\ ltReq \in [LtThreads -> [step : {"idle", "unlock", "authenticate", "count"},
                                seen : LtRows, of : {"row", "carried", "gone"}, alone : BOOLEAN]]
    /\ ltCarried \in BOOLEAN
    /\ ltFailed \in Seq(LtFailures)
    /\ ltEarly \subseteq LtThreads

\* The last n wrong passwords of those are no older than a time.
Since(f, n, time) == n = 0 \/ (n <= Len(f) /\ f[Len(f) - n + 1].at >= time)

TimesInOrder(f) == \A i, j \in DOMAIN f : i <= j => f[i].at <= f[j].at

LtOrdered == TimesInOrder(ltFailed) /\ \A i \in DOMAIN ltFailed : ltFailed[i].at <= ltNow

\* The row counts wrong passwords since its start, unless its count is carried.
RowCounts ==
    /\ ltRow = LtNoRow \/ ltRow.start >= 1
    /\ ltRow.start <= ltNow /\ ltRow.until <= ltNow + LtWindow
    /\ ltRow # LtNoRow /\ ~ltCarried => Since(ltFailed, ltRow.n, ltRow.start)

\* A row that has changed since it was read counts on, or has been started
\* anew because its time had passed; another row under its id is a new one.
SeenIs(t) ==
    LtAt(t, "count") =>
        /\ ltReq[t].of = "gone" /\ ltRow # LtNoRow => ltRow.start = ltNow
        /\ ltReq[t].of # "gone" /\ ltReq[t].seen # LtNoRow =>
              /\ ltRow # LtNoRow
              /\ ltRow.start = ltReq[t].seen.start \/ (ltRow.start = ltNow /\ LtPassed(ltReq[t].seen))
              /\ ltRow.start = ltReq[t].seen.start /\ LtPassed(ltReq[t].seen) => ltRow.n \in {0, ltReq[t].seen.n}
              /\ ltReq[t].of = "row" => Since(ltFailed, ltReq[t].seen.n, ltReq[t].seen.start)

\* A request that is alone knows the row.
AloneKnows(t) ==
    ltReq[t].alone =>
        /\ ~LtAt(t, "idle") /\ \A u \in LtThreads \ {t} : LtAt(u, "idle")
        /\ ltReq[t].of # "gone"
        /\ LtAt(t, "unlock") => ltReq[t].seen = ltRow /\ ltRow # LtNoRow
        /\ LtAt(t, "count") => ltReq[t].seen = ltRow
        /\ ~LtAt(t, "unlock") => ltRow.until = 0

\* From the i-th on the wrong passwords have been examined one after the other.
SerialFrom(f, i) == i \in DOMAIN f /\ \A k \in i .. Len(f) : f[k].serial

\* A row counts them, since the i-th or since the one that started the count
\* anew, and one that reaches the limit locks.
Counts(row, f, i) ==
    /\ row # LtNoRow
    /\ \E j \in i .. Len(f) :
          /\ row.n >= Len(f) - j + 1 /\ Len(f) - j + 1 <= LtMax
          /\ j = i \/ (j - i < LtMax /\ row.start = f[j].at)
    /\ IF row.until = 0 THEN row.n < LtMax ELSE row.until >= f[Len(f)].at + LtWindow

SerialCount ==
    \A i \in DOMAIN ltFailed :
        SerialFrom(ltFailed, i) /\ ltNow - ltFailed[i].at < LtWindow =>
            Counts(ltRow, ltFailed, i) /\ \A t \in LtThreads : ~LtAt(t, "unlock")

\* While the lock lasts every request under way is older.
LockedAfter == LtLocked => \A t \in LtThreads : LtAt(t, "idle") \/ t \in ltEarly

LtInv ==
    /\ LtTypes /\ LtOrdered /\ RowCounts
    /\ \A t \in LtThreads : SeenIs(t) /\ AloneKnows(t)
    /\ SerialCount /\ FailuresLock /\ LockedAfter

-----------------------------------------------------------------------------
LEMMA LtNoRowIs ==
    /\ LtNoRow \in LtRows /\ LtNoRow.n = 0 /\ LtNoRow.start = 0 /\ LtNoRow.until = 0
    /\ LtWindow \in Nat /\ LtMax \in Nat /\ LtMax >= 1 /\ LtMaxTime \in Nat
    /\ \A row \in LtRows : row.n \in Nat /\ row.start \in Nat /\ row.until \in Nat
<1>1. LtWindow \in Nat /\ LtMax \in Nat /\ LtMax >= 1 /\ LtMaxTime \in Nat
  BY LoginThrottleAssumption
<1>2. 0 \in 0 .. LtMaxTime /\ 0 \in 0 .. LtMaxTime + LtWindow
  BY <1>1
<1>3. \A i \in 0 .. LtMaxTime : i \in Nat
  BY <1>1
<1>4. \A i \in 0 .. LtMaxTime + LtWindow : i \in Nat
  BY <1>1
<1>. QED
  BY <1>1, <1>2, <1>3, <1>4 DEF LtNoRow, LtRows

LEMMA LtAppended ==
    ASSUME NEW f \in Seq(LtFailures), NEW x \in LtFailures
    PROVE  /\ Append(f, x) \in Seq(LtFailures) /\ Len(f) \in Nat /\ DOMAIN f = 1 .. Len(f)
           /\ Len(Append(f, x)) = Len(f) + 1 /\ DOMAIN Append(f, x) = 1 .. Len(f) + 1
           /\ Append(f, x)[Len(f) + 1] = x
           /\ \A i \in 1 .. Len(f) : Append(f, x)[i] = f[i] /\ f[i].at \in Nat /\ f[i].serial \in BOOLEAN
           /\ x.at \in Nat /\ x.serial \in BOOLEAN
<1>1. /\ Append(f, x) \in Seq(LtFailures) /\ Len(f) \in Nat /\ DOMAIN f = 1 .. Len(f)
      /\ Len(Append(f, x)) = Len(f) + 1 /\ DOMAIN Append(f, x) = 1 .. Len(f) + 1
      /\ Append(f, x)[Len(f) + 1] = x
      /\ \A i \in 1 .. Len(f) : Append(f, x)[i] = f[i] /\ f[i] \in LtFailures
  OBVIOUS
<1>2. \A y \in LtFailures : y.at \in Nat /\ y.serial \in BOOLEAN
  BY DEF LtFailures
<1>. QED
  BY <1>1, <1>2

\* A further wrong password is one more, and leaves those that were counted.
LEMMA SinceGrows ==
    ASSUME NEW f \in Seq(LtFailures), NEW x \in LtFailures, NEW n \in Nat, NEW time \in Nat,
           TimesInOrder(f), \A i \in DOMAIN f : f[i].at <= x.at, Since(f, n, time)
    PROVE  /\ Since(Append(f, x), n, time)
           /\ time <= x.at => Since(Append(f, x), n + 1, time) /\ Since(Append(f, x), 1, time)
           /\ Since(Append(f, x), 0, time)
<1>. DEFINE g == Append(f, x)
<1>1. /\ Len(f) \in Nat /\ DOMAIN f = 1 .. Len(f) /\ Len(g) = Len(f) + 1 /\ g[Len(f) + 1] = x
      /\ \A i \in 1 .. Len(f) : g[i] = f[i] /\ f[i].at \in Nat
      /\ x.at \in Nat
  BY LtAppended
<1>. HIDE DEF g
<1>2. Since(g, 0, time)
  BY DEF Since
<1>3. time <= x.at => Since(g, 1, time)
  BY <1>1 DEF Since
<1>4. CASE n = 0
  BY <1>2, <1>3, <1>4 DEF g
<1>5. CASE n # 0
  <2>1. n \in 1 .. Len(f) /\ Len(f) - n + 1 \in 1 .. Len(f) /\ f[Len(f) - n + 1].at >= time
    BY <1>1, <1>5 DEF Since
  <2>2. Since(g, n + 1, time)
    <3>1. Len(g) - (n + 1) + 1 = Len(f) - n + 1 /\ n + 1 <= Len(g)
      BY <1>1, <2>1
    <3>. QED
      BY <1>1, <2>1, <3>1 DEF Since
  <2>3. Since(g, n, time)
    <3>1. CASE n = 1
      <4>1. Len(g) - n + 1 = Len(f) + 1 /\ f[Len(f)].at >= time /\ Len(f) \in 1 .. Len(f) /\ n <= Len(g)
        BY <1>1, <2>1, <3>1
      <4>. QED
        BY <1>1, <4>1 DEF Since
    <3>2. CASE n > 1
      <4>1. /\ Len(g) - n + 1 = Len(f) - n + 2 /\ Len(f) - n + 2 \in 1 .. Len(f)
            /\ Len(f) - n + 1 <= Len(f) - n + 2 /\ n <= Len(g)
        BY <1>1, <2>1, <3>2
      <4>2. f[Len(f) - n + 1].at <= f[Len(f) - n + 2].at
        BY <1>1, <2>1, <4>1 DEF TimesInOrder
      <4>3. f[Len(f) - n + 2].at >= time
        BY <1>1, <2>1, <4>1, <4>2
      <4>. QED
        BY <1>1, <4>1, <4>3 DEF Since
    <3>. QED
      BY <1>5, <3>1, <3>2
  <2>. QED
    BY <1>2, <1>3, <2>2, <2>3 DEF g
<1>. QED
  BY <1>4, <1>5

LEMMA SinceShorter ==
    ASSUME NEW f \in Seq(LtFailures), NEW n \in Nat, NEW m \in Nat, NEW time \in Nat,
           TimesInOrder(f), 1 <= m, m <= n, Since(f, n, time)
    PROVE  Since(f, m, time)
<1>1. /\ Len(f) \in Nat /\ DOMAIN f = 1 .. Len(f) /\ \A i \in 1 .. Len(f) : f[i] \in LtFailures
  OBVIOUS
<1>2. \A i \in 1 .. Len(f) : f[i].at \in Nat
  BY <1>1 DEF LtFailures
<1>3. /\ Len(f) - n + 1 \in 1 .. Len(f) /\ Len(f) - m + 1 \in 1 .. Len(f) /\ m <= Len(f)
      /\ Len(f) - n + 1 <= Len(f) - m + 1 /\ f[Len(f) - n + 1].at >= time
  BY <1>1 DEF Since
<1>4. f[Len(f) - n + 1].at <= f[Len(f) - m + 1].at
  BY <1>1, <1>3 DEF TimesInOrder
<1>. QED
  BY <1>2, <1>3, <1>4 DEF Since

\* Where the wrong passwords are in order they stay so.
LEMMA OrderGrows ==
    ASSUME NEW f \in Seq(LtFailures), NEW x \in LtFailures, TimesInOrder(f), \A i \in DOMAIN f : f[i].at <= x.at
    PROVE  TimesInOrder(Append(f, x)) /\ \A i \in DOMAIN Append(f, x) : Append(f, x)[i].at <= x.at
<1>. DEFINE g == Append(f, x)
<1>1. /\ Len(f) \in Nat /\ DOMAIN f = 1 .. Len(f) /\ DOMAIN g = 1 .. Len(f) + 1 /\ g[Len(f) + 1] = x
      /\ \A i \in 1 .. Len(f) : g[i] = f[i] /\ f[i].at \in Nat
      /\ x.at \in Nat
  BY LtAppended
<1>. HIDE DEF g
<1>2. \A i \in 1 .. Len(f) + 1 : g[i].at <= x.at
  BY <1>1
<1>3. ASSUME NEW i \in 1 .. Len(f) + 1, NEW j \in 1 .. Len(f) + 1, i <= j PROVE g[i].at <= g[j].at
  <2>1. CASE j = Len(f) + 1
    BY <1>1, <1>2, <2>1
  <2>2. CASE j # Len(f) + 1
    <3>1. i \in 1 .. Len(f) /\ j \in 1 .. Len(f)
      BY <1>1, <1>3, <2>2
    <3>. QED
      BY <1>1, <1>3, <3>1 DEF TimesInOrder
  <2>. QED
    BY <2>1, <2>2
<1>. QED
  BY <1>1, <1>2, <1>3 DEF g, TimesInOrder

\* A wrong password that was examined alone is the last of every run.
LEMMA SerialGrows ==
    ASSUME NEW f \in Seq(LtFailures), NEW x \in LtFailures, NEW i, SerialFrom(Append(f, x), i)
    PROVE  /\ x.serial
           /\ i = Len(f) + 1 \/ (i \in DOMAIN f /\ SerialFrom(f, i))
<1>. DEFINE g == Append(f, x)
<1>1. /\ Len(f) \in Nat /\ DOMAIN f = 1 .. Len(f) /\ Len(g) = Len(f) + 1 /\ DOMAIN g = 1 .. Len(f) + 1
      /\ g[Len(f) + 1] = x /\ \A k \in 1 .. Len(f) : g[k] = f[k]
  BY LtAppended
<1>2. i \in DOMAIN g /\ \A k \in i .. Len(g) : g[k].serial
  BY DEF SerialFrom
<1>. HIDE DEF g
<1>3. x.serial
  BY <1>1, <1>2
<1>4. ASSUME i # Len(f) + 1 PROVE i \in DOMAIN f /\ SerialFrom(f, i)
  <2>1. i \in 1 .. Len(f)
    BY <1>1, <1>2, <1>4
  <2>2. ASSUME NEW k \in i .. Len(f) PROVE f[k].serial
    <3>1. k \in i .. Len(g) /\ k \in 1 .. Len(f)
      BY <1>1, <2>1, <2>2
    <3>. QED
      BY <1>1, <1>2, <3>1
  <2>. QED
    BY <1>1, <2>1, <2>2 DEF SerialFrom
<1>. QED
  BY <1>3, <1>4

LEMMA CountsGrow ==
    ASSUME NEW f \in Seq(LtFailures), NEW x \in LtFailures, NEW row \in LtRows, NEW new \in LtRows,
           NEW i \in DOMAIN f, Counts(row, f, i), row.until = 0, new # LtNoRow,
           \/ new.n >= row.n + 1 /\ new.start = row.start
           \/ new.n >= 1 /\ new.start = x.at /\ \A j \in i .. Len(f) : row.start # f[j].at,
           IF new.until = 0 THEN new.n < LtMax ELSE new.until >= x.at + LtWindow
    PROVE  Counts(new, Append(f, x), i)
<1>. DEFINE g == Append(f, x)
<1>1. /\ Len(f) \in Nat /\ DOMAIN f = 1 .. Len(f) /\ Len(g) = Len(f) + 1
      /\ g[Len(f) + 1] = x /\ \A k \in 1 .. Len(f) : g[k] = f[k]
  BY LtAppended
<1>. HIDE DEF g
<1>2. row.n \in Nat /\ new.n \in Nat /\ LtMax \in Nat /\ LtMax >= 1
  BY LtNoRowIs
<1>3. PICK j \in i .. Len(f) :
         /\ row.n >= Len(f) - j + 1 /\ Len(f) - j + 1 <= LtMax
         /\ j = i \/ (j - i < LtMax /\ row.start = f[j].at)
  BY DEF Counts
<1>4. row.n < LtMax
  BY DEF Counts
<1>5. i \in 1 .. Len(f) /\ j \in 1 .. Len(f)
  BY <1>1, <1>3
<1>6. CASE new.n >= row.n + 1 /\ new.start = row.start
  <2>1. /\ j \in i .. Len(g) /\ new.n >= Len(g) - j + 1 /\ Len(g) - j + 1 <= LtMax
        /\ j = i \/ (j - i < LtMax /\ new.start = g[j].at)
    <3>1. j \in i .. Len(g) /\ Len(g) - j + 1 = Len(f) - j + 1 + 1 /\ g[j] = f[j]
      BY <1>1, <1>5
    <3>2. new.n >= Len(g) - j + 1 /\ Len(g) - j + 1 <= LtMax
      <4>1. \A a \in Int : row.n >= a => new.n >= a + 1 /\ a + 1 <= LtMax
        BY <1>2, <1>4, <1>6
      <4>2. Len(f) - j + 1 \in Int
        BY <1>1, <1>5
      <4>3. row.n >= Len(f) - j + 1
        BY <1>3
      <4>4. new.n >= Len(f) - j + 1 + 1 /\ Len(f) - j + 1 + 1 <= LtMax
        BY <4>1, <4>2, <4>3
      <4>. QED
        BY <3>1, <4>4
    <3>. QED
      BY <1>3, <1>6, <3>1, <3>2
  <2>. QED
    BY <1>1, <2>1 DEF Counts, g
<1>7. CASE new.n >= 1 /\ new.start = x.at /\ \A k \in i .. Len(f) : row.start # f[k].at
  <2>1. j = i
    BY <1>3, <1>7
  <2>2. /\ Len(g) \in i .. Len(g) /\ new.n >= Len(g) - Len(g) + 1 /\ Len(g) - Len(g) + 1 <= LtMax
        /\ Len(g) - i < LtMax /\ new.start = g[Len(g)].at
    BY <1>1, <1>2, <1>3, <1>4, <1>5, <1>7, <2>1
  <2>. QED
    BY <1>1, <2>2 DEF Counts, g
<1>. QED
  BY <1>6, <1>7

LEMMA CountsBegin ==
    ASSUME NEW f \in Seq(LtFailures), NEW x \in LtFailures, NEW new \in LtRows, new # LtNoRow, new.n >= 1,
           IF new.until = 0 THEN new.n < LtMax ELSE new.until >= x.at + LtWindow
    PROVE  Counts(new, Append(f, x), Len(f) + 1)
<1>1. /\ Len(f) \in Nat /\ Len(Append(f, x)) = Len(f) + 1 /\ Append(f, x)[Len(f) + 1] = x
  BY LtAppended
<1>2. LtMax \in Nat /\ LtMax >= 1 /\ new.n \in Nat
  BY LtNoRowIs
<1>3. /\ Len(f) + 1 \in Len(f) + 1 .. Len(f) + 1 /\ Len(f) + 1 - (Len(f) + 1) + 1 = 1
  BY <1>1
<1>. QED
  BY <1>1, <1>2, <1>3 DEF Counts

\* Runs that are counted are shorter than twice the limit.
LEMMA CountsAreFew ==
    ASSUME NEW f \in Seq(LtFailures), NEW row \in LtRows, NEW i \in DOMAIN f, Counts(row, f, i)
    PROVE  Len(f) - i + 1 < 2 * LtMax
<1>1. Len(f) \in Nat /\ i \in 1 .. Len(f)
  OBVIOUS
<1>2. LtMax \in Nat /\ LtMax >= 1
  BY LtNoRowIs
<1>3. PICK j \in i .. Len(f) : Len(f) - j + 1 <= LtMax /\ (j = i \/ j - i < LtMax)
  BY DEF Counts
<1>. QED
  BY <1>1, <1>2, <1>3

-----------------------------------------------------------------------------
LEMMA LtInitial == LtInit => LtInv
<1>. SUFFICES ASSUME LtInit PROVE LtInv
  OBVIOUS
<1>. USE DEF LtInit
<1>1. LtTypes
  <2>1. 1 \in 1 .. LtMaxTime /\ <<>> \in Seq(LtFailures)
    BY LoginThrottleAssumption
  <2>. QED
    BY <2>1, LtNoRowIs DEF LtTypes, LtIdle
<1>2. LtOrdered /\ SerialCount /\ FailuresLock
  BY DEF LtOrdered, TimesInOrder, SerialCount, FailuresLock
<1>3. RowCounts
  BY LtNoRowIs DEF RowCounts
<1>4. \A t \in LtThreads : LtAt(t, "idle") /\ ~LtAt(t, "count") /\ ~ltReq[t].alone
  BY DEF LtAt, LtIdle
<1>. QED
  BY <1>1, <1>2, <1>3, <1>4 DEF LtInv, SeenIs, AloneKnows, LockedAfter

\* The requests after a step of one of them.
LEMMA LtGoesIs ==
    ASSUME LtTypes, NEW t \in LtThreads, NEW r, LtGoes(t, r)
    PROVE  ltReq'[t] = r /\ \A u \in LtThreads \ {t} : ltReq'[u] = ltReq[u]
BY DEF LtTypes, LtGoes

\* What a commit, or one that raises, has made of the row.
LEMMA LtCountedKeeps ==
    ASSUME LtInv, NEW t \in LtThreads, LtAt(t, "count"), NEW row \in LtRows, NEW carried \in BOOLEAN,
           LtCounted(t, row, carried),
           row = LtNoRow \/ row.start >= 1,
           row.start <= ltNow, row.until <= ltNow + LtWindow, row.until >= ltRow.until,
           row # LtNoRow /\ ~carried =>
               Since(Append(ltFailed, [at |-> ltNow, serial |-> ltReq[t].alone]), row.n, row.start),
           \A u \in LtThreads \ {t} : LtAt(u, "count") =>
               /\ ltReq[u].of = "gone" /\ row # LtNoRow => row.start = ltNow
               /\ ltReq[u].of # "gone" /\ ltReq[u].seen # LtNoRow =>
                     /\ row # LtNoRow
                     /\ row.start = ltReq[u].seen.start \/ (row.start = ltNow /\ LtPassed(ltReq[u].seen))
                     /\ row.start = ltReq[u].seen.start /\ LtPassed(ltReq[u].seen) =>
                           row.n \in {0, ltReq[u].seen.n},
           ltReq[t].alone =>
               /\ row # LtNoRow /\ row.n >= 1
               /\ IF row.until = 0 THEN row.n < LtMax ELSE row.until >= ltNow + LtWindow
               /\ \/ ltRow = LtNoRow
                  \/ row.n >= ltRow.n + 1 /\ row.start = ltRow.start
                  \/ row.start = ltNow /\ ltNow - ltRow.start > LtWindow
    PROVE  LtInv'
<1>. DEFINE x == [at |-> ltNow, serial |-> ltReq[t].alone]
            g == Append(ltFailed, x)
<1>0. /\ ltRow' = row /\ ltCarried' = carried /\ LtGoes(t, LtIdle) /\ ltFailed' = g
      /\ ltNow' = ltNow
      /\ ltEarly' = IF row.until > ltRow.until THEN {u \in LtThreads \ {t} : ~LtAt(u, "idle")}
                    ELSE ltEarly \ {t}
  BY DEF LtCounted
<1>1. /\ ltRow \in LtRows /\ ltNow \in 1 .. LtMaxTime /\ ltNow \in Nat /\ ltFailed \in Seq(LtFailures)
      /\ ltReq[t].alone \in BOOLEAN /\ LtTypes /\ ltEarly \subseteq LtThreads
  BY LtNoRowIs DEF LtInv, LtTypes
<1>2. x \in LtFailures /\ x.at = ltNow /\ x.serial = ltReq[t].alone
  BY <1>1 DEF LtFailures
<1>3. ltReq'[t] = LtIdle /\ \A u \in LtThreads \ {t} : ltReq'[u] = ltReq[u]
  BY <1>0, <1>1, LtGoesIs
<1>4. TimesInOrder(ltFailed) /\ \A i \in DOMAIN ltFailed : ltFailed[i].at <= x.at
  BY <1>2 DEF LtInv, LtOrdered
<1>5. /\ Len(ltFailed) \in Nat /\ DOMAIN ltFailed = 1 .. Len(ltFailed)
      /\ Len(g) = Len(ltFailed) + 1 /\ DOMAIN g = 1 .. Len(ltFailed) + 1
      /\ g[Len(ltFailed) + 1] = x /\ \A i \in 1 .. Len(ltFailed) : g[i] = ltFailed[i] /\ ltFailed[i].at \in Nat
      /\ g \in Seq(LtFailures)
  BY <1>1, <1>2, LtAppended
<1>6. TimesInOrder(g) /\ \A i \in DOMAIN g : g[i].at <= x.at
  BY <1>1, <1>2, <1>4, OrderGrows
<1>7. row # LtNoRow /\ ~carried => Since(g, row.n, row.start)
  OBVIOUS
<1>. HIDE DEF g, x
<1>8. LtTypes'
  <2>1. LtIdle \in [step : {"idle", "unlock", "authenticate", "count"},
                    seen : LtRows, of : {"row", "carried", "gone"}, alone : BOOLEAN]
    BY LtNoRowIs DEF LtIdle
  <2>2. ltReq' \in [LtThreads -> [step : {"idle", "unlock", "authenticate", "count"},
                                  seen : LtRows, of : {"row", "carried", "gone"}, alone : BOOLEAN]]
    BY <1>0, <1>1, <2>1 DEF LtTypes, LtGoes
  <2>. QED
    BY <1>0, <1>1, <1>5, <2>2 DEF LtTypes
<1>9. LtOrdered'
  BY <1>0, <1>2, <1>6 DEF LtOrdered
<1>10. RowCounts'
  BY <1>0, <1>7 DEF RowCounts
<1>11. ~LtAt(t, "count")' /\ LtAt(t, "idle")' /\ ~ltReq'[t].alone
  BY <1>3 DEF LtAt, LtIdle
<1>12. \A u \in LtThreads \ {t} : \A step : LtAt(u, step)' <=> LtAt(u, step)
  BY <1>3 DEF LtAt
<1>13. ASSUME NEW u \in LtThreads PROVE SeenIs(u)'
  <2>1. CASE u = t
    BY <1>11, <2>1 DEF SeenIs
  <2>2. CASE u # t
    <3>1. ASSUME LtAt(u, "count"), ltReq[u].of # "gone", ltReq[u].seen # LtNoRow, ltReq[u].of = "row"
          PROVE  Since(g, ltReq[u].seen.n, ltReq[u].seen.start)
      <4>1. Since(ltFailed, ltReq[u].seen.n, ltReq[u].seen.start)
        BY <3>1 DEF LtInv, SeenIs
      <4>2. ltReq[u].seen.n \in Nat /\ ltReq[u].seen.start \in Nat
        BY <1>1, LtNoRowIs DEF LtTypes
      <4>. QED
        BY <1>1, <1>2, <1>4, <4>1, <4>2, SinceGrows DEF g
    <3>2. \A seen : LtPassed(seen)' <=> LtPassed(seen)
      BY <1>0 DEF LtPassed
    <3>3. ltReq'[u] = ltReq[u] /\ (LtAt(u, "count")' <=> LtAt(u, "count"))
      BY <1>3, <1>12, <2>2
    <3>. QED
      BY <1>0, <2>2, <3>1, <3>2, <3>3 DEF SeenIs
  <2>. QED
    BY <2>1, <2>2
<1>14. ASSUME NEW u \in LtThreads PROVE AloneKnows(u)'
  <2>1. CASE u = t
    BY <1>11, <2>1 DEF AloneKnows
  <2>2. CASE u # t
    <3>1. ~ltReq[u].alone
      <4>1. ~LtAt(t, "idle")
        BY DEF LtAt
      <4>. QED
        BY <2>2, <4>1 DEF LtInv, AloneKnows
    <3>. QED
      BY <1>3, <2>2, <3>1 DEF AloneKnows
  <2>. QED
    BY <2>1, <2>2
<1>15. ASSUME NEW i \in DOMAIN g, SerialFrom(g, i), ltNow - g[i].at < LtWindow
       PROVE  Counts(row, g, i) /\ \A u \in LtThreads : ~LtAt(u, "unlock")'
  <2>1. x.serial /\ (i = Len(ltFailed) + 1 \/ (i \in DOMAIN ltFailed /\ SerialFrom(ltFailed, i)))
    BY <1>1, <1>2, <1>15, SerialGrows DEF g
  <2>2. ltReq[t].alone
    BY <1>2, <2>1
  <2>3. \A u \in LtThreads \ {t} : LtAt(u, "idle")
    BY <2>2 DEF LtInv, AloneKnows
  <2>4. \A u \in LtThreads : ~LtAt(u, "unlock")'
    BY <1>11, <1>12, <2>3 DEF LtAt
  <2>5. CASE i = Len(ltFailed) + 1
    BY <1>1, <1>2, <2>2, <2>4, <2>5, CountsBegin DEF g
  <2>6. CASE i # Len(ltFailed) + 1
    <3>1. i \in DOMAIN ltFailed /\ SerialFrom(ltFailed, i) /\ g[i] = ltFailed[i]
      BY <1>5, <2>1, <2>6
    <3>2. Counts(ltRow, ltFailed, i)
      BY <1>15, <3>1 DEF LtInv, SerialCount
    <3>3. ltRow # LtNoRow
      BY <3>2 DEF Counts
    <3>4. ltRow.until = 0
      BY <2>2 DEF LtInv, AloneKnows, LtAt
    <3>5. row.start = ltNow /\ ltNow - ltRow.start > LtWindow => \A j \in i .. Len(ltFailed) : ltRow.start # ltFailed[j].at
      <4>1. ASSUME NEW j \in i .. Len(ltFailed), ltNow - ltRow.start > LtWindow PROVE ltRow.start # ltFailed[j].at
        <5>1. i \in 1 .. Len(ltFailed) /\ j \in 1 .. Len(ltFailed) /\ i <= j
          BY <1>5, <3>1, <4>1
        <5>2. ltFailed[i].at <= ltFailed[j].at /\ ltFailed[i].at \in Nat /\ ltFailed[j].at \in Nat
          BY <1>4, <1>5, <5>1 DEF TimesInOrder
        <5>3. LtWindow \in Nat /\ ltRow.start \in Nat
          BY <1>1, LtNoRowIs
        <5>. QED
          BY <1>1, <1>15, <3>1, <4>1, <5>2, <5>3
      <4>. QED
        BY <4>1
    <3>. QED
      BY <1>1, <1>2, <2>2, <2>4, <3>1, <3>2, <3>3, <3>4, <3>5, CountsGrow DEF g
  <2>. QED
    BY <2>5, <2>6
<1>16. SerialCount'
  BY <1>0, <1>15 DEF SerialCount
<1>17. FailuresLock'
  <2>1. ASSUME NEW i \in DOMAIN g, \A k \in i .. Len(g) : g[k].serial, g[Len(g)].at - g[i].at < LtWindow
        PROVE  Len(g) - i + 1 < 2 * LtMax
    <3>1. SerialFrom(g, i) /\ g[Len(g)].at = ltNow
      BY <1>2, <1>5, <2>1 DEF SerialFrom
    <3>. QED
      BY <1>5, <1>15, <2>1, <3>1, CountsAreFew
  <2>. QED
    BY <1>0, <2>1 DEF FailuresLock
<1>18. LockedAfter'
  <2>1. ASSUME row.until > ltNow, NEW u \in LtThreads PROVE LtAt(u, "idle")' \/ u \in ltEarly'
    <3>1. CASE u = t
      BY <1>11, <3>1
    <3>2. CASE u # t /\ row.until > ltRow.until
      BY <1>0, <1>12, <3>2
    <3>3. CASE u # t /\ ~(row.until > ltRow.until)
      <4>1. row.until = ltRow.until
        <5>1. row.until \in Nat /\ ltRow.until \in Nat
          BY <1>1, LtNoRowIs
        <5>. QED
          BY <3>3, <5>1
      <4>2. LtAt(u, "idle") \/ u \in ltEarly
        BY <2>1, <4>1 DEF LtInv, LockedAfter, LtLocked
      <4>. QED
        BY <1>0, <1>12, <3>3, <4>2
    <3>. QED
      BY <3>1, <3>2, <3>3
  <2>. QED
    BY <1>0, <2>1 DEF LockedAfter, LtLocked
<1>. QED
  BY <1>8, <1>9, <1>10, <1>13, <1>14, <1>16, <1>17, <1>18 DEF LtInv

LEMMA FirstFailureKeeps ==
    ASSUME LtInv, NEW t \in LtThreads, LtAt(t, "count"), ltReq[t].seen = LtNoRow, ltRow = LtNoRow,
           LtCounted(t, FirstFailure, FALSE)
    PROVE  LtInv'
<1>1. /\ ltNow \in 1 .. LtMaxTime /\ ltNow \in Nat /\ ltNow >= 1 /\ ltFailed \in Seq(LtFailures)
      /\ ltReq[t].alone \in BOOLEAN /\ TimesInOrder(ltFailed) /\ \A i \in DOMAIN ltFailed : ltFailed[i].at <= ltNow
  BY LtNoRowIs DEF LtInv, LtTypes, LtOrdered
<1>2. /\ FirstFailure.n = 1 /\ FirstFailure.start = ltNow
      /\ FirstFailure.until = IF 1 >= LtMax THEN ltNow + LtWindow ELSE 0
  BY DEF FirstFailure, LtEnough
<1>3. FirstFailure \in LtRows
  <2>1. /\ ltNow \in 0 .. LtMaxTime
        /\ FirstFailure.until \in 0 .. LtMaxTime + LtWindow
    BY <1>1, <1>2, LtNoRowIs
  <2>. QED
    BY <2>1, <1>2 DEF FirstFailure, LtRows
<1>4. FirstFailure # LtNoRow /\ FirstFailure.start >= 1
  BY <1>1, <1>2, LtNoRowIs
<1>5. FirstFailure.until <= ltNow + LtWindow /\ FirstFailure.until >= ltRow.until
  BY <1>1, <1>2, LtNoRowIs
<1>6. IF FirstFailure.until = 0 THEN FirstFailure.n < LtMax ELSE FirstFailure.until >= ltNow + LtWindow
  BY <1>1, <1>2, LtNoRowIs
<1>7. Since(Append(ltFailed, [at |-> ltNow, serial |-> ltReq[t].alone]), 1, ltNow)
  <2>1. [at |-> ltNow, serial |-> ltReq[t].alone] \in LtFailures
    BY <1>1 DEF LtFailures
  <2>2. Since(ltFailed, 0, ltNow)
    BY DEF Since
  <2>. QED
    BY <1>1, <2>1, <2>2, SinceGrows
<1>8. \A u \in LtThreads \ {t} : LtAt(u, "count") => ltReq[u].of = "gone" \/ ltReq[u].seen = LtNoRow
  BY DEF LtInv, SeenIs
<1>9. FirstFailure.start <= ltNow
  BY <1>1, <1>2
<1>10. Since(Append(ltFailed, [at |-> ltNow, serial |-> ltReq[t].alone]), FirstFailure.n, FirstFailure.start)
  BY <1>2, <1>7
<1>11. \A u \in LtThreads \ {t} : LtAt(u, "count") =>
          /\ ltReq[u].of = "gone" /\ FirstFailure # LtNoRow => FirstFailure.start = ltNow
          /\ ltReq[u].of # "gone" /\ ltReq[u].seen # LtNoRow =>
                /\ FirstFailure # LtNoRow
                /\ \/ FirstFailure.start = ltReq[u].seen.start
                   \/ (FirstFailure.start = ltNow /\ LtPassed(ltReq[u].seen))
                /\ FirstFailure.start = ltReq[u].seen.start /\ LtPassed(ltReq[u].seen) =>
                      FirstFailure.n \in {0, ltReq[u].seen.n}
  BY <1>2, <1>8
<1>12. FirstFailure.n >= 1 /\ FALSE \in BOOLEAN
  BY <1>2
<1>. QED
  BY <1>3, <1>4, <1>5, <1>6, <1>9, <1>10, <1>11, <1>12, LtCountedKeeps

LEMMA RaisesKeeps ==
    ASSUME LtInv, NEW t \in LtThreads, LtAt(t, "count"), LtMisses(t), LtCounted(t, ltRow, ltCarried)
    PROVE  LtInv'
<1>. DEFINE row == ltRow
<1>1. /\ ltRow \in LtRows /\ ltCarried \in BOOLEAN /\ ltNow \in Nat /\ ltFailed \in Seq(LtFailures)
      /\ ltReq[t].alone \in BOOLEAN /\ TimesInOrder(ltFailed) /\ \A i \in DOMAIN ltFailed : ltFailed[i].at <= ltNow
      /\ ltRow.n \in Nat /\ ltRow.start \in Nat /\ ltRow.until \in Nat
  BY LtNoRowIs DEF LtInv, LtTypes, LtOrdered
<1>2. /\ row = LtNoRow \/ row.start >= 1
      /\ row.start <= ltNow /\ row.until <= ltNow + LtWindow /\ row.until >= ltRow.until
  BY <1>1 DEF LtInv, RowCounts
<1>3. row # LtNoRow /\ ~ltCarried =>
        Since(Append(ltFailed, [at |-> ltNow, serial |-> ltReq[t].alone]), row.n, row.start)
  <2>1. [at |-> ltNow, serial |-> ltReq[t].alone] \in LtFailures
    BY <1>1 DEF LtFailures
  <2>2. ltRow # LtNoRow /\ ~ltCarried => Since(ltFailed, ltRow.n, ltRow.start)
    BY DEF LtInv, RowCounts
  <2>. QED
    BY <1>1, <2>1, <2>2, SinceGrows
<1>4. ~ltReq[t].alone
  BY DEF LtInv, AloneKnows, LtMisses
<1>5. \A u \in LtThreads \ {t} : LtAt(u, "count") =>
          /\ ltReq[u].of = "gone" /\ row # LtNoRow => row.start = ltNow
          /\ ltReq[u].of # "gone" /\ ltReq[u].seen # LtNoRow =>
                /\ row # LtNoRow
                /\ row.start = ltReq[u].seen.start \/ (row.start = ltNow /\ LtPassed(ltReq[u].seen))
                /\ row.start = ltReq[u].seen.start /\ LtPassed(ltReq[u].seen) =>
                      row.n \in {0, ltReq[u].seen.n}
  BY DEF LtInv, SeenIs
<1>6. LtCounted(t, row, ltCarried) /\ row \in LtRows
  BY <1>1
<1>. HIDE DEF row
<1>. QED
  BY <1>1, <1>2, <1>3, <1>4, <1>5, <1>6, LtCountedKeeps

LEMMA RecordedKeeps ==
    ASSUME LtInv, NEW t \in LtThreads, LtAt(t, "count"), LtFinds(t),
           LtCounted(t, Recorded(ltReq[t].seen), LtCarries(t))
    PROVE  LtInv'
<1>. DEFINE seen == ltReq[t].seen
            new  == Recorded(seen)
            x == [at |-> ltNow, serial |-> ltReq[t].alone]
<1>0. /\ ltRow \in LtRows /\ ltCarried \in BOOLEAN /\ ltNow \in 1 .. LtMaxTime /\ ltFailed \in Seq(LtFailures)
      /\ ltReq[t].alone \in BOOLEAN /\ seen \in LtRows /\ ltReq[t].of \in {"row", "carried", "gone"}
      /\ TimesInOrder(ltFailed) /\ \A i \in DOMAIN ltFailed : ltFailed[i].at <= ltNow
  BY DEF LtInv, LtTypes, LtOrdered
<1>1. /\ ltNow \in Nat /\ ltNow >= 1 /\ ltRow.n \in Nat /\ ltRow.start \in Nat /\ ltRow.until \in Nat
      /\ seen.n \in Nat /\ seen.start \in Nat /\ LtWindow \in Nat /\ LtMax \in Nat /\ LtMax >= 1
      /\ LtMaxTime \in Nat
  BY <1>0, LtNoRowIs
<1>2. seen # LtNoRow /\ ltRow # LtNoRow
  BY DEF LtFinds
<1>3. /\ LtPassed(seen) <=> ltNow - seen.start > LtWindow
      /\ LtCount(seen) = IF LtPassed(seen) THEN 1 ELSE seen.n + 1
      /\ new.n = IF LtCount(seen) = seen.n THEN ltRow.n ELSE LtCount(seen)
      /\ new.start = IF LtPassed(seen) THEN ltNow ELSE ltRow.start
      /\ new.until = IF LtCount(seen) >= LtMax THEN ltNow + LtWindow ELSE ltRow.until
      /\ LtCarries(t) = IF LtCount(seen) = seen.n THEN ltCarried ELSE ~LtPassed(seen) /\ ltReq[t].of # "row"
  BY DEF LtPassed, LtCount, Recorded, LtEnough, LtCarries
<1>4. /\ LtCount(seen) \in Nat /\ LtCount(seen) >= 1
      /\ LtCount(seen) = seen.n => LtPassed(seen) /\ seen.n = 1
  BY <1>1, <1>3
<1>5. new \in LtRows
  <2>1. /\ new.n \in Nat /\ new.start \in 0 .. LtMaxTime /\ new.until \in 0 .. LtMaxTime + LtWindow
    <3>1. ltRow.start \in 0 .. LtMaxTime /\ ltRow.until \in 0 .. LtMaxTime + LtWindow
      BY <1>0 DEF LtRows
    <3>. QED
      BY <1>0, <1>1, <1>3, <1>4, <3>1
  <2>. QED
    BY <2>1 DEF Recorded, LtRows
<1>6. ltRow.start >= 1 /\ ltRow.start <= ltNow /\ ltRow.until <= ltNow + LtWindow
  BY <1>2 DEF LtInv, RowCounts
<1>7. LtCarries(t) \in BOOLEAN
  BY <1>0 DEF LtCarries
<1>8. \A u \in LtThreads : SeenIs(u) /\ AloneKnows(u)
  BY DEF LtInv
<1>9. x \in LtFailures /\ x.at = ltNow
  BY <1>0, <1>1 DEF LtFailures
\* The row that is there was started when the one that was read was, or just now.
<1>10. /\ ltRow.start = ltNow \/ ltRow.start = seen.start
       /\ ltReq[t].of # "gone" /\ LtPassed(seen) /\ ltRow.start = seen.start => ltRow.n \in {0, seen.n}
       /\ ltReq[t].of # "gone" /\ ~LtPassed(seen) => ltRow.start = seen.start
       /\ ltReq[t].of = "gone" => ltRow.start = ltNow
       /\ ltReq[t].of = "row" => Since(ltFailed, seen.n, seen.start)
  BY <1>2, <1>8 DEF SeenIs
<1>. HIDE DEF seen, new, x
<1>11. new # LtNoRow /\ new.start >= 1 /\ new.start <= ltNow /\ new.until <= ltNow + LtWindow /\ new.until >= ltRow.until
  <2>1. new.start >= 1 /\ new.start <= ltNow
    BY <1>1, <1>3, <1>6
  <2>2. new.until <= ltNow + LtWindow /\ new.until >= ltRow.until
    BY <1>1, <1>3, <1>6
  <2>. QED
    BY <2>1, <2>2, LtNoRowIs
<1>12. ASSUME ~LtCarries(t) PROVE Since(Append(ltFailed, x), new.n, new.start)
  <2>1. CASE LtCount(seen) = seen.n
    <3>1. LtPassed(seen) /\ new.n = ltRow.n /\ new.start = ltNow /\ ~ltCarried
      BY <1>3, <1>4, <1>12, <2>1
    <3>2. CASE ltRow.start = ltNow
      <4>1. Since(ltFailed, ltRow.n, ltNow)
        BY <1>2, <3>1, <3>2 DEF LtInv, RowCounts
      <4>. QED
        BY <1>0, <1>1, <1>9, <3>1, <4>1, SinceGrows
    <3>3. CASE ltRow.start # ltNow
      <4>1. ltRow.n \in {0, 1}
        BY <1>4, <1>10, <2>1, <3>1, <3>3
      <4>2. Since(ltFailed, 0, ltNow)
        BY DEF Since
      <4>. QED
        BY <1>0, <1>1, <1>9, <3>1, <4>1, <4>2, SinceGrows
    <3>. QED
      BY <3>2, <3>3
  <2>2. CASE LtCount(seen) # seen.n /\ LtPassed(seen)
    <3>1. new.n = 1 /\ new.start = ltNow
      BY <1>3, <2>2
    <3>2. Since(ltFailed, 0, ltNow)
      BY DEF Since
    <3>. QED
      BY <1>0, <1>1, <1>9, <3>1, <3>2, SinceGrows
  <2>3. CASE LtCount(seen) # seen.n /\ ~LtPassed(seen)
    <3>1. ltReq[t].of = "row" /\ new.n = seen.n + 1 /\ new.start = ltRow.start
      BY <1>3, <1>12, <2>3
    <3>2. ltRow.start = seen.start /\ Since(ltFailed, seen.n, seen.start)
      BY <1>10, <2>3, <3>1
    <3>3. seen.start <= ltNow
      BY <1>6, <3>2
    <3>. QED
      BY <1>0, <1>1, <1>9, <3>1, <3>2, <3>3, SinceGrows
  <2>. QED
    BY <2>1, <2>2, <2>3
<1>13. ASSUME NEW u \in LtThreads \ {t}, LtAt(u, "count"), ltReq[u].of = "gone" PROVE new.start = ltNow
  <2>1. ltRow.start = ltNow
    BY <1>2, <1>8, <1>13 DEF SeenIs
  <2>. QED
    BY <1>3, <2>1
<1>14. ASSUME NEW u \in LtThreads \ {t}, LtAt(u, "count"), ltReq[u].of # "gone", ltReq[u].seen # LtNoRow
       PROVE  /\ new.start = ltReq[u].seen.start \/ (new.start = ltNow /\ LtPassed(ltReq[u].seen))
              /\ new.start = ltReq[u].seen.start /\ LtPassed(ltReq[u].seen) => new.n \in {0, ltReq[u].seen.n}
  <2>. DEFINE its == ltReq[u].seen
  <2>1. /\ ltRow.start = its.start \/ (ltRow.start = ltNow /\ LtPassed(its))
        /\ ltRow.start = its.start /\ LtPassed(its) => ltRow.n \in {0, its.n}
    BY <1>8, <1>14 DEF SeenIs
  <2>2. its.start \in Nat /\ (LtPassed(its) <=> ltNow - its.start > LtWindow)
    BY LtNoRowIs DEF LtPassed, LtInv, LtTypes
  <2>. HIDE DEF its
  <2>3. LtPassed(its) => its.start # ltNow
    BY <1>1, <2>2
  <2>4. CASE new.start = ltNow
    <3>1. new.start = its.start \/ LtPassed(its)
      <4>1. CASE ltRow.start = ltNow
        BY <2>1, <2>4, <4>1
      <4>2. CASE ltRow.start # ltNow
        <5>1. LtPassed(seen) /\ ltRow.start = seen.start /\ ltRow.start = its.start
          BY <1>3, <1>10, <2>1, <2>4, <4>2
        <5>. QED
          BY <1>3, <2>2, <5>1
      <4>. QED
        BY <4>1, <4>2
    <3>. QED
      BY <2>3, <2>4, <3>1 DEF its
  <2>5. CASE new.start # ltNow
    <3>1. new.start = ltRow.start /\ ~LtPassed(seen) /\ ltRow.start = its.start /\ ltRow.start = seen.start
      BY <1>3, <1>10, <2>1, <2>5
    <3>2. ~LtPassed(its)
      BY <1>3, <2>2, <3>1
    <3>. QED
      BY <3>1, <3>2 DEF its
  <2>. QED
    BY <2>4, <2>5
<1>15. ASSUME ltReq[t].alone
       PROVE  /\ new.n >= 1
              /\ IF new.until = 0 THEN new.n < LtMax ELSE new.until >= ltNow + LtWindow
              /\ \/ new.n >= ltRow.n + 1 /\ new.start = ltRow.start
                 \/ new.start = ltNow /\ ltNow - ltRow.start > LtWindow
  <2>1. seen = ltRow /\ ltRow.until = 0
    BY <1>8, <1>15 DEF AloneKnows, LtAt, seen
  <2>2. new.n = LtCount(seen)
    BY <1>3, <2>1
  <2>3. IF new.until = 0 THEN new.n < LtMax ELSE new.until >= ltNow + LtWindow
    BY <1>1, <1>3, <1>4, <2>1, <2>2
  <2>4. LtPassed(seen) => new.start = ltNow /\ ltNow - ltRow.start > LtWindow
    BY <1>3, <2>1
  <2>5. ~LtPassed(seen) => new.n >= ltRow.n + 1 /\ new.start = ltRow.start
    BY <1>1, <1>3, <2>1, <2>2
  <2>. QED
    BY <1>4, <2>2, <2>3, <2>4, <2>5
<1>16. LtCounted(t, new, LtCarries(t))
  BY DEF new, seen
<1>17. ~LtCarries(t) => Since(Append(ltFailed, [at |-> ltNow, serial |-> ltReq[t].alone]), new.n, new.start)
  BY <1>12 DEF x
<1>18. \A u \in LtThreads \ {t} : LtAt(u, "count") =>
          /\ ltReq[u].of = "gone" /\ new # LtNoRow => new.start = ltNow
          /\ ltReq[u].of # "gone" /\ ltReq[u].seen # LtNoRow =>
                /\ new # LtNoRow
                /\ new.start = ltReq[u].seen.start \/ (new.start = ltNow /\ LtPassed(ltReq[u].seen))
                /\ new.start = ltReq[u].seen.start /\ LtPassed(ltReq[u].seen) =>
                      new.n \in {0, ltReq[u].seen.n}
  BY <1>11, <1>13, <1>14
<1>. QED
  BY <1>5, <1>7, <1>11, <1>15, <1>16, <1>17, <1>18, LtCountedKeeps

LEMMA RecordKeeps ==
    ASSUME LtInv, NEW t \in LtThreads, RecordFailure(t)
    PROVE  LtInv'
BY FirstFailureKeeps, RaisesKeeps, RecordedKeeps DEF RecordFailure

LEMMA UnlockKeeps ==
    ASSUME LtInv, NEW t \in LtThreads, Unlock(t)
    PROVE  LtInv'
<1>0. LtAt(t, "unlock") /\ UNCHANGED <<ltNow, ltFailed, ltEarly>>
  BY DEF Unlock, ltHistory
<1>1. /\ LtTypes /\ ltRow \in LtRows /\ ltReq[t].seen \in LtRows
      /\ ltRow.n \in Nat /\ ltRow.start \in Nat /\ ltRow.until \in Nat /\ ltNow \in Nat
  BY LtNoRowIs DEF LtInv, LtTypes
\* No run is under way, for its lock, if it has one, has not expired.
<1>2. ~\E i \in DOMAIN ltFailed : SerialFrom(ltFailed, i) /\ ltNow - ltFailed[i].at < LtWindow
  BY <1>0 DEF LtInv, SerialCount
<1>3. SerialCount' /\ FailuresLock' /\ LtOrdered'
  <2>1. SerialCount'
    BY <1>0, <1>2 DEF SerialCount
  <2>2. FailuresLock' /\ LtOrdered'
    BY <1>0 DEF LtInv, FailuresLock, LtOrdered
  <2>. QED
    BY <2>1, <2>2
<1>4. \A u \in LtThreads : SeenIs(u) /\ AloneKnows(u)
  BY DEF LtInv
<1>5. \A seen : LtPassed(seen)' <=> LtPassed(seen)
  BY <1>0 DEF LtPassed
<1>6. CASE LtMisses(t) /\ LtGoes(t, LtIdle) /\ UNCHANGED <<ltRow, ltCarried>>
  <2>1. ltReq'[t] = LtIdle /\ \A u \in LtThreads \ {t} : ltReq'[u] = ltReq[u]
    BY <1>1, <1>6, LtGoesIs
  <2>2. LtTypes'
    <3>1. LtIdle \in [step : {"idle", "unlock", "authenticate", "count"},
                      seen : LtRows, of : {"row", "carried", "gone"}, alone : BOOLEAN]
      BY LtNoRowIs DEF LtIdle
    <3>. QED
      BY <1>0, <1>1, <1>6, <3>1 DEF LtTypes, LtGoes
  <2>3. RowCounts'
    BY <1>0, <1>6 DEF LtInv, RowCounts
  <2>4. ASSUME NEW u \in LtThreads PROVE SeenIs(u)' /\ AloneKnows(u)'
    <3>1. CASE u = t
      BY <2>1, <3>1 DEF SeenIs, AloneKnows, LtAt, LtIdle
    <3>2. CASE u # t
      <4>1. ltReq'[u] = ltReq[u] /\ ~ltReq[u].alone
        BY <1>0, <1>4, <2>1, <3>2 DEF AloneKnows, LtAt
      <4>2. SeenIs(u)'
        BY <1>0, <1>4, <1>5, <1>6, <4>1 DEF SeenIs, LtAt
      <4>. QED
        BY <4>1, <4>2 DEF AloneKnows
    <3>. QED
      BY <3>1, <3>2
  <2>5. LockedAfter'
    BY <1>0, <1>6, <2>1 DEF LtInv, LockedAfter, LtLocked, LtAt, LtIdle
  <2>. QED
    BY <1>3, <2>2, <2>3, <2>4, <2>5 DEF LtInv
<1>7. CASE LtFinds(t) /\ ~(LtMisses(t) /\ LtGoes(t, LtIdle) /\ UNCHANGED <<ltRow, ltCarried>>)
  <2>1. /\ LtGoes(t, [ltReq[t] EXCEPT !.step = "authenticate"])
        /\ ltRow' = [ltRow EXCEPT !.n = IF ltReq[t].seen.n = 0 THEN ltRow.n ELSE 0, !.until = 0]
        /\ ltCarried' = (ltCarried /\ ltReq[t].seen.n = 0)
        /\ ltRow # LtNoRow
    BY <1>7 DEF Unlock, LtFinds
  <2>2. /\ ltReq'[t] = [ltReq[t] EXCEPT !.step = "authenticate"]
        /\ \A u \in LtThreads \ {t} : ltReq'[u] = ltReq[u]
    BY <1>1, <2>1, LtGoesIs
  <2>3. /\ ltRow'.n \in {0, ltRow.n} /\ ltRow'.start = ltRow.start /\ ltRow'.until = 0
        /\ ltReq[t].seen.n = 0 => ltRow'.n = ltRow.n
        /\ ltReq[t].seen.n # 0 => ltRow'.n = 0
    BY <1>1, <2>1 DEF LtRows
  <2>4. ltRow.start >= 1 /\ ltRow.start <= ltNow
    BY <2>1 DEF LtInv, RowCounts
  <2>5. ltRow' # LtNoRow
    BY <1>1, <2>3, <2>4, LtNoRowIs
  <2>6. LtTypes'
    <3>1. /\ ltReq[t] \in [step : {"idle", "unlock", "authenticate", "count"},
                           seen : LtRows, of : {"row", "carried", "gone"}, alone : BOOLEAN]
          /\ ltCarried' \in BOOLEAN
      BY <1>1, <2>1 DEF LtTypes
    <3>2. ltRow' \in LtRows
      <4>1. 0 \in 0 .. LtMaxTime + LtWindow /\ (IF ltReq[t].seen.n = 0 THEN ltRow.n ELSE 0) \in Nat
        BY <1>1, LtNoRowIs
      <4>. QED
        BY <1>1, <2>1, <4>1 DEF LtRows
    <3>. QED
      BY <1>0, <1>1, <2>1, <3>1, <3>2 DEF LtTypes, LtGoes
  <2>7. RowCounts'
    <3>1. ~ltCarried' => Since(ltFailed, ltRow'.n, ltRow'.start)
      <4>1. ~ltCarried => Since(ltFailed, ltRow.n, ltRow.start)
        BY <2>1 DEF LtInv, RowCounts
      <4>2. \A time : Since(ltFailed, 0, time)
        BY DEF Since
      <4>. QED
        BY <2>1, <2>3, <4>1, <4>2
    <3>. QED
      BY <1>0, <1>1, <2>3, <2>4, <3>1, LtNoRowIs DEF RowCounts
  <2>8. ASSUME NEW u \in LtThreads PROVE SeenIs(u)'
    <3>1. CASE u = t
      <4>1. ltReq'[t].step = "authenticate"
        BY <1>1, <2>2 DEF LtTypes
      <4>. QED
        BY <3>1, <4>1 DEF SeenIs, LtAt
    <3>2. CASE u # t
      <4>1. ltReq'[u] = ltReq[u] /\ SeenIs(u)
        BY <1>4, <2>2, <3>2
      <4>. QED
        BY <1>0, <1>5, <2>1, <2>3, <2>5, <4>1 DEF SeenIs, LtAt
    <3>. QED
      BY <3>1, <3>2
  <2>9. ASSUME NEW u \in LtThreads PROVE AloneKnows(u)'
    <3>1. CASE u = t
      <4>1. /\ ltReq'[t].alone = ltReq[t].alone /\ ltReq'[t].of = ltReq[t].of
            /\ ltReq'[t].step = "authenticate"
        BY <1>1, <2>2 DEF LtTypes
      <4>. QED
        BY <1>4, <2>2, <2>3, <3>1, <4>1 DEF AloneKnows, LtAt
    <3>2. CASE u # t
      <4>1. ltReq'[u] = ltReq[u] /\ ~ltReq[u].alone
        BY <1>0, <1>4, <2>2, <3>2 DEF AloneKnows, LtAt
      <4>. QED
        BY <4>1 DEF AloneKnows
    <3>. QED
      BY <3>1, <3>2
  <2>10. LockedAfter'
    BY <1>0, <1>1, <2>3 DEF LockedAfter, LtLocked
  <2>. QED
    BY <1>3, <2>6, <2>7, <2>8, <2>9, <2>10 DEF LtInv
<1>. QED
  BY <1>6, <1>7 DEF Unlock

LEMMA WrongPasswordKeeps ==
    ASSUME LtInv, NEW t \in LtThreads, WrongPassword(t)
    PROVE  LtInv'
<1>. DEFINE of == IF ltCarried THEN "carried" ELSE "row"
            r == [ltReq[t] EXCEPT !.step = "count", !.seen = ltRow, !.of = of]
<1>0. /\ LtAt(t, "authenticate") /\ LtGoes(t, r)
      /\ UNCHANGED <<ltRow, ltNow, ltCarried, ltFailed, ltEarly>>
  BY DEF WrongPassword, ltHistory
<1>1. /\ LtTypes /\ ltRow \in LtRows /\ ltRow.n \in Nat /\ ltRow.start \in Nat
      /\ ltReq[t] \in [step : {"idle", "unlock", "authenticate", "count"},
                       seen : LtRows, of : {"row", "carried", "gone"}, alone : BOOLEAN]
  BY LtNoRowIs DEF LtInv, LtTypes
<1>2. /\ r.step = "count" /\ r.seen = ltRow /\ r.of = of /\ r.alone = ltReq[t].alone
      /\ r \in [step : {"idle", "unlock", "authenticate", "count"},
                seen : LtRows, of : {"row", "carried", "gone"}, alone : BOOLEAN]
  BY <1>1
<1>3. of # "gone" /\ (of = "row" => ~ltCarried)
  OBVIOUS
<1>. HIDE DEF r, of
<1>4. ltReq'[t] = r /\ \A u \in LtThreads \ {t} : ltReq'[u] = ltReq[u]
  BY <1>0, <1>1, LtGoesIs
<1>5. LtTypes'
  BY <1>0, <1>1, <1>2 DEF LtTypes, LtGoes
<1>6. LtOrdered' /\ RowCounts' /\ FailuresLock'
  BY <1>0 DEF LtInv, LtOrdered, RowCounts, FailuresLock
<1>7. \A u \in LtThreads : SeenIs(u) /\ AloneKnows(u)
  BY DEF LtInv
<1>8. ASSUME NEW u \in LtThreads PROVE SeenIs(u)'
  <2>1. CASE u = t
    <3>1. ltRow # LtNoRow /\ ~ltCarried => Since(ltFailed, ltRow.n, ltRow.start)
      BY DEF LtInv, RowCounts
    <3>. QED
      BY <1>0, <1>2, <1>3, <1>4, <2>1, <3>1 DEF SeenIs, LtAt
  <2>2. CASE u # t
    BY <1>0, <1>4, <1>7, <2>2 DEF SeenIs, LtAt, LtPassed
  <2>. QED
    BY <2>1, <2>2
<1>9. ASSUME NEW u \in LtThreads PROVE AloneKnows(u)'
  <2>1. CASE u = t
    <3>1. ltReq[t].alone => ltRow.until = 0 /\ \A v \in LtThreads \ {t} : LtAt(v, "idle")
      BY <1>0, <1>7 DEF AloneKnows, LtAt
    <3>. QED
      BY <1>0, <1>2, <1>3, <1>4, <2>1, <3>1 DEF AloneKnows, LtAt
  <2>2. CASE u # t
    <3>1. ltReq'[u] = ltReq[u] /\ ~ltReq[u].alone
      BY <1>0, <1>4, <1>7, <2>2 DEF AloneKnows, LtAt
    <3>. QED
      BY <3>1 DEF AloneKnows
  <2>. QED
    BY <2>1, <2>2
<1>10. SerialCount'
  <2>1. \A u \in LtThreads : ~LtAt(u, "unlock") => ~LtAt(u, "unlock")'
    BY <1>2, <1>4 DEF LtAt
  <2>. QED
    BY <1>0, <2>1 DEF LtInv, SerialCount
<1>11. LockedAfter'
  <2>1. \A u \in LtThreads : LtAt(u, "idle") => LtAt(u, "idle")'
    BY <1>0, <1>4 DEF LtAt
  <2>. QED
    BY <1>0, <2>1 DEF LtInv, LockedAfter, LtLocked
<1>. QED
  BY <1>5, <1>6, <1>8, <1>9, <1>10, <1>11 DEF LtInv

LEMMA LoginKeeps ==
    ASSUME LtInv, NEW t \in LtThreads, LoginSucceeds(t)
    PROVE  LtInv'
<1>0. /\ LtAt(t, "authenticate") /\ ltRow' = LtNoRow /\ ltCarried' = FALSE /\ ltNow' = ltNow
      /\ ltReq' = [u \in LtThreads |->
            IF u = t THEN LtIdle
            ELSE IF ltReq[u].step \in {"count", "unlock"} /\ ltReq[u].seen # LtNoRow
            THEN [ltReq[u] EXCEPT !.of = "gone"]
            ELSE ltReq[u]]
      /\ ltEarly' = ltEarly \ {t}
      /\ ltFailed' = [i \in DOMAIN ltFailed |-> [ltFailed[i] EXCEPT !.serial = FALSE]]
  BY DEF LoginSucceeds
<1>1. /\ LtTypes /\ ltNow \in Nat /\ ltNow >= 1
      /\ \A u \in LtThreads :
            ltReq[u] \in [step : {"idle", "unlock", "authenticate", "count"},
                          seen : LtRows, of : {"row", "carried", "gone"}, alone : BOOLEAN]
  BY LtNoRowIs DEF LtInv, LtTypes
<1>2. /\ ltReq'[t] = LtIdle
      /\ \A u \in LtThreads \ {t} :
            /\ ltReq'[u].step = ltReq[u].step /\ ltReq'[u].seen = ltReq[u].seen
            /\ ltReq'[u].alone = ltReq[u].alone
            /\ ltReq[u].step = "count" /\ ltReq[u].seen # LtNoRow => ltReq'[u].of = "gone"
            /\ ltReq'[u] \in [step : {"idle", "unlock", "authenticate", "count"},
                              seen : LtRows, of : {"row", "carried", "gone"}, alone : BOOLEAN]
  BY <1>0, <1>1
<1>3. /\ Len(ltFailed) \in Nat /\ DOMAIN ltFailed = 1 .. Len(ltFailed)
      /\ \A i \in 1 .. Len(ltFailed) : ltFailed[i] \in LtFailures
  BY <1>1 DEF LtTypes
<1>4. /\ ltFailed' \in Seq(LtFailures) /\ Len(ltFailed') = Len(ltFailed) /\ DOMAIN ltFailed' = DOMAIN ltFailed
      /\ \A i \in DOMAIN ltFailed : ltFailed'[i].at = ltFailed[i].at /\ ~ltFailed'[i].serial
  <2>1. \A y \in LtFailures : /\ [y EXCEPT !.serial = FALSE] \in LtFailures
                              /\ [y EXCEPT !.serial = FALSE].at = y.at
                              /\ ~[y EXCEPT !.serial = FALSE].serial
    BY DEF LtFailures
  <2>2. /\ DOMAIN ltFailed' = 1 .. Len(ltFailed)
        /\ \A i \in 1 .. Len(ltFailed) : ltFailed'[i] = [ltFailed[i] EXCEPT !.serial = FALSE]
    BY <1>0, <1>3
  <2>3. ltFailed' \in [1 .. Len(ltFailed) -> LtFailures]
    BY <1>0, <1>3, <2>1
  <2>4. ltFailed' \in Seq(LtFailures) /\ Len(ltFailed') = Len(ltFailed)
    BY <1>3, <2>3
  <2>5. ASSUME NEW i \in 1 .. Len(ltFailed) PROVE ltFailed'[i].at = ltFailed[i].at /\ ~ltFailed'[i].serial
    <3>. DEFINE y == ltFailed[i]
    <3>1. y \in LtFailures /\ ltFailed'[i] = [y EXCEPT !.serial = FALSE]
      BY <1>3, <2>2, <2>5
    <3>. HIDE DEF y
    <3>2. ltFailed'[i].at = y.at /\ ~ltFailed'[i].serial
      BY <2>1, <3>1
    <3>. QED
      BY <3>2 DEF y
  <2>. QED
    BY <1>3, <2>2, <2>4, <2>5
<1>5. LtTypes'
  <2>1. LtIdle \in [step : {"idle", "unlock", "authenticate", "count"},
                    seen : LtRows, of : {"row", "carried", "gone"}, alone : BOOLEAN]
    BY LtNoRowIs DEF LtIdle
  <2>2. ltReq' = [u \in LtThreads |-> ltReq'[u]]
    BY <1>0
  <2>3. \A u \in LtThreads :
           ltReq'[u] \in [step : {"idle", "unlock", "authenticate", "count"},
                          seen : LtRows, of : {"row", "carried", "gone"}, alone : BOOLEAN]
    BY <1>2, <2>1
  <2>4. ltReq' \in [LtThreads -> [step : {"idle", "unlock", "authenticate", "count"},
                                  seen : LtRows, of : {"row", "carried", "gone"}, alone : BOOLEAN]]
    BY <2>2, <2>3
  <2>. QED
    BY <1>0, <1>1, <1>4, <2>4, LtNoRowIs DEF LtTypes
<1>6. LtOrdered'
  <2>1. LtOrdered
    BY DEF LtInv
  <2>. QED
    BY <1>0, <1>4, <2>1 DEF LtOrdered, TimesInOrder
<1>7. RowCounts'
  BY <1>0, <1>1, LtNoRowIs DEF RowCounts
<1>8. ASSUME NEW u \in LtThreads PROVE SeenIs(u)'
  BY <1>0, <1>2 DEF SeenIs, LtAt, LtIdle
<1>9. ASSUME NEW u \in LtThreads PROVE AloneKnows(u)'
  <2>1. u # t => ~ltReq[u].alone
    BY <1>0 DEF LtInv, AloneKnows, LtAt
  <2>. QED
    BY <1>2, <2>1 DEF AloneKnows, LtIdle
<1>10. \A i : ~SerialFrom(ltFailed', i)
  BY <1>3, <1>4 DEF SerialFrom
<1>11. SerialCount'
  BY <1>10 DEF SerialCount
<1>12. FailuresLock'
  <2>1. \A i \in DOMAIN ltFailed' : ~\A k \in i .. Len(ltFailed') : ltFailed'[k].serial
    BY <1>10 DEF SerialFrom
  <2>. QED
    BY <2>1 DEF FailuresLock
<1>13. LockedAfter'
  BY <1>0, <1>1, LtNoRowIs DEF LockedAfter, LtLocked
<1>. QED
  BY <1>5, <1>6, <1>7, <1>8, <1>9, <1>11, <1>12, <1>13 DEF LtInv

LEMMA ArrivesKeeps ==
    ASSUME LtInv, NEW t \in LtThreads, LoginArrives(t)
    PROVE  LtInv'
<1>. DEFINE others == {u \in LtThreads : ~LtAt(u, "idle")}
            r == LtArrived(others = {})
<1>0. /\ LtAt(t, "idle") /\ ~LtLocked
      /\ ltReq' = [u \in LtThreads |-> IF u = t THEN r ELSE [ltReq[u] EXCEPT !.alone = FALSE]]
      /\ UNCHANGED <<ltRow, ltNow, ltCarried, ltFailed, ltEarly>>
  BY DEF LoginArrives, ltHistory
<1>1. /\ LtTypes /\ ltRow \in LtRows /\ ltRow.until \in Nat /\ ltNow \in Nat
      /\ \A u \in LtThreads :
            ltReq[u] \in [step : {"idle", "unlock", "authenticate", "count"},
                          seen : LtRows, of : {"row", "carried", "gone"}, alone : BOOLEAN]
  BY LtNoRowIs DEF LtInv, LtTypes
<1>2. /\ r.step = IF ltRow.until = 0 THEN "authenticate" ELSE "unlock"
      /\ r.seen = ltRow /\ r.of = "row" /\ r.alone = (others = {}) /\ r.alone \in BOOLEAN
      /\ r \in [step : {"idle", "unlock", "authenticate", "count"},
                seen : LtRows, of : {"row", "carried", "gone"}, alone : BOOLEAN]
  <2>1. (others = {}) \in BOOLEAN
    OBVIOUS
  <2>. HIDE DEF others
  <2>. QED
    BY <1>1, <2>1 DEF LtArrived
<1>3. /\ ltReq'[t] = r
      /\ \A u \in LtThreads \ {t} :
            /\ ltReq'[u].step = ltReq[u].step /\ ltReq'[u].seen = ltReq[u].seen
            /\ ltReq'[u].of = ltReq[u].of /\ ltReq'[u].alone = FALSE
            /\ ltReq'[u] \in [step : {"idle", "unlock", "authenticate", "count"},
                              seen : LtRows, of : {"row", "carried", "gone"}, alone : BOOLEAN]
  <2>. HIDE DEF r
  <2>. QED
    BY <1>0, <1>1
<1>4. r.alone => \A u \in LtThreads : LtAt(u, "idle")
  BY <1>2
<1>. HIDE DEF r, others
<1>5. LtTypes'
  <2>1. ltReq' = [u \in LtThreads |-> ltReq'[u]]
    BY <1>0
  <2>2. ltReq' \in [LtThreads -> [step : {"idle", "unlock", "authenticate", "count"},
                                  seen : LtRows, of : {"row", "carried", "gone"}, alone : BOOLEAN]]
    BY <1>2, <1>3, <2>1
  <2>. QED
    BY <1>0, <1>1, <2>2 DEF LtTypes
<1>6. LtOrdered' /\ RowCounts' /\ FailuresLock'
  BY <1>0 DEF LtInv, LtOrdered, RowCounts, FailuresLock
<1>7. ASSUME NEW u \in LtThreads PROVE SeenIs(u)'
  <2>1. CASE u = t
    BY <1>2, <1>3, <2>1 DEF SeenIs, LtAt
  <2>2. CASE u # t
    <3>1. SeenIs(u)
      BY DEF LtInv
    <3>. QED
      BY <1>0, <1>3, <2>2, <3>1 DEF SeenIs, LtAt, LtPassed
  <2>. QED
    BY <2>1, <2>2
<1>8. ASSUME NEW u \in LtThreads PROVE AloneKnows(u)'
  <2>1. CASE u = t
    <3>1. r.step = "unlock" => ltRow # LtNoRow
      BY <1>2, LtNoRowIs
    <3>2. r.alone => \A v \in LtThreads \ {t} : LtAt(v, "idle")'
      BY <1>3, <1>4 DEF LtAt
    <3>. QED
      BY <1>0, <1>2, <1>3, <2>1, <3>1, <3>2 DEF AloneKnows, LtAt
  <2>2. CASE u # t
    BY <1>3, <2>2 DEF AloneKnows
  <2>. QED
    BY <2>1, <2>2
<1>9. SerialCount'
  <2>1. ASSUME NEW i \in DOMAIN ltFailed, SerialFrom(ltFailed, i), ltNow - ltFailed[i].at < LtWindow
        PROVE  Counts(ltRow, ltFailed, i) /\ \A u \in LtThreads : ~LtAt(u, "unlock")'
    <3>1. Counts(ltRow, ltFailed, i) /\ \A u \in LtThreads : ~LtAt(u, "unlock")
      BY <2>1 DEF LtInv, SerialCount
    <3>2. ltRow.until = 0
      <4>1. ASSUME ltRow.until # 0 PROVE FALSE
        <5>1. ltRow.until >= ltFailed[Len(ltFailed)].at + LtWindow
          BY <3>1, <4>1 DEF Counts
        <5>2. /\ ltFailed \in Seq(LtFailures) /\ TimesInOrder(ltFailed)
          BY DEF LtInv, LtTypes, LtOrdered
        <5>3. /\ Len(ltFailed) \in DOMAIN ltFailed /\ i <= Len(ltFailed)
              /\ ltFailed[i] \in LtFailures /\ ltFailed[Len(ltFailed)] \in LtFailures
          BY <5>2
        <5>4. ltFailed[i].at <= ltFailed[Len(ltFailed)].at
          BY <5>2, <5>3 DEF TimesInOrder
        <5>5. ltFailed[i].at \in Nat /\ ltFailed[Len(ltFailed)].at \in Nat
          BY <5>3 DEF LtFailures
        <5>. QED
          BY <1>0, <1>1, <2>1, <5>1, <5>4, <5>5, LtNoRowIs DEF LtLocked
      <4>. QED
        BY <4>1
    <3>. QED
      BY <1>2, <1>3, <3>1, <3>2 DEF LtAt
  <2>. QED
    BY <1>0, <2>1 DEF SerialCount
<1>10. LockedAfter'
  BY <1>0 DEF LockedAfter, LtLocked
<1>. QED
  BY <1>5, <1>6, <1>7, <1>8, <1>9, <1>10 DEF LtInv

LEMMA TickKeeps ==
    ASSUME LtInv, LtTick
    PROVE  LtInv'
<1>0. /\ ltNow < LtMaxTime /\ ltNow' = ltNow + 1
      /\ \A t \in LtThreads : ~LtAt(t, "count") /\ ~LtAt(t, "unlock")
      /\ UNCHANGED <<ltRow, ltReq, ltCarried, ltFailed, ltEarly>>
  BY DEF LtTick, ltHistory
<1>1. /\ LtTypes /\ ltNow \in 1 .. LtMaxTime /\ ltNow \in Nat /\ ltRow.start \in Nat /\ ltRow.until \in Nat
      /\ \A i \in DOMAIN ltFailed : ltFailed[i].at \in Nat
  <2>1. LtTypes
    BY DEF LtInv
  <2>2. \A i \in DOMAIN ltFailed : ltFailed[i] \in LtFailures
    BY <2>1 DEF LtTypes
  <2>. QED
    BY <2>1, <2>2, LtNoRowIs DEF LtTypes, LtFailures
<1>2. LtTypes'
  BY <1>0, <1>1, LtNoRowIs DEF LtTypes
<1>3. LtOrdered'
  BY <1>0, <1>1 DEF LtInv, LtOrdered
<1>4. RowCounts'
  <2>1. RowCounts
    BY DEF LtInv
  <2>2. ltRow.start <= ltNow + 1 /\ ltRow.until <= ltNow + 1 + LtWindow
    BY <1>1, <2>1, LtNoRowIs DEF RowCounts
  <2>. QED
    BY <1>0, <2>1, <2>2 DEF RowCounts
<1>5. FailuresLock'
  BY <1>0 DEF LtInv, FailuresLock
<1>6. \A t \in LtThreads : SeenIs(t)' /\ AloneKnows(t)'
  BY <1>0 DEF LtInv, SeenIs, AloneKnows, LtAt
<1>7. SerialCount'
  <2>1. ASSUME NEW i \in DOMAIN ltFailed, ltNow + 1 - ltFailed[i].at < LtWindow
        PROVE  ltNow - ltFailed[i].at < LtWindow
    BY <1>1, <2>1, LtNoRowIs
  <2>2. ASSUME NEW i \in DOMAIN ltFailed, SerialFrom(ltFailed, i), ltNow' - ltFailed[i].at < LtWindow
        PROVE  Counts(ltRow, ltFailed, i) /\ \A t \in LtThreads : ~LtAt(t, "unlock")'
    <3>1. ltNow + 1 - ltFailed[i].at < LtWindow
      BY <1>0, <1>1, <2>2
    <3>2. Counts(ltRow, ltFailed, i)
      BY <2>1, <2>2, <3>1 DEF LtInv, SerialCount
    <3>. QED
      BY <1>0, <3>2 DEF LtAt
  <2>3. ltFailed' = ltFailed /\ ltRow' = ltRow
    BY <1>0
  <2>. QED
    BY <2>2, <2>3 DEF SerialCount
<1>8. LockedAfter'
  <2>1. ltRow.until > ltNow + 1 => ltRow.until > ltNow
    BY <1>1
  <2>. QED
    BY <1>0, <2>1 DEF LtInv, LockedAfter, LtLocked, LtAt
<1>. QED
  BY <1>2, <1>3, <1>4, <1>5, <1>6, <1>7, <1>8 DEF LtInv

LEMMA LtNextKeeps == LtInv /\ [LtNext]_ltVars => LtInv'
<1>. SUFFICES ASSUME LtInv, [LtNext]_ltVars PROVE LtInv'
  OBVIOUS
<1>1. ASSUME NEW t \in LtThreads,
             \/ LoginArrives(t) \/ Unlock(t) \/ WrongPassword(t)
             \/ RecordFailure(t) \/ LoginSucceeds(t)
      PROVE  LtInv'
  BY <1>1, ArrivesKeeps, UnlockKeeps, WrongPasswordKeeps, RecordKeeps, LoginKeeps
<1>2. CASE LtTick
  BY <1>2, TickKeeps
<1>3. CASE UNCHANGED ltVars
  <2>1. UNCHANGED <<ltRow, ltNow, ltReq, ltCarried, ltFailed, ltEarly>>
    BY <1>3 DEF ltVars, ltHistory
  <2>2. LtTypes' /\ LtOrdered' /\ RowCounts' /\ FailuresLock'
    BY <2>1 DEF LtInv, LtTypes, LtOrdered, RowCounts, FailuresLock
  <2>3. \A t \in LtThreads : SeenIs(t)' /\ AloneKnows(t)'
    BY <2>1 DEF LtInv, SeenIs, AloneKnows, LtAt, LtPassed
  <2>4. SerialCount' /\ LockedAfter'
    BY <2>1 DEF LtInv, SerialCount, LockedAfter, LtAt, LtLocked
  <2>. QED
    BY <2>2, <2>3, <2>4 DEF LtInv
<1>. QED
  BY <1>1, <1>2, <1>3 DEF LtNext

-----------------------------------------------------------------------------
\* The invariant holds for any threads, limit, window and times: what a row
\* counts, what has become of the row a request has read, and what the failures
\* that were examined one after the other have made of the row.
THEOREM LtInvariance == LtSpec => []LtInv
<1>. QED
  BY LtInitial, LtNextKeeps, PTL DEF LtSpec

\* Every variable keeps its type.
THEOREM LtTypeCorrect == LtSpec => []LtTypeOK
<1>1. LtInv => LtTypeOK
  BY DEF LtInv, LtTypes, LtTypeOK
<1>. QED
  BY <1>1, LtInvariance, PTL

\* A commit that locks has counted to the limit since a start within the window.
LEMMA LocksAreEarned ==
    ASSUME LtInv, [LtNext]_ltVars
    PROVE  LockIsEarned
<1>. SUFFICES ASSUME ltRow'.until > ltRow.until, ~ltCarried'
              PROVE  /\ Len(ltFailed') >= LtMax
                     /\ ltNow - ltFailed'[Len(ltFailed') - LtMax + 1].at <= LtWindow
  BY DEF LockIsEarned
<1>0. /\ ltRow \in LtRows /\ ltRow.until \in Nat /\ ltNow \in Nat /\ ltFailed \in Seq(LtFailures)
      /\ LtMax \in Nat /\ LtMax >= 1 /\ LtWindow \in Nat
  BY LtNoRowIs DEF LtInv, LtTypes
<1>1. ~(ltRow' = ltRow)
  BY <1>0
<1>2. PICK t \in LtThreads : Unlock(t) \/ RecordFailure(t) \/ LoginSucceeds(t)
  BY <1>1 DEF LtNext, LoginArrives, WrongPassword, LtTick, ltVars
<1>3. RecordFailure(t)
  <2>1. LoginSucceeds(t) => ltRow'.until = 0
    BY LtNoRowIs DEF LoginSucceeds
  <2>2. Unlock(t) => ltRow' = ltRow \/ ltRow'.until = 0
    BY <1>0 DEF Unlock, LtRows
  <2>. QED
    BY <1>0, <1>1, <1>2, <2>1, <2>2
<1>. DEFINE x == [at |-> ltNow, serial |-> ltReq[t].alone]
<1>4. LtInv'
  BY <1>3, RecordKeeps
<1>5. /\ ltFailed' = Append(ltFailed, x) /\ ltNow' = ltNow /\ x \in LtFailures
      /\ ltFailed' \in Seq(LtFailures) /\ TimesInOrder(ltFailed') /\ ltRow' \in LtRows
  <2>1. ltFailed' = Append(ltFailed, x) /\ ltNow' = ltNow
    BY <1>3 DEF RecordFailure, LtCounted
  <2>2. x \in LtFailures
    BY <1>0 DEF LtFailures, LtInv, LtTypes
  <2>. QED
    BY <1>4, <2>1, <2>2 DEF LtInv, LtTypes, LtOrdered
<1>6. /\ Len(ltFailed) \in Nat /\ Len(ltFailed') = Len(ltFailed) + 1
      /\ ltFailed'[Len(ltFailed) + 1].at = ltNow
      /\ \A i \in 1 .. Len(ltFailed) + 1 : ltFailed'[i].at \in Nat
  <2>1. /\ Len(ltFailed) \in Nat /\ Len(ltFailed') = Len(ltFailed) + 1
        /\ ltFailed'[Len(ltFailed) + 1] = x
    BY <1>0, <1>5, LtAppended
  <2>2. \A i \in 1 .. Len(ltFailed) + 1 : ltFailed'[i] \in LtFailures
    BY <1>5, <2>1
  <2>. QED
    BY <2>1, <2>2 DEF LtFailures
<1>. HIDE DEF x
<1>7. ltRow' # LtNoRow /\ Since(ltFailed', ltRow'.n, ltRow'.start)
  <2>1. ltRow' # LtNoRow
    BY <1>0, LtNoRowIs
  <2>. QED
    BY <1>4, <2>1 DEF LtInv, RowCounts
<1>8. CASE LtMax = 1
  BY <1>0, <1>6, <1>8
<1>9. CASE LtMax # 1
  <2>1. \/ ltRow' = FirstFailure
        \/ ltRow' = Recorded(ltReq[t].seen)
    BY <1>1, <1>3 DEF RecordFailure, LtCounted
  <2>2. CASE ltRow' = FirstFailure
    BY <1>0, <1>9, <2>2, LtNoRowIs DEF FirstFailure, LtEnough
  <2>3. CASE ltRow' = Recorded(ltReq[t].seen)
    <3>. DEFINE seen == ltReq[t].seen
    <3>1. seen.n \in Nat /\ seen.start \in Nat /\ seen \in LtRows
      BY LtNoRowIs DEF LtInv, LtTypes
    <3>2. LtCount(seen) >= LtMax /\ LtCount(seen) # 1
      BY <1>0, <1>9, <2>3 DEF Recorded, LtEnough
    <3>3. ~LtPassed(seen) /\ LtCount(seen) = seen.n + 1
      BY <3>2 DEF LtCount
    <3>4. ltRow'.n = seen.n + 1 /\ ltRow'.start = ltRow.start
      BY <2>3, <3>1, <3>3 DEF Recorded
    <3>5. ltRow.start = seen.start \/ ltRow.start = ltNow
      <4>1. ltReq[t].seen # LtNoRow /\ ltRow # LtNoRow /\ LtAt(t, "count")
        <5>1. ~(ltReq[t].seen = LtNoRow /\ ltRow = LtNoRow) \/ ltRow' = FirstFailure
          BY <1>3, <1>1 DEF RecordFailure, LtCounted, LtFinds, LtMisses
        <5>2. LtFinds(t) \/ (ltReq[t].seen = LtNoRow /\ ltRow = LtNoRow)
          BY <1>3, <1>1 DEF RecordFailure, LtCounted
        <5>3. ltRow' = FirstFailure => LtMax <= 1
          BY <1>0, LtNoRowIs DEF FirstFailure, LtEnough
        <5>. QED
          BY <1>0, <1>3, <1>9, <5>1, <5>2, <5>3 DEF LtFinds, RecordFailure
      <4>. QED
        BY <4>1 DEF LtInv, SeenIs
    <3>6. ltNow - seen.start <= LtWindow
      BY <1>0, <3>1, <3>3 DEF LtPassed
    <3>7. ltNow - ltRow'.start <= LtWindow /\ ltRow'.start \in Nat /\ ltRow'.n \in Nat
      BY <1>0, <3>1, <3>4, <3>5, <3>6, LtNoRowIs
    <3>8. LtMax <= ltRow'.n
      BY <1>0, <3>1, <3>2, <3>3, <3>4
    <3>9. Since(ltFailed', LtMax, ltRow'.start)
      BY <1>0, <1>5, <1>7, <3>7, <3>8, SinceShorter
    <3>10. LtMax <= Len(ltFailed') /\ ltFailed'[Len(ltFailed') - LtMax + 1].at >= ltRow'.start
      BY <1>0, <3>9 DEF Since
    <3>11. ltFailed'[Len(ltFailed') - LtMax + 1].at \in Nat
      BY <1>0, <1>6, <3>10
    <3>. QED
      BY <1>0, <3>7, <3>10, <3>11
  <2>. QED
    BY <2>1, <2>2, <2>3
<1>. QED
  BY <1>8, <1>9

\* What takes a lock away had begun before it.
LEMMA LocksLast ==
    ASSUME LtInv, [LtNext]_ltVars
    PROVE  LockLasts
<1>. SUFFICES ASSUME LtLocked, ltRow'.until < ltRow.until
              PROVE  \E t \in ltEarly : ltReq[t].step \in {"authenticate", "unlock"} /\ ltReq'[t] # ltReq[t]
  BY DEF LockLasts
<1>0. ltRow \in LtRows /\ ltRow.until \in Nat /\ ltNow \in Nat /\ LtTypes
  BY LtNoRowIs DEF LtInv, LtTypes
<1>1. ~(ltRow' = ltRow)
  BY <1>0
<1>2. PICK t \in LtThreads : Unlock(t) \/ RecordFailure(t) \/ LoginSucceeds(t)
  BY <1>1 DEF LtNext, LoginArrives, WrongPassword, LtTick, ltVars
<1>3. ~RecordFailure(t)
  <2>1. SUFFICES ASSUME RecordFailure(t) PROVE FALSE
    OBVIOUS
  <2>2. (ltRow' = FirstFailure /\ ltRow = LtNoRow) \/ ltRow' = Recorded(ltReq[t].seen)
    BY <1>1, <2>1 DEF RecordFailure, LtCounted
  <2>3. ltRow # LtNoRow
    BY <1>0, LtNoRowIs DEF LtLocked
  <2>4. ltRow'.until \in {ltRow.until, ltNow + LtWindow}
    BY <2>2, <2>3 DEF Recorded
  <2>5. ltRow.until <= ltNow + LtWindow
    BY DEF LtInv, RowCounts
  <2>. QED
    BY <1>0, <2>4, <2>5, LtNoRowIs
<1>4. LtAt(t, "unlock") \/ LtAt(t, "authenticate")
  BY <1>2, <1>3 DEF Unlock, LoginSucceeds
<1>5. t \in ltEarly
  BY <1>4 DEF LtInv, LockedAfter, LtAt
<1>6. ltReq'[t] # ltReq[t]
  <2>1. CASE LoginSucceeds(t)
    BY <2>1 DEF LoginSucceeds, LtAt, LtIdle
  <2>2. CASE Unlock(t)
    <3>1. PICK r : LtGoes(t, r) /\ r.step # "unlock"
      BY <1>0, <2>2 DEF Unlock, LtIdle, LtTypes
    <3>. QED
      BY <1>0, <2>2, <3>1, LtGoesIs DEF Unlock, LtAt
  <2>. QED
    BY <1>2, <1>3, <2>1, <2>2
<1>. QED
  BY <1>4, <1>5, <1>6 DEF LtAt

\* An address is locked out only after as many wrong passwords within the
\* lockout time as record_failed_login allows, with the exception stated there;
\* twice as many one after the other are never examined within it; and is_locked_out
\* takes a lock away before its time only for a request that began before it.
THEOREM LockFair == LtSpec => LockIsFair
<1>1. LtInv /\ LtInv' /\ [LtNext]_ltVars => [LockIsEarned /\ FailuresLock' /\ LockLasts]_ltVars
  <2>1. LtInv' => FailuresLock'
    BY DEF LtInv
  <2>. QED
    BY <2>1, LocksAreEarned, LocksLast
<1>. QED
  BY <1>1, LtInvariance, PTL DEF LtSpec, LockIsFair
===========================================================================
