---------------------------- MODULE SchemaRebuild ----------------------------
(***************************************************************************)
(* database.init_db at a start of the panel: create_all, the columns added *)
(* since, and the rebuild of a table whose site_id must become nullable    *)
(* (cron_jobs, and ftp_accounts in the same way).  Python's sqlite3 opens a *)
(* transaction for an INSERT but not for ALTER or CREATE, which are in     *)
(* force at once.                                                          *)
(***************************************************************************)
EXTENDS Integers, FiniteSets

CONSTANTS
    SrRows,         \* rows an older version has left
    SrColumns,      \* the additive columns
    SrMaxStarts     \* bound: starts of the panel

VARIABLES
    srTable,     \* the table, or SrAbsent
    srOld,       \* the one renamed aside, or SrAbsent
    srBegun,     \* rows copied by the transaction that is open
    srStep,      \* where init_db is; "down" between two runs of the panel
    srStarts,
    srWas,       \* history: the rows before the first start
    srCut        \* history: the panel died with the table renamed and not yet copied

srVars == <<srTable, srOld, srBegun, srStep, srStarts, srWas, srCut>>

SrTable(rows, nullable, columns) == [there |-> TRUE, rows |-> rows, nullable |-> nullable, columns |-> columns]
SrAbsent == [there |-> FALSE, rows |-> {}, nullable |-> FALSE, columns |-> {}]

\* A new machine, or a database of any earlier version: site_id became
\* nullable after the first columns had been added, or before.
SrInit ==
    /\ srTable \in {SrAbsent} \cup {SrTable(rows, nullable, columns) :
           rows \in SUBSET SrRows, nullable \in BOOLEAN, columns \in SUBSET SrColumns}
    /\ srOld = SrAbsent /\ srBegun = {}
    /\ srStep = "down" /\ srStarts = 0
    /\ srWas = srTable.rows /\ srCut = FALSE

SrAt(from, to) == srStep = from /\ srStep' = to
SrRest == UNCHANGED <<srStarts, srWas, srCut>>

StartInitDb ==
    /\ SrAt("down", "create")
    /\ srStarts < SrMaxStarts
    /\ srStarts' = srStarts + 1
    /\ UNCHANGED <<srTable, srOld, srBegun, srWas, srCut>>

\* Base.metadata.create_all: missing tables, of today's model.
CreateAll ==
    /\ SrAt("create", "columns")
    /\ srTable' = IF srTable.there THEN srTable ELSE SrTable({}, TRUE, SrColumns)
    /\ SrRest /\ UNCHANGED <<srOld, srBegun>>

\* _ensure_additive_columns, one ALTER after the other.
AddColumn ==
    /\ \E c \in SrColumns \ srTable.columns :
          /\ SrAt("columns", "columns")
          /\ srTable' = [srTable EXCEPT !.columns = @ \cup {c}]
    /\ SrRest /\ UNCHANGED <<srOld, srBegun>>

ColumnsAdded ==
    /\ srTable.columns = SrColumns
    /\ SrAt("columns", IF srTable.nullable THEN "up" ELSE "rename")
    /\ SrRest /\ UNCHANGED <<srTable, srOld, srBegun>>

RenameAside ==
    /\ SrAt("rename", "new")
    /\ srOld' = srTable /\ srTable' = SrAbsent
    /\ SrRest /\ UNCHANGED srBegun

CreateNew ==
    /\ SrAt("new", "copy")
    /\ srTable' = SrTable({}, TRUE, SrColumns)
    /\ SrRest /\ UNCHANGED <<srOld, srBegun>>

\* Faulty variant: the old table goes before the copy is in force.
CopyAndForget ==
    /\ SrAt("copy", "drop")
    /\ srBegun' = srOld.rows /\ srOld' = SrAbsent
    /\ srTable' = [srTable EXCEPT !.rows = {}]
    /\ SrRest

\* INSERT ... SELECT opens the transaction.
CopyRows ==
    /\ SrAt("copy", "drop")
    /\ srBegun' = srOld.rows
    /\ SrRest /\ UNCHANGED <<srTable, srOld>>

\* Faulty variant: nobody commits (connect() in place of begin()).
DropRolledBack ==
    /\ SrAt("drop", "up")
    /\ srBegun' = {}
    /\ SrRest /\ UNCHANGED <<srTable, srOld>>

\* DROP TABLE and the commit, in one.
DropOld ==
    /\ SrAt("drop", "up")
    /\ srTable' = [srTable EXCEPT !.rows = srBegun]
    /\ srOld' = SrAbsent /\ srBegun' = {}
    /\ SrRest

\* The panel ends, in the middle of init_db too: what was not committed is gone.
SrPanelEnds ==
    /\ srStep # "down" /\ srStep' = "down"
    /\ srBegun' = {}
    /\ srCut' = (srCut \/ srStep \in {"new", "copy", "drop"})
    /\ UNCHANGED <<srTable, srOld, srStarts, srWas>>

SrNext ==
    \/ StartInitDb \/ CreateAll \/ AddColumn \/ ColumnsAdded
    \/ RenameAside \/ CreateNew \/ CopyRows \/ DropOld \/ SrPanelEnds

SrSpec == SrInit /\ [][SrNext]_srVars

-----------------------------------------------------------------------------
SrTables == [there : BOOLEAN, rows : SUBSET SrRows, nullable : BOOLEAN, columns : SUBSET SrColumns]

SrTypeOK ==
    /\ srTable \in SrTables /\ srOld \in SrTables
    /\ srBegun \subseteq SrRows

\* The panel that is up has all the rows in the table it reads, whatever number
\* of starts were cut short, unless one was between the RENAME and the commit
\* of the copy: then every later start finds a table that is new and nullable,
\* and the rows stay in the one aside.
RowsArePlain ==
    srStep = "up" =>
        /\ srTable.nullable /\ srTable.columns = SrColumns
        /\ ~srCut => srTable.rows = srWas

\* No row is ever in neither of the tables.
NoRowIsLost == srWas \subseteq srTable.rows \cup srOld.rows

\* A rebuild keeps the rows, and the panel that is up finds them.
RowsAreKept == RowsArePlain /\ NoRowIsLost
=============================================================================
