----------------------------- MODULE Databases -----------------------------
(***************************************************************************)
(* services/databases.py, routers/databases.py and the jobs database.create*)
(* database.update_user and database.delete (tasks.py): the rows of the    *)
(* panel against the schemas, accounts and grants of MariaDB, which        *)
(* commits every statement at once.  A job runs one statement after the    *)
(* other, each may fail, and what the earlier ones did stays.              *)
(***************************************************************************)
EXTENDS FiniteSets

CONSTANTS
    DbNames,
    DbUsers,
    NoDbUser

ASSUME DatabasesAssumption == NoDbUser \notin DbUsers

VARIABLES
    dbSchemas,    \* the databases MariaDB has
    dbAccounts,   \* the users it has
    dbGrants,     \* mysql.db: <<user, database>>; a DROP DATABASE leaves it alone
    dbRows,       \* the user of each row of site_databases, NoDbUser: no row
    dbJob,        \* the job that runs, or NoDbJob
    dbHalf,       \* history: databases a job has stopped halfway on since the
                  \* last that ended well
    dbRobbed      \* history: databases whose user lost its grants when another
                  \* database was reassigned

dbVars == <<dbSchemas, dbAccounts, dbGrants, dbRows, dbJob, dbHalf, dbRobbed>>
mariaDb == <<dbSchemas, dbAccounts, dbGrants>>

NoDbJob == [op |-> "none", step |-> "none"]

\* user: whom to grant; old: the user of the row when the job reads it.
DbJob == [op : {"create", "reassign", "delete", "site.delete"},
          step : {"schema", "account", "grant", "revoke", "tidy", "drop", "user", "row"},
          name : DbNames, user : DbUsers \cup {NoDbUser}, old : DbUsers \cup {NoDbUser}]

DbInit ==
    /\ dbSchemas = {} /\ dbAccounts = {} /\ dbGrants = {}
    /\ dbRows = [n \in DbNames |-> NoDbUser]
    /\ dbJob = NoDbJob
    /\ dbHalf = {} /\ dbRobbed = {}

StartDbJob(op, n, u, first) ==
    /\ dbJob = NoDbJob
    /\ dbJob' = [op |-> op, step |-> first, name |-> n, user |-> u, old |-> dbRows[n]]
    /\ UNCHANGED <<mariaDb, dbRows, dbHalf, dbRobbed>>

-----------------------------------------------------------------------------
\* A job may wait between its route and the worker, which checks again: what
\* was asked when the row was there does nothing once it has gone, and what
\* was asked when it was not finds the schema.  The wait is left out.

\* An account that does not exist needs a password, which may come with the
\* request.
AskCreate ==
    \E n \in DbNames \ dbSchemas, u \in DbUsers :
        dbRows[n] = NoDbUser /\ StartDbJob("create", n, u, "schema")

AskReassign ==
    \E n \in DbNames, u \in DbUsers :
        dbRows[n] # NoDbUser /\ StartDbJob("reassign", n, u, "account")

AskDelete ==
    \E n \in DbNames : dbRows[n] # NoDbUser /\ StartDbJob("delete", n, NoDbUser, "drop")

\* delete_site with delete_databases.
AskSiteDelete ==
    \E n \in DbNames : dbRows[n] # NoDbUser /\ StartDbJob("site.delete", n, NoDbUser, "drop")

DbAt(op, step) == dbJob.op = op /\ dbJob.step = step
DbGoTo(step)   == dbJob' = [dbJob EXCEPT !.step = step]

DbKnown(u) == u \in dbAccounts

\* Faulty variant: the row comes first.
CreateSchemaLate ==
    /\ DbAt("create", "schema")
    /\ dbRows' = [dbRows EXCEPT ![dbJob.name] = dbJob.user]
    /\ dbJob' = NoDbJob
    /\ UNCHANGED <<mariaDb, dbHalf, dbRobbed>>

CreateSchema ==
    /\ DbAt("create", "schema")
    /\ dbSchemas' = dbSchemas \cup {dbJob.name}
    /\ DbGoTo("account")
    /\ UNCHANGED <<dbAccounts, dbGrants, dbRows, dbHalf, dbRobbed>>

CreateAccount ==
    /\ DbAt("create", "account") \/ DbAt("reassign", "account")
    /\ dbAccounts' = dbAccounts \cup {dbJob.user}
    /\ DbGoTo("grant")
    /\ UNCHANGED <<dbSchemas, dbGrants, dbRows, dbHalf, dbRobbed>>

Grant ==
    /\ DbAt("create", "grant") \/ DbAt("reassign", "grant")
    /\ dbGrants' = dbGrants \cup {<<dbJob.user, dbJob.name>>}
    /\ DbGoTo(IF dbJob.op = "reassign" /\ dbJob.old # dbJob.user /\ DbKnown(dbJob.old)
              THEN "revoke" ELSE "row")
    /\ UNCHANGED <<dbSchemas, dbAccounts, dbRows, dbHalf, dbRobbed>>

\* REVOKE ALL PRIVILEGES, GRANT OPTION FROM old: on every database.
RevokeAll ==
    /\ DbAt("reassign", "revoke")
    /\ dbGrants' = {g \in dbGrants : g[1] # dbJob.old}
    /\ dbRobbed' = dbRobbed \cup {n \in DbNames \ {dbJob.name} : dbRows[n] = dbJob.old}
    /\ DbGoTo("tidy")
    /\ UNCHANGED <<dbSchemas, dbAccounts, dbRows, dbHalf>>

OtherGrants(u, n) == {g \in dbGrants : g[1] = u /\ g[2] # n}

\* DROP USER, which takes the grants the user has with it.
WithoutUser(u) ==
    /\ dbAccounts' = dbAccounts \ {u}
    /\ dbGrants' = {g \in dbGrants : g[1] # u}

\* The grant is deleted, and the user where mysql.db names no other database.
TidyOldUser ==
    /\ DbAt("reassign", "tidy")
    /\ IF OtherGrants(dbJob.old, dbJob.name) = {}
       THEN WithoutUser(dbJob.old)
       ELSE dbGrants' = dbGrants \ {<<dbJob.old, dbJob.name>>} /\ UNCHANGED dbAccounts
    /\ DbGoTo("row")
    /\ UNCHANGED <<dbSchemas, dbRows, dbHalf, dbRobbed>>

DropSchema ==
    /\ DbAt("delete", "drop") \/ DbAt("site.delete", "drop")
    /\ dbSchemas' = dbSchemas \ {dbJob.name}
    /\ DbGoTo("user")
    /\ UNCHANGED <<dbAccounts, dbGrants, dbRows, dbHalf, dbRobbed>>

\* Faulty variant: the user is dropped with its database.
DropUserAnyway ==
    /\ DbAt("delete", "user") \/ DbAt("site.delete", "user")
    /\ WithoutUser(dbJob.old)
    /\ DbGoTo("row")
    /\ UNCHANGED <<dbSchemas, dbRows, dbHalf, dbRobbed>>

DropLastUser ==
    /\ DbAt("delete", "user") \/ DbAt("site.delete", "user")
    /\ IF OtherGrants(dbJob.old, dbJob.name) = {}
       THEN WithoutUser(dbJob.old)
       ELSE UNCHANGED <<dbAccounts, dbGrants>>
    /\ DbGoTo("row")
    /\ UNCHANGED <<dbSchemas, dbRows, dbHalf, dbRobbed>>

\* delete_site notes that a drop failed and deletes the row all the same.
SiteDropFails ==
    /\ DbAt("site.delete", "drop") \/ DbAt("site.delete", "user")
    /\ DbGoTo("row")
    /\ UNCHANGED <<mariaDb, dbRows, dbHalf, dbRobbed>>

CommitDbRow ==
    /\ dbJob.step = "row"
    /\ dbRows' = [dbRows EXCEPT ![dbJob.name] =
                    IF dbJob.op \in {"create", "reassign"} THEN dbJob.user ELSE NoDbUser]
    /\ dbJob' = NoDbJob
    /\ dbHalf' = IF dbJob.op = "reassign" THEN dbHalf ELSE dbHalf \ {dbJob.name}
    /\ dbRobbed' = dbRobbed \ {dbJob.name}
    /\ UNCHANGED mariaDb

\* A statement or the commit raises, or the panel ends: nothing is taken back.
DbJobFails ==
    /\ dbJob # NoDbJob
    /\ dbJob' = NoDbJob
    /\ dbHalf' = dbHalf \cup {dbJob.name}
    /\ UNCHANGED <<mariaDb, dbRows, dbRobbed>>

\* The panel has nothing for a schema without a row; the operator drops it in
\* Adminer.
OperatorDrops ==
    /\ dbJob = NoDbJob
    /\ \E n \in dbSchemas :
           /\ dbRows[n] = NoDbUser
           /\ dbSchemas' = dbSchemas \ {n}
           /\ dbHalf' = dbHalf \ {n}
    /\ UNCHANGED <<dbAccounts, dbGrants, dbRows, dbJob, dbRobbed>>

DbNext ==
    \/ AskCreate \/ AskReassign \/ AskDelete \/ AskSiteDelete
    \/ CreateSchema \/ CreateAccount \/ Grant
    \/ RevokeAll \/ TidyOldUser \/ DropSchema \/ DropLastUser
    \/ SiteDropFails \/ CommitDbRow \/ DbJobFails \/ OperatorDrops

DbSpec == DbInit /\ [][DbNext]_dbVars

-----------------------------------------------------------------------------
\* The variables have their types, and a grant is some account's.
DbTypeOK ==
    /\ dbSchemas \subseteq DbNames /\ dbAccounts \subseteq DbUsers
    /\ dbGrants \subseteq dbAccounts \X DbNames
    /\ dbRows \in [DbNames -> DbUsers \cup {NoDbUser}]
    /\ dbJob \in DbJob \cup {NoDbJob}
    /\ dbHalf \subseteq DbNames /\ dbRobbed \subseteq DbNames

\* Databases between jobs, none of which has stopped halfway.
DbSettled(n) == dbJob = NoDbJob /\ n \notin dbHalf /\ dbRows[n] # NoDbUser

\* A database the panel lists is in MariaDB: create makes the row last, delete
\* removes it last, and a request that waited while the row appeared or went
\* does no harm.
DbRowIsReal == \A n \in DbNames : DbSettled(n) => n \in dbSchemas

\* The user a row names can use its database, whatever is done to others that
\* share the user, unless one of them was reassigned.
DbUserHasAccess ==
    \A n \in DbNames : DbSettled(n) /\ n \notin dbRobbed => <<dbRows[n], n>> \in dbGrants

\* A row stands for a database that its user can use.
RowsAreUsable == DbRowIsReal /\ DbUserHasAccess

\* "a user shared between two databases must survive one being deleted"
\* (databases.py:244): a deletion leaves every grant on other databases.
SharedUserSurvives ==
    [][dbJob.op \in {"delete", "site.delete"}
       => \A g \in dbGrants : g[2] # dbJob.name => g \in dbGrants']_dbVars

\* "Re-grant privileges for remaining databases of old_user if any"
\* (databases.py:215): a user keeps its other databases when one of them is
\* reassigned, no job ever having failed.
OtherGrantsRemain ==
    dbHalf = {} => \A n \in DbNames : DbSettled(n) => <<dbRows[n], n>> \in dbGrants
=============================================================================
