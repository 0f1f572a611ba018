----------------------------- MODULE FtpAccounts -----------------------------
(***************************************************************************)
(* services/ftp.py: an FTP account is a system user with a password, its   *)
(* vsftpd configuration, its line in /etc/vsftpd.userlist and its row, made *)
(* and taken away one after the other by jobs.  A site's folder uses the   *)
(* site's own user, any other a user made for it.                          *)
(***************************************************************************)
EXTENDS Integers, FiniteSets, Sequences

CONSTANTS
    FpSiteUser,    \* the system user of the one site
    FpNames,       \* names asked for
    FpDirs,        \* folders under the sites' root
    FpSiteDir,     \* the site's
    FpInside,      \* pairs <<d, e>>: folder d is inside folder e
    FpMaxJobs      \* bound: jobs

ASSUME FpAssumption == FpSiteUser \notin FpNames /\ FpSiteDir \in FpDirs

VARIABLES
    fpUsers,    \* system users that exist, of those considered here
    fpPass,     \* those with a password that opens
    fpConf,     \* the folder in a user's vsftpd configuration
    fpList,     \* /etc/vsftpd.userlist
    fpRows,     \* ftp_accounts
    fpSite,     \* the site exists
    fpQueue, fpJob, fpAsked,
    fpCut       \* history: users whose job failed or died half way

fpSystem == <<fpUsers, fpPass, fpConf, fpList>>
fpVars == <<fpSystem, fpRows, fpSite, fpQueue, fpJob, fpAsked, fpCut>>

FpAll == {FpSiteUser} \cup FpNames
FpNoDir == "none"
FpIdle == [steps |-> <<>>, user |-> FpSiteUser, dir |-> FpNoDir]

FpInit ==
    /\ fpUsers = {FpSiteUser} /\ fpPass = {}
    /\ fpConf = [u \in FpAll |-> FpNoDir] /\ fpList = {}
    /\ fpRows = {} /\ fpSite = TRUE
    /\ fpQueue = <<>> /\ fpJob = FpIdle /\ fpAsked = 0 /\ fpCut = {}

-----------------------------------------------------------------------------
(* routers/ftp.py *)

FpAsk(job) ==
    /\ fpAsked < FpMaxJobs
    /\ fpAsked' = fpAsked + 1
    /\ fpQueue' = Append(fpQueue, job)
    /\ UNCHANGED <<fpSystem, fpRows, fpSite, fpJob, fpCut>>

AskFtpAccount == \E u \in FpNames, d \in FpDirs : FpAsk([op |-> "create", user |-> u, dir |-> d])
AskFtpDelete  == \E r \in fpRows : FpAsk([op |-> "delete", user |-> r.user, dir |-> r.dir])

-----------------------------------------------------------------------------
(* The jobs *)

\* Faulty variant: a folder inside another's is not looked at.
ConflictingSame(d) == \E r \in fpRows : r.dir = d

\* _conflicting_account
Conflicting(d) == \E r \in fpRows : r.dir = d \/ <<r.dir, d>> \in FpInside \/ <<d, r.dir>> \in FpInside

FpUserOf(d, name) == IF d = FpSiteDir /\ fpSite THEN FpSiteUser ELSE name

\* _create_site_account, _create_dedicated_account
FpCreateSteps(u) ==
    IF u = FpSiteUser THEN <<"password", "config", "list", "restart", "row">>
    ELSE <<"user", "own", "password", "config", "list", "restart", "row">>

\* Faulty variant: the list keeps the user.
FpDeleteStepsListed(u) == <<"unconfig", IF u = FpSiteUser THEN "lock" ELSE "userdel", "unrow">>

\* delete_account
FpDeleteSteps(u) == <<"unconfig", "unlist", IF u = FpSiteUser THEN "lock" ELSE "userdel", "unrow">>

FtpJobBegins ==
    /\ fpJob = FpIdle /\ fpQueue # <<>>
    /\ fpQueue' = Tail(fpQueue)
    /\ LET j == Head(fpQueue)
           u == IF j.op = "create" THEN FpUserOf(j.dir, j.user) ELSE j.user
           known == \E r \in fpRows : r.user = u
           goes == IF j.op = "create" THEN ~Conflicting(j.dir) /\ (u = FpSiteUser \/ ~known) ELSE known IN
       fpJob' = IF ~goes THEN FpIdle
                ELSE [steps |-> IF j.op = "create" THEN FpCreateSteps(u) ELSE FpDeleteSteps(u),
                      user |-> u, dir |-> j.dir]
    /\ UNCHANGED <<fpSystem, fpRows, fpSite, fpAsked, fpCut>>

FpStepIs(step) == fpJob # FpIdle /\ Head(fpJob.steps) = step
FpThen == fpJob' = IF Len(fpJob.steps) = 1 THEN FpIdle ELSE [fpJob EXCEPT !.steps = Tail(@)]
FpRest == UNCHANGED <<fpSite, fpQueue, fpAsked, fpCut>>

\* useradd refuses a user that exists.
MakeFtpUser ==
    /\ FpStepIs("user") /\ fpJob.user \notin fpUsers
    /\ fpUsers' = fpUsers \cup {fpJob.user}
    /\ FpThen /\ FpRest /\ UNCHANGED <<fpPass, fpConf, fpList, fpRows>>

FpRuns ==
    /\ FpStepIs("own") \/ FpStepIs("restart")
    /\ FpThen /\ FpRest /\ UNCHANGED <<fpSystem, fpRows>>

SetFtpPassword ==
    /\ FpStepIs("password")
    /\ fpPass' = fpPass \cup {fpJob.user}
    /\ FpThen /\ FpRest /\ UNCHANGED <<fpUsers, fpConf, fpList, fpRows>>

WriteFtpConfig ==
    /\ FpStepIs("config") \/ FpStepIs("unconfig")
    /\ fpConf' = [fpConf EXCEPT ![fpJob.user] = IF FpStepIs("config") THEN fpJob.dir ELSE FpNoDir]
    /\ FpThen /\ FpRest /\ UNCHANGED <<fpUsers, fpPass, fpList, fpRows>>

WriteUserlist ==
    /\ FpStepIs("list") \/ FpStepIs("unlist")
    /\ fpList' = IF FpStepIs("list") THEN fpList \cup {fpJob.user} ELSE fpList \ {fpJob.user}
    /\ FpThen /\ FpRest /\ UNCHANGED <<fpUsers, fpPass, fpConf, fpRows>>

\* userdel's exit code is not looked at, nor that of passwd --lock.
RemoveFtpUser ==
    /\ FpStepIs("lock") \/ FpStepIs("userdel")
    /\ \E gone \in {{}, {fpJob.user}} :
          /\ fpPass' = fpPass \ gone
          /\ fpUsers' = IF FpStepIs("userdel") THEN fpUsers \ gone ELSE fpUsers
    /\ FpThen /\ FpRest /\ UNCHANGED <<fpConf, fpList, fpRows>>

CommitFtpRow ==
    /\ FpStepIs("row") \/ FpStepIs("unrow")
    /\ fpRows' = IF FpStepIs("row") THEN fpRows \cup {[user |-> fpJob.user, dir |-> fpJob.dir]}
                 ELSE {r \in fpRows : r.user # fpJob.user}
    /\ fpCut' = fpCut \ {fpJob.user}
    /\ FpThen /\ UNCHANGED <<fpSystem, fpSite, fpQueue, fpAsked>>

\* Any step may raise: nothing that has been done is taken back.
FtpJobFails ==
    /\ fpJob # FpIdle
    /\ fpJob' = FpIdle
    /\ fpCut' = fpCut \cup {fpJob.user}
    /\ UNCHANGED <<fpSystem, fpRows, fpSite, fpQueue, fpAsked>>

\* With nothing queued the end of the panel is as the failure of the job.
FpPanelDies ==
    /\ fpQueue # <<>>
    /\ fpQueue' = <<>> /\ fpJob' = FpIdle
    /\ fpCut' = IF fpJob = FpIdle THEN fpCut ELSE fpCut \cup {fpJob.user}
    /\ UNCHANGED <<fpSystem, fpRows, fpSite, fpAsked>>

\* delete_site, between these jobs: configuration, list and rows of the site;
\* userdel at the end may not come or fail.
FtpSiteDeleted ==
    /\ fpSite /\ fpJob = FpIdle
    /\ fpSite' = FALSE
    /\ fpConf' = [fpConf EXCEPT ![FpSiteUser] = FpNoDir]
    /\ fpList' = fpList \ {FpSiteUser}
    /\ fpRows' = {r \in fpRows : r.user # FpSiteUser}
    /\ \E gone \in {{}, {FpSiteUser}} : fpUsers' = fpUsers \ gone /\ fpPass' = fpPass \ gone
    /\ UNCHANGED <<fpQueue, fpJob, fpAsked, fpCut>>

FtpNext ==
    \/ AskFtpAccount \/ AskFtpDelete \/ FtpJobBegins
    \/ MakeFtpUser \/ FpRuns \/ SetFtpPassword \/ WriteFtpConfig \/ WriteUserlist
    \/ RemoveFtpUser \/ CommitFtpRow \/ FtpJobFails \/ FpPanelDies \/ FtpSiteDeleted

FtpSpec == FpInit /\ [][FtpNext]_fpVars

-----------------------------------------------------------------------------
FtpTypeOK ==
    /\ fpUsers \cup fpPass \cup fpList \cup fpCut \subseteq FpAll
    /\ fpConf \in [FpAll -> FpDirs \cup {FpNoDir}]
    /\ fpRows \subseteq [user : FpAll, dir : FpDirs]
    /\ fpJob.user \in FpAll /\ fpJob.dir \in FpDirs \cup {FpNoDir}

FpBusy(u) == u \in fpCut \/ (fpJob # FpIdle /\ fpJob.user = u)
FpLogsIn(u) == u \in fpUsers \cap fpPass \cap fpList

\* Whoever vsftpd lets in is on the page, and in the folder the page names;
\* and whoever is on the page gets in: unless the last job on that user
\* stopped half way.
LoginsAreRows ==
    \A u \in FpAll : ~FpBusy(u) =>
        {fpConf[u] : v \in {w \in {u} : FpLogsIn(w)}} = {r.dir : r \in {q \in fpRows : q.user = u}}

\* "ownership isn't shared, so it's first-come" (models.py 318): no two accounts have folders one inside the
\* other, whatever jobs waited when they were asked for.
FoldersApart ==
    \A r, q \in fpRows : r # q => r.dir # q.dir /\ <<r.dir, q.dir>> \notin FpInside

\* The page's rows are the accounts, each with a folder of its own.
AccountsAreRows == LoginsAreRows /\ FoldersApart
=============================================================================
