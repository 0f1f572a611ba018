----------------------------- MODULE MCPanelParts -----------------------------
(***************************************************************************)
(* Small instances of the parts of the panel that keep state of their own  *)
(* and touch each other only through the job queue: one behaviour is one   *)
(* part's, the others resting in one of their initial states, so that the  *)
(* state space is the sum of theirs and not their product.                 *)
(***************************************************************************)
EXTENDS Firewall, SwapFile, Databases, ChunkedUpload, Fail2ban, ScanSchedules,
        FileTree, SiteWorkers, WebAccess, LoginThrottle, TerminalSession,
        FtpAccounts, CronTabs, SshKeys, SchemaRebuild, TLC

CONSTANTS
    www, shop, other,    \* folders: a site's, one in it, and one elsewhere
    v4, v6,              \* families of addresses
    c4, c6,              \* clients of SSH
    p22, p20to25, p2222  \* ports: SSH's, a range around it, one with 22 in it

VARIABLE part

Parts == {"firewall", "swap", "databases", "upload", "fail2ban", "scans", "files",
          "workers", "web", "login", "terminal", "ftp", "cron", "keys", "schema"}

-----------------------------------------------------------------------------
(* Values of constants *)

InsideOf == {<<shop, www>>}

FamilyOf == c4 :> v4 @@ c6 :> v6
SshTargets == [ports : {p22, p20to25, p2222}, from : {FwClients}] \cup [ports : {p22}, from : {{c4}}]

\* Three months, so that the 29th day, ticks of three to a day, and the end of
\* a month and of a week happen within the bound.
ScanMonths == {0, 3, 7, 10}
Nightly == [scanner |-> "rkhunter", frequency |-> "daily", hour |-> 1, weekday |-> 0, day |-> 1]
PlanChoices ==
    ("s1" :> {p \in ScanPlans : /\ p.scanner = "maldet"
                                /\ p.frequency # "weekly" => p.weekday = 0
                                /\ p.frequency # "monthly" => p.day = 1})
    @@ ("s2" :> {Nightly})

-----------------------------------------------------------------------------
\* A part that rests is in one state.
Rests(p, quiet) == part # p => quiet

PartsInit ==
    /\ part \in Parts
    /\ FwInit
    /\ SwInit
    /\ DbInit
    /\ UpInit
    /\ F2bInit /\ Rests("fail2ban", f2Row = CHOOSE c \in F2bConfigs \ F2bBad : TRUE)
    /\ ScanInit /\ Rests("scans", ssTools = {} /\ ssPlan = CHOOSE f \in [SsIds -> ScanPlans] : \A i \in SsIds : f[i] \in SsPlans[i])
    /\ FileTreeInit
    /\ WkInit
    /\ WaInit /\ Rests("web", \A s \in WaSites : waAcc[s] = {})
    /\ LtInit
    /\ TmInit
    /\ FpInit
    /\ CronInit
    /\ SkInit
    /\ SrInit /\ Rests("schema", srTable = SrAbsent)
Only(p) ==
    /\ part = p /\ UNCHANGED part
    /\ p # "firewall" => UNCHANGED fwVars
    /\ p # "swap" => UNCHANGED swVars
    /\ p # "databases" => UNCHANGED dbVars
    /\ p # "upload" => UNCHANGED upVars
    /\ p # "fail2ban" => UNCHANGED f2Vars
    /\ p # "scans" => UNCHANGED ssVars
    /\ p # "files" => UNCHANGED ftVars
    /\ p # "workers" => UNCHANGED wkVars
    /\ p # "web" => UNCHANGED waVars
    /\ p # "login" => UNCHANGED ltVars
    /\ p # "terminal" => UNCHANGED tmVars
    /\ p # "ftp" => UNCHANGED fpVars
    /\ p # "cron" => UNCHANGED ctVars
    /\ p # "keys" => UNCHANGED skVars
    /\ p # "schema" => UNCHANGED srVars

PartsNext ==
    \/ Only("firewall") /\ FwNext
    \/ Only("swap") /\ SwNext
    \/ Only("databases") /\ DbNext
    \/ Only("upload") /\ UpNext
    \/ Only("fail2ban") /\ F2bNext
    \/ Only("scans") /\ ScanNext
    \/ Only("files") /\ FileTreeNext
    \/ Only("workers") /\ WorkersNext
    \/ Only("web") /\ WebAccessNext
    \/ Only("login") /\ LtNext
    \/ Only("terminal") /\ TmNext
    \/ Only("ftp") /\ FtpNext
    \/ Only("cron") /\ CronNext
    \/ Only("keys") /\ SshNext
    \/ Only("schema") /\ SrNext

partsVars == <<part, fwVars, swVars, dbVars, upVars, f2Vars, ssVars, ftVars, wkVars, waVars, ltVars, tmVars, fpVars, ctVars, skVars, srVars>>

PartsSpec == PartsInit /\ [][PartsNext]_partsVars

\* The values of every part's variables have their types.
PartsTypeOK ==
    /\ part \in Parts
    /\ part = "firewall" => FwTypeOK
    /\ part = "swap" => SwTypeOK
    /\ part = "databases" => DbTypeOK
    /\ part = "upload" => UpTypeOK
    /\ part = "fail2ban" => F2bTypeOK
    /\ part = "scans" => ScanTypeOK
    /\ part = "files" => FtTypeOK
    /\ part = "workers" => WkTypeOK
    /\ part = "web" => WaTypeOK
    /\ part = "login" => LtTypeOK
    /\ part = "terminal" => TmTypeOK
    /\ part = "ftp" => FtpTypeOK
    /\ part = "cron" => CronTypeOK
    /\ part = "keys" => SshTypeOK
    /\ part = "schema" => SrTypeOK
===============================================================================
