---------------------------- MODULE SiteLifecycle ----------------------------
(***************************************************************************)
(* services/sites.py and the handlers of tasks.py that call it: what a     *)
(* site owns besides its row in the database.  A site is an account, a     *)
(* vhost (with the unit of an application) and a PHP-FPM pool; the job of  *)
(* each operation changes them one after the other, commits the row on the *)
(* way, and may fail or die between any two steps.  Nothing undoes a step: *)
(* only the row is rolled back (session_scope).                            *)
(*                                                                         *)
(* Requests name a site by the id of its row (a creation by its name) and  *)
(* wait in the queue of the single worker, so that the row a request was   *)
(* checked against may have changed when its job starts.                   *)
(***************************************************************************)
EXTENDS Naturals, Sequences

CONSTANTS
    Sites,        \* names; each name has its own domain
    Versions,     \* PHP versions apt can install
    Ports,        \* ports of applications
    Roots,        \* folders a site can be served from
    None,         \* no row, no vhost, no version, no port, no job
    Operations,   \* the kinds of request the administrators make
    MaxAsked,     \* bound: requests in all
    MaxQueued,    \* bound: requests waiting
    MaxFaults     \* bound: commands that fail and deaths of the panel

ChangeOps == {"php", "ssl_on", "ssl_off", "webroot", "port"}
SiteOps   == {"create", "delete"} \cup ChangeOps
StackOps  == {"install", "uninstall"}

Settings == [php : Versions \cup {None}, ssl : BOOLEAN, port : Ports \cup {None}, root : Roots]
Vhosts   == [fastcgi : BOOLEAN, ssl : BOOLEAN, port : Ports \cup {None}, root : Roots]

\* A job: its site and the one its request was made for, the row as the handler
\* has changed it, the step it is at, whether HTTPS is asked of a creation
\* (and then tried with errors swallowed), and what a rebuild has still to render.
Jobs == [op : SiteOps \cup {"rebuild"}, site : Sites \cup {None}, meant : Sites \cup {None},
         draft : Settings \cup {None},
         step : {"account", "issue", "teardown", "unpool", "render", "forget", "rerender",
                 "reload", "userdel", "commit", "end"},
         https : BOOLEAN, left : SUBSET Sites]

ASSUME SiteLifecycleAssumption ==
    /\ None \notin Sites \cup Versions \cup Ports
    /\ None \notin Settings /\ None \notin Vhosts /\ None \notin Jobs
    /\ Roots # {}
    /\ Operations \subseteq SiteOps \cup StackOps \cup {"rebuild"}
    /\ MaxAsked \in Nat /\ MaxQueued \in Nat /\ MaxFaults \in Nat

VARIABLES
    rows,       \* rows[s]: the committed row of s, or None
    ids,        \* ids[s]: its primary key, 0 without a row
    accounts,   \* the sites whose system user exists
    vhost,      \* vhost[s]: what the enabled vhost and the unit of s say, or None
    pools,      \* pools[v]: the sites with a pool file of version v
    installed,  \* PHP versions installed
    certs,      \* the sites whose domain has a certificate on disk
    loaded,     \* the vhosts nginx runs with
    queue,      \* requests accepted and not started
    job,        \* the job that runs, or None
    asked,      \* requests so far
    faults,     \* faults so far
    spoiled     \* history: sites a job has left in the middle of its steps

files == <<accounts, vhost, pools, installed, certs, loaded>>
vars  == <<rows, ids, files, queue, job, asked, faults, spoiled>>

-----------------------------------------------------------------------------
(* Rows, what is rendered from them, and the steps of a job *)

IsApp(row) == row.port # None

\* The vhost names the socket of the site, which is the same for every version.
VhostOf(row) ==
    [fastcgi |-> row.php # None, ssl |-> row.ssl, port |-> row.port, root |-> row.root]

\* The step after each step of an operation.
CreateSteps  == [account |-> "render", render |-> "reload", reload |-> "commit", commit |-> "end"]
ChangeSteps  == [render |-> "reload", reload |-> "commit", commit |-> "end"]

PhpSteps     == [unpool |-> "render", render |-> "reload", reload |-> "commit", commit |-> "end"]
SslOnSteps   == [issue |-> "render", render |-> "reload", reload |-> "commit", commit |-> "end"]

\* Faulty variant: the account goes before the row.
DeleteStepsUserFirst ==
    [teardown |-> "unpool", unpool |-> "userdel", userdel |-> "forget", forget |-> "reload",
     reload |-> "end"]
DeleteSteps  ==
    [teardown |-> "unpool", unpool |-> "forget", forget |-> "reload", reload |-> "userdel",
     userdel |-> "end"]

\* Faulty variant: the files are written and nginx is not told.
RebuildStepsUnloaded == [rerender |-> "end", reload |-> "end"]
RebuildSteps == [rerender |-> "reload", reload |-> "end"]

StepsOf == [create |-> CreateSteps, delete |-> DeleteSteps, php |-> PhpSteps,
            ssl_on |-> SslOnSteps, ssl_off |-> ChangeSteps, webroot |-> ChangeSteps,
            port |-> ChangeSteps, rebuild |-> RebuildSteps]

FirstStep == [create |-> "account", delete |-> "teardown", php |-> "unpool",
              ssl_on |-> "issue", ssl_off |-> "render", webroot |-> "render",
              port |-> "render", rebuild |-> "rerender"]

Requests ==
    {r \in [op : SiteOps \cup StackOps \cup {"rebuild"}, site : Sites \cup {None},
            id : Nat, want : Settings] :
        /\ r.op \in SiteOps => r.site \in Sites
        /\ r.op \in StackOps => r.want.php \in Versions}

TakenPorts(s) == {rows[t].port : t \in {t \in Sites \ {s} : rows[t] # None}} \ {None}
PortFree(s, p) == p \notin TakenPorts(s)

Sited   == {s \in Sites : rows[s] # None}
\* SQLite gives a row the largest id in use plus one: AUTOINCREMENT is not declared.
IsNewId(n) == /\ \A s \in Sited : ids[s] < n
              /\ n = 1 \/ \E s \in Sited : ids[s] + 1 = n
Fault   == faults < MaxFaults /\ faults' = faults + 1

At(step)  == job # None /\ job.step = step
Advance   == job' = [job EXCEPT !.step = StepsOf[job.op][job.step]]
Spoil     == spoiled' = spoiled \cup ({job.site} \ {None})
\* The handler raises: session_scope rolls the row back, the files stay.
Fail      == job' = None /\ Spoil

Init ==
    /\ rows = [s \in Sites |-> None]
    /\ ids = [s \in Sites |-> 0]
    /\ accounts = {}
    /\ vhost = [s \in Sites |-> None]
    /\ pools = [v \in Versions |-> {}]
    /\ installed \in SUBSET Versions
    /\ certs = {}
    /\ loaded = [s \in Sites |-> None]
    /\ queue = <<>>
    /\ job = None
    /\ asked = 0
    /\ faults = 0
    /\ spoiled = {}

-----------------------------------------------------------------------------
(* Requests: what the pages check before they enqueue *)

Blank == [php |-> None, ssl |-> FALSE, port |-> None, root |-> CHOOSE r \in Roots : TRUE]

Ask(op, s, want) ==
    /\ op \in Operations
    /\ asked < MaxAsked
    /\ Len(queue) < MaxQueued
    /\ queue' = Append(queue, [op |-> op, site |-> s, want |-> want,
                               id |-> IF s = None THEN 0 ELSE ids[s]])
    /\ asked' = asked + 1
    /\ UNCHANGED <<rows, ids, files, job, faults, spoiled>>

\* An application has a port and no PHP.  A request that leaves the port to
\* allocate_port is one for the port it will be given.
AskCreate(s, want) ==
    /\ rows[s] = None
    /\ IsApp(want) => want.php = None
    /\ Ask("create", s, want)

AskDelete(s) == rows[s] # None /\ Ask("delete", s, Blank)
AskPhp(s, v) == rows[s] # None /\ ~IsApp(rows[s]) /\ Ask("php", s, [Blank EXCEPT !.php = v])
AskSsl(s)    == rows[s] # None /\ \E op \in {"ssl_on", "ssl_off"} : Ask(op, s, Blank)
AskRoot(s, r) == rows[s] # None /\ Ask("webroot", s, [Blank EXCEPT !.root = r])

AskPort(s, p) ==
    /\ rows[s] # None /\ IsApp(rows[s])
    /\ PortFree(s, p)
    /\ Ask("port", s, [Blank EXCEPT !.port = p])

AskStack(v)  == \E op \in StackOps : Ask(op, None, [Blank EXCEPT !.php = v])
AskRebuild   == Ask("rebuild", None, Blank)

-----------------------------------------------------------------------------
(* The worker takes a request; the handler checks it again *)

Request == Head(queue)
Idle  == job = None /\ queue # <<>>

\* The sites whose row has the id of the request: one, or none.
Named == {s \in Sited : ids[s] = Request.id}

Begin(s, draft) ==
    /\ job' = [op |-> Request.op, site |-> s, meant |-> Request.site, draft |-> draft,
               step |-> FirstStep[Request.op], https |-> Request.op = "create" /\ Request.want.ssl,
               left |-> IF Request.op = "rebuild" THEN Sited ELSE {}]
    /\ queue' = Tail(queue)
    /\ UNCHANGED <<rows, ids, files, asked, faults, spoiled>>

\* Faulty variant: the handler relies on the check the page has made.
AcceptedPortAnyway(op, s, want) ==
    /\ op = "php" => /\ ~IsApp(rows[s])
                     /\ want.php \in (installed \cup {None}) \ {rows[s].php}
    /\ op = "webroot" => want.root # rows[s].root
    /\ op = "port" => IsApp(rows[s])

\* The checks of the handlers, their "already" returns among them.
Accepted(op, s, want) ==
    /\ op = "php" => /\ ~IsApp(rows[s])
                     /\ want.php \in (installed \cup {None}) \ {rows[s].php}
    /\ op = "webroot" => want.root # rows[s].root
    /\ op = "port" => IsApp(rows[s]) /\ PortFree(s, want.port)

MayCreate(s, want) ==
    /\ rows[s] = None
    /\ IsApp(want) => PortFree(s, want.port)
    /\ want.php \in installed \cup {None}

\* _sites_using reads the rows.
Unused(v) == \A s \in Sited : rows[s].php # v

\* The row as the handler changes it; enable_ssl does so after the certificate.
Changed(op, s, want) ==
    [rows[s] EXCEPT !.php  = IF op = "php" THEN want.php ELSE @,
                    !.root = IF op = "webroot" THEN want.root ELSE @,
                    !.port = IF op = "port" THEN want.port ELSE @,
                    !.ssl  = @ /\ op # "ssl_off"]

StartCreate ==
    /\ Idle /\ Request.op = "create"
    /\ MayCreate(Request.site, Request.want)
    /\ Begin(Request.site, [Request.want EXCEPT !.ssl = FALSE])

StartChange ==
    /\ Idle /\ Request.op \in ChangeOps \cup {"delete"}
    /\ \E s \in Named :
          /\ Accepted(Request.op, s, Request.want)
          /\ Begin(s, Changed(Request.op, s, Request.want))

StartRebuild == Idle /\ Request.op = "rebuild" /\ Begin(None, None)

\* PhpProvider.install and uninstall touch nothing of a site: apt purge leaves
\* the pool files of the panel where they are.
Install ==
    /\ Idle /\ Request.op = "install"
    /\ installed' = installed \cup {Request.want.php}
    /\ queue' = Tail(queue)
    /\ UNCHANGED <<rows, ids, accounts, vhost, pools, certs, loaded, job, asked, faults, spoiled>>

\* Faulty variant: the version is removed although a site uses it.
UninstallAnyway ==
    /\ Idle /\ Request.op = "uninstall"
    /\ installed' = installed \ {Request.want.php}
    /\ queue' = Tail(queue)
    /\ UNCHANGED <<rows, ids, accounts, vhost, pools, certs, loaded, job, asked, faults, spoiled>>

Uninstall ==
    /\ Idle /\ Request.op = "uninstall" /\ Unused(Request.want.php)
    /\ installed' = installed \ {Request.want.php}
    /\ queue' = Tail(queue)
    /\ UNCHANGED <<rows, ids, accounts, vhost, pools, certs, loaded, job, asked, faults, spoiled>>

\* The handler refuses, or has nothing to do, before it has changed anything.
Refuse ==
    /\ Idle
    /\ \/ Request.op = "create" /\ ~MayCreate(Request.site, Request.want)
       \/ /\ Request.op \in ChangeOps \cup {"delete"}
          /\ \A s \in Named : ~Accepted(Request.op, s, Request.want)
       \/ Request.op = "uninstall" /\ ~Unused(Request.want.php)
    /\ queue' = Tail(queue)
    /\ UNCHANGED <<rows, ids, files, job, asked, faults, spoiled>>

-----------------------------------------------------------------------------
(* The steps of the jobs *)

\* An account left by an earlier site of that name is taken over.  useradd, or
\* the chown and chmod of the directories, may fail.
CreateAccount ==
    /\ At("account")
    /\ \/ accounts' = accounts \cup {job.site} /\ Advance /\ UNCHANGED <<faults, spoiled>>
       \/ accounts' \in {accounts, accounts \cup {job.site}} /\ Fail /\ Fault
    /\ UNCHANGED <<rows, ids, vhost, pools, installed, certs, loaded, queue, asked>>

\* Faulty variant: certbot's exit code is not looked at.
IssueUnseen ==
    /\ At("issue")
    /\ certs' \in {certs, certs \cup {job.site}}
    /\ job' = [job EXCEPT !.draft.ssl = TRUE, !.step = "render"]
    /\ UNCHANGED <<rows, ids, accounts, vhost, pools, installed, loaded, queue, asked, faults, spoiled>>

\* certbot.issue: without a certificate the job fails, or a creation that tries
\* HTTPS at its end goes on without it.
Issue ==
    /\ At("issue")
    /\ \/ /\ certs' = certs \cup {job.site}
          /\ job' = [job EXCEPT !.draft.ssl = TRUE, !.step = "render"]
          /\ UNCHANGED <<faults, spoiled>>
       \/ ~job.https /\ Fail /\ Fault /\ UNCHANGED certs
       \/ job.https /\ job' = [job EXCEPT !.step = "end"] /\ Fault /\ UNCHANGED <<certs, spoiled>>
    /\ UNCHANGED <<rows, ids, accounts, vhost, pools, installed, loaded, queue, asked>>

\* Faulty variant: the pool of the old version stays.
UnpoolNothing ==
    /\ At("unpool")
    /\ Advance
    /\ UNCHANGED <<rows, ids, files, queue, asked, faults, spoiled>>

\* _remove_all_pools looks at the installed versions only.
Without(s) == [v \in Versions |-> IF v \in installed THEN pools[v] \ {s} ELSE pools[v]]

Unpool ==
    /\ At("unpool")
    /\ pools' = Without(job.site)
    /\ Advance
    /\ UNCHANGED <<rows, ids, accounts, vhost, installed, certs, loaded, queue, asked, faults, spoiled>>

\* render_site writes the pool of the row's version; it removes others only
\* when the row has none.
WriteFiles(s, row) ==
    /\ vhost' = [vhost EXCEPT ![s] = VhostOf(row)]
    /\ pools' = IF row.php = None THEN Without(s) ELSE [pools EXCEPT ![row.php] = @ \cup {s}]

Render ==
    /\ At("render")
    /\ WriteFiles(job.site, job.draft)
    /\ Advance
    /\ UNCHANGED <<rows, ids, accounts, installed, certs, loaded, queue, asked, faults, spoiled>>

\* rebuild_all: the sites in any order, then the reload of panel.rebuild.
Rerender ==
    /\ At("rerender")
    /\ \/ \E s \in job.left : /\ WriteFiles(s, rows[s])
                             /\ job' = [job EXCEPT !.left = @ \ {s}]
       \/ job.left = {} /\ Advance /\ UNCHANGED <<vhost, pools>>
    /\ UNCHANGED <<rows, ids, accounts, installed, certs, loaded, queue, asked, faults, spoiled>>

\* NginxProvider.reload: nginx -t refuses a vhost whose certificate is not there,
\* and any configuration something else has broken.  HTTPS at the end of a
\* creation: the exception is swallowed and session_scope commits the flushed row.
Loadable == \A s \in Sites : vhost[s] # None /\ vhost[s].ssl => s \in certs

ReloadFails == IF Loadable THEN Fault ELSE UNCHANGED faults
BestEffort  == job.op = "ssl_on" /\ job.https

Reload ==
    /\ At("reload")
    /\ \/ Loadable /\ loaded' = vhost /\ Advance /\ UNCHANGED <<faults, spoiled>>
       \/ ~BestEffort /\ ReloadFails /\ Fail /\ UNCHANGED loaded
       \/ BestEffort /\ ReloadFails /\ Advance /\ Spoil /\ UNCHANGED loaded
    /\ UNCHANGED <<rows, ids, accounts, vhost, pools, installed, certs, queue, asked>>

Commit ==
    /\ At("commit")
    /\ rows' = [rows EXCEPT ![job.site] = job.draft]
    /\ IF ids[job.site] # 0 THEN UNCHANGED ids
       ELSE \E n \in 1..MaxAsked : IsNewId(n) /\ ids' = [ids EXCEPT ![job.site] = n]
    /\ Advance
    /\ UNCHANGED <<files, queue, asked, faults, spoiled>>

\* The workers, the unit and the vhost of a site that is deleted.
Teardown ==
    /\ At("teardown")
    /\ vhost' = [vhost EXCEPT ![job.site] = None]
    /\ Advance
    /\ UNCHANGED <<rows, ids, accounts, pools, installed, certs, loaded, queue, asked, faults, spoiled>>

Forget ==
    /\ At("forget")
    /\ rows' = [rows EXCEPT ![job.site] = None]
    /\ ids' = [ids EXCEPT ![job.site] = 0]
    /\ Advance
    /\ UNCHANGED <<files, queue, asked, faults, spoiled>>

\* userdel may fail; its exit code is not looked at.
Userdel ==
    /\ At("userdel")
    /\ \/ accounts' = accounts \ {job.site} /\ UNCHANGED faults
       \/ UNCHANGED accounts /\ Fault
    /\ Advance
    /\ UNCHANGED <<rows, ids, vhost, pools, installed, certs, loaded, queue, asked, spoiled>>

TryHttps ==
    /\ At("end") /\ job.op = "create" /\ job.https
    /\ job' = [job EXCEPT !.op = "ssl_on", !.step = "issue"]
    /\ UNCHANGED <<rows, ids, files, queue, asked, faults, spoiled>>

\* A creation that asked for HTTPS ends here too, when certbot is not installed.
Finish ==
    /\ At("end")
    /\ job' = None
    /\ UNCHANGED <<rows, ids, files, queue, asked, faults, spoiled>>

\* The panel dies: the transaction is rolled back, the queue is lost.
Crash ==
    /\ job # None
    /\ Fail /\ Fault
    /\ queue' = <<>>
    /\ UNCHANGED <<rows, ids, files, asked>>

RequestOfSite == \E s \in Sites :
    \/ \E want \in Settings : AskCreate(s, want)
    \/ AskDelete(s)
    \/ \E v \in Versions \cup {None} : AskPhp(s, v)
    \/ AskSsl(s)
    \/ \E r \in Roots : AskRoot(s, r)
    \/ \E p \in Ports : AskPort(s, p)

Start == StartCreate \/ StartChange \/ StartRebuild \/ Install \/ Uninstall \/ Refuse
Step  == \/ CreateAccount \/ Issue \/ Unpool \/ Render \/ Rerender \/ Reload \/ Commit
         \/ Teardown \/ Forget \/ Userdel \/ TryHttps \/ Finish

Next == \/ RequestOfSite
        \/ \E v \in Versions : AskStack(v)
        \/ AskRebuild
        \/ Start
        \/ Step
        \/ Crash

Spec == Init /\ [][Next]_vars

-----------------------------------------------------------------------------
(* Properties *)

\* Every variable stays in its type; a site has an id exactly while it has a row, and
\* no two rows share one.
TypeOK ==
    /\ rows \in [Sites -> Settings \cup {None}]
    /\ ids \in [Sites -> Nat]
    /\ \A s \in Sites : ids[s] = 0 <=> rows[s] = None
    /\ \A s, t \in Sited : ids[s] = ids[t] => s = t
    /\ accounts \subseteq Sites
    /\ vhost \in [Sites -> Vhosts \cup {None}]
    /\ pools \in [Versions -> SUBSET Sites]
    /\ installed \subseteq Versions
    /\ certs \subseteq Sites
    /\ loaded \in [Sites -> Vhosts \cup {None}]
    /\ queue \in Seq(Requests) /\ Len(queue) <= MaxQueued
    /\ job \in Jobs \cup {None}
    /\ asked \in 0..MaxAsked
    /\ faults \in 0..MaxFaults
    /\ spoiled \subseteq Sites

\* A site in the database has its system user, whatever failed or died before
\* (sites.py create_site, delete_site: the account comes first and goes last).
RowHasAccount == \A s \in Sited : s \in accounts

\* No site is on a PHP version that is not installed (php.py uninstall refuses).
VersionInUseStays == \A s \in Sited : rows[s].php \in installed \cup {None}

\* A vhost with TLS, on disk or loaded, has its certificate: a missing one would make
\* nginx refuse every reload of every site (sites.py enable_ssl issues first).
TlsHasCertificate ==
    \A s \in Sites, conf \in {vhost, loaded} : conf[s] # None /\ conf[s].ssl => s \in certs

\* Two applications never have one port, though a page checked the port before the job
\* ran (apps.py check_port_free).
PortsDistinct ==
    \A s, t \in Sited : s # t /\ IsApp(rows[s]) => rows[s].port # rows[t].port

\* What a row of the database counts on is there and its own, whichever jobs
\* failed, were refused or were overtaken by what others had changed.
RowIsSupported == RowHasAccount /\ VersionInUseStays /\ TlsHasCertificate /\ PortsDistinct

PoolsOf(s) == {v \in Versions : s \in pools[v]}

Undisturbed(s) == s \notin spoiled /\ ~(job # None /\ job.site = s)

\* On disk the site is what the row says: its vhost, and the pool of its version only.
Rendered(s, row) ==
    /\ vhost[s] = VhostOf(row)
    /\ PoolsOf(s) = {row.php} \ {None}

Erased(s) == vhost[s] = None /\ PoolsOf(s) = {}

Settled(s) ==
    /\ IF rows[s] = None THEN Erased(s) ELSE Rendered(s, rows[s])
    /\ loaded[s] = vhost[s]

\* Unless a job of the site stopped halfway, its files and what nginx runs are what its row
\* says, and one version has its pool; a site without a row has left none of them.
SettledIsServed == \A s \in Sites : Undisturbed(s) => Settled(s)

\* A rebuild that ends has put every site of the database in force, those that jobs had
\* left halfway too (renderer.py rebuild_all, "the recovery path").
RebuildRestores ==
    At("end") /\ job.op = "rebuild" =>
        \A s \in Sited : /\ loaded[s] = VhostOf(rows[s])
                         /\ rows[s].php # None => s \in pools[rows[s].php]

-----------------------------------------------------------------------------
(* The inductive invariant *)

\* While the transaction of a site is open: what has to be true of the row to come.
DraftSound ==
    job # None /\ job.draft # None =>
        /\ job.draft.php \in installed \cup {None}
        /\ job.draft.ssl => job.site \in certs
        /\ IsApp(job.draft) => PortFree(job.site, job.draft.port)

\* Where the job stands and what its site has by then.
JobPlaced ==
    job # None =>
        /\ job.step \in DOMAIN StepsOf[job.op] \cup {"end"}
        /\ job.op \in SiteOps <=> job.site # None
        /\ job.op \in SiteOps \ {"delete"} => job.draft # None
        /\ job.op = "create" => (job.site \in Sited <=> job.step = "end")
        /\ job.op = "create" /\ job.step # "account" => job.site \in accounts
        /\ job.op \in ChangeOps => job.site \in Sited
        /\ job.op = "delete" =>
              (job.site \in Sited <=> job.step \in {"teardown", "unpool", "forget"})
        /\ job.op = "rebuild" => job.left \subseteq Sited

RowTls == \A s \in Sited : rows[s].ssl => s \in certs

\* What every step keeps: the safety properties, and the state of the open transaction.
IInv ==
    /\ TypeOK
    /\ RowHasAccount
    /\ VersionInUseStays
    /\ RowTls
    /\ TlsHasCertificate
    /\ PortsDistinct
    /\ DraftSound
    /\ JobPlaced

\* How far a job has brought a site it found in order: settled until it touches a file,
\* then what the draft says on disk, and last what nginx runs.
SiteOnCourse ==
    job # None /\ job.op \in SiteOps /\ job.site \notin spoiled =>
        LET s == job.site IN
        /\ job.step \in {"account", "issue", "teardown", "end"} => Settled(s)
        /\ job.op = "php" /\ job.step = "unpool" => Settled(s)
        /\ job.op = "delete" /\ job.step # "teardown" =>
              /\ vhost[s] = None
              /\ PoolsOf(s) \subseteq IF job.step = "unpool" THEN installed ELSE {}
              /\ job.step = "userdel" => loaded[s] = None
        /\ job.step = "render" => PoolsOf(s) \subseteq installed \cap {job.draft.php}
        /\ job.op # "delete" /\ job.step \in {"reload", "commit"} => Rendered(s, job.draft)
        /\ job.step = "commit" => loaded[s] = vhost[s]

\* Only a change of the PHP version changes the version; a creation that goes on to HTTPS
\* goes on with the row it has committed.
DraftOnCourse ==
    job # None =>
        /\ job.op \in ChangeOps \ {"php"} /\ job.step # "end" =>
              job.draft.php = rows[job.site].php
        /\ job.op = "create" /\ job.step = "end" => job.draft = rows[job.site]

\* The vhost is what the row says, and the pool is there; of other versions there may be some.
Restored(s) ==
    /\ vhost[s] = VhostOf(rows[s])
    /\ rows[s].php # None => s \in pools[rows[s].php]

\* What a rebuild has rendered stays rendered, and is loaded at its end.
RebuildOnCourse ==
    job # None /\ job.op = "rebuild" =>
        /\ \A s \in Sited : ~(job.step = "rerender" /\ s \in job.left) => Restored(s)
        /\ job.step = "end" => \A s \in Sites : loaded[s] = vhost[s]

\* The second layer, which relies on the first.
ServedInv == SettledIsServed /\ SiteOnCourse /\ DraftOnCourse /\ RebuildOnCourse

\* The job of a request changes the site the request was made for.  routers/sites.py:
\* "Typing the domain is the confirmation: a delete that removes files is not recoverable".
ConfirmedSiteOnly == job # None => job.site = job.meant
=============================================================================
