------------------------- MODULE SiteLifecycleProofs -------------------------
(***************************************************************************)
(* Proofs about SiteLifecycle, for any sites, versions, ports, folders and *)
(* bounds: the inductive invariant and the safety properties it implies.   *)
(***************************************************************************)
EXTENDS SiteLifecycle, TLAPS

(***************************************************************************)
(* The steps of a job                                                      *)
(***************************************************************************)

\* What Advance makes of each step of each operation.
LEMMA StepTable ==
    /\ StepsOf["create"].account = "render"   /\ StepsOf["create"].render = "reload"
    /\ StepsOf["create"].reload = "commit"    /\ StepsOf["create"].commit = "end"
    /\ StepsOf["delete"].teardown = "unpool"  /\ StepsOf["delete"].unpool = "forget"
    /\ StepsOf["delete"].forget = "reload"    /\ StepsOf["delete"].reload = "userdel"
    /\ StepsOf["delete"].userdel = "end"
    /\ StepsOf["php"].unpool = "render"       /\ StepsOf["ssl_on"].issue = "render"
    /\ \A op \in ChangeOps : /\ StepsOf[op].render = "reload"
                             /\ StepsOf[op].reload = "commit"
                             /\ StepsOf[op].commit = "end"
    /\ StepsOf["rebuild"].rerender = "reload" /\ StepsOf["rebuild"].reload = "end"
  BY DEF StepsOf, ChangeOps, CreateSteps, DeleteSteps, PhpSteps, SslOnSteps, ChangeSteps,
         RebuildSteps

\* The steps an operation has.
LEMMA StepDomains ==
    /\ DOMAIN StepsOf["create"] = {"account", "render", "reload", "commit"}
    /\ DOMAIN StepsOf["delete"] = {"teardown", "unpool", "forget", "reload", "userdel"}
    /\ DOMAIN StepsOf["php"] = {"unpool", "render", "reload", "commit"}
    /\ DOMAIN StepsOf["ssl_on"] = {"issue", "render", "reload", "commit"}
    /\ \A op \in {"ssl_off", "webroot", "port"} :
          DOMAIN StepsOf[op] = {"render", "reload", "commit"}
    /\ DOMAIN StepsOf["rebuild"] = {"rerender", "reload"}
  BY DEF StepsOf, CreateSteps, DeleteSteps, PhpSteps, SslOnSteps, ChangeSteps, RebuildSteps

AllOps == SiteOps \cup {"rebuild"}

\* A step leads to another of the same operation, or to its end.
LEMMA StepsLead ==
    ASSUME NEW op \in AllOps, NEW step \in DOMAIN StepsOf[op]
    PROVE  /\ StepsOf[op][step] \in DOMAIN StepsOf[op] \cup {"end"}
           /\ step # "end"
  BY StepTable, StepDomains DEF AllOps, SiteOps, ChangeOps

StepNames == {"account", "issue", "teardown", "unpool", "render", "forget", "rerender",
              "reload", "userdel", "commit", "end"}

\* Changing the step of a job changes nothing else of it.
LEMMA StepChange ==
    ASSUME job \in Jobs, NEW st \in StepNames, job' = [job EXCEPT !.step = st]
    PROVE  /\ job' \in Jobs /\ job' # None /\ job'.step = st
           /\ job'.op = job.op /\ job'.site = job.site /\ job'.draft = job.draft
           /\ job'.left = job.left /\ job'.https = job.https
  BY SiteLifecycleAssumption DEF SiteLifecycleAssumption, Jobs, StepNames

\* A job that advances stays a job of its operation and its site.
LEMMA AdvanceKeeps ==
    ASSUME TypeOK, JobPlaced, job # None, job.step # "end", Advance
    PROVE  /\ job \in Jobs /\ job' \in Jobs /\ job' # None
           /\ job'.op = job.op /\ job'.site = job.site /\ job'.draft = job.draft
           /\ job'.left = job.left /\ job'.https = job.https
           /\ job'.step = StepsOf[job.op][job.step]
           /\ job'.step \in DOMAIN StepsOf[job.op] \cup {"end"}
<1>1. job \in Jobs /\ job.op \in AllOps /\ job.step \in DOMAIN StepsOf[job.op]
  BY DEF TypeOK, JobPlaced, Jobs, AllOps
<1>2. StepsOf[job.op][job.step] \in DOMAIN StepsOf[job.op] \cup {"end"}
  BY <1>1, StepsLead
<1>3. StepsOf[job.op][job.step] \in StepNames
  BY <1>1, <1>2, StepDomains DEF AllOps, SiteOps, ChangeOps, StepNames
<1> QED
  BY <1>1, <1>2, <1>3, StepChange DEF Advance

(***************************************************************************)
(* What an action that leaves the rows alone has to show                   *)
(***************************************************************************)

\* The sites with a row, their ports and what they use stay as they are.
LEMMA RowsKept ==
    ASSUME rows' = rows
    PROVE  /\ Sited' = Sited
           /\ \A s, p : PortFree(s, p)' = PortFree(s, p)
           /\ PortsDistinct' = PortsDistinct
  BY DEF Sited, PortFree, TakenPorts, PortsDistinct

\* The initial state satisfies the inductive invariant.
LEMMA InitIInv == Init => IInv
<1> SUFFICES ASSUME Init PROVE IInv
  OBVIOUS
<1> USE SiteLifecycleAssumption DEF SiteLifecycleAssumption, Init
<1>1. Sited = {}
  BY DEF Sited
<1>2. TypeOK
  BY <1>1 DEF TypeOK
<1> QED
  BY <1>1, <1>2 DEF IInv, RowHasAccount, VersionInUseStays, RowTls, TlsHasCertificate,
       PortsDistinct, DraftSound, JobPlaced

\* The conjuncts of the invariant but the types speak of these variables only.
LEMMA Untouched ==
    ASSUME IInv, UNCHANGED <<rows, accounts, vhost, installed, certs, loaded, job>>
    PROVE  /\ RowHasAccount' /\ VersionInUseStays' /\ RowTls' /\ TlsHasCertificate'
           /\ PortsDistinct' /\ DraftSound' /\ JobPlaced'
<1>1. Sited' = Sited /\ PortsDistinct' = PortsDistinct /\ \A s, p : PortFree(s, p)' = PortFree(s, p)
  BY RowsKept
<1> QED
  BY <1>1 DEF IInv, RowHasAccount, VersionInUseStays, RowTls, TlsHasCertificate, DraftSound,
       JobPlaced

\* The ids and their rows are typed whenever neither has changed.
LEMMA IdsKept ==
    ASSUME TypeOK, UNCHANGED <<rows, ids>>
    PROVE  /\ rows' \in [Sites -> Settings \cup {None}] /\ ids' \in [Sites -> Nat]
           /\ \A s \in Sites : ids'[s] = 0 <=> rows'[s] = None
           /\ \A s, t \in Sited' : ids'[s] = ids'[t] => s = t
  BY RowsKept DEF TypeOK

(***************************************************************************)
(* Requests                                                                *)
(***************************************************************************)

LEMMA BlankTyped ==
    /\ Blank \in Settings
    /\ \A v \in Versions \cup {None} : /\ [Blank EXCEPT !.php = v] \in Settings
                                       /\ [Blank EXCEPT !.php = v].php = v
    /\ \A p \in Ports : [Blank EXCEPT !.port = p] \in Settings
    /\ \A r \in Roots : [Blank EXCEPT !.root = r] \in Settings
<1>1. (CHOOSE r \in Roots : TRUE) \in Roots
  BY SiteLifecycleAssumption DEF SiteLifecycleAssumption
<1> QED
  BY <1>1 DEF Blank, Settings

\* A well-formed request joins the queue and changes nothing else.
LEMMA AskStep ==
    ASSUME IInv, NEW op, NEW s \in Sites \cup {None}, NEW want \in Settings,
           op \in SiteOps => s \in Sites, op \in StackOps => want.php \in Versions,
           Ask(op, s, want)
    PROVE  IInv'
<1> USE DEF IInv
<1>1. [op |-> op, site |-> s, want |-> want, id |-> IF s = None THEN 0 ELSE ids[s]] \in Requests
  <2>1. op \in SiteOps \cup StackOps \cup {"rebuild"}
    BY SiteLifecycleAssumption DEF SiteLifecycleAssumption, Ask
  <2>2. (IF s = None THEN 0 ELSE ids[s]) \in Nat
    BY DEF TypeOK
  <2> QED
    BY <2>1, <2>2 DEF Requests
<1>2. queue' \in Seq(Requests) /\ Len(queue') <= MaxQueued /\ asked' \in 0..MaxAsked
  BY <1>1, SiteLifecycleAssumption DEF SiteLifecycleAssumption, Ask, TypeOK
<1>3. TypeOK'
  BY <1>2, IdsKept DEF Ask, TypeOK, files
<1> QED
  BY <1>3, Untouched DEF Ask, files

\* Every page asks for well-formed requests.
LEMMA RequestStep ==
    IInv /\ (RequestOfSite \/ (\E v \in Versions : AskStack(v)) \/ AskRebuild) => IInv'
<1> SUFFICES ASSUME IInv, RequestOfSite \/ (\E v \in Versions : AskStack(v)) \/ AskRebuild
             PROVE  IInv'
  OBVIOUS
<1>1. ASSUME NEW s \in Sites, NEW want \in Settings, AskCreate(s, want) PROVE IInv'
  BY <1>1, AskStep DEF AskCreate, SiteOps, StackOps
<1>2. ASSUME NEW s \in Sites, AskDelete(s) PROVE IInv'
  BY <1>2, AskStep, BlankTyped DEF AskDelete, SiteOps, StackOps
<1>3. ASSUME NEW s \in Sites, NEW v \in Versions \cup {None}, AskPhp(s, v) PROVE IInv'
  BY <1>3, AskStep, BlankTyped DEF AskPhp, SiteOps, ChangeOps, StackOps
<1>4. ASSUME NEW s \in Sites, AskSsl(s) PROVE IInv'
  BY <1>4, AskStep, BlankTyped DEF AskSsl, SiteOps, ChangeOps, StackOps
<1>5. ASSUME NEW s \in Sites, NEW r \in Roots, AskRoot(s, r) PROVE IInv'
  BY <1>5, AskStep, BlankTyped DEF AskRoot, SiteOps, ChangeOps, StackOps
<1>6. ASSUME NEW s \in Sites, NEW p \in Ports, AskPort(s, p) PROVE IInv'
  BY <1>6, AskStep, BlankTyped DEF AskPort, SiteOps, ChangeOps, StackOps
<1>7. ASSUME NEW v \in Versions, AskStack(v) PROVE IInv'
  BY <1>7, AskStep, BlankTyped DEF AskStack, SiteOps, ChangeOps, StackOps
<1>8. ASSUME AskRebuild PROVE IInv'
  BY <1>8, AskStep, BlankTyped DEF AskRebuild, SiteOps, ChangeOps, StackOps
<1> QED
  BY <1>1, <1>2, <1>3, <1>4, <1>5, <1>6, <1>7, <1>8 DEF RequestOfSite

(***************************************************************************)
(* The start of a job                                                      *)
(***************************************************************************)

\* What the worker takes is a request, and what is left is a queue.
LEMMA Taken ==
    ASSUME TypeOK, Idle, queue' = Tail(queue)
    PROVE  /\ Request \in Requests /\ job = None
           /\ queue' \in Seq(Requests) /\ Len(queue') <= MaxQueued
  BY SiteLifecycleAssumption DEF SiteLifecycleAssumption, TypeOK, Idle, Request

\* A request the worker drops changes nothing.
LEMMA RefuseStep == IInv /\ Refuse => IInv'
<1> SUFFICES ASSUME IInv, Refuse PROVE IInv'
  OBVIOUS
<1>1. TypeOK'
  BY Taken, IdsKept DEF IInv, Refuse, TypeOK, files
<1> QED
  BY <1>1, Untouched DEF IInv, Refuse, files

\* Installing a version takes none from a site; removing one that no row names
\* neither.
LEMMA StackStep == IInv /\ (Install \/ Uninstall) => IInv'
<1> SUFFICES ASSUME IInv, Install \/ Uninstall PROVE IInv'
  OBVIOUS
<1> USE DEF IInv
<1>1. Request \in Requests /\ job = None /\ job' = None /\ rows' = rows
  BY Taken DEF Install, Uninstall
<1>2. Request.op \in StackOps
  BY DEF Install, Uninstall, StackOps
<1>3. Request.want.php \in Versions
  BY <1>1, <1>2 DEF Requests
<1>4. TypeOK'
  <2>1. installed' \subseteq Versions
    BY <1>3 DEF Install, Uninstall, TypeOK
  <2> QED
    BY <2>1, <1>1, Taken, IdsKept DEF Install, Uninstall, TypeOK
<1>5. VersionInUseStays'
  BY <1>1, RowsKept DEF Install, Uninstall, VersionInUseStays, Unused
<1>6. RowHasAccount' /\ RowTls' /\ TlsHasCertificate' /\ PortsDistinct'
  BY <1>1, RowsKept DEF Install, Uninstall, RowHasAccount, RowTls, TlsHasCertificate
<1> QED
  BY <1>1, <1>4, <1>5, <1>6 DEF DraftSound, JobPlaced

\* Begin makes a job of the request.
LEMMA BeginJob ==
    ASSUME TypeOK, Idle, Request.op \in AllOps,
           NEW s \in Sites \cup {None}, NEW draft \in Settings \cup {None}, Begin(s, draft)
    PROVE  /\ job' \in Jobs /\ job' # None
           /\ job'.op = Request.op /\ job'.site = s /\ job'.draft = draft
           /\ job'.step = FirstStep[Request.op]
           /\ job'.left = IF Request.op = "rebuild" THEN Sited ELSE {}
           /\ TypeOK'
<1>1. Request \in Requests /\ queue' \in Seq(Requests) /\ Len(queue') <= MaxQueued
  BY Taken DEF Begin
<1>2. FirstStep[Request.op] \in StepNames
  BY DEF AllOps, SiteOps, ChangeOps, FirstStep, StepNames
<1>3. (IF Request.op = "rebuild" THEN Sited ELSE {}) \in SUBSET Sites
  BY DEF Sited
<1>4. Request.site \in Sites \cup {None} /\ (Request.op = "create" /\ Request.want.ssl) \in BOOLEAN
  BY <1>1 DEF Requests
<1>5. job' \in Jobs
  BY <1>2, <1>3, <1>4 DEF Begin, Jobs, AllOps, StepNames
<1>6. job' # None
  BY <1>5, SiteLifecycleAssumption DEF SiteLifecycleAssumption
<1>7. TypeOK'
  BY <1>1, <1>5, IdsKept DEF Begin, TypeOK, files
<1> QED
  BY <1>5, <1>6, <1>7 DEF Begin

\* A job that begins: what the conjuncts about jobs ask of its site and its draft.
LEMMA BeginStep ==
    ASSUME IInv, Idle, Request.op \in AllOps,
           NEW s \in Sites \cup {None}, NEW draft \in Settings \cup {None}, Begin(s, draft),
           Request.op \in SiteOps <=> s # None,
           Request.op = "create" => s \notin Sited,
           Request.op \in ChangeOps \cup {"delete"} => s \in Sited,
           Request.op \in SiteOps => draft # None,
           draft # None => /\ draft.php \in installed \cup {None}
                           /\ draft.ssl => s \in certs
                           /\ IsApp(draft) => PortFree(s, draft.port)
    PROVE  IInv'
<1> USE DEF IInv
<1>1. /\ job' # None /\ TypeOK'
      /\ job'.op = Request.op /\ job'.site = s /\ job'.draft = draft
      /\ job'.step = FirstStep[Request.op]
      /\ job'.left = IF Request.op = "rebuild" THEN Sited ELSE {}
  BY BeginJob
<1>2. UNCHANGED <<rows, accounts, vhost, installed, certs, loaded>>
  BY DEF Begin, files
<1>3. Sited' = Sited /\ PortsDistinct' /\ \A t, p : PortFree(t, p)' = PortFree(t, p)
  BY <1>2, RowsKept
<1>4. RowHasAccount' /\ VersionInUseStays' /\ RowTls' /\ TlsHasCertificate'
  BY <1>2, <1>3 DEF RowHasAccount, VersionInUseStays, RowTls, TlsHasCertificate
<1>5. DraftSound'
  BY <1>1, <1>2, <1>3 DEF DraftSound, IsApp
<1>6. JobPlaced'
  <2>1. job'.step \in DOMAIN StepsOf[job'.op]
    BY <1>1, StepDomains DEF AllOps, SiteOps, ChangeOps, FirstStep
  <2>2. job'.op = "create" => job'.step = "account"
    BY <1>1 DEF FirstStep
  <2>3. job'.op = "delete" => job'.step = "teardown"
    BY <1>1 DEF FirstStep
  <2> QED
    BY <1>1, <1>3, <2>1, <2>2, <2>3 DEF JobPlaced, SiteOps, ChangeOps
<1> QED
  BY <1>1, <1>3, <1>4, <1>5, <1>6

\* The handlers begin with a draft the rows, the versions and the certificates bear out.
LEMMA StartStep == IInv /\ (StartCreate \/ StartChange \/ StartRebuild) => IInv'
<1> SUFFICES ASSUME IInv, StartCreate \/ StartChange \/ StartRebuild PROVE IInv'
  OBVIOUS
<1>0. Request \in Requests /\ Idle
  BY Taken DEF IInv, StartCreate, StartChange, StartRebuild, Begin
<1>1. CASE StartCreate
  <2> DEFINE draft == [Request.want EXCEPT !.ssl = FALSE]
  <2>1. Request.op = "create" /\ Request.site \in Sites /\ Request.want \in Settings
    BY <1>0, <1>1 DEF StartCreate, Requests, SiteOps
  <2>2. /\ draft \in Settings /\ ~draft.ssl
        /\ draft.php = Request.want.php /\ draft.port = Request.want.port
    BY <2>1 DEF Settings
  <2>3. draft # None /\ Request.site # None
    BY <2>1, <2>2, SiteLifecycleAssumption DEF SiteLifecycleAssumption
  <2>4. Request.site \notin Sited
    BY <1>1 DEF StartCreate, MayCreate, Sited
  <2>5. draft.php \in installed \cup {None} /\ (IsApp(draft) => PortFree(Request.site, draft.port))
    BY <1>1, <2>2 DEF StartCreate, MayCreate, IsApp
  <2> HIDE DEF draft
  <2>6. Begin(Request.site, draft)
    BY <1>1 DEF StartCreate, draft
  <2> QED
    BY <1>0, <2>1, <2>2, <2>3, <2>4, <2>5, <2>6, BeginStep DEF AllOps, SiteOps, ChangeOps
<1>2. CASE StartChange
  <2> DEFINE draft(s) == Changed(Request.op, s, Request.want)
  <2>1. PICK s \in Named : Accepted(Request.op, s, Request.want) /\ Begin(s, draft(s))
    BY <1>2 DEF StartChange
  <2>2. s \in Sited /\ s \in Sites /\ rows[s] \in Settings /\ s # None
    BY SiteLifecycleAssumption DEF SiteLifecycleAssumption, Named, Sited, IInv, TypeOK
  <2>3. Request.want \in Settings /\ Request.op \in ChangeOps \cup {"delete"}
    BY <1>0, <1>2 DEF Requests, StartChange
  <2>4. /\ draft(s) \in Settings
        /\ draft(s).php = IF Request.op = "php" THEN Request.want.php ELSE rows[s].php
        /\ draft(s).port = IF Request.op = "port" THEN Request.want.port ELSE rows[s].port
        /\ draft(s).ssl => rows[s].ssl
    BY <2>2, <2>3 DEF Changed, Settings
  <2>5. draft(s) # None
    BY <2>4, SiteLifecycleAssumption DEF SiteLifecycleAssumption
  <2>6. draft(s).php \in installed \cup {None}
    BY <2>1, <2>2, <2>4 DEF Accepted, IInv, VersionInUseStays
  <2>7. draft(s).ssl => s \in certs
    BY <2>2, <2>4 DEF IInv, RowTls
  <2>8. IsApp(draft(s)) => PortFree(s, draft(s).port)
    <3>1. IsApp(rows[s]) => PortFree(s, rows[s].port)
      BY <2>2 DEF IInv, PortsDistinct, PortFree, TakenPorts, Sited
    <3> QED
      BY <3>1, <2>1, <2>4 DEF Accepted, IsApp
  <2> HIDE DEF draft
  <2> QED
    BY <1>0, <2>1, <2>2, <2>3, <2>4, <2>5, <2>6, <2>7, <2>8, BeginStep
       DEF AllOps, SiteOps, ChangeOps
<1>3. CASE StartRebuild
  <2>1. Request.op = "rebuild" /\ Begin(None, None)
    BY <1>3 DEF StartRebuild
  <2> QED
    BY <1>0, <2>1, BeginStep DEF AllOps, SiteOps, ChangeOps
<1> QED
  BY <1>1, <1>2, <1>3

(***************************************************************************)
(* The steps of a job                                                      *)
(***************************************************************************)

\* A job that goes on to a step it has, with the same draft, while the rows, the
\* versions and the certificates stay.
LEMMA OnwardKeeps ==
    ASSUME IInv, job # None, job.step # "end", Advance,
           UNCHANGED <<rows, installed, certs>>
    PROVE  DraftSound' /\ Sited' = Sited /\ job' \in Jobs
<1>1. job'.site = job.site /\ job'.draft = job.draft /\ job' \in Jobs
  BY AdvanceKeeps DEF IInv
<1>2. Sited' = Sited /\ \A s, p : PortFree(s, p)' = PortFree(s, p)
  BY RowsKept
<1> QED
  BY <1>1, <1>2 DEF DraftSound, IInv, IsApp

\* A job that ends, by itself, by an exception or with the panel, leaves no draft.
LEMMA EndKeeps ==
    ASSUME IInv, job' = None
    PROVE  DraftSound' /\ JobPlaced' /\ job' \in Jobs \cup {None}
  BY DEF DraftSound, JobPlaced

\* Faults and spoiled sites stay in their types.
LEMMA CountersTyped ==
    ASSUME TypeOK
    PROVE  /\ Fault => faults' \in 0..MaxFaults
           /\ ReloadFails => faults' \in 0..MaxFaults
           /\ Spoil /\ job # None => spoiled' \subseteq Sites
  BY SiteLifecycleAssumption
     DEF SiteLifecycleAssumption, TypeOK, Fault, ReloadFails, Spoil, Jobs

\* A job, and the operations each step belongs to.
LEMMA Owners ==
    ASSUME TypeOK, JobPlaced, job # None
    PROVE  /\ job \in Jobs /\ job.op \in AllOps
           /\ job.op \in SiteOps => job.site \in Sites
           /\ job.op \in SiteOps \ {"delete"} => job.draft \in Settings /\ job.draft # None
           /\ job.step = "account" => job.op = "create"
           /\ job.step = "issue" => job.op = "ssl_on"
           /\ job.step \in {"teardown", "forget", "userdel"} => job.op = "delete"
           /\ job.step = "unpool" => job.op \in {"php", "delete"}
           /\ job.step \in {"render", "commit"} => job.op \in {"create"} \cup ChangeOps
           /\ job.step = "rerender" => job.op = "rebuild"
<1>1. job \in Jobs /\ job.op \in AllOps /\ job.step \in DOMAIN StepsOf[job.op] \cup {"end"}
  BY DEF TypeOK, JobPlaced, Jobs, AllOps
<1>2. job.op \in SiteOps => job.site \in Sites
  BY <1>1 DEF JobPlaced, Jobs
<1>3. job.op \in SiteOps \ {"delete"} => job.draft \in Settings /\ job.draft # None
  BY <1>1 DEF JobPlaced, Jobs
<1> QED
  BY <1>1, <1>2, <1>3, StepDomains DEF AllOps, SiteOps, ChangeOps

LEMMA CreateAccountStep == IInv /\ CreateAccount => IInv'
<1> SUFFICES ASSUME IInv, CreateAccount PROVE IInv'
  OBVIOUS
<1> USE DEF IInv
<1>1. /\ job # None /\ job.step = "account" /\ job \in Jobs /\ job.op = "create"
      /\ job.site \in Sites
  BY Owners DEF CreateAccount, At, SiteOps
<1>2. UNCHANGED <<rows, ids, vhost, pools, installed, certs, loaded, queue, asked>>
  BY DEF CreateAccount
<1>3. accounts \subseteq accounts' /\ accounts' \subseteq Sites
  BY <1>1 DEF CreateAccount, TypeOK
<1>4. Sited' = Sited /\ PortsDistinct'
  BY <1>2, RowsKept
<1>5. RowHasAccount' /\ VersionInUseStays' /\ RowTls' /\ TlsHasCertificate'
  BY <1>2, <1>3, <1>4 DEF RowHasAccount, VersionInUseStays, RowTls, TlsHasCertificate
<1>6. CASE accounts' = accounts \cup {job.site} /\ Advance /\ UNCHANGED <<faults, spoiled>>
  <2>1. job' \in Jobs /\ job'.step = "render" /\ job'.op = "create" /\ job'.site = job.site
        /\ job'.draft = job.draft /\ job' # None
    BY <1>1, <1>6, AdvanceKeeps, StepTable
  <2>2. JobPlaced'
    BY <1>1, <1>4, <1>6, <2>1, StepDomains DEF JobPlaced, SiteOps, ChangeOps
  <2>3. TypeOK'
    BY <1>2, <1>3, <1>6, <2>1, IdsKept DEF TypeOK
  <2>4. DraftSound'
    BY <1>1, <1>2, <1>6, OnwardKeeps
  <2> QED
    BY <1>4, <1>5, <2>2, <2>3, <2>4
<1>7. CASE Fail /\ Fault
  <2>1. TypeOK'
    BY <1>1, <1>2, <1>3, <1>7, IdsKept, CountersTyped DEF TypeOK, Fail
  <2> QED
    BY <1>4, <1>5, <1>7, <2>1, EndKeeps DEF Fail
<1> QED
  BY <1>6, <1>7 DEF CreateAccount

\* The job goes on with HTTPS in its draft.
LEMMA SecuredJob ==
    ASSUME job \in Jobs, job.draft \in Settings,
           job' = [job EXCEPT !.draft.ssl = TRUE, !.step = "render"]
    PROVE  /\ job' \in Jobs /\ job' # None /\ job'.step = "render"
           /\ job'.op = job.op /\ job'.site = job.site
           /\ job'.draft \in Settings /\ job'.draft # None
           /\ job'.draft.php = job.draft.php /\ job'.draft.port = job.draft.port
<1> DEFINE secured == [job.draft EXCEPT !.ssl = TRUE]
<1>1. /\ secured \in Settings
      /\ secured.php = job.draft.php /\ secured.port = job.draft.port
  BY DEF Settings
<1>2. job' = [job EXCEPT !.draft = secured, !.step = "render"]
  BY DEF Jobs
<1> HIDE DEF secured
<1>3. /\ job' \in Jobs /\ job'.step = "render" /\ job'.op = job.op /\ job'.site = job.site
      /\ job'.draft = secured
  BY <1>1, <1>2 DEF Jobs
<1> QED
  BY <1>1, <1>3, SiteLifecycleAssumption DEF SiteLifecycleAssumption

LEMMA IssueStep == IInv /\ Issue => IInv'
<1> SUFFICES ASSUME IInv, Issue PROVE IInv'
  OBVIOUS
<1> USE DEF IInv
<1>1. /\ job # None /\ job.step = "issue" /\ job \in Jobs /\ job.op = "ssl_on"
      /\ job.site \in Sites /\ job.site \in Sited /\ job.draft \in Settings /\ job.draft # None
  BY Owners DEF Issue, At, JobPlaced, SiteOps, ChangeOps
<1>2. UNCHANGED <<rows, ids, accounts, vhost, pools, installed, loaded, queue, asked>>
  BY DEF Issue
<1>3. certs \subseteq certs' /\ certs' \subseteq Sites
  BY <1>1 DEF Issue, TypeOK
<1>4. Sited' = Sited /\ PortsDistinct' /\ \A s, p : PortFree(s, p)' = PortFree(s, p)
  BY <1>2, RowsKept
<1>5. RowHasAccount' /\ VersionInUseStays' /\ RowTls' /\ TlsHasCertificate'
  BY <1>2, <1>3, <1>4 DEF RowHasAccount, VersionInUseStays, RowTls, TlsHasCertificate
<1>6. CASE /\ certs' = certs \cup {job.site}
           /\ job' = [job EXCEPT !.draft.ssl = TRUE, !.step = "render"]
           /\ UNCHANGED <<faults, spoiled>>
  <2>1. /\ job' \in Jobs /\ job' # None /\ job'.step = "render" /\ job'.op = "ssl_on"
        /\ job'.site = job.site /\ job'.draft \in Settings /\ job'.draft # None
        /\ job'.draft.php = job.draft.php /\ job'.draft.port = job.draft.port
    BY <1>1, <1>6, SecuredJob
  <2>4. DraftSound'
    BY <1>1, <1>2, <1>4, <1>6, <2>1 DEF DraftSound, IsApp
  <2>5. JobPlaced'
    BY <1>1, <1>4, <2>1, StepDomains DEF JobPlaced, SiteOps, ChangeOps
  <2>6. TypeOK'
    BY <1>2, <1>3, <1>6, <2>1, IdsKept DEF TypeOK
  <2> QED
    BY <1>4, <1>5, <2>4, <2>5, <2>6
<1>7. CASE Fail /\ Fault
  <2>1. TypeOK'
    BY <1>1, <1>2, <1>3, <1>7, IdsKept, CountersTyped DEF TypeOK, Fail
  <2> QED
    BY <1>4, <1>5, <1>7, <2>1, EndKeeps DEF Fail
<1>8. CASE job' = [job EXCEPT !.step = "end"] /\ Fault /\ UNCHANGED <<certs, spoiled>>
  <2>1. /\ job' \in Jobs /\ job' # None /\ job'.step = "end"
        /\ job'.op = job.op /\ job'.site = job.site /\ job'.draft = job.draft
    BY <1>1, <1>8, StepChange DEF StepNames
  <2>2. DraftSound'
    BY <1>1, <1>2, <1>4, <1>8, <2>1 DEF DraftSound, IsApp
  <2>3. JobPlaced'
    BY <1>1, <1>4, <2>1 DEF JobPlaced, SiteOps, ChangeOps
  <2>4. TypeOK'
    BY <1>2, <1>3, <1>8, <2>1, IdsKept, CountersTyped DEF TypeOK
  <2> QED
    BY <1>4, <1>5, <2>2, <2>3, <2>4
<1> QED
  BY <1>6, <1>7, <1>8 DEF Issue

\* Removing or adding pool files keeps the pools typed.
LEMMA WithoutTyped ==
    ASSUME TypeOK, NEW s \in Sites
    PROVE  Without(s) \in [Versions -> SUBSET Sites]
  BY DEF Without, TypeOK

LEMMA UnpoolStep == IInv /\ Unpool => IInv'
<1> SUFFICES ASSUME IInv, Unpool PROVE IInv'
  OBVIOUS
<1> USE DEF IInv
<1>1. /\ job # None /\ job.step = "unpool" /\ job.op \in {"php", "delete"}
      /\ job.site \in Sites
  BY Owners DEF Unpool, At, SiteOps, ChangeOps
<1>2. /\ UNCHANGED <<rows, ids, accounts, vhost, installed, certs, loaded, queue, asked, faults,
                     spoiled>>
      /\ Advance
  BY DEF Unpool
<1>3. Sited' = Sited /\ PortsDistinct' /\ DraftSound' /\ job' \in Jobs
  BY <1>1, <1>2, RowsKept, OnwardKeeps
<1>4. RowHasAccount' /\ VersionInUseStays' /\ RowTls' /\ TlsHasCertificate'
  BY <1>2, <1>3 DEF RowHasAccount, VersionInUseStays, RowTls, TlsHasCertificate
<1>5. JobPlaced'
  <2>1. /\ job'.op = job.op /\ job'.site = job.site /\ job'.draft = job.draft
        /\ job'.step = IF job.op = "php" THEN "render" ELSE "forget"
        /\ job'.step \in DOMAIN StepsOf[job.op] \cup {"end"}
    BY <1>1, <1>2, AdvanceKeeps, StepTable
  <2> QED
    BY <1>1, <1>3, <2>1 DEF JobPlaced, SiteOps, ChangeOps
<1>6. TypeOK'
  BY <1>1, <1>2, <1>3, IdsKept, WithoutTyped DEF Unpool, TypeOK
<1> QED
  BY <1>3, <1>4, <1>5, <1>6

\* Rendering a sound row: the files stay typed, and TLS has its certificate.
LEMMA WriteFilesKeeps ==
    ASSUME TypeOK, TlsHasCertificate, UNCHANGED <<loaded, certs>>,
           NEW s \in Sites, NEW row \in Settings, row.ssl => s \in certs, WriteFiles(s, row)
    PROVE  /\ vhost' \in [Sites -> Vhosts \cup {None}]
           /\ pools' \in [Versions -> SUBSET Sites]
           /\ TlsHasCertificate'
<1>1. VhostOf(row) \in Vhosts /\ VhostOf(row).ssl = row.ssl
  BY DEF VhostOf, Settings, Vhosts
<1>2. vhost' = [vhost EXCEPT ![s] = VhostOf(row)]
  BY DEF WriteFiles
<1>3. vhost' \in [Sites -> Vhosts \cup {None}]
  BY <1>1, <1>2 DEF TypeOK
<1>4. pools' \in [Versions -> SUBSET Sites]
  <2>1. CASE row.php = None
    BY <2>1, WithoutTyped DEF WriteFiles
  <2>2. CASE row.php # None
    BY <2>2 DEF WriteFiles, TypeOK, Settings
  <2> QED
    BY <2>1, <2>2
<1>5. TlsHasCertificate'
  <2>1. \A t \in Sites : vhost'[t] = IF t = s THEN VhostOf(row) ELSE vhost[t]
    BY <1>2 DEF TypeOK
  <2> QED
    BY <1>1, <2>1 DEF TlsHasCertificate
<1> QED
  BY <1>3, <1>4, <1>5

LEMMA RenderStep == IInv /\ Render => IInv'
<1> SUFFICES ASSUME IInv, Render PROVE IInv'
  OBVIOUS
<1> USE DEF IInv
<1>1. /\ job # None /\ job.step = "render" /\ job.op \in {"create"} \cup ChangeOps
      /\ job.site \in Sites /\ job.draft \in Settings /\ job.draft # None
  BY Owners DEF Render, At, SiteOps, ChangeOps
<1>2. /\ UNCHANGED <<rows, ids, accounts, installed, certs, loaded, queue, asked, faults, spoiled>>
      /\ Advance
  BY DEF Render
<1>3. Sited' = Sited /\ PortsDistinct' /\ DraftSound' /\ job' \in Jobs
  BY <1>1, <1>2, RowsKept, OnwardKeeps
<1>4. RowHasAccount' /\ VersionInUseStays' /\ RowTls'
  BY <1>2, <1>3 DEF RowHasAccount, VersionInUseStays, RowTls
<1>5. /\ vhost' \in [Sites -> Vhosts \cup {None}] /\ pools' \in [Versions -> SUBSET Sites]
      /\ TlsHasCertificate'
  BY <1>1, <1>2, WriteFilesKeeps DEF Render, DraftSound
<1>6. JobPlaced'
  <2>1. /\ job'.op = job.op /\ job'.site = job.site /\ job'.draft = job.draft
        /\ job'.step = "reload"
        /\ job'.step \in DOMAIN StepsOf[job.op] \cup {"end"}
    BY <1>1, <1>2, AdvanceKeeps, StepTable
  <2> QED
    BY <1>1, <1>2, <1>3, <2>1 DEF JobPlaced, SiteOps, ChangeOps
<1>7. TypeOK'
  BY <1>2, <1>3, <1>5, IdsKept DEF TypeOK
<1> QED
  BY <1>3, <1>4, <1>5, <1>6, <1>7

LEMMA RerenderStep == IInv /\ Rerender => IInv'
<1> SUFFICES ASSUME IInv, Rerender PROVE IInv'
  OBVIOUS
<1> USE DEF IInv
<1>1. /\ job # None /\ job.step = "rerender" /\ job.op = "rebuild" /\ job \in Jobs
      /\ job.left \subseteq Sited
  BY Owners DEF Rerender, At, JobPlaced
<1>2. UNCHANGED <<rows, ids, accounts, installed, certs, loaded, queue, asked, faults, spoiled>>
  BY DEF Rerender
<1>3. Sited' = Sited /\ PortsDistinct' /\ \A s, p : PortFree(s, p)' = PortFree(s, p)
  BY <1>2, RowsKept
<1>4. RowHasAccount' /\ VersionInUseStays' /\ RowTls'
  BY <1>2, <1>3 DEF RowHasAccount, VersionInUseStays, RowTls
<1>5. ASSUME NEW s \in job.left, WriteFiles(s, rows[s]), job' = [job EXCEPT !.left = @ \ {s}]
      PROVE  IInv'
  <2>1. /\ job' \in Jobs /\ job'.step = "rerender" /\ job'.op = "rebuild"
        /\ job'.site = job.site /\ job'.draft = job.draft /\ job'.left \subseteq Sited
    BY <1>1, <1>5 DEF Jobs
  <2>2. job' # None
    BY <2>1, SiteLifecycleAssumption DEF SiteLifecycleAssumption
  <2>3. s \in Sites /\ rows[s] \in Settings /\ (rows[s].ssl => s \in certs)
    BY <1>1 DEF Sited, TypeOK, RowTls
  <2>4. /\ vhost' \in [Sites -> Vhosts \cup {None}] /\ pools' \in [Versions -> SUBSET Sites]
        /\ TlsHasCertificate'
    BY <1>2, <1>5, <2>3, WriteFilesKeeps
  <2>5. DraftSound'
    BY <1>1, <1>2, <1>3, <2>1 DEF DraftSound, IsApp
  <2>6. JobPlaced'
    BY <1>1, <1>3, <2>1, <2>2 DEF JobPlaced, SiteOps, ChangeOps
  <2>7. TypeOK'
    BY <1>2, <2>1, <2>4, IdsKept DEF TypeOK
  <2> QED
    BY <1>3, <1>4, <2>4, <2>5, <2>6, <2>7
<1>6. CASE Advance /\ UNCHANGED <<vhost, pools>>
  <2>1. DraftSound' /\ job' \in Jobs
    BY <1>1, <1>2, <1>6, OnwardKeeps
  <2>2. /\ job'.op = job.op /\ job'.site = job.site /\ job'.draft = job.draft
        /\ job'.left = job.left /\ job'.step = "reload"
        /\ job'.step \in DOMAIN StepsOf[job.op] \cup {"end"}
    BY <1>1, <1>6, AdvanceKeeps, StepTable
  <2>3. JobPlaced'
    BY <1>1, <1>3, <2>2 DEF JobPlaced, SiteOps, ChangeOps
  <2>4. TlsHasCertificate' /\ TypeOK'
    BY <1>2, <1>6, <2>1, IdsKept DEF TypeOK, TlsHasCertificate
  <2> QED
    BY <1>3, <1>4, <2>1, <2>3, <2>4
<1> QED
  BY <1>5, <1>6 DEF Rerender

LEMMA ReloadStep == IInv /\ Reload => IInv'
<1> SUFFICES ASSUME IInv, Reload PROVE IInv'
  OBVIOUS
<1> USE DEF IInv
<1>1. /\ job # None /\ job.step = "reload" /\ job \in Jobs /\ job.op \in AllOps
      /\ UNCHANGED <<rows, ids, accounts, vhost, pools, installed, certs, queue, asked>>
      /\ loaded' = vhost \/ loaded' = loaded
      /\ faults' \in 0..MaxFaults /\ spoiled' \subseteq Sites
  BY Owners, CountersTyped DEF Reload, At, TypeOK, Fail
<1>2. Sited' = Sited /\ PortsDistinct'
  BY <1>1, RowsKept
<1>3. RowHasAccount' /\ VersionInUseStays' /\ RowTls' /\ TlsHasCertificate'
  BY <1>1, <1>2 DEF RowHasAccount, VersionInUseStays, RowTls, TlsHasCertificate
<1>4. CASE Advance
  <2>1. DraftSound' /\ job' \in Jobs
    BY <1>1, <1>4, OnwardKeeps
  <2>2. /\ job'.op = job.op /\ job'.site = job.site /\ job'.draft = job.draft
        /\ job'.left = job.left /\ job'.step = StepsOf[job.op].reload
        /\ job'.step \in DOMAIN StepsOf[job.op] \cup {"end"}
    BY <1>1, <1>4, AdvanceKeeps
  <2>3. /\ job.op \in {"create"} \cup ChangeOps => job'.step = "commit"
        /\ job.op = "delete" => job'.step = "userdel"
    BY <2>2, StepTable
  <2>4. JobPlaced'
    BY <1>1, <1>2, <2>2, <2>3 DEF JobPlaced, AllOps, SiteOps, ChangeOps
  <2>5. TypeOK'
    BY <1>1, <2>1, IdsKept DEF TypeOK
  <2> QED
    BY <1>2, <1>3, <2>1, <2>4, <2>5
<1>5. CASE Fail
  <2>1. TypeOK'
    BY <1>1, <1>5, IdsKept DEF TypeOK, Fail
  <2> QED
    BY <1>2, <1>3, <1>5, <2>1, EndKeeps DEF Fail
<1> QED
  BY <1>4, <1>5 DEF Reload

\* The ports a site may take depend on the rows of the others.
LEMMA OthersKept ==
    ASSUME NEW s, \A t \in Sites : t # s => rows'[t] = rows[t]
    PROVE  \A p : PortFree(s, p)' = PortFree(s, p)
  BY DEF PortFree, TakenPorts

LEMMA CommitStep == IInv /\ Commit => IInv'
<1> SUFFICES ASSUME IInv, Commit PROVE IInv'
  OBVIOUS
<1> USE DEF IInv
<1>0. PICK s \in Sites : s = job.site
  BY Owners DEF Commit, At, SiteOps, ChangeOps
<1> USE <1>0
<1>1. /\ job # None /\ job.step = "commit" /\ job.op \in {"create"} \cup ChangeOps
      /\ s \in Sites /\ job.draft \in Settings /\ job.draft # None
  BY Owners DEF Commit, At, SiteOps, ChangeOps
<1>2. /\ UNCHANGED <<accounts, vhost, pools, installed, certs, loaded, queue, asked, faults,
                     spoiled>>
      /\ Advance
      /\ \A t \in Sites : rows'[t] = IF t = s THEN job.draft ELSE rows[t]
  BY <1>1 DEF Commit, files, TypeOK
<1>3. Sited' = Sited \cup {s}
  BY <1>1, <1>2 DEF Sited
<1>4. RowHasAccount'
  <2>1. s \in accounts
    BY <1>1 DEF JobPlaced, RowHasAccount
  <2> QED
    BY <2>1, <1>2, <1>3 DEF RowHasAccount
<1>5. VersionInUseStays' /\ RowTls' /\ TlsHasCertificate'
  BY <1>1, <1>2, <1>3 DEF VersionInUseStays, RowTls, TlsHasCertificate, DraftSound, Sited
<1>6. PortsDistinct'
  <2>1. \A t \in Sited \ {s} : IsApp(job.draft) => rows[t].port # job.draft.port
    BY <1>1 DEF DraftSound, PortFree, TakenPorts, Sited, IsApp
  <2>2. \A t, u \in Sited' : t # u /\ IsApp(rows'[t]) => rows'[t].port # rows'[u].port
    BY <1>2, <1>3, <2>1 DEF PortsDistinct, Sited, IsApp
  <2> QED
    BY <2>2 DEF PortsDistinct, IsApp
<1>7. /\ job' \in Jobs /\ job' # None /\ job'.op = job.op /\ job'.site = s
      /\ job'.draft = job.draft /\ job'.step = "end"
  BY <1>1, <1>2, AdvanceKeeps, StepTable
<1>8. DraftSound'
  <2>1. \A p : PortFree(s, p)' = PortFree(s, p)
    BY <1>2, OthersKept
  <2> QED
    BY <1>1, <1>2, <1>7, <2>1 DEF DraftSound, IsApp
<1>9. JobPlaced'
  BY <1>1, <1>2, <1>3, <1>7 DEF JobPlaced, SiteOps, ChangeOps
<1>10. TypeOK'
  <2>1. rows' \in [Sites -> Settings \cup {None}]
    BY <1>1 DEF Commit, TypeOK
  <2>2. CASE ids[s] # 0
    <3>1. s \in Sited /\ ids' = ids
      BY <2>2, <1>1 DEF Commit, TypeOK, Sited
    <3> QED
      BY <1>1, <1>2, <1>3, <1>7, <2>1, <3>1 DEF TypeOK, Sited
  <2>3. CASE ids[s] = 0
    <3>1. PICK n \in 1..MaxAsked : IsNewId(n) /\ ids' = [ids EXCEPT ![s] = n]
      BY <2>3 DEF Commit
    <3>2. s \notin Sited /\ n \in Nat /\ n # 0
      BY <2>3, <1>1, SiteLifecycleAssumption DEF SiteLifecycleAssumption, TypeOK, Sited
    <3>3. /\ ids' \in [Sites -> Nat] /\ ids'[s] = n
          /\ \A t \in Sites \ {s} : ids'[t] = ids[t]
      BY <1>1, <3>1, <3>2 DEF TypeOK
    <3>4. \A t \in Sited : ids[t] # n
      BY <3>1, <3>2 DEF IsNewId, TypeOK, Sited
    <3>5. \A t \in Sites : ids'[t] = 0 <=> rows'[t] = None
      BY <1>1, <1>2, <3>2, <3>3 DEF TypeOK
    <3>6. ASSUME NEW t \in Sited', NEW u \in Sited', ids'[t] = ids'[u]
          PROVE  t = u
      <4>1. /\ t = s \/ (t \in Sited /\ t # s)
            /\ u = s \/ (u \in Sited /\ u # s)
        BY <1>3, <3>2
      <4>2. Sited \subseteq Sites
        BY DEF Sited
      <4>3. CASE t # s /\ u # s
        <5>1. ids[t] = ids[u]
          BY <3>3, <3>6, <4>1, <4>2, <4>3
        <5> QED
          BY <4>1, <4>3, <5>1 DEF TypeOK
      <4>4. CASE t = s \/ u = s
        BY <3>3, <3>4, <3>6, <4>1, <4>2, <4>4
      <4> QED
        BY <4>3, <4>4
    <3> QED
      BY <1>2, <1>7, <2>1, <3>3, <3>5, <3>6 DEF TypeOK
  <2> QED
    BY <2>2, <2>3
<1> QED
  BY <1>4, <1>5, <1>6, <1>8, <1>9, <1>10

LEMMA TeardownStep == IInv /\ Teardown => IInv'
<1> SUFFICES ASSUME IInv, Teardown PROVE IInv'
  OBVIOUS
<1> USE DEF IInv
<1>1. job # None /\ job.step = "teardown" /\ job.op = "delete" /\ job.site \in Sites
  BY Owners DEF Teardown, At, SiteOps
<1>2. /\ UNCHANGED <<rows, ids, accounts, pools, installed, certs, loaded, queue, asked, faults,
                     spoiled>>
      /\ Advance /\ vhost' = [vhost EXCEPT ![job.site] = None]
  BY DEF Teardown
<1>3. Sited' = Sited /\ PortsDistinct' /\ DraftSound' /\ job' \in Jobs
  BY <1>1, <1>2, RowsKept, OnwardKeeps
<1>4. RowHasAccount' /\ VersionInUseStays' /\ RowTls'
  BY <1>2, <1>3 DEF RowHasAccount, VersionInUseStays, RowTls
<1>5. TlsHasCertificate'
  <2>1. \A t \in Sites : vhost'[t] = IF t = job.site THEN None ELSE vhost[t]
    BY <1>2 DEF TypeOK
  <2> QED
    BY <1>2, <2>1 DEF TlsHasCertificate
<1>6. JobPlaced'
  <2>1. /\ job'.op = job.op /\ job'.site = job.site /\ job'.step = "unpool"
        /\ job'.step \in DOMAIN StepsOf[job.op] \cup {"end"}
    BY <1>1, <1>2, AdvanceKeeps, StepTable
  <2> QED
    BY <1>1, <1>3, <2>1 DEF JobPlaced, SiteOps, ChangeOps
<1>7. TypeOK'
  BY <1>1, <1>2, <1>3, IdsKept DEF TypeOK
<1> QED
  BY <1>3, <1>4, <1>5, <1>6, <1>7

LEMMA ForgetStep == IInv /\ Forget => IInv'
<1> SUFFICES ASSUME IInv, Forget PROVE IInv'
  OBVIOUS
<1> USE DEF IInv
<1>0. PICK s \in Sites : s = job.site
  BY Owners DEF Forget, At, SiteOps, ChangeOps
<1> USE <1>0
<1>1. job # None /\ job.step = "forget" /\ job.op = "delete" /\ s \in Sites
  BY Owners DEF Forget, At, SiteOps
<1>2. /\ UNCHANGED <<accounts, vhost, pools, installed, certs, loaded, queue, asked, faults,
                     spoiled>>
      /\ Advance
      /\ \A t \in Sites : /\ rows'[t] = IF t = s THEN None ELSE rows[t]
                          /\ ids'[t] = IF t = s THEN 0 ELSE ids[t]
  BY <1>1 DEF Forget, files, TypeOK
<1>3. Sited' = Sited \ {s}
  BY <1>2 DEF Sited
<1>4. RowHasAccount' /\ VersionInUseStays' /\ RowTls' /\ TlsHasCertificate'
  BY <1>2, <1>3 DEF RowHasAccount, VersionInUseStays, RowTls, TlsHasCertificate, Sited
<1>5. PortsDistinct'
  BY <1>2, <1>3 DEF PortsDistinct, Sited, IsApp
<1>6. /\ job' \in Jobs /\ job' # None /\ job'.op = "delete" /\ job'.site = s
      /\ job'.draft = job.draft /\ job'.step = "reload"
      /\ job'.step \in DOMAIN StepsOf[job.op] \cup {"end"}
  BY <1>1, <1>2, AdvanceKeeps, StepTable
<1>7. DraftSound'
  <2>1. \A p : PortFree(s, p)' = PortFree(s, p)
    BY <1>2, OthersKept
  <2> QED
    BY <1>1, <1>2, <1>6, <2>1 DEF DraftSound, IsApp
<1>8. JobPlaced'
  BY <1>1, <1>3, <1>6 DEF JobPlaced, SiteOps, ChangeOps
<1>9. TypeOK'
  <2>1. rows' \in [Sites -> Settings \cup {None}] /\ ids' \in [Sites -> Nat]
    BY <1>1 DEF Forget, TypeOK
  <2>2. \A t, u \in Sited' : ids'[t] = ids'[u] => t = u
    BY <1>2, <1>3 DEF TypeOK, Sited
  <2> QED
    BY <1>2, <1>6, <2>1, <2>2 DEF TypeOK
<1> QED
  BY <1>4, <1>5, <1>7, <1>8, <1>9

LEMMA UserdelStep == IInv /\ Userdel => IInv'
<1> SUFFICES ASSUME IInv, Userdel PROVE IInv'
  OBVIOUS
<1> USE DEF IInv
<1>1. /\ job # None /\ job.step = "userdel" /\ job.op = "delete" /\ job.site \in Sites
      /\ job.site \notin Sited
  BY Owners DEF Userdel, At, SiteOps, JobPlaced
<1>2. /\ UNCHANGED <<rows, ids, vhost, pools, installed, certs, loaded, queue, asked, spoiled>>
      /\ Advance /\ accounts \ {job.site} \subseteq accounts' /\ accounts' \subseteq accounts
      /\ faults' \in 0..MaxFaults
  BY CountersTyped DEF Userdel, TypeOK
<1>3. Sited' = Sited /\ PortsDistinct' /\ DraftSound' /\ job' \in Jobs
  BY <1>1, <1>2, RowsKept, OnwardKeeps
<1>4. RowHasAccount' /\ VersionInUseStays' /\ RowTls' /\ TlsHasCertificate'
  BY <1>1, <1>2, <1>3 DEF RowHasAccount, VersionInUseStays, RowTls, TlsHasCertificate
<1>5. JobPlaced'
  <2>1. /\ job'.op = job.op /\ job'.site = job.site /\ job'.step = "end"
    BY <1>1, <1>2, AdvanceKeeps, StepTable
  <2> QED
    BY <1>1, <1>3, <2>1 DEF JobPlaced, SiteOps, ChangeOps
<1>6. TypeOK'
  BY <1>2, <1>3, IdsKept DEF TypeOK
<1> QED
  BY <1>3, <1>4, <1>5, <1>6

LEMMA TryHttpsStep == IInv /\ TryHttps => IInv'
<1> SUFFICES ASSUME IInv, TryHttps PROVE IInv'
  OBVIOUS
<1> USE DEF IInv
<1>1. /\ job # None /\ job.step = "end" /\ job.op = "create" /\ job \in Jobs
      /\ job.site \in Sites /\ job.site \in Sited /\ job.draft # None
      /\ job' = [job EXCEPT !.op = "ssl_on", !.step = "issue"]
      /\ UNCHANGED <<rows, ids, files, queue, asked, faults, spoiled>>
  BY Owners DEF TryHttps, At, SiteOps, ChangeOps, JobPlaced
<1>2. /\ job' \in Jobs /\ job'.op = "ssl_on" /\ job'.step = "issue" /\ job'.site = job.site
      /\ job'.draft = job.draft
  BY <1>1 DEF Jobs, SiteOps, ChangeOps
<1>3. job' # None
  BY <1>2, SiteLifecycleAssumption DEF SiteLifecycleAssumption
<1>4. Sited' = Sited /\ PortsDistinct' /\ \A s, p : PortFree(s, p)' = PortFree(s, p)
  BY <1>1, RowsKept
<1>5. RowHasAccount' /\ VersionInUseStays' /\ RowTls' /\ TlsHasCertificate'
  BY <1>1, <1>4 DEF files, RowHasAccount, VersionInUseStays, RowTls, TlsHasCertificate
<1>6. DraftSound'
  BY <1>1, <1>2, <1>4 DEF DraftSound, IsApp, files
<1>7. JobPlaced'
  BY <1>1, <1>2, <1>3, <1>4, StepDomains DEF JobPlaced, SiteOps, ChangeOps
<1>8. TypeOK'
  BY <1>1, <1>2, IdsKept DEF TypeOK, files
<1> QED
  BY <1>4, <1>5, <1>6, <1>7, <1>8

\* The end of a job, in whatever step, leaves the committed rows and the files alone.
LEMMA StopStep == IInv /\ (Finish \/ Crash) => IInv'
<1> SUFFICES ASSUME IInv, Finish \/ Crash PROVE IInv'
  OBVIOUS
<1> USE DEF IInv
<1>1. /\ job' = None /\ UNCHANGED <<rows, ids, files, asked>>
      /\ queue' \in Seq(Requests) /\ Len(queue') <= MaxQueued
      /\ faults' \in 0..MaxFaults /\ spoiled' \subseteq Sites
  <2>1. CASE Finish
    BY <2>1 DEF Finish, TypeOK
  <2>2. CASE Crash
    <3>1. queue' = <<>> /\ <<>> \in Seq(Requests) /\ Len(<<>>) = 0
      BY <2>2 DEF Crash
    <3>2. faults' \in 0..MaxFaults /\ spoiled' \subseteq Sites
      BY <2>2, CountersTyped DEF Crash, Fail
    <3> QED
      BY <2>2, <3>1, <3>2, SiteLifecycleAssumption DEF SiteLifecycleAssumption, Crash, Fail
  <2> QED
    BY <2>1, <2>2
<1>2. Sited' = Sited /\ PortsDistinct'
  BY <1>1, RowsKept
<1>3. RowHasAccount' /\ VersionInUseStays' /\ RowTls' /\ TlsHasCertificate'
  BY <1>1, <1>2 DEF files, RowHasAccount, VersionInUseStays, RowTls, TlsHasCertificate
<1>4. TypeOK'
  BY <1>1, IdsKept DEF TypeOK, files
<1> QED
  BY <1>1, <1>2, <1>3, <1>4, EndKeeps

(***************************************************************************)
(* The second layer: what the files of the sites say                       *)
(***************************************************************************)

\* Nothing a site is served by has changed.
Kept(s) ==
    /\ rows'[s] = rows[s] /\ vhost'[s] = vhost[s] /\ loaded'[s] = loaded[s]
    /\ PoolsOf(s)' = PoolsOf(s)

LEMMA KeptSettled ==
    ASSUME NEW s, Kept(s), Settled(s)
    PROVE  Settled(s)'
  BY DEF Kept, Settled, Erased, Rendered, VhostOf

\* A step of a job leaves the sites in order that it is not about; when the job ends, its
\* own site is in order or known to be spoiled.
LEMMA OthersSettled ==
    ASSUME SettledIsServed, job # None, spoiled \subseteq spoiled',
           \A s \in Sites \ spoiled : s # job.site => Kept(s),
           \/ job' # None /\ job'.site = job.site
           \/ job' = None /\ \A s \in Sites \ spoiled' : s = job.site => Settled(s)'
    PROVE  SettledIsServed'
<1> SUFFICES ASSUME NEW s \in Sites, Undisturbed(s)' PROVE Settled(s)'
  BY DEF SettledIsServed
<1>1. CASE s = job.site
  BY <1>1 DEF Undisturbed
<1>2. CASE s # job.site
  BY <1>2, KeptSettled DEF Undisturbed, SettledIsServed
<1> QED
  BY <1>1, <1>2

\* What _remove_all_pools leaves of a site, and of the others.
LEMMA PoolsWithout ==
    ASSUME TypeOK, NEW s \in Sites, pools' = Without(s)
    PROVE  /\ PoolsOf(s)' = PoolsOf(s) \ installed
           /\ \A t \in Sites \ {s} : PoolsOf(t)' = PoolsOf(t)
<1>1. \A v \in Versions : pools'[v] = IF v \in installed THEN pools[v] \ {s} ELSE pools[v]
  BY DEF Without
<1> QED
  BY <1>1 DEF PoolsOf

\* What render_site makes of the files of a site, and of the others.
LEMMA WriteFilesDoes ==
    ASSUME TypeOK, NEW s \in Sites, NEW row \in Settings, WriteFiles(s, row)
    PROVE  /\ vhost'[s] = VhostOf(row)
           /\ PoolsOf(s)' = IF row.php = None THEN PoolsOf(s) \ installed
                            ELSE PoolsOf(s) \cup {row.php}
           /\ \A t \in Sites \ {s} : vhost'[t] = vhost[t] /\ PoolsOf(t)' = PoolsOf(t)
<1>1. vhost'[s] = VhostOf(row) /\ \A t \in Sites \ {s} : vhost'[t] = vhost[t]
  BY DEF WriteFiles, TypeOK
<1>2. CASE row.php = None
  BY <1>1, <1>2, PoolsWithout DEF WriteFiles
<1>3. CASE row.php # None
  <2>1. row.php \in Versions
    BY <1>3 DEF Settings
  <2>2. \A v \in Versions : pools'[v] = IF v = row.php THEN pools[v] \cup {s} ELSE pools[v]
    BY <1>3, <2>1 DEF WriteFiles, TypeOK
  <2> QED
    BY <1>1, <1>3, <2>1, <2>2 DEF PoolsOf
<1> QED
  BY <1>2, <1>3

\* Rendering a row brings a site in order that had no pool but the row's.
LEMMA RenderOnDisk ==
    ASSUME TypeOK, NEW s \in Sites, NEW row \in Settings, WriteFiles(s, row),
           PoolsOf(s) \subseteq installed \cap {row.php}
    PROVE  vhost'[s] = VhostOf(row) /\ PoolsOf(s)' = {row.php} \ {None}
  BY WriteFilesDoes

\* A site in order with a row has no pool but of its version, which is installed.
LEMMA SettledPools ==
    ASSUME IInv, NEW s \in Sited, Settled(s)
    PROVE  PoolsOf(s) \subseteq installed \cap {rows[s].php}
  BY DEF IInv, VersionInUseStays, Settled, Rendered, Sited

LEMMA InitServed == Init => ServedInv
<1> SUFFICES ASSUME Init PROVE ServedInv
  OBVIOUS
<1>1. \A s \in Sites : PoolsOf(s) = {} /\ rows[s] = None /\ vhost[s] = None /\ loaded[s] = None
  BY DEF Init, PoolsOf
<1> QED
  BY <1>1 DEF Init, ServedInv, SettledIsServed, Settled, Erased, SiteOnCourse, DraftOnCourse,
              RebuildOnCourse

\* The rows and files as they were, and the same job or none.
LEMMA ServedUntouched ==
    ASSUME ServedInv, UNCHANGED <<rows, vhost, pools, loaded, job, spoiled>>,
           job = None \/ installed' = installed
    PROVE  ServedInv'
<1>1. /\ \A s : Settled(s)' = Settled(s) /\ PoolsOf(s)' = PoolsOf(s) /\ Restored(s)' = Restored(s)
      /\ \A s, row : Rendered(s, row)' = Rendered(s, row)
      /\ Sited' = Sited
  BY DEF Settled, Erased, Rendered, PoolsOf, Restored, VhostOf, Sited
<1>2. SettledIsServed'
  BY <1>1 DEF ServedInv, SettledIsServed, Undisturbed
<1>3. SiteOnCourse'
  BY <1>1 DEF ServedInv, SiteOnCourse
<1>4. DraftOnCourse' /\ RebuildOnCourse'
  BY <1>1 DEF ServedInv, DraftOnCourse, RebuildOnCourse
<1> QED
  BY <1>2, <1>3, <1>4 DEF ServedInv

\* A job that begins finds its site in order, unless it is known to be spoiled.
LEMMA ServedStart == IInv /\ ServedInv /\ (StartCreate \/ StartChange \/ StartRebuild) => ServedInv'
<1> SUFFICES ASSUME IInv, ServedInv, StartCreate \/ StartChange \/ StartRebuild PROVE ServedInv'
  OBVIOUS
<1>1. /\ TypeOK /\ Idle /\ job = None /\ Request \in Requests
      /\ UNCHANGED <<rows, vhost, pools, loaded, installed, spoiled>>
  BY Taken DEF IInv, StartCreate, StartChange, StartRebuild, Begin, files
<1>2. /\ \A s : Settled(s)' = Settled(s) /\ PoolsOf(s)' = PoolsOf(s)
      /\ Sited' = Sited
  BY <1>1 DEF Settled, Erased, Rendered, PoolsOf, VhostOf, Sited
<1>3. \A s \in Sites \ spoiled : Settled(s)
  BY <1>1 DEF ServedInv, SettledIsServed, Undisturbed
<1>4. SettledIsServed'
  BY <1>1, <1>2, <1>3 DEF SettledIsServed, Undisturbed
<1>5. CASE StartCreate
  <2> DEFINE draft == [Request.want EXCEPT !.ssl = FALSE]
  <2>1. Request.op = "create" /\ Request.site \in Sites /\ draft \in Settings
    BY <1>1, <1>5 DEF StartCreate, Requests, SiteOps, Settings
  <2> HIDE DEF draft
  <2>2. Begin(Request.site, draft)
    BY <1>5 DEF StartCreate, draft
  <2>3. /\ job'.op = "create" /\ job'.step = "account" /\ job'.site \in Sites
    BY <1>1, <2>1, <2>2, BeginJob DEF AllOps, SiteOps, FirstStep
  <2> QED
    BY <1>1, <1>2, <1>3, <1>4, <2>3
       DEF ServedInv, SiteOnCourse, DraftOnCourse, RebuildOnCourse, SiteOps, ChangeOps
<1>6. CASE StartChange
  <2> DEFINE draft(s) == Changed(Request.op, s, Request.want)
  <2>1. PICK s \in Named : Begin(s, draft(s))
    BY <1>6 DEF StartChange
  <2>2. s \in Sited /\ s \in Sites /\ rows[s] \in Settings
    BY <1>1 DEF Named, Sited, TypeOK
  <2>3. Request.want \in Settings /\ Request.op \in ChangeOps \cup {"delete"}
    BY <1>1, <1>6 DEF Requests, StartChange
  <2>4. draft(s) \in Settings /\ (Request.op # "php" => draft(s).php = rows[s].php)
    BY <2>2, <2>3 DEF Changed, Settings
  <2> HIDE DEF draft
  <2>5. /\ job'.op = Request.op /\ job'.site = s /\ job'.draft = draft(s)
        /\ job'.step = FirstStep[Request.op]
    BY <1>1, <2>1, <2>2, <2>3, <2>4, BeginJob DEF AllOps, SiteOps
  <2>6. /\ job'.op = "delete" => job'.step = "teardown"
        /\ job'.op = "php" => job'.step = "unpool"
        /\ job'.op = "ssl_on" => job'.step = "issue"
        /\ job'.op \in {"ssl_off", "webroot", "port"} => job'.step = "render"
    BY <2>3, <2>5 DEF FirstStep, ChangeOps
  <2>7. s \notin spoiled => Settled(s) /\ PoolsOf(s) \subseteq installed \cap {rows[s].php}
    BY <1>3, <2>2, SettledPools
  <2>8. SiteOnCourse'
    BY <1>1, <1>2, <2>3, <2>4, <2>5, <2>6, <2>7 DEF SiteOnCourse, ChangeOps
  <2>9. DraftOnCourse' /\ RebuildOnCourse'
    BY <1>1, <2>3, <2>4, <2>5, <2>6 DEF DraftOnCourse, RebuildOnCourse, ChangeOps
  <2> QED
    BY <1>4, <2>8, <2>9 DEF ServedInv
<1>7. CASE StartRebuild
  <2>1. Request.op = "rebuild" /\ Begin(None, None)
    BY <1>7 DEF StartRebuild
  <2>2. job'.op = "rebuild" /\ job'.step = "rerender" /\ job'.left = Sited
    BY <1>1, <2>1, BeginJob DEF AllOps, FirstStep
  <2> QED
    BY <1>2, <1>4, <2>2
       DEF ServedInv, SiteOnCourse, DraftOnCourse, RebuildOnCourse, SiteOps, ChangeOps
<1> QED
  BY <1>5, <1>6, <1>7

(***************************************************************************)
(* The second layer: the steps of a job                                    *)
(***************************************************************************)

\* A job that fails, whatever it has touched of its site, spoils that site only.
LEMMA ServedFail ==
    ASSUME ServedInv, job # None, Fail, \A s \in Sites : s # job.site => Kept(s)
    PROVE  ServedInv'
<1>1. job' = None /\ spoiled' = spoiled \cup ({job.site} \ {None})
  BY DEF Fail, Spoil
<1>2. \A s \in Sites : s = job.site => s \in spoiled'
  BY <1>1, SiteLifecycleAssumption DEF SiteLifecycleAssumption
<1>3. SettledIsServed'
  BY <1>1, <1>2, OthersSettled DEF ServedInv
<1> QED
  BY <1>1, <1>3 DEF ServedInv, SiteOnCourse, DraftOnCourse, RebuildOnCourse

LEMMA ServedAccount == IInv /\ ServedInv /\ CreateAccount => ServedInv'
<1> SUFFICES ASSUME IInv, ServedInv, CreateAccount PROVE ServedInv'
  OBVIOUS
<1>1. PICK s \in Sites : s = job.site
  BY Owners DEF CreateAccount, At, IInv, SiteOps
<1> USE <1>1
<1>2. /\ TypeOK /\ JobPlaced
      /\ job # None /\ job.step = "account" /\ job.op = "create" /\ rows[s] = None
      /\ UNCHANGED <<rows, vhost, pools, loaded, installed>> /\ spoiled \subseteq spoiled'
  BY Owners DEF CreateAccount, At, IInv, JobPlaced, SiteOps, Sited, Fail, Spoil
<1>3. \A t : Kept(t)
  BY <1>2 DEF Kept, PoolsOf
<1>4. CASE Advance /\ UNCHANGED spoiled
  <2>1. /\ job' # None /\ job'.step = "render" /\ job'.op = "create" /\ job'.site = s
    BY <1>2, <1>4, AdvanceKeeps, StepTable
  <2>2. SettledIsServed'
    BY <1>2, <1>3, <1>4, <2>1, OthersSettled DEF ServedInv
  <2>3. s \notin spoiled => PoolsOf(s)' = {}
    BY <1>2, <1>3 DEF ServedInv, SiteOnCourse, Settled, Erased, Kept, SiteOps
  <2> QED
    BY <1>4, <2>1, <2>2, <2>3
       DEF ServedInv, SiteOnCourse, DraftOnCourse, RebuildOnCourse, ChangeOps
<1>5. CASE Fail
  BY <1>2, <1>3, <1>5, ServedFail
<1> QED
  BY <1>4, <1>5 DEF CreateAccount

LEMMA ServedIssue == IInv /\ ServedInv /\ Issue => ServedInv'
<1> SUFFICES ASSUME IInv, ServedInv, Issue PROVE ServedInv'
  OBVIOUS
<1>1. PICK s \in Sites : s = job.site
  BY Owners DEF Issue, At, IInv, SiteOps, ChangeOps
<1> USE <1>1
<1>2. /\ job # None /\ job.step = "issue" /\ job.op = "ssl_on" /\ s \in Sited
      /\ job \in Jobs /\ job.draft \in Settings
      /\ UNCHANGED <<rows, vhost, pools, loaded, installed>>
  BY Owners DEF Issue, At, IInv, JobPlaced, SiteOps, ChangeOps
<1>3. \A t : Kept(t)
  BY <1>2 DEF Kept, PoolsOf
<1>4. s \notin spoiled => Settled(s) /\ Settled(s)'
  BY <1>2, <1>3, KeptSettled DEF ServedInv, SiteOnCourse, SiteOps, ChangeOps
<1>5. job.draft.php = rows[s].php
  BY <1>2 DEF ServedInv, DraftOnCourse, ChangeOps
<1>6. CASE job' = [job EXCEPT !.draft.ssl = TRUE, !.step = "render"] /\ UNCHANGED spoiled
  <2>1. /\ job' # None /\ job'.step = "render" /\ job'.op = "ssl_on" /\ job'.site = s
        /\ job'.draft.php = rows[s].php
    BY <1>2, <1>5, <1>6, SecuredJob
  <2>2. SettledIsServed'
    BY <1>2, <1>3, <1>6, <2>1, OthersSettled DEF ServedInv
  <2>3. s \notin spoiled => PoolsOf(s)' \subseteq installed \cap {rows[s].php}
    BY <1>2, <1>3, <1>4, SettledPools DEF Kept
  <2> QED
    BY <1>2, <1>6, <2>1, <2>2, <2>3
       DEF ServedInv, SiteOnCourse, DraftOnCourse, RebuildOnCourse
<1>7. CASE Fail
  BY <1>2, <1>3, <1>7, ServedFail
<1>8. CASE job' = [job EXCEPT !.step = "end"] /\ UNCHANGED spoiled
  <2>1. job' # None /\ job'.step = "end" /\ job'.op = "ssl_on" /\ job'.site = s
    BY <1>2, <1>8, StepChange DEF StepNames
  <2>2. SettledIsServed'
    BY <1>2, <1>3, <1>8, <2>1, OthersSettled DEF ServedInv
  <2> QED
    BY <1>2, <1>4, <1>8, <2>1, <2>2
       DEF ServedInv, SiteOnCourse, DraftOnCourse, RebuildOnCourse
<1> QED
  BY <1>6, <1>7, <1>8 DEF Issue

LEMMA ServedUnpool == IInv /\ ServedInv /\ Unpool => ServedInv'
<1> SUFFICES ASSUME IInv, ServedInv, Unpool PROVE ServedInv'
  OBVIOUS
<1>1. PICK s \in Sites : s = job.site
  BY Owners DEF Unpool, At, IInv, SiteOps, ChangeOps
<1> USE <1>1
<1>2. /\ TypeOK /\ JobPlaced /\ job # None /\ job.step = "unpool" /\ job.op \in {"php", "delete"}
      /\ s \in Sited /\ pools' = Without(s) /\ Advance
      /\ UNCHANGED <<rows, vhost, loaded, installed, spoiled>>
  BY Owners DEF Unpool, At, IInv, JobPlaced, SiteOps, ChangeOps
<1>3. /\ PoolsOf(s)' = PoolsOf(s) \ installed
      /\ \A t \in Sites : t # s => Kept(t)
  BY <1>2, PoolsWithout DEF Kept
<1>4. /\ job' # None /\ job'.op = job.op /\ job'.site = s
      /\ job'.step = IF job.op = "php" THEN "render" ELSE "forget"
  BY <1>2, AdvanceKeeps, StepTable
<1>5. SettledIsServed'
  BY <1>2, <1>3, <1>4, OthersSettled DEF ServedInv
<1>6. s \notin spoiled => PoolsOf(s)' = {}
  BY <1>2, <1>3, SettledPools DEF ServedInv, SiteOnCourse, SiteOps, ChangeOps
<1>7. SiteOnCourse'
  BY <1>2, <1>4, <1>6 DEF ServedInv, SiteOnCourse, SiteOps, ChangeOps
<1> QED
  BY <1>2, <1>4, <1>5, <1>7 DEF ServedInv, DraftOnCourse, RebuildOnCourse, ChangeOps

LEMMA ServedRender == IInv /\ ServedInv /\ Render => ServedInv'
<1> SUFFICES ASSUME IInv, ServedInv, Render PROVE ServedInv'
  OBVIOUS
<1>1. PICK s \in Sites, draft \in Settings : s = job.site /\ draft = job.draft
  BY Owners DEF Render, At, IInv, SiteOps, ChangeOps
<1> USE <1>1
<1>2. /\ TypeOK /\ JobPlaced /\ job # None /\ job.step = "render"
      /\ job.op \in {"create"} \cup ChangeOps /\ WriteFiles(s, draft) /\ Advance
      /\ UNCHANGED <<rows, loaded, installed, spoiled>>
  BY Owners DEF Render, At, IInv
<1>3. \A t \in Sites : t # s => Kept(t)
  BY <1>2, WriteFilesDoes DEF Kept
<1>4. /\ job' # None /\ job'.op = job.op /\ job'.site = s /\ job'.draft = draft
      /\ job'.step = "reload"
  BY <1>2, AdvanceKeeps, StepTable
<1>5. SettledIsServed'
  BY <1>2, <1>3, <1>4, OthersSettled DEF ServedInv
<1>6. s \notin spoiled => vhost'[s] = VhostOf(draft) /\ PoolsOf(s)' = {draft.php} \ {None}
  BY <1>2, RenderOnDisk DEF ServedInv, SiteOnCourse, SiteOps, ChangeOps
<1>7. SiteOnCourse'
  BY <1>2, <1>4, <1>6 DEF ServedInv, SiteOnCourse, SiteOps, ChangeOps, Rendered, VhostOf
<1> QED
  BY <1>2, <1>4, <1>5, <1>7 DEF ServedInv, DraftOnCourse, RebuildOnCourse, ChangeOps

LEMMA ServedRerender == IInv /\ ServedInv /\ Rerender => ServedInv'
<1> SUFFICES ASSUME IInv, ServedInv, Rerender PROVE ServedInv'
  OBVIOUS
<1>1. /\ TypeOK /\ JobPlaced /\ job # None /\ job.step = "rerender" /\ job.op = "rebuild"
      /\ job \in Jobs /\ job.left \subseteq Sited /\ job.site = None
      /\ UNCHANGED <<rows, loaded, installed, spoiled>> /\ Sited' = Sited
  BY Owners DEF Rerender, At, IInv, JobPlaced, Sited, SiteOps, ChangeOps
<1>2. None \notin Sites
  BY SiteLifecycleAssumption DEF SiteLifecycleAssumption
<1>3. ASSUME NEW s \in job.left, WriteFiles(s, rows[s]), job' = [job EXCEPT !.left = @ \ {s}]
      PROVE  ServedInv'
  <2>1. s \in Sites /\ s \in Sited /\ rows[s] \in Settings
    BY <1>1 DEF Sited, TypeOK
  <2>2. /\ job'.step = "rerender" /\ job'.op = "rebuild" /\ job'.site = None
        /\ job'.left = job.left \ {s} /\ job' \in Jobs
    BY <1>1, <1>3 DEF Jobs
  <2>3. job' # None
    BY <2>2, SiteLifecycleAssumption DEF SiteLifecycleAssumption
  <2>4. /\ vhost'[s] = VhostOf(rows[s])
        /\ PoolsOf(s)' = IF rows[s].php = None THEN PoolsOf(s) \ installed
                         ELSE PoolsOf(s) \cup {rows[s].php}
        /\ \A t \in Sites \ {s} : vhost'[t] = vhost[t] /\ PoolsOf(t)' = PoolsOf(t)
    BY <1>1, <1>3, <2>1, WriteFilesDoes
  <2>5. s \notin spoiled => Settled(s)
    BY <1>1, <1>2, <2>1 DEF ServedInv, SettledIsServed, Undisturbed
  <2>6. \A t \in Sites \ spoiled : Kept(t)
    <3>1. s \notin spoiled => Kept(s)
      BY <1>1, <2>1, <2>4, <2>5 DEF Kept, Settled, Rendered, Sited
    <3> QED
      BY <1>1, <2>4, <3>1 DEF Kept
  <2>7. SettledIsServed'
    BY <1>1, <2>2, <2>3, <2>6, OthersSettled DEF ServedInv
  <2>8. RebuildOnCourse'
    <3>1. ASSUME NEW t \in Sited, t \notin job'.left PROVE Restored(t)'
      <4>1. t \in Sites /\ t \notin job.left \ {s}
        BY <2>2, <3>1 DEF Sited
      <4>2. PoolsOf(t)' = {v \in Versions : t \in pools'[v]} /\ rows[t] \in Settings
        BY <1>1, <3>1 DEF PoolsOf, Sited, TypeOK
      <4>3. CASE t = s
        BY <1>1, <2>4, <4>2, <4>3 DEF Restored, VhostOf, Settings
      <4>4. CASE t # s
        <5>1. Restored(t)
          BY <1>1, <3>1, <4>1, <4>4 DEF ServedInv, RebuildOnCourse
        <5>2. rows[t].php # None => (t \in pools[rows[t].php] <=> t \in pools'[rows[t].php])
          BY <2>4, <4>1, <4>2, <4>4, <5>1 DEF PoolsOf, Settings, Restored
        <5> QED
          BY <1>1, <2>4, <4>1, <4>4, <5>1, <5>2 DEF Restored, VhostOf
      <4> QED
        BY <4>3, <4>4
    <3> QED
      BY <1>1, <2>2, <3>1 DEF RebuildOnCourse
  <2> QED
    BY <2>2, <2>7, <2>8 DEF ServedInv, SiteOnCourse, DraftOnCourse, SiteOps, ChangeOps
<1>4. CASE job.left = {} /\ Advance /\ UNCHANGED <<vhost, pools>>
  <2>1. /\ job' # None /\ job'.op = "rebuild" /\ job'.site = None /\ job'.step = "reload"
    BY <1>1, <1>4, AdvanceKeeps, StepTable
  <2>2. SettledIsServed'
    BY <1>1, <1>4, <2>1, OthersSettled DEF ServedInv, Kept, PoolsOf
  <2>3. RebuildOnCourse'
    BY <1>1, <1>4, <2>1 DEF ServedInv, RebuildOnCourse, Restored, VhostOf
  <2> QED
    BY <2>1, <2>2, <2>3 DEF ServedInv, SiteOnCourse, DraftOnCourse, SiteOps, ChangeOps
<1> QED
  BY <1>3, <1>4 DEF Rerender

LEMMA ServedReload == IInv /\ ServedInv /\ Reload => ServedInv'
<1> SUFFICES ASSUME IInv, ServedInv, Reload PROVE ServedInv'
  OBVIOUS
<1>1. /\ TypeOK /\ JobPlaced /\ job # None /\ job.step = "reload" /\ job.op \in AllOps
      /\ UNCHANGED <<rows, vhost, pools, installed>> /\ spoiled \subseteq spoiled'
      /\ Sited' = Sited /\ (job.op \in SiteOps => job.site \in Sites)
  BY Owners DEF Reload, At, IInv, Sited, Fail, Spoil
<1>2. /\ \A s : PoolsOf(s)' = PoolsOf(s) /\ Restored(s)' = Restored(s)
      /\ \A s, row : Rendered(s, row)' = Rendered(s, row)
  BY <1>1 DEF PoolsOf, Restored, Rendered, VhostOf
<1>3. loaded' \in {loaded, vhost} => \A s \in Sites \ spoiled : s # job.site => Kept(s)
  BY <1>1, <1>2 DEF ServedInv, SettledIsServed, Undisturbed, Settled, Kept
<1>4. CASE Fail /\ UNCHANGED loaded
  BY <1>1, <1>2, <1>4, ServedFail DEF Kept
<1>5. ASSUME Advance PROVE /\ job' # None /\ job'.op = job.op /\ job'.site = job.site
                           /\ job'.draft = job.draft
                           /\ job'.step = IF job.op = "delete" THEN "userdel"
                                          ELSE IF job.op = "rebuild" THEN "end" ELSE "commit"
  <2>1. /\ job' # None /\ job'.op = job.op /\ job'.site = job.site /\ job'.draft = job.draft
        /\ job'.step = StepsOf[job.op].reload
    BY <1>1, <1>5, AdvanceKeeps
  <2> QED
    BY <1>1, <2>1, StepTable DEF AllOps, SiteOps
<1>6. CASE loaded' = vhost /\ Advance /\ UNCHANGED spoiled
  <2>1. SettledIsServed'
    BY <1>1, <1>3, <1>5, <1>6, OthersSettled DEF ServedInv
  <2>2. SiteOnCourse'
    BY <1>1, <1>2, <1>5, <1>6 DEF ServedInv, SiteOnCourse, SiteOps, ChangeOps
  <2>3. DraftOnCourse' /\ RebuildOnCourse'
    BY <1>1, <1>2, <1>5, <1>6 DEF ServedInv, DraftOnCourse, RebuildOnCourse, ChangeOps
  <2> QED
    BY <2>1, <2>2, <2>3 DEF ServedInv
<1>7. CASE BestEffort /\ Advance /\ Spoil /\ UNCHANGED loaded
  <2>1. job.op = "ssl_on" /\ job.site \in spoiled'
    BY <1>1, <1>7, SiteLifecycleAssumption
       DEF SiteLifecycleAssumption, BestEffort, Spoil, SiteOps, ChangeOps
  <2>2. SettledIsServed'
    BY <1>1, <1>3, <1>5, <1>7, OthersSettled DEF ServedInv
  <2> QED
    BY <1>1, <1>5, <1>7, <2>1, <2>2
       DEF ServedInv, SiteOnCourse, DraftOnCourse, RebuildOnCourse, ChangeOps
<1> QED
  BY <1>4, <1>6, <1>7 DEF Reload

LEMMA ServedCommit == IInv /\ ServedInv /\ Commit => ServedInv'
<1> SUFFICES ASSUME IInv, ServedInv, Commit PROVE ServedInv'
  OBVIOUS
<1>1. PICK s \in Sites, draft \in Settings : s = job.site /\ draft = job.draft
  BY Owners DEF Commit, At, IInv, SiteOps, ChangeOps
<1> USE <1>1
<1>2. /\ TypeOK /\ JobPlaced /\ job # None /\ job.step = "commit"
      /\ job.op \in {"create"} \cup ChangeOps /\ draft # None /\ Advance
      /\ rows'[s] = draft /\ (\A t \in Sites \ {s} : rows'[t] = rows[t])
      /\ UNCHANGED <<vhost, pools, loaded, spoiled>>
  <2>1. /\ TypeOK /\ JobPlaced /\ job # None /\ job.step = "commit" /\ Advance
        /\ rows' = [rows EXCEPT ![s] = draft] /\ UNCHANGED <<vhost, pools, loaded, spoiled>>
    BY DEF Commit, At, IInv, files
  <2>2. job.op \in {"create"} \cup ChangeOps /\ draft # None
    BY <2>1, Owners DEF SiteOps, ChangeOps
  <2> QED
    BY <2>1, <2>2 DEF TypeOK
<1>3. \A t \in Sites : t # s => Kept(t)
  BY <1>2 DEF Kept, PoolsOf
<1>4. /\ job' # None /\ job'.op = job.op /\ job'.site = s /\ job'.draft = draft
      /\ job'.step = "end"
  BY <1>2, AdvanceKeeps, StepTable
<1>5. SettledIsServed'
  BY <1>2, <1>3, <1>4, OthersSettled DEF ServedInv
<1>6. s \notin spoiled => Settled(s)'
  BY <1>2 DEF ServedInv, SiteOnCourse, SiteOps, ChangeOps, Settled, Rendered, PoolsOf, VhostOf
<1>7. SiteOnCourse'
  BY <1>2, <1>4, <1>6 DEF SiteOnCourse, ChangeOps
<1> QED
  BY <1>2, <1>4, <1>5, <1>7 DEF ServedInv, DraftOnCourse, RebuildOnCourse, ChangeOps

LEMMA ServedTeardown == IInv /\ ServedInv /\ Teardown => ServedInv'
<1> SUFFICES ASSUME IInv, ServedInv, Teardown PROVE ServedInv'
  OBVIOUS
<1>1. PICK s \in Sites : s = job.site
  BY Owners DEF Teardown, At, IInv, SiteOps
<1> USE <1>1
<1>2. /\ TypeOK /\ JobPlaced /\ job # None /\ job.step = "teardown" /\ job.op = "delete"
      /\ s \in Sited /\ Advance /\ vhost'[s] = None /\ (\A t \in Sites \ {s} : vhost'[t] = vhost[t])
      /\ UNCHANGED <<rows, pools, loaded, installed, spoiled>>
  BY Owners DEF Teardown, At, IInv, JobPlaced, TypeOK
<1>3. PoolsOf(s)' = PoolsOf(s) /\ \A t \in Sites : t # s => Kept(t)
  BY <1>2 DEF Kept, PoolsOf
<1>4. job' # None /\ job'.op = "delete" /\ job'.site = s /\ job'.step = "unpool"
  BY <1>2, AdvanceKeeps, StepTable
<1>5. SettledIsServed'
  BY <1>2, <1>3, <1>4, OthersSettled DEF ServedInv
<1>6. s \notin spoiled => PoolsOf(s)' \subseteq installed
  BY <1>2, <1>3, SettledPools DEF ServedInv, SiteOnCourse, SiteOps
<1> QED
  BY <1>2, <1>4, <1>5, <1>6
     DEF ServedInv, SiteOnCourse, DraftOnCourse, RebuildOnCourse, ChangeOps

LEMMA ServedForget == IInv /\ ServedInv /\ Forget => ServedInv'
<1> SUFFICES ASSUME IInv, ServedInv, Forget PROVE ServedInv'
  OBVIOUS
<1>1. PICK s \in Sites : s = job.site
  BY Owners DEF Forget, At, IInv, SiteOps
<1> USE <1>1
<1>2. /\ TypeOK /\ JobPlaced /\ job # None /\ job.step = "forget" /\ job.op = "delete" /\ Advance
      /\ (\A t \in Sites \ {s} : rows'[t] = rows[t])
      /\ UNCHANGED <<vhost, pools, loaded, installed, spoiled>>
  BY Owners DEF Forget, At, IInv, TypeOK, files
<1>3. PoolsOf(s)' = PoolsOf(s) /\ \A t \in Sites : t # s => Kept(t)
  BY <1>2 DEF Kept, PoolsOf
<1>4. job' # None /\ job'.op = "delete" /\ job'.site = s /\ job'.step = "reload"
  BY <1>2, AdvanceKeeps, StepTable
<1>5. SettledIsServed'
  BY <1>2, <1>3, <1>4, OthersSettled DEF ServedInv
<1> QED
  BY <1>2, <1>3, <1>4, <1>5
     DEF ServedInv, SiteOnCourse, DraftOnCourse, RebuildOnCourse, SiteOps, ChangeOps

LEMMA ServedUserdel == IInv /\ ServedInv /\ Userdel => ServedInv'
<1> SUFFICES ASSUME IInv, ServedInv, Userdel PROVE ServedInv'
  OBVIOUS
<1>1. PICK s \in Sites : s = job.site
  BY Owners DEF Userdel, At, IInv, SiteOps
<1> USE <1>1
<1>2. /\ TypeOK /\ JobPlaced /\ job # None /\ job.step = "userdel" /\ job.op = "delete" /\ Advance
      /\ rows[s] = None /\ UNCHANGED <<rows, vhost, pools, loaded, installed, spoiled>>
  BY Owners DEF Userdel, At, IInv, JobPlaced, Sited
<1>3. \A t : Kept(t)
  BY <1>2 DEF Kept, PoolsOf
<1>4. job' # None /\ job'.op = "delete" /\ job'.site = s /\ job'.step = "end"
  BY <1>2, AdvanceKeeps, StepTable
<1>5. SettledIsServed'
  BY <1>2, <1>3, <1>4, OthersSettled DEF ServedInv
<1>6. s \notin spoiled => Settled(s)
  BY <1>2 DEF ServedInv, SiteOnCourse, SiteOps, Settled, Erased
<1>7. s \notin spoiled => Settled(s)' /\ vhost[s] = None /\ PoolsOf(s) = {}
  BY <1>2, <1>3, <1>6, KeptSettled DEF Settled, Erased
<1>8. SiteOnCourse'
  BY <1>2, <1>3, <1>4, <1>7 DEF SiteOnCourse, Kept
<1> QED
  BY <1>2, <1>4, <1>5, <1>8 DEF ServedInv, DraftOnCourse, RebuildOnCourse, ChangeOps

LEMMA ServedTryHttps == IInv /\ ServedInv /\ TryHttps => ServedInv'
<1> SUFFICES ASSUME IInv, ServedInv, TryHttps PROVE ServedInv'
  OBVIOUS
<1>1. PICK s \in Sites : s = job.site
  BY Owners DEF TryHttps, At, IInv, SiteOps
<1> USE <1>1
<1>2. /\ job # None /\ job.step = "end" /\ job.op = "create" /\ job \in Jobs
      /\ job' = [job EXCEPT !.op = "ssl_on", !.step = "issue"]
      /\ UNCHANGED <<rows, vhost, pools, loaded, installed, spoiled>>
  BY Owners DEF TryHttps, At, IInv, files
<1>3. \A t : Kept(t)
  BY <1>2 DEF Kept, PoolsOf
<1>4. /\ job' # None /\ job'.op = "ssl_on" /\ job'.site = s /\ job'.step = "issue"
      /\ job'.draft = job.draft
  BY <1>2, SiteLifecycleAssumption DEF SiteLifecycleAssumption, Jobs, SiteOps, ChangeOps
<1>5. SettledIsServed'
  BY <1>2, <1>3, <1>4, OthersSettled DEF ServedInv
<1>6. s \notin spoiled => Settled(s)'
  BY <1>2, <1>3, KeptSettled DEF ServedInv, SiteOnCourse, SiteOps
<1>7. SiteOnCourse'
  BY <1>2, <1>4, <1>6 DEF SiteOnCourse
<1> QED
  BY <1>2, <1>4, <1>5, <1>7 DEF ServedInv, DraftOnCourse, RebuildOnCourse

LEMMA ServedStop == IInv /\ ServedInv /\ (Finish \/ Crash) => ServedInv'
<1> SUFFICES ASSUME IInv, ServedInv, Finish \/ Crash PROVE ServedInv'
  OBVIOUS
<1>1. job # None /\ job' = None /\ \A t : Kept(t)
  BY DEF Finish, Crash, At, Fail, files, Kept, PoolsOf
<1>2. CASE Finish
  <2>1. job.step = "end" /\ spoiled' = spoiled /\ job.op \in AllOps
    BY <1>1, <1>2, Owners DEF Finish, At, IInv
  <2>2. ASSUME NEW s \in Sites \ spoiled, s = job.site PROVE Settled(s)'
    <3>1. job.op \in SiteOps
      BY <1>1, <2>1, <2>2, SiteLifecycleAssumption DEF SiteLifecycleAssumption, IInv, JobPlaced
    <3> QED
      BY <1>1, <2>1, <2>2, <3>1, KeptSettled DEF ServedInv, SiteOnCourse
  <2>3. SettledIsServed'
    BY <1>1, <2>1, <2>2, OthersSettled DEF ServedInv
  <2> QED
    BY <1>1, <2>3 DEF ServedInv, SiteOnCourse, DraftOnCourse, RebuildOnCourse
<1>3. CASE Crash
  BY <1>1, <1>3, ServedFail DEF Crash
<1> QED
  BY <1>2, <1>3

(***************************************************************************)
(* The theorems                                                            *)
(***************************************************************************)

\* A step of the system keeps the invariant: one lemma per action.
LEMMA NextIInv == IInv /\ [Next]_vars => IInv'
<1> SUFFICES ASSUME IInv, [Next]_vars PROVE IInv'
  OBVIOUS
<1>1. CASE RequestOfSite \/ (\E v \in Versions : AskStack(v)) \/ AskRebuild
  BY <1>1, RequestStep
<1>2. CASE Start
  BY <1>2, StartStep, StackStep, RefuseStep DEF Start
<1>3. CASE Step
  BY <1>3, CreateAccountStep, IssueStep, UnpoolStep, RenderStep, RerenderStep, ReloadStep,
     CommitStep, TeardownStep, ForgetStep, UserdelStep, TryHttpsStep, StopStep DEF Step
<1>4. CASE Crash
  BY <1>4, StopStep
<1>5. CASE UNCHANGED vars
  <2>1. UNCHANGED <<rows, ids, accounts, vhost, pools, installed, certs, loaded, queue, job, asked,
                    faults, spoiled>>
    BY <1>5 DEF vars, files
  <2>2. TypeOK'
    BY <2>1, IdsKept DEF IInv, TypeOK
  <2> QED
    BY <2>1, <2>2, Untouched DEF IInv
<1> QED
  BY <1>1, <1>2, <1>3, <1>4, <1>5 DEF Next

\* The same for the second layer.
LEMMA NextServed == IInv /\ ServedInv /\ [Next]_vars => ServedInv'
<1> SUFFICES ASSUME IInv, ServedInv, [Next]_vars PROVE ServedInv'
  OBVIOUS
<1>1. CASE RequestOfSite \/ (\E v \in Versions : AskStack(v)) \/ AskRebuild
  <2>1. UNCHANGED <<rows, vhost, pools, loaded, job, spoiled, installed>>
    BY <1>1 DEF RequestOfSite, AskCreate, AskDelete, AskPhp, AskSsl, AskRoot, AskPort, AskStack,
                AskRebuild, Ask, files
  <2> QED
    BY <2>1, ServedUntouched
<1>2. CASE Install \/ Uninstall \/ Refuse
  BY <1>2, ServedUntouched DEF Install, Uninstall, Refuse, Idle, files
<1>3. CASE StartCreate \/ StartChange \/ StartRebuild
  BY <1>3, ServedStart
<1>4. CASE Step
  BY <1>4, ServedAccount, ServedIssue, ServedUnpool, ServedRender, ServedRerender, ServedReload,
     ServedCommit, ServedTeardown, ServedForget, ServedUserdel, ServedTryHttps, ServedStop DEF Step
<1>5. CASE Crash
  BY <1>5, ServedStop
<1>6. CASE UNCHANGED vars
  BY <1>6, ServedUntouched DEF vars, files
<1> QED
  BY <1>1, <1>2, <1>3, <1>4, <1>5, <1>6 DEF Next, Start

\* The inductive invariant holds in every reachable state.
THEOREM Invariance == Spec => []IInv
  BY InitIInv, NextIInv, PTL DEF Spec

\* And with it where a job has brought the files of its site by each of its steps.
THEOREM ServedInvariance == Spec => []ServedInv
<1>1. IInv /\ ServedInv /\ [Next]_vars => ServedInv'
  BY NextServed
<1> QED
  BY InitServed, <1>1, Invariance, PTL DEF Spec

\* The types, with an id of its own for every row.
THEOREM TypeCorrect == Spec => []TypeOK
<1>1. IInv => TypeOK
  BY DEF IInv
<1> QED
  BY <1>1, Invariance, PTL

\* Whatever fails or dies in the middle of a creation or a deletion (sites.py create_site,
\* delete_site), a site in the database has its system user.
THEOREM AccountsOfRows == Spec => []RowHasAccount
<1>1. IInv => RowHasAccount
  BY DEF IInv
<1> QED
  BY <1>1, Invariance, PTL

\* No committed row names a PHP version that uninstall has removed (php.py _sites_using).
THEOREM VersionsOfRows == Spec => []VersionInUseStays
<1>1. IInv => VersionInUseStays
  BY DEF IInv
<1> QED
  BY <1>1, Invariance, PTL

\* No vhost names a certificate that certbot has not issued (sites.py enable_ssl).
THEOREM CertificatesOfVhosts == Spec => []TlsHasCertificate
<1>1. IInv => TlsHasCertificate
  BY DEF IInv
<1> QED
  BY <1>1, Invariance, PTL

\* Two applications never share a port (apps.py check_port_free, allocate_port).
THEOREM PortsOfRows == Spec => []PortsDistinct
<1>1. IInv => PortsDistinct
  BY DEF IInv
<1> QED
  BY <1>1, Invariance, PTL

\* What a committed row counts on is there and its own, whatever failed or was
\* overtaken (sites.py, php.py, apps.py).
THEOREM RowsSupported == Spec => []RowIsSupported
<1>1. IInv => RowIsSupported
  BY DEF IInv, RowIsSupported
<1> QED
  BY <1>1, Invariance, PTL

\* A site whose jobs all ran to their end is served as its row says: its vhost on disk, the
\* one nginx runs, and the pool of its PHP version and of no other (sites.py, php.py,
\* renderer.py), whatever other sites' jobs have left behind.
THEOREM SettledServed == Spec => []SettledIsServed
<1>1. ServedInv => SettledIsServed
  BY DEF ServedInv
<1> QED
  BY <1>1, ServedInvariance, PTL

\* A rebuild that ends has put every row in force, those of spoiled sites too (renderer.py
\* rebuild_all).
THEOREM RebuildRecovers == Spec => []RebuildRestores
<1>1. ServedInv => RebuildRestores
  BY DEF ServedInv, RebuildOnCourse, Restored, RebuildRestores, At, Sited
<1> QED
  BY <1>1, ServedInvariance, PTL
=============================================================================
