------------------------------ MODULE WebAccess ------------------------------
(***************************************************************************)
(* services/permissions.py: nginx's access to the folders of the sites by  *)
(* an ACL, or by the site's group where there are none; the job that       *)
(* repairs one site or all, which main.py queues at every start until a    *)
(* marker says that it has gone well; and the file manager, which resets   *)
(* ACLs with every chmod and puts them back.                               *)
(***************************************************************************)
EXTENDS Integers, FiniteSets

CONSTANTS
    WaSites,         \* sites nginx serves files of
    WaMaxStarts,     \* bound: starts of the panel
    WaMaxAsked       \* bound: requests, chmods of the file manager and repairs

\* Of a site: its folder, the document root, what is in that, and tmp, which
\* is PHP's; every folder stands for those of its kind.
WaParts == {"root", "webroot", "inner", "tmp"}

VARIABLES
    waAcc,       \* where the ACL lets nginx in, the mask counted
    waDfl,       \* where new content inherits that
    waMode,      \* where the group of the folder may enter
    waGroup,     \* the sites whose group nginx is in
    waMarker,    \* .nginx-acl-migrated-v1
    waQueue,     \* the repair jobs that wait
    waJob,       \* the one that runs
    waChmod,     \* a chmod of the file manager that is to be followed by reassert
    waStarts, waAsked,
    waFixed,     \* history: sites a repair has granted whole, and
    waLocked,    \* those the file manager has then locked nginx out of
    waTmpOpen,   \* history: sites whose tmp was opened by a reassert, or left open
                 \* by a repair that ended or failed before it was closed
    waTouched    \* history: sites changed since the job looked at them

waAcls == <<waAcc, waDfl, waMode, waGroup>>
waHistory == <<waFixed, waLocked, waTmpOpen, waTouched>>
waVars == <<waAcls, waMarker, waQueue, waJob, waChmod, waStarts, waAsked, waHistory>>

WaIdle == [step |-> "idle"]

\* already_granted
WaGranted(s) == {"root", "webroot"} \subseteq waAcc[s] \cap waDfl[s]
WaMayEnter(s, p) == p \in waAcc[s] \/ (s \in waGroup /\ p \in waMode[s])
WaServed(s) == WaMayEnter(s, "root") /\ WaMayEnter(s, "webroot")

\* Any folders as an operator or an earlier version have left them.
WaInit ==
    /\ waAcc \in [WaSites -> {{}, WaParts \ {"tmp"}}]
    /\ waDfl = waAcc
    /\ waMode = [s \in WaSites |-> WaParts]
    /\ waGroup = {} /\ waMarker = FALSE
    /\ waQueue = {} /\ waJob = WaIdle /\ waChmod = WaIdle
    /\ waStarts = 0 /\ waAsked = 0
    /\ waFixed = {} /\ waLocked = {} /\ waTmpOpen = {} /\ waTouched = {}

-----------------------------------------------------------------------------
(* _migrate_site_permissions, and the Repair button *)

\* The panel is started: the job that ran and those that waited are gone.
WaPanelStarts ==
    /\ waStarts < WaMaxStarts
    /\ waStarts' = waStarts + 1
    /\ waQueue' = IF waMarker THEN {} ELSE {"all"}
    /\ waJob' = WaIdle /\ waChmod' = WaIdle
    /\ waTmpOpen' = waTmpOpen \cup {s \in WaSites : waJob # WaIdle /\ "tmp" \in waAcc[s] \cup waDfl[s]}
    /\ waLocked' = waLocked \cup {s \in WaSites : waChmod # WaIdle /\ waChmod.site = s}
    /\ waTouched' = {}
    /\ UNCHANGED <<waAcls, waMarker, waAsked, waFixed>>

AskRepair(s) ==
    /\ waStarts > 0 /\ waAsked < WaMaxAsked
    /\ waAsked' = waAsked + 1
    /\ waQueue' = waQueue \cup {s}
    /\ UNCHANGED <<waAcls, waMarker, waJob, waChmod, waStarts, waHistory>>

-----------------------------------------------------------------------------
(* repair_site_permissions *)

\* left: the sites still to do; force: re-state the ACL whatever is there.
WaJobOf(job) ==
    [step |-> "next", left |-> IF job = "all" THEN WaSites ELSE {job}, all |-> job = "all",
     site |-> "none", force |-> job # "all", failed |-> {}]

RepairBegins ==
    /\ waJob = WaIdle
    /\ \E job \in waQueue :
          /\ waQueue' = waQueue \ {job}
          /\ waJob' = WaJobOf(job)
    /\ UNCHANGED <<waAcls, waMarker, waChmod, waStarts, waAsked, waHistory>>

WaAt(step)   == waJob.step = step
WaStep(step) == [waJob EXCEPT !.step = step]
WaGoes(j) ==
    /\ waJob' = j
    /\ UNCHANGED <<waMarker, waQueue, waChmod, waStarts, waAsked>>

NextSite ==
    /\ WaAt("next")
    /\ \E s \in waJob.left :
          /\ WaGoes([waJob EXCEPT !.step = IF waJob.force \/ ~WaGranted(s) THEN "grant" ELSE "check",
                                  !.site = s, !.left = @ \ {s}])
          /\ waTouched' = waTouched \ {s}
    /\ UNCHANGED <<waAcls, waFixed, waLocked, waTmpOpen>>

\* How far a walk of the tree may have come.
WaWalks == {{}, {"root", "tmp"}, WaParts \ {"tmp"}, WaParts}
WaAdd(f, ps) == [f EXCEPT ![waJob.site] = @ \cup ps]

\* _grant_tree: setfacl -R over the tree; it may fail part of the way, or not
\* be there at all.
GrantAccess ==
    /\ WaAt("grant")
    /\ \E ps \in WaWalks :
          /\ waAcc' = WaAdd(waAcc, ps)
          /\ WaGoes(WaStep(IF ps = WaParts THEN "defaults" ELSE "group"))
          /\ waTmpOpen' = IF "tmp" \in ps /\ ps # WaParts THEN waTmpOpen \cup {waJob.site} ELSE waTmpOpen
    /\ UNCHANGED <<waDfl, waMode, waGroup, waFixed, waLocked, waTouched>>

\* find -type d -exec setfacl -d.
GrantDefaults ==
    /\ WaAt("defaults")
    /\ \E ps \in WaWalks :
          /\ waDfl' = WaAdd(waDfl, ps)
          /\ WaGoes(WaStep(IF ps = WaParts THEN "revoke" ELSE "group"))
          /\ waTmpOpen' = IF ps = WaParts THEN waTmpOpen ELSE waTmpOpen \cup {waJob.site}
    /\ UNCHANGED <<waAcc, waMode, waGroup, waFixed, waLocked, waTouched>>

\* Faulty variant: the temporary folder keeps the grant of the tree.
RevokeNothing ==
    /\ WaAt("revoke")
    /\ waFixed' = waFixed \cup {waJob.site} /\ waLocked' = waLocked \ {waJob.site}
    /\ waTmpOpen' = waTmpOpen \ {waJob.site}
    /\ WaGoes(WaStep("check"))
    /\ UNCHANGED <<waAcls, waTouched>>

\* _revoke_tree of tmp, two commands whose exit codes are not looked at.
RevokeTmp ==
    /\ WaAt("revoke")
    /\ \E acc, dfl \in {{}, {"tmp"}} :
          /\ waAcc' = [waAcc EXCEPT ![waJob.site] = @ \ acc]
          /\ waDfl' = [waDfl EXCEPT ![waJob.site] = @ \ dfl]
          /\ waTmpOpen' = IF "tmp" \in acc \cap dfl THEN waTmpOpen \ {waJob.site}
                          ELSE waTmpOpen \cup {waJob.site}
    /\ waFixed' = waFixed \cup ({waJob.site} \ waTouched)
    /\ waLocked' = waLocked \ ({waJob.site} \ waTouched)
    /\ WaGoes(WaStep("check"))
    /\ UNCHANGED <<waMode, waGroup, waTouched>>

\* _fallback_group, and the restart of nginx (one that fails: RepairRaises).
JoinGroup ==
    /\ WaAt("group")
    /\ waGroup' = waGroup \cup {waJob.site}
    /\ WaGoes(WaStep("check"))
    /\ UNCHANGED <<waAcc, waDfl, waMode, waHistory>>

JoinFails ==
    /\ WaAt("group")
    /\ WaGoes([WaStep("next") EXCEPT !.failed = @ \cup {waJob.site}])
    /\ UNCHANGED <<waAcls, waHistory>>

\* Faulty variant: a site that is still blocked is only written to the log.
CheckAccessAndLog ==
    /\ WaAt("check")
    /\ WaGoes(WaStep("next"))
    /\ UNCHANGED <<waAcls, waHistory>>

\* check: as nginx's user, and a request; one that is refused although the
\* document root is open, because of what is in it, is a problem too.  The
\* migration then re-states the ACL, once.
CheckAccess ==
    /\ WaAt("check")
    /\ \E ok \in {WaServed(waJob.site)} \cup (IF WaMayEnter(waJob.site, "inner") THEN {} ELSE {FALSE}) :
          WaGoes(IF ok THEN [WaStep("next") EXCEPT !.force = ~waJob.all]
                 ELSE IF ~waJob.force THEN [WaStep("grant") EXCEPT !.force = TRUE]
                 ELSE [WaStep("next") EXCEPT !.failed = @ \cup {waJob.site}, !.force = ~waJob.all])
    /\ UNCHANGED <<waAcls, waHistory>>

\* A command takes too long, or nginx does not start again: the error is none
\* of those caught for one site, and ends the job for all of them.
RepairRaises ==
    /\ waJob # WaIdle /\ ~WaAt("next")
    /\ waJob' = WaIdle
    /\ waTmpOpen' = waTmpOpen \cup {s \in WaSites : "tmp" \in waAcc[s] \cup waDfl[s]}
    /\ waTouched' = {}
    /\ UNCHANGED <<waAcls, waMarker, waQueue, waChmod, waStarts, waAsked, waFixed, waLocked>>

\* Only the job for all sites writes the marker; a marker that cannot be
\* written is no failure.
RepairEnds ==
    /\ WaAt("next") /\ waJob.left = {}
    /\ waMarker' \in IF waJob.all /\ waJob.failed = {} THEN {TRUE, waMarker} ELSE {waMarker}
    /\ waJob' = WaIdle
    /\ waTouched' = {}
    /\ UNCHANGED <<waAcls, waQueue, waChmod, waStarts, waAsked, waFixed, waLocked, waTmpOpen>>

-----------------------------------------------------------------------------
(* The file manager: chmod, chmod_recursive *)

\* The bits of a folder are set, and with them the mask of its ACL.
ChmodFolder(s, ps) ==
    /\ waStarts > 0 /\ waChmod = WaIdle /\ waAsked < WaMaxAsked
    /\ waAsked' = waAsked + 1
    /\ waAcc' = [waAcc EXCEPT ![s] = @ \ ps]
    /\ waMode' = [waMode EXCEPT ![s] = @ \ ps]
    /\ waChmod' = [step |-> "reassert", site |-> s, parts |-> ps]
    /\ waTouched' = IF waJob = WaIdle THEN {} ELSE waTouched \cup {s}
    /\ UNCHANGED <<waDfl, waGroup, waMarker, waQueue, waJob, waStarts, waFixed, waLocked, waTmpOpen>>

\* chmod_recursive raises in the middle of its walk, at a name that another
\* request has removed, or the panel dies there: nothing is put back.
ChmodIsCut(s, ps) ==
    /\ waStarts > 0 /\ waChmod = WaIdle /\ waAsked < WaMaxAsked
    /\ waAsked' = waAsked + 1
    /\ \E qs \in SUBSET ps :
          /\ waAcc' = [waAcc EXCEPT ![s] = @ \ qs]
          /\ waMode' = [waMode EXCEPT ![s] = @ \ qs]
    /\ waLocked' = waLocked \cup {s}
    /\ waTouched' = IF waJob = WaIdle THEN {} ELSE waTouched \cup {s}
    /\ UNCHANGED <<waDfl, waGroup, waMarker, waQueue, waJob, waChmod, waStarts, waFixed, waTmpOpen>>

WaChmodEnds(s) ==
    /\ waChmod' = WaIdle
    /\ waTouched' = IF waJob = WaIdle THEN {} ELSE waTouched \cup {s}
    /\ UNCHANGED <<waMode, waGroup, waMarker, waQueue, waJob, waStarts, waAsked, waFixed>>

\* Faulty variant: folders the ACL still lets nginx into are granted again.
ReassertIfOpen ==
    /\ waChmod # WaIdle
    /\ LET s == waChmod.site
           ps == waChmod.parts \cap waAcc[s] IN
       /\ waAcc' = [waAcc EXCEPT ![s] = @ \cup ps]
       /\ waDfl' = [waDfl EXCEPT ![s] = @ \cup ps]
       /\ UNCHANGED <<waLocked, waTmpOpen>>
       /\ WaChmodEnds(s)

\* reassert: where the site's own folder still carries the grant, which it
\* does not when it is the folder whose bits were set.
Reassert ==
    /\ waChmod # WaIdle
    /\ LET s == waChmod.site
           ps == IF "root" \in waAcc[s] \cap waDfl[s] THEN waChmod.parts ELSE {} IN
       /\ waAcc' = [waAcc EXCEPT ![s] = @ \cup ps]
       /\ waDfl' = [waDfl EXCEPT ![s] = @ \cup ps]
       /\ waLocked' = IF "root" \in waChmod.parts THEN waLocked \cup {s} ELSE waLocked
       /\ waTmpOpen' = IF "tmp" \in ps THEN waTmpOpen \cup {s} ELSE waTmpOpen
       /\ WaChmodEnds(s)

\* setfacl or getfacl is not there, or a command fails or takes too long, at
\* any folder of the walk: that is written to the log, and the request is done.
ReassertFails ==
    /\ waChmod # WaIdle
    /\ LET s == waChmod.site
           ps == IF "root" \in waAcc[s] \cap waDfl[s] THEN waChmod.parts ELSE {} IN
       /\ \E acc, dfl \in SUBSET ps :
             /\ waAcc' = [waAcc EXCEPT ![s] = @ \cup acc]
             /\ waDfl' = [waDfl EXCEPT ![s] = @ \cup dfl]
       /\ waLocked' = waLocked \cup {s}
       /\ waTmpOpen' = IF "tmp" \in ps THEN waTmpOpen \cup {s} ELSE waTmpOpen
       /\ WaChmodEnds(s)

WebAccessNext ==
    \/ WaPanelStarts
    \/ RepairBegins \/ NextSite \/ GrantAccess \/ GrantDefaults \/ RevokeTmp
    \/ JoinGroup \/ JoinFails \/ CheckAccess \/ RepairRaises \/ RepairEnds
    \/ Reassert \/ ReassertFails
    \/ \E s \in WaSites :
          \/ AskRepair(s)
          \/ \E p \in WaParts : ChmodFolder(s, {p})
          \/ ChmodFolder(s, WaParts \ {"root"})
          \/ ChmodIsCut(s, WaParts \ {"root"})

WebAccessSpec == WaInit /\ [][WebAccessNext]_waVars

-----------------------------------------------------------------------------
WaTypeOK ==
    /\ {waAcc, waDfl, waMode} \subseteq [WaSites -> SUBSET WaParts]
    /\ waGroup \subseteq WaSites /\ waQueue \subseteq WaSites \cup {"all"}
    /\ waFixed \cup waLocked \cup waTmpOpen \cup waTouched \subseteq WaSites

\* The migration is over, and will not be queued again, only when nginx can
\* enter the document root of every site (tasks.py 336-350), the file manager
\* having changed none after it was looked at.
MarkerMeansServed ==
    [][waMarker' # waMarker => \A s \in WaSites \ waTouched : WaServed(s)]_waVars

\* "PHP's session / upload scratch space is never for the web server"
\* (permissions.py 283-285), once the repair is over: except where the file
\* manager's reassert has opened it, or a repair has not come to closing it,
\* which the next migration, finding the grant in place, does not do either.
TmpIsPrivate ==
    waJob = WaIdle =>
        \A s \in WaSites : "tmp" \in waAcc[s] => s \in waTmpOpen

\* nginx can serve a site that was granted whole whatever the file manager does
\* to its folders' bits (files.py 487, 522), except to those of the site's own,
\* and unless the walk or what puts the grant back was cut short or failed, of
\* which nothing is left but a line in the log.
GrantOutlivesChmod ==
    waChmod = WaIdle => \A s \in waFixed \ waLocked : WaServed(s)

\* nginx enters where it has been let in, and not where it must not.
AccessIsAsGranted == TmpIsPrivate /\ GrantOutlivesChmod
=============================================================================
