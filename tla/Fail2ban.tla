------------------------------ MODULE Fail2ban ------------------------------
(***************************************************************************)
(* services/fail2ban.py and routers/fail2ban.py: the settings the panel    *)
(* stores, the files it renders from them, the configuration the daemon    *)
(* runs, and the permanent bans of the panel against those in force.       *)
(* Settings are applied in request threads and by the install job, each    *)
(* command on its own, with nothing to keep two from overlapping.          *)
(***************************************************************************)
EXTENDS FiniteSets

CONSTANTS
    F2bThreads,    \* request threads and the worker's
    F2bConfigs,    \* settings
    F2bBad,        \* those `fail2ban-client -t` rejects
    F2bIps,
    F2bNone        \* no files, or a daemon that is down or runs without them

ASSUME Fail2banAssumption == F2bBad \subseteq F2bConfigs /\ F2bNone \notin F2bConfigs

VARIABLES
    f2Row,         \* the settings in the panel's database
    f2File,        \* the settings the three files were rendered from
    f2Loaded,      \* what the daemon was started with
    f2Installed,
    f2Wanted,      \* the permanent bans in the panel's database
    f2Bans,        \* the bans of the manual jail; fail2ban's own database
                   \* keeps them over a restart
    f2Thread,      \* what each thread does
    f2Torn,        \* history: an apply was overlapped or cut off since the last
                   \* that restarted the daemon alone
    f2Applied,     \* history: the last apply went well and read what is stored
    f2Ghosts       \* history: IPs an unban of which failed, or that a thread
                   \* banned after they had been unbanned

f2Vars == <<f2Row, f2File, f2Loaded, f2Installed, f2Wanted, f2Bans, f2Thread,
            f2Torn, f2Applied, f2Ghosts>>
f2Daemon == <<f2File, f2Loaded, f2Installed>>
f2Lists  == <<f2Wanted, f2Bans, f2Ghosts>>

\* read: the settings an apply has read; before: the files it found; force:
\* restart whatever has changed.
F2bIdle == [step |-> "idle"]
F2bApplying == {t \in F2bThreads : f2Thread[t].step \in {"test", "restart", "purge"}}

F2bInit ==
    /\ f2Row \in F2bConfigs \ F2bBad
    /\ f2File = F2bNone /\ f2Loaded = F2bNone /\ f2Installed = FALSE
    /\ f2Wanted = {} /\ f2Bans = {} /\ f2Ghosts = {}
    /\ f2Thread = [t \in F2bThreads |-> F2bIdle]
    /\ f2Torn = FALSE /\ f2Applied = FALSE

F2bIsIdle(t) == f2Thread[t] = F2bIdle
F2bSet(t, p) == f2Thread' = [f2Thread EXCEPT ![t] = p]
F2bEnd(t)    == F2bSet(t, F2bIdle)

-----------------------------------------------------------------------------
(* Settings. *)

\* update_settings.
SaveF2b ==
    /\ \E c \in F2bConfigs \ {f2Row} : f2Row' = c
    /\ f2Applied' = FALSE
    /\ UNCHANGED <<f2Daemon, f2Lists, f2Thread, f2Torn>>

\* apply_config up to the test: the settings are read and the files written.
RenderF2b(t, force) ==
    /\ F2bIsIdle(t) /\ f2Installed
    /\ f2File' = f2Row
    /\ F2bSet(t, [step |-> "test", read |-> f2Row, before |-> f2File, force |-> force])
    /\ f2Torn' = (f2Torn \/ F2bApplying # {})
    /\ f2Applied' = FALSE
    /\ UNCHANGED <<f2Row, f2Loaded, f2Installed, f2Lists>>

TestPasses(t) ==
    /\ f2Thread[t].step = "test"
    /\ f2File \notin F2bBad
    /\ F2bSet(t, [f2Thread[t] EXCEPT !.step = "restart"])
    /\ UNCHANGED <<f2Row, f2Daemon, f2Lists, f2Torn, f2Applied>>

\* Faulty variant: the refusal is reported and the files stay.
TestRefusesOnly(t) ==
    /\ f2Thread[t].step = "test"
    /\ F2bEnd(t)
    /\ UNCHANGED <<f2Row, f2Daemon, f2Lists, f2Torn, f2Applied>>

\* "rejected the new configuration, previous settings kept"
TestRefuses(t) ==
    /\ f2Thread[t].step = "test"
    /\ f2File' = f2Thread[t].before
    /\ F2bEnd(t)
    /\ UNCHANGED <<f2Row, f2Loaded, f2Installed, f2Lists, f2Torn, f2Applied>>

\* The test takes more than its 60 seconds: run raises, the files stay.
TestTimesOut(t) ==
    /\ f2Thread[t].step = "test"
    /\ F2bEnd(t)
    /\ f2Torn' = TRUE
    /\ UNCHANGED <<f2Row, f2Daemon, f2Lists, f2Applied>>

\* Faulty variant: only files that have changed count.
NeedsRestartIfChanged(p) == f2File # p.before

NeedsRestart(p) == f2File # p.before \/ p.force \/ f2Loaded = F2bNone

\* The full restart, and the jails that are then all there.
RestartF2b(t) ==
    /\ f2Thread[t].step = "restart"
    /\ f2File \in F2bConfigs \ F2bBad
    /\ f2Loaded' = IF NeedsRestart(f2Thread[t]) THEN f2File ELSE f2Loaded
    /\ F2bSet(t, [step |-> "reapply"])
    /\ f2Torn' = (f2Torn /\ ~(/\ F2bApplying = {t} /\ NeedsRestart(f2Thread[t])
                              /\ f2File = f2Thread[t].read))
    /\ f2Applied' = (f2Thread[t].read = f2Row)
    /\ UNCHANGED <<f2Row, f2File, f2Installed, f2Lists>>

\* The daemon does not come back, as with files another thread has written.
RestartFails(t) ==
    /\ f2Thread[t].step = "restart" /\ NeedsRestart(f2Thread[t])
    /\ f2Loaded' = F2bNone
    /\ F2bEnd(t)
    /\ UNCHANGED <<f2Row, f2File, f2Installed, f2Lists, f2Torn, f2Applied>>

\* The package, whose daemon runs with its own configuration; the admin's
\* address is put on the never-ban list first.
InstallF2b ==
    /\ ~f2Installed
    /\ f2Installed' = TRUE
    /\ \E c \in F2bConfigs \ F2bBad : f2Row' = c
    /\ f2Applied' = FALSE
    /\ UNCHANGED <<f2File, f2Loaded, f2Lists, f2Thread, f2Torn>>

StopF2b(t) ==
    /\ F2bIsIdle(t) /\ f2Installed
    /\ f2Loaded' = F2bNone
    /\ F2bSet(t, [step |-> "purge"])
    /\ f2Torn' = (f2Torn \/ F2bApplying # {})
    /\ f2Applied' = FALSE
    /\ UNCHANGED <<f2Row, f2File, f2Installed, f2Lists>>

PurgeF2b(t) ==
    /\ f2Thread[t].step = "purge"
    /\ f2Installed' = FALSE /\ f2File' = F2bNone /\ f2Loaded' = F2bNone
    /\ f2Bans' = {} /\ f2Ghosts' = {}
    /\ F2bEnd(t)
    /\ UNCHANGED <<f2Row, f2Wanted, f2Torn, f2Applied>>

-----------------------------------------------------------------------------
(* Bans. *)

F2bUp == f2Loaded # F2bNone

BansChange(t, bans, ghosts) ==
    /\ f2Bans' = bans /\ f2Ghosts' = ghosts
    /\ F2bEnd(t)
    /\ UNCHANGED <<f2Row, f2Daemon, f2Wanted, f2Torn, f2Applied>>

\* ban_ip: the row, before the command.
BanRow(t) ==
    /\ F2bIsIdle(t) /\ f2Installed
    /\ \E ip \in F2bIps :
          /\ f2Wanted' = f2Wanted \cup {ip}
          /\ F2bSet(t, [step |-> "ban", ips |-> {ip}])
    /\ UNCHANGED <<f2Row, f2Daemon, f2Bans, f2Torn, f2Applied, f2Ghosts>>

\* `set lite-panel-manual banip` of a ban, or of reapply_permanent_bans.
BanCommand(t) ==
    /\ f2Thread[t].step = "ban" /\ F2bUp
    /\ BansChange(t, f2Bans \cup f2Thread[t].ips, f2Ghosts \cup (f2Thread[t].ips \ f2Wanted))

\* The command fails: the page says so, or nobody does; the row stays.
BanFails(t) ==
    /\ f2Thread[t].step = "ban"
    /\ F2bEnd(t)
    /\ UNCHANGED <<f2Row, f2Daemon, f2Lists, f2Torn, f2Applied>>

\* reapply_permanent_bans: after a restart and whenever the page is shown.
F2bReapply(t) ==
    /\ f2Thread[t].step = "reapply" \/ (F2bIsIdle(t) /\ F2bUp /\ f2Wanted \ f2Bans # {})
    /\ F2bSet(t, IF f2Wanted \ f2Bans = {} THEN F2bIdle
                 ELSE [step |-> "ban", ips |-> f2Wanted \ f2Bans])
    /\ UNCHANGED <<f2Row, f2Daemon, f2Lists, f2Torn, f2Applied>>

\* Faulty variant: the row is forgotten and the ban stays in force.
UnbanRowOnly(t) ==
    /\ F2bIsIdle(t)
    /\ \E ip \in F2bIps : f2Wanted' = f2Wanted \ {ip}
    /\ UNCHANGED <<f2Row, f2Daemon, f2Bans, f2Thread, f2Torn, f2Applied, f2Ghosts>>

\* unban_ip: the row, before the command.
UnbanRow(t) ==
    /\ F2bIsIdle(t)
    /\ \E ip \in F2bIps :
          /\ f2Wanted' = f2Wanted \ {ip}
          /\ F2bSet(t, [step |-> "unban", ips |-> {ip}])
    /\ UNCHANGED <<f2Row, f2Daemon, f2Bans, f2Torn, f2Applied, f2Ghosts>>

UnbanCommand(t) ==
    /\ f2Thread[t].step = "unban" /\ F2bUp
    /\ BansChange(t, f2Bans \ f2Thread[t].ips, f2Ghosts \ f2Thread[t].ips)

\* Not checked: "Unbanned" is what the page says.
UnbanFails(t) ==
    /\ f2Thread[t].step = "unban"
    /\ BansChange(t, f2Bans, f2Ghosts \cup (f2Thread[t].ips \cap f2Bans))

\* The panel ends, and its threads with it.
F2bPanelEnds ==
    /\ f2Thread' = [t \in F2bThreads |-> F2bIdle]
    /\ f2Torn' = (f2Torn \/ F2bApplying # {})
    /\ f2Ghosts' = f2Ghosts \cup (f2Bans \ f2Wanted)
    /\ UNCHANGED <<f2Row, f2Daemon, f2Wanted, f2Bans, f2Applied>>

F2bNext ==
    \/ SaveF2b \/ InstallF2b \/ F2bPanelEnds
    \/ \E t \in F2bThreads :
          \/ \E force \in BOOLEAN : RenderF2b(t, force)
          \/ TestPasses(t) \/ TestRefuses(t) \/ TestTimesOut(t)
          \/ RestartF2b(t) \/ RestartFails(t) \/ StopF2b(t) \/ PurgeF2b(t)
          \/ BanRow(t) \/ BanCommand(t) \/ BanFails(t) \/ F2bReapply(t)
          \/ UnbanRow(t) \/ UnbanCommand(t) \/ UnbanFails(t)

F2bSpec == F2bInit /\ [][F2bNext]_f2Vars

-----------------------------------------------------------------------------
F2bTypeOK ==
    /\ f2Row \in F2bConfigs
    /\ {f2File, f2Loaded} \subseteq F2bConfigs \cup {F2bNone}
    /\ {f2Installed, f2Torn, f2Applied} \subseteq BOOLEAN
    /\ f2Wanted \subseteq F2bIps /\ f2Bans \subseteq F2bIps /\ f2Ghosts \subseteq F2bIps

\* What the daemon would be started with after a reboot is what it runs now,
\* whatever was rejected meanwhile, unless two applies have overlapped or one
\* was cut off: "On a failed check the previous files are restored".
FilesAreLoaded == F2bApplying = {} /\ ~f2Torn /\ F2bUp => f2File = f2Loaded

\* "Settings saved and applied": the daemon then runs the settings that are
\* stored, unless two applies have overlapped, or one was cut off and this one
\* found its files: apply_config looks for changes in the files, not in what the
\* daemon runs, and does not restart it.
AppliedIsInForce == f2Applied /\ ~f2Torn => f2Loaded = f2Row

\* A ban without a row, which no page of the panel lists as permanent and a
\* reinstall would not bring back, is left only by a command that failed or by
\* a thread that banned what another was unbanning.
NoGhostBan ==
    \A ip \in f2Bans \ f2Wanted :
        ip \in f2Ghosts \/ \E t \in F2bThreads : f2Thread[t].step = "unban" /\ ip \in f2Thread[t].ips

\* Daemon, files and rows agree at rest.
DaemonMatches == FilesAreLoaded /\ AppliedIsInForce /\ NoGhostBan
=============================================================================
