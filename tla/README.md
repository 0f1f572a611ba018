# lite-panel in TLA+

Specifications of lite-panel, a single-process hosting panel (FastAPI, SQLite,
one worker thread for everything that changes the server), with the TLC
instances that check them and the TLAPS proofs about its parts. Paths below are
relative to `src/panel/app/` unless they begin with `src/`.

- [The system](#the-system)
- [Modules](#modules)
- [Runs](#runs)
- [Fairness](#fairness)
- [Proofs](#proofs)
- [Where the code and its words part](#where-the-code-and-its-words-part)
- [Not modelled](#not-modelled)
- [Plan](#plan)

## The system

One process serves HTTP requests in a pool of threads (and an event loop for
streams and websockets), and starts two threads of its own: the job worker
(`jobs.py`) and the backup scheduler (`services/backup.py`). They share an
SQLite file. Everything that touches the server (packages, vhosts, users,
firewall, backups) is meant to be a row of the table `jobs`, executed by the
worker; some smaller changes are made in the request thread. systemd starts the
process again when it fails (`src/assets/units/lite-panel.service`).

| component | state | operations | talks to |
|---|---|---|---|
| **Job queue and worker** `jobs.py`, `main.py` | table `jobs`; `queue.Queue` of ids, stop event, thread (all in memory) | `enqueue` (commit row, then put id), `_loop`, `_execute`, `_finish`, `start`, `stop`, recovery in `lifespan` | every router that enqueues; every handler of `tasks.py` |
| **Job output** `jobs.py`, `shell.py`, `database.py` | `JobContext._pending`, column `log`, the running child process, SQLite's write lock | `log`, `flush`, `run`, `check`, `shell.stream` | worker, handlers (which hold sessions of their own) |
| **Job log viewer** `jobs.py`, `routers/jobs.py`, `static/job-detail.js` | `JobLogBuffer` (deque of 2000 lines per job), the generator's cursor, the page's `nextOffset` | `append`, `since`; page, event stream, poll; the script's callbacks | worker (shared buffer), database, browser |
| **Config editor** `services/config_editor.py` | the file on disk, five backups beside it, the configuration the service runs with | `backup_config`, write, validate, reload, `restore_latest_backup` | nginx, php-fpm; several request threads |
| **Backup scheduler** `services/backup.py`, `routers/backup.py`, `tasks.py` | table `backup_schedules` (`last_run_at`), archives | `poll_and_run_schedules`, `check_schedule_due`, `get_next_run`, run now, toggle; the job's record of its run | job queue |
| **Sites** `services/sites.py`, `renderer.py`, `permissions.py` | rows, system users, directories, vhosts, PHP pools, certificates, what nginx has loaded | create, delete, change PHP version, HTTPS, document path or application settings; rebuild | job queue, nginx, php-fpm, certbot, applications, databases, cron |
| **Workers** `services/workers.py` | rows, systemd template units and their instances | create, update, delete, control | job queue, systemd |
| **Access of nginx** `services/permissions.py`, `main.py` | ACLs and groups of the sites' folders, the marker of the migration | grant, repair, reassert, revoke | job queue, file manager |
| **Firewall** `services/firewall.py` | ufw's rules, its default, enabled or not | add, delete by number, enable, default policy | request threads |
| **Swap** `services/swap.py` | swap file, `/etc/fstab`, active swap | set size, remove | kernel |
| **FTP accounts** `services/ftp.py` | system user, password, configuration, allow list, row | create, delete | vsftpd, job queue |
| **Databases** `services/databases.py` | MariaDB's schemas, accounts and grants; rows | create, delete, reassign, import | MariaDB, job queue |
| **Cron** `services/cron.py` | rows, one crontab per user | add, update, delete, render | crontab, job queue |
| **SSH keys** `services/ssh_keys.py` | rows, `authorized_keys`, the user's shell | add, revoke | request threads |
| **File manager** `services/files.py` | files of a site, chunked uploads | write, rename, move, copy, delete, archive, extract; upload chunks, sweep | request threads, event loop |
| **Terminal** `routers/terminal.py`, `services/terminal.py` | pty, reader thread, websocket | open, pump, resize, close | event loop, threads |
| **Login** `security.py`, `routers/auth.py` | session rows, failed-login counter and lock | login, logout, record failure | request threads |
| **fail2ban** `services/fail2ban.py` | settings, the files rendered from them, permanent bans; the daemon | apply, ban, unban, install, remove | request threads, job queue |
| **Security scans** `services/security.py` | table of schedules, installed scanners | poll, run now, pause, delete, install, remove | scheduler thread, job queue |
| **Schema** `database.py` | tables and their columns | at start: create, add columns, rebuild a table | SQLite |

What is hard about each, and what has to be true of them:

- **Job queue.** Each job exists three times: its row (survives everything), its
  id in the queue (lost with the process) and the id the worker holds (lost with
  the step). A stop, a kill or a refused write may come between any two. A
  handler must not run twice, a row must not claim RUNNING or SUCCESS without a
  handler behind it, and an accepted job must be executed.
- **Job output.** `flush` forgets lines before it writes them, on a session
  other than the handler's, and it is called from inside `shell.stream`.
  What the row shows must be ordered, final and, as far as possible, complete.
- **Log viewer.** Three copies of an offset (buffer, generator, page), two
  channels, reconnections, late answers and a bounded buffer.
- **Config editor.** A ring of backups chosen by number and restored by time;
  validation after the write; copies that may be cut, restores that may fail, reloads that time out; no lock.
- **Backup scheduler.** Two calendars that have to agree; a job and a schedule
  committed in two steps, on a row that was read before, and a third write at the end of the job.
- **Sites.** A site is a row and half a dozen things outside the database, changed one after
  the other; a failure takes back the row only. A request is checked when it is made, by
  name or by row id, and runs behind others that may have changed what was checked. One vhost that
  nginx refuses would keep every other site from being reloaded.
- **Workers.** A row commits before its surplus instances are stopped and after its unit is written, which systemd
  reads when it is told to, if that succeeds;
  pages check and enqueue, jobs act much later. No process may run that the row does not count, none with an old command.
- **Access of nginx.** A repair walks kinds of folders with commands that fail one by one, is queued at
  every start until a marker says it is over, and the file manager undoes ACLs with each chmod
  and puts them back by commands nobody looks at.
- **Firewall.** The check that SSH stays open reads a list other requests change, and reads it as
  text: a range covers a port it does not name, and a rule may be for one address only.
- **Swap.** The old file goes before the new one is in use. The kernel must not swap to half a file,
  the disk must not fill, a reboot must bring back what was asked.
- **FTP accounts, databases.** Statements and commands that commit one by one, against a row that
  commits last; users shared between rows.
- **Cron, SSH keys.** A file rendered from rows that other threads change between the read and the write.
- **File manager.** Every operation looks, decides and acts in separate calls, in several threads, as root.
  An upload is many requests, repeated after timeouts, against a session only memory has.
- **Terminal.** A thread reads by a descriptor's number, which is used again as soon as it is closed; a
  read on somebody else's pipe waits, and who waits for the thread gives up.
- **Login.** Threads read, increment and write one counter with nothing to keep them apart.
- **fail2ban.** Files are replaced, tested, put back and the daemon restarted, in threads that overlap.
- **Security scans.** One poll does many schedules in one session that a refused write leaves unusable.
- **Schema.** Python's sqlite3 wraps an INSERT in a transaction but not an ALTER, and a start may be cut short between them.

`PROJECT.json` lists the hazards line by line, with the properties that cover each.

## Modules

| module | stands for | parameters |
|---|---|---|
| `JobLifecycle` | what the job subsystem promises, without queue, thread or database | `Jobs` |
| `JobQueue` | `jobs.py` `enqueue`, `JobWorker`; `main.py` `lifespan` | `Jobs`, bounds on ends of the process and on refused writes |
| `JobQueueProofs` | theorems about `JobQueue` | |
| `JobOutput`, `JobOutputProofs` | `JobContext`, `shell.stream`, `_finish`, the write lock | `FlushAt` (20 in the code), bounds |
| `LogViewer`, `LogViewerProofs` | `JobLogBuffer`, `routers/jobs.py`, `static/job-detail.js` | `Capacity` (2000), bounds |
| `AtomicSaves` | what `services/config_editor.py` promises of a save, without backups, validation in place or a restore | `Saves`, `Valid` |
| `ConfigEditor`, `ConfigEditorProofs` | `services/config_editor.py` | `MaxBackups` (5), `MaxParallel`, bounds |
| `BackupScheduler` | `services/backup.py` scheduler and calendar, `backup.create` | the calendar, bounds |
| `SiteLifecycle` | `services/sites.py`, `apps.py` settings, `renderer.rebuild_all`, the providers of nginx, PHP and certbot as far as sites use them, their handlers and pages | `Sites`, `Versions`, `Ports`, `Roots`, the kinds of request, bounds |
| `SiteLifecycleProofs` | theorems about `SiteLifecycle` | |
| `SwapFile` | `services/swap.py`, jobs `swap.set`, `swap.remove` | sizes, disk, headroom |
| `Databases` | `services/databases.py` and its jobs; a site's deletion | `DbNames`, `DbUsers` |
| `Firewall` | `services/firewall.py`, its pages | ports with the two things that count of them (covering 22, mentioning it), clients, families, targets of rules |
| `CronTabs` | `services/cron.py`, its pages, `cron.sync` | rows, commands, threads, requests |
| `SshKeys` | `services/ssh_keys.py`, its pages | keys, threads, requests |
| `SchemaRebuild` | `database.init_db` | rows, columns, starts |
| `ChunkedUpload` | uploads of `services/files.py` and of dumps in `services/databases.py`, their routers and scripts | uploads, chunks, `MaxChunkAttempts` (3) |
| `FileTree` | operations of `services/files.py` on one site's tree | threads, names, depth, operations |
| `SiteWorkers` | `services/workers.py`, its pages and jobs | names, commands, `WkMaxProcs`, `WkMaxWorkers`, requests |
| `WebAccess` | `services/permissions.py`, its jobs, the migration of `main.py`, chmod of the file manager | sites, starts, requests |
| `FtpAccounts` | `services/ftp.py`, its jobs | names, folders and which lies in which, jobs |
| `TerminalSession` | `services/terminal.py`, `routers/terminal.py` | sessions, descriptor numbers, writes |
| `LoginThrottle` | the counter of `security.py`, `routers/auth.py` | threads, `LtMax`, `LtWindow`, minutes, logins |
| `Fail2ban` | `services/fail2ban.py`, its pages and jobs | threads, settings, addresses |
| `ScanSchedules` | the schedules of `services/security.py` | schedules, the calendar, bounds |
| `HostPartsProofs` | theorems about the parts that change the host: `SwapFile`, `Databases`, `Firewall`, `WebAccess`, `Fail2ban`, `ChunkedUpload`, `TerminalSession`, `FileTree` | |
| `RowPartsProofs` | theorems about the parts that keep the host in step with rows: `CronTabs`, `SshKeys`, `SchemaRebuild`, `FtpAccounts`, `SiteWorkers`, `LoginThrottle` | |
| `ScheduleProofs` | theorems about the two calendars and their polls, `BackupScheduler` and `ScanSchedules`; and about the parts together, `MCPanelParts` | |
| `MC...` | instances for TLC | |

The fifteen modules from `SwapFile` on keep state the others do not touch; they meet in the job queue only, and each
keeps of it what its hazards need. `MCPanelParts` composes them as a sum: the variable `part` says whose
behaviour it is, the other parts rest in one initial state. No step is added or left out by that, since they share no state, and
the state space is the sum of theirs; `PartsRunAlone` proves that each part behaves there as its own specification says. Every variable carries its module's prefix (`sw`, `db`, `fw`, ...).

`JobQueue` is the detailed specification of `JobLifecycle` (refinement mapping:
`executing` is the job the worker is in the handler or in `_finish` of, `status`
is the row). `JobOutput` and `LogViewer` open up one step each of the job queue:
`JobOutput` what happens between "the row says RUNNING" and "the row is
terminal", `LogViewer` how the lines of that period reach a browser. Both joints are properties of `JobOutput` (`EndIsFinal`):
with `executing` the job whose handler or `_finish` the worker is in, each of its steps is a step of `JobLifecycle` or none
(`RowsKeepLifecycle`); and a job is what `LogViewer` takes it for, lines that are logged one at a time and in order, and then an
end that puts all of them on the row unless a write was refused (`LinesThenEnd`), after which nothing is added (`LogIsFinal`).

`ConfigEditor` is the detailed specification of `AtomicSaves`: a save changes the file and what
the service runs with in one step, or nothing, except for the saves that are *left*. The mapping hides what is under way: while a
save is, the file it began with counts (`ShownFile`), and what became of a save is known at its last step (`AnswerTo`). A save is
left when it overlaps another one, when the panel dies in it, when the reload or the restore fails in a way that cannot be taken
back, or when it has nothing sound to go back to (`Stray`, and the steps that take `Leave`); of a left save nothing is promised,
and of the file nothing until the next save that succeeds.
`BackupScheduler` and `SiteLifecycle` use the queue reduced to its order, its one worker and its losses at a
crash, which is what `JobQueue` shows of it.

Definitions called *Faulty variant* are not part of any specification: they are
what a plausible mistake would make of the definition below them, and are used to
confirm that each property would notice it.

### JobQueue

`status[j]` is the row; `handing` holds the jobs between the commit and the
`put` of `enqueue`; `queue` is `_queue`, with `Sentinel` for the `None` of
`stop`; `panel` is how far `lifespan` and `stop` have come, `wpc`, `current` and
`outcome` where the worker thread is and what it holds. `CommitRow` and `Submit` are the two
steps of `enqueue`, `TestStop`, `Get`, `Claim`, `HandlerReturns`/`HandlerRaises`,
`Finish` those of `_loop`/`_execute`/`_finish`, `StopSet`, `StopPut`, `Exit` those of
`stop`, `Recover` and `StartWorker` those of `lifespan`. `Crash` may happen at any
moment; `WriteRaises` is the exception a refused write raises, before the handler or after it.
`runs`, `returned`, `unreported` and `ahead` are history and guard nothing.

### JobOutput

Lines are numbered in the order they are logged, so "complete" and "in order" can be
said of the log column. `Log` and `Flush` take the step the worker goes on at and the one
it goes to if the write raises, as a call that may raise does. `txn` says
that the handler's own session holds SQLite's write lock (from its first
`db.flush()` to its commit); a flush then waits for its own thread and is refused.
`child` and `orphans` tell apart a process `stream` is reading from one nobody waits for. `CommandGarbles` is a line that is not
UTF-8: the text stream raises out of the loop in `stream`, which neither kills the process nor waits for it; `garbled` remembers the job.

### LogViewer

One job, one browser page. `AppendLine` is the deque with its `maxlen`, `Since`
the slice. `gen` is the generator `events()` between two of its reads, `sent` the
bytes on the wire, `polls` the answers on the wire; the page's callbacks are
`BrowserReads` and `PollArrives`. `setting` tells browsers apart: whether the event stream
reaches the panel, whether the poll fires during the job, whether the page was
opened before the first line.

### ConfigEditor

A version of a file is its text and its mtime, since `copy2` keeps the time and the restore goes by it. `write_text` and `copy2` are
two steps each, because they may be cut: in between the target holds a part of the text with a time of its own, which is later
than all others (`Cut`, `Partial`), and `copy2` sets the old time last. So a backup whose copy was cut is the newest of all, and a
later restore takes it. The slot is chosen as the code does: one after the highest there is, modulo the ring, which is slot 0 for
ever once the ring is full. `faults` counts failed calls and deaths of the panel; every call has a way to fail: the copy
(`CopyFails`, which leaves `backup_config` and the save), the write, validator and reloader (a timeout or a missing program is
caught and restores; anything else, such as the `UnicodeDecodeError` of `text=True`, leaves the save with the file as it is), the
restore (`RestoreFails`), and the reload also after the service has taken the text (`ReloadFails`).
`MaxParallel` bounds how many threads save at once.

Three history variables say where the promise ends. `left` holds the saves nothing is promised of; `adrift` says that one of them has
had the file or the service since the last save that succeeded, `torn` that a backup may be later than the file, because its copy
was cut or saves have overlapped. A save that succeeds alone ends both.

### BackupScheduler

Time is counted in ticks (a tick stands for a minute; the code polls twice in one), `Hours`
ticks a day. `Due` and `NextRun` are `check_schedule_due` and `get_next_run`,
over an arbitrary calendar of weeks and months. `PollReads` reads the row into `seen`, and the poll decides by that copy alone
(`SeenDue`), whatever a job's record or the switch does to the row meanwhile; `PollEnqueues` and `PollRecords`
are its two commits, `PollRefused` and `PollFails` the same refused; a job whose row was committed but whose `db.refresh` raised is
on no queue. `JobSucceeds` is the third write. `enabled` stands for `is_enabled` and the site's `is_active` together, which nothing
in the panel changes. The clock stands still while a poll is under way, and each tick has at least one. `shown` is what the
page shows as the next run, `carried` says that a job was still going on when the tick began.

### SiteLifecycle

`rows[s]` is the committed row of the site, `job.draft` the row as the handler's open session
has changed it: `Commit` and `Forget` are the two commits, and `Fail` (an exception that leaves
`session_scope`, or a death) loses the draft and nothing else. `ids[s]` is the primary key;
`IsNewId` is SQLite's choice without AUTOINCREMENT, one more than the largest in use. The files
are `accounts`, `vhost` (the enabled vhost and the unit of an application), `pools[v]` (the pool
directory of a PHP version), `certs`; `loaded` is what nginx runs with, `installed` what apt
has installed. `Ask...` are the pages, with the checks they make before they enqueue;
`StartCreate`, `StartChange`, `StartRebuild` and `Refuse` the checks of the handlers when the request's turn comes.

Operations share their steps. `StepsOf` gives the order of each: a creation
is account, render, reload, commit; a deletion is teardown, unpool, forget (the commit), reload,
userdel; a change of PHP version is unpool, render, reload, commit, and so on. One action per
step says what it does and how it may fail, so that an order is data and a step is described once.
`https` is the HTTPS a creation tries at its end: it runs the steps of `ssl_on`, but `Issue` and `Reload`
swallow their failures, and a failed reload still commits. Between two steps the panel may die.
The writes of `render_site` are one step; so are those of a teardown.

`spoiled` (history) holds the sites a job has left in the middle of its steps.
`SettledIsServed` is about the others: their files and what nginx runs are what the row says, and a site without a
row has left nothing.

### The parts with state of their own

The state variables are listed with their meaning at the head of each module; history variables are marked there, and guard nothing.

- **SwapFile.** One action per command: `CheckSize`, off, unlink, allocate (or `dd`), `mkswap`, `swapon`,
  `UpdateFstab`. Each may fail; the machine may be restarted between any two and then reads `/etc/fstab`. The kernel keeps a page, so
  a size is read back as one MB less, and asking for the same size again may leave the MB more.
- **Databases.** One action per statement MariaDB commits; the row is the last of a creation, the
  first to decide and the last to go of a deletion. `dbHalf` marks databases a job has stopped halfway on, `dbRobbed` those the
  reassignment of another has cut off (see below). The branch of `TidyOldUser` that grants again is written
  as the code has it, and is never taken.
- **Firewall.** A rule is its target (ports with the protocol, and source) and its action. Of the ports two things count, and they
  are independent: whether they cover TCP port 22 (`FwCovering`; `20:25/tcp` does) and whether their text contains 22 or ssh
  (`FwMentioning`; `2222/tcp` and `22/udp` do). ufw keeps the rules of IPv4 and IPv6 apart, in order; the first that matches a
  connection decides (`Decides`), and a new rule takes the place of one with the same target only, else it is the last
  (`WithRule`): `allow 22/tcp` after `deny 20:25/tcp` lets nobody in. `fwReq` is the request that closes the firewall, between its
  check and its last command; `misled` are the clients the check has not kept SSH open for, as the property below says.
- **CronTabs, SshKeys.** The commit of the change, the read of the rows and the write of the file are steps of their own.
  `cron.sync` is a
  job that any later change repeats; the keys are written in the request, and nobody repeats that.
- **SchemaRebuild.** Each statement of `init_db`; DDL is in force at once, the copied rows at the commit. A start may end at
  any of them.
- **ChunkedUpload.** `upClient` is the script with its attempts, `upReq` chunks on their way, of this
  attempt or an earlier one, `upLoop` the chunk the event loop is writing, `upCalls` complete and abort in threads beside it.
  A write may fail in the middle; a restart forgets the sessions.
- **FileTree.** An operation is a thread that has looked (`stale` if the tree has changed there since) and then acts in the
  calls of the code; an extraction and a copy of a folder act file by file and set the owner at the end. A write, a copy and an
  archive may be cut with half the file there (`WriteIsCut`), the change of owner may fail for any of the items, or never come
  (`RestoreIsCut`): what is left so belongs to root, and `ftBroken` remembers where.
- **SiteWorkers.** Row, unit file (`wkFile`), what systemd has read of it (`wkUnit`) and instances (running, enabled) of each name; jobs
  in the queue carry what the page checked. `RenderFiles` writes the units that differ from the rows and asks for a reload only
  then; `DaemonReload` may fail, and nobody looks; so a job that ends between the two, or a reload that fails, leaves systemd with the
  old text, and no later save of the same command makes up for it. systemd may read a unit for its own reasons (`SystemdReads`).
  `WkActive` is what runs, `WkInstances` what the row counts.
- **WebAccess.** ACL, default ACL, mode and group over four kinds of folders. `WaServed` is what nginx needs to serve a site. A chmod
  takes the bits and with them the ACL's mask, and `Reassert` puts the grant back where the site's own folder still has it; the
  walk may raise before that (`ChmodIsCut`), and the reassert may find no `setfacl`, or commands of it fail (`ReassertFails`).
  A repair whose command takes too long, or after which nginx does not start, ends for all sites (`RepairRaises`).
- **FtpAccounts.** A job is a list of steps (`FpDeleteSteps` and the creation's), each of which may fail.
- **TerminalSession.** `tmFd` says what a number refers to; `tmNum` is the number the session believes is its own. The event
  loop is one resource
  (`tmLoop`), which a close occupies while it waits for shell and thread. `ReadPty` on a number that was given to another thread's pipe may wait
  (`BlockedReturns`), since O_NONBLOCK went with the pty; the join after the close expires on such a thread, which is then `stuck`,
  or on one that has not run for two seconds, which is `late` (`JoinExpires`).
- **LoginThrottle.** Each request holds the row it has read (`seen`); the columns it has changed are written back at
  its commit, by the row's id. SQLite may give the id of a row that was deleted to the next one, or not: a request that
  had read the old row finds the new one (`LtFinds`) or raises (`LtMisses`). In the first case the new row goes on
  with the old one's count, which `ltCarried` remembers.
- **Fail2ban.** An apply is read, write, test, restore, restart; `f2File` and `f2Loaded` tell the files and the daemon apart.
- **ScanSchedules.** One poll is a session over a copy of the rows (`ssPoll`): a schedule enqueues its scan and sets `last_run_at` in
  two commits, and after a refused one the rest of the poll fails too.

## Runs

All in `PROJECT.json`; each takes less than four minutes with two workers.

| run | what it shows | bounds, and why they are enough |
|---|---|---|
| `JobQueue_life` | no handler runs twice; RUNNING and SUCCESS are honest; no overtaking; refinement of `JobLifecycle`; a started job ends; an accepted one runs while the process lives | 3 jobs (one executing, one queued, one between commit and put), 2 ends of the process (the second may hit the recovery of the first), 1 refused write. 155,380 states |
| `JobQueue_lost_pending` | *violated:* every accepted row is executed | 2 jobs, 1 end of the process |
| `JobOutput_writes` | lines are in order and final; they are complete unless a write of that job was refused, and no command is left running unless one was or a line could not be decoded; `JobOutput` is one step of `JobLifecycle` opened up, and what `LogViewer` takes a job for | 2 jobs of 4 lines with batches of 2 (so that a flush falls on a command line, inside a command and at the end), 2 refusals from outside and any number by the handler's own lock, 1 job with output that is not UTF-8. 158,461 states |
| `JobOutput_overlap` | *violated:* one command at a time | 2 jobs, 1 refusal |
| `LogViewer_pages` | one channel shows every line once; an ended page showed all of them; a follower is always handed the new line until the buffer is full; the page comes to show the row's log | 4 lines over a buffer of 3, 1 cut or timeout, 1 restart, one poll on its way; all six settings. 459,620 states |
| `ConfigEditor_saves` | between saves the file is one the validator accepts and the one in force; saves are atomic (refinement of `AtomicSaves`); each with the exceptions it names | 3 saves, 2 of valid text and 2 at once, over a ring of 2 (the ring is full and slot 0 is reused), 1 failed call or death, wherever it hits: a cut copy and the save that meets it, a save after an overlap; existing or new file. The two valid saves are interchangeable (symmetry). 3,624,215 states |
| `ConfigEditor_parallel` | *violated:* a refused text is gone | 2 saves at once, both refused, no failed call |
| `BackupScheduler_runs` | the two calendars agree; no target is backed up twice, early or not at all, and nothing is left due | days of 4 ticks, weeks of 3 days, months of 3 and 4 days; all 36 schedules; the agreement is checked at each of 68 ticks; the rest over 6 ticks, 2 jobs of any length, 1 refused commit, 1 death, 1 toggle, at any point of a poll. 3,525,291 states |
| `SiteLifecycle_jobs` | a row has its account, an installed PHP version and a port of its own; no vhost without its certificate; sites no job left halfway are served as their rows say; a rebuild puts every row in force | 2 sites, 2 PHP versions, 2 ports, 2 folders; every sequence of 3 requests of any kind (a site, a change of it, and what competes with it), 1 waiting behind the one that runs, 2 faults (a failure, and a second one in the repair). 1,812,176 states |
| `SiteLifecycle_wrong_site` | *violated:* a job changes the site its request was made for | 2 sites, 4 requests (create, delete, create, delete), no fault |
| `PanelParts_all` | the fifteen parts above, one per behaviour: their types, and what each part promises, named below | see below. 1,008,812 states |
| `Databases_reassign` | *violated:* reassigning one database leaves a user its others | 2 databases, 2 users; no job has failed |

What `PanelParts_all` checks, per part. An invariant of two or three parts is their conjunction; each part is stated and
commented on its own in the module, and has a faulty variant that breaks it.

| part | property | says |
|---|---|---|
| firewall | `ClosingKeepsSshOpen` | closing the firewall leaves SSH open for every client the check was not misled about |
| swap | `SwapIsSound` | swap is what was asked for (`SwapAsAsked`), never half a file (`ActiveFileIsWhole`), and leaves its headroom (`HeadroomIsKept`) |
| databases | `RowsAreUsable` | a row's database exists (`DbRowIsReal`) and its user can use it (`DbUserHasAccess`) |
| upload | `UploadsAreWhole` | what is delivered is the file (`DeliveredIsWhole`); no part is forgotten (`PartsHaveSessions`) |
| fail2ban | `DaemonMatches` | files, daemon and settings agree (`FilesAreLoaded`, `AppliedIsInForce`); no ban without a row (`NoGhostBan`) |
| scans | `ScansFollowCalendar`, `EveryTargetIsScanned` | the two calendars agree (`ScanNextRunIsTarget`), a target is scanned once (`NoScanTwice`) and not missed |
| files | `OwnedByTheSite`, `NoSilentLoss` | at rest everything is the site's; data goes only when it is deleted or written over by name |
| workers | `WorkersAreTheirRows` | what runs is what the rows count (`NoSurplusInstance`), with their command (`SavedIsWhatRuns`) |
| web | `AccessIsAsGranted`, `MarkerMeansServed` | `tmp` stays closed (`TmpIsPrivate`), a grant outlives chmod (`GrantOutlivesChmod`); the migration ends when all sites are served |
| login | `LockIsFair` | a lock is earned (`LockIsEarned`), comes (`FailuresLock`) and lasts (`LockLasts`) |
| terminal | `TerminalsAreClean` | its own output (`TerminalsKeepApart`), all of it (`EofShowsAll`), and nothing left behind (`ClosedIsReleased`) |
| ftp | `AccountsAreRows` | who gets in is on the page (`LoginsAreRows`), with a folder of his own (`FoldersApart`) |
| cron | `CrontabIsRows` | once the jobs have run the crontab is the rows |
| keys | `KeysInSync` | the file is the rows after every request that ran alone |
| schema | `RowsAreKept` | no row is in neither table (`NoRowIsLost`), and the table in use has them (`RowsArePlain`) |

Bounds of `PanelParts_all`, per part:

| part | instance |
|---|---|
| firewall | 22/tcp, a range around it and a port whose text contains 22; rules for all and for one address; a client in each family, 2 rules a family; one request that closes it and any number of changes |
| swap | sizes 1 to 3 on a disk of 5 of which others take 0, 2 or 4, headroom 1: enough to be refused, to fill up during a job, and to take the MB more |
| databases | 2 databases, 2 users: each can be shared, deleted and reassigned |
| upload | one upload, of a dump (which also has what a file's upload has), 3 chunks with 3 attempts each: a retry can overlap its first attempt, and a chunk in the middle exists |
| fail2ban | 2 threads, 2 settings, either of which the test may refuse, 1 address; settings the test always refuses are in the theorems only |
| scans | 2 schedules, one of any kind and one nightly, days of 3 ticks, a week of 3 days, 1 fault, 1 change; the calendar is compared over three months |
| files | 2 threads, 2 operations in all, 3 names, paths of 2 |
| workers | 2 names, 2 commands, up to 2 processes, 1 worker a site at a time (a second request meets the limit, and a name and an id are used again), 3 requests |
| web | 1 site (sites are independent but for the job "all"), 3 starts, 1 chmod or repair among them (so that it can meet the migration of any start, and a later one can heal what it left) |
| login | 2 threads, a lock after 2 failures in windows of 2 minutes, 4 minutes, 1 login |
| terminal | 2 terminals, 2 numbers, 1 write each: both can be open at once, and a number can be used again, by a terminal or by a file |
| ftp | 2 names, the site's folder, one in it and one elsewhere, 3 jobs |
| cron | 2 rows, 2 commands, 2 threads, 4 requests |
| keys | 2 keys, 2 threads, 4 requests |
| schema | 2 rows, 2 added columns, 3 starts: a rebuild cut short, a second one, and the one after |

The other runs combine properties in the same way: `RowsAreHonest` is `RunsAtMostOnce`, `RunningIsOwned` and `SuccessMeansReturned`;
`OutputIsKept` is `LinesInOrder`, `FullOutputRetained` and `OrphansAreRefused`; `PageIsTheLog` is `ShownInOrder` and `EndedShowsAll`;
`EndIsFinal` is `LogIsFinal`, `LinesThenEnd` and `RowsKeepLifecycle`; `TargetsAreKept` is `NextRunIsNextTarget` and
`OneBackupPerTarget`, `BackupsOnTime` is `NotBeforeNextRun`, `EveryTargetHasBackup` and `NothingIsLeftDue`; `RowIsSupported` is `RowHasAccount`,
`VersionInUseStays`, `TlsHasCertificate` and `PortsDistinct`. The types of `JobQueue` and `SiteLifecycle` are proved
(`TypeCorrect`), and not checked by a run.

The conditions in the properties say exactly where the code stops keeping its
promise; each was found by checking the property without it:

- `FullOutputRetained`, `OrphansAreRefused` (JobOutput): a refused write loses the batch
  it was given, and an exception out of `on_line` leaves the process running; so does a line that is not UTF-8 (`garbled`).
- `ShownInOrder`, `EndedShowsAll` (LogViewer), `Undisturbed` and `OneChannel`: with stream and poll
  both delivering, with a page opened in the middle of the job, or after a
  reconnection (the generator starts at line 0), lines are shown twice.
- `FollowerSeesNewLine`, `logged' <= Capacity`: when the deque is full its length no
  longer grows, and a follower gets nothing more from it.
- `LogFinallyShown` heals all of these when the job ends, for a page the stream reaches.
- `RestingFileIsRight`, `SavesAreAtomic` (ConfigEditor), `adrift` and `left`: saves that overlap; a death in a save; a reload that
  failed though the service had taken the text (the file is put back, and the service is not told); a restore that fails; the
  refusal of the first version of a file that did not exist; an exception nobody catches; and a backup that was cut, or may be
  another save's, which a refused save then restores. One save that succeeds alone puts all of it right.
- `OneBackupPerTarget` (BackupScheduler), `faults = 0`: a refused commit of `last_run_at` with the job already
  committed. `NotBeforeNextRun`, `last # Never`: a schedule made after its hour runs at
  once; `seen.last = last`: a poll that had read the row before a job recorded its run enqueues once more.
  `EveryTargetHasBackup`, `~carried`: a job that runs past a target
  records a time after it, before any poll has seen it. `~refused`, there and in `NothingIsLeftDue`: a refused commit of a poll is made up
  for in a later tick only.
- `SettledIsServed` (SiteLifecycle), `spoiled`: after a failure the files say what the row does not. For the rows a
  rebuild repairs it (`RebuildRestores`), except for a pool of another version, which only a
  further change of the PHP version removes, and for the files of sites without a row, which nothing removes.
- `ClosingKeepsSshOpen`, `misled`: the check finds 22 in the text of some rule though no rule lets the client in (one on 2222 or on
  udp, one that denies 22, one for another address, network or family); or it finds none, and its own rule comes after one that denies the
  client (a range that covers 22, or any rule of a list that could not be read). `touched`: the rules have changed between the check and the
  last command.
- `SwapAsAsked`, `swBroken`: a failure after the old file is gone leaves no swap, or a line in `/etc/fstab` without a file.
  `HeadroomIsKept`, `blind`: free space that reads as 0 is taken for unknown.
- `DbUserHasAccess`, `dbRobbed`: the fifth divergence below.
- `DeliveredIsWhole`, `upTorn`: a write that fails in the middle leaves its bytes, and the retry appends the chunk again.
  `PartsHaveSessions`, `upLoose`: opening with `"ab"` makes a part again that an abort has deleted; the sessions are in memory.
- `FilesAreLoaded`, `AppliedIsInForce`, `f2Torn`: an apply decides by the files whether to restart the daemon, not by what the
  daemon runs, and a `-t` that times out leaves the files it was to test.
- `NoScanTwice`, `ssLost`: a death between the two commits scans twice. A day after the 28th is described as that day and run
  on the 28th.
- `OwnedByTheSite`, `NoSilentLoss`: `ftBroken`, `stale`: what is checked is not checked again by the call that acts; what was cut
  halfway stays root's, and a `chown` that fails is passed over (`services/files.py` 853-856).
- `NoSurplusInstance`, `SavedIsWhatRuns`, `wkMissed`: an update ended between its commit and what follows is not made up for.
  `wkUnit[n] # wkFile[n]`: nor is a daemon-reload that failed, or that a job ended before.
- `TmpIsPrivate`, `waTmpOpen`: a repair that is cut before it closes `tmp` is not repeated there, since the grant is found in
  place; a reassert on `tmp` opens it. `GrantOutlivesChmod`, `waLocked`: after a chmod of the site's own
  folder, reassert returns without repairing; after a walk that raised it is not called, and when its commands fail only the log says so.
- `LockIsEarned`, `ltCarried`: a login deletes the row, and a request that had counted before and commits after
  another one has made it anew gives the new row the old count, so that fewer failures than the limit lock.
- `FailuresLock`, `2 * LtMax`: windows are fixed, so that one less than twice the maximum fits into a window's length.
  `LockLasts`: a login that began before the lock ends it.
- `ClosedIsReleased`: a shell that SIGKILL does not end within its time makes `close` raise, with the descriptor open; a thread
  on which the join expired (`stuck`, `late`) lives on. `TerminalsKeepApart`, `EofShowsAll`, `NoneIsLate`: a late thread still has the number,
  and reads from the terminal that has been given it.
- `LoginsAreRows`, `fpCut`: a failed creation of a dedicated account cannot be repeated under its name, since `useradd` refuses.
- `CrontabIsRows`, `ctLost`: a change whose job was lost waits for the next change.
- `KeysInSync`, `skSkewed`: overlapping requests can leave a revoked key in the file until the next request that runs alone.
- `RowsArePlain`, `srCut`: after a death between the rename and the commit of the copy, the rows stay in the table aside.

## Fairness

- `JobQueue`: weak fairness of the worker (a thread of its own; handlers are *assumed* to end,
  which `shell.stream` does not enforce, since its timeout starts after the output ends), of
  `Submit` (a request thread that has committed goes on), of the restart (systemd) and of the end
  of a stop. None for requests, deaths and refused writes.
- `LogViewer`: weak fairness of the generator (event loop) and of the browser's callbacks and
  reload. None for the user, the job, the polls, the cuts.
- The other modules are about safety only and use `Init /\ [][Next]_vars`: what they promise, they promise at rest or at a
  step, and a job that
  does not come is a matter of `JobQueue`.

`CHECK_DEADLOCK FALSE` is set where the bounds let the system come to rest; an
idle panel waits for requests.

## Proofs

`JobQueueProofs` proves, for every set of jobs and all bounds, from `JobQueueAssumption` only
(the sentinel is not a job; the bounds are naturals):

| theorem | statement |
|---|---|
| `Invariant` | `Spec => []IInv` |
| `TypeCorrect` | `Spec => []TypeOK` |
| `AtMostOnce`, `RunningOwned`, `SuccessReturned`; `RowsHonest` | the three parts of `RowsAreHonest`, and it |
| `Orderly` | `Spec => []NoOvertaking` |
| `Refinement` | `Spec => Lifecycle!ASpec` |

None of the safety properties is inductive. `AtMostOnce` needs to know that the
row tells whether the handler was entered (`InvRuns`) and that what is queued or
handed over is PENDING (`InvQueue`), which in turn needs that a job is in one
place only: between the two steps of `enqueue`, once on the queue, or in the
worker's hands (`InvQueue`, `InvWorker`). `Orderly` needs that what was ahead of
a job has been submitted and lies before it on the queue (`InvAhead`). `InvProcess` says that a
dead process has no queue: the reason why nothing stale is claimed after a
restart. `IInv` is their conjunction, with `TypeOK`; the proof has one lemma per
conjunct and one step per action. The refinement uses `InvWorker` (the row agrees with
the worker's step) to map `Claim` to `Execute`, `Finish` to `Report`, a refused
last write or a death to `Abandon`, and everything else to a stutter or `FailOrphans`.

`SiteLifecycleProofs` proves, for all sites, versions, ports, folders and bounds, from
`SiteLifecycleAssumption` (`None` is none of the values; there is a folder; the bounds are
naturals):

| theorem | statement |
|---|---|
| `Invariance` | `Spec => []IInv` |
| `TypeCorrect` | `Spec => []TypeOK` |
| `AccountsOfRows`, `VersionsOfRows`, `CertificatesOfVhosts`, `PortsOfRows`; `RowsSupported` | the four parts of `RowIsSupported`, and it: what holds whatever fails |

Again none is inductive alone: a row is committed several steps after what makes it
right was checked. `DraftSound` says that the row to come still has an installed version, a certificate
if it says HTTPS, and a port nobody else has: it is kept because the only worker runs
this job, so that nothing else commits, installs or removes meanwhile. `JobPlaced` says where in its
operation a job is and what its site has by then: a creation that is past `account`
has the account, a deletion has a row exactly until `forget`, so the account goes after the row.
`RowTls` carries the certificate from a row to the next vhost rendered from it. The proof
has one lemma per action; steps that leave the rows alone share the lemmas that say so.

On it rests a second layer, `ServedInv` (theorem `ServedInvariance`), for what nginx and PHP-FPM make of the rows:
`SettledServed` proves `SettledIsServed`, `RebuildRecovers` proves `RebuildRestores`. `SiteOnCourse` says how far a job
has brought a site it found in order: as it was until it touches a file, then what the draft says on disk, and
last what nginx runs. `DraftOnCourse` says that only a change of the PHP version changes it, so that no pool of another version
stays behind, and `RebuildOnCourse` that what a rebuild has rendered stays rendered until it reloads.

`JobOutputProofs` proves, for any number of jobs, lines and faults and any `FlushAt` above 0:
`Invariance` (`IInv`), `TypeCorrect`, `OutputKept` (`OutputIsKept`) and `EndFinal` (`EndIsFinal`, of `LogsFinal` and one lemma
for each joint to the neighbours: `LineOrEnd`, `LifecycleStep`). A line may be in the
column, among the lines pending in `JobContext`, or in the hands of `shell.stream`; `OutputInOrder` and
`OutputIsWhole` say that column and pending lines together are what was logged, in order, and complete unless a
write was refused, and `JobStands` which row the worker may still write at its step.

`ConfigEditorProofs` proves, for any texts, any ring, any number of failures and deaths, and any number of saves at once: `TypeCorrect`,
`Invariance` (`IInv`), `RestingRight` (`RestingFileIsRight`) and `Refinement` (`SavesAreAtomic`). A save of which something is promised
is alone (`Alone`): the other one, when there is one, has taken both off the list. A save restores the newest backup, not the
one it made; it is the same one because no backup is later than the file (`BackupsAreOlder`, `OlderOrSame`: unless a copy was cut,
`torn`) and its own copy has the file's time (`BackupIsLatest`, whichever slot it went to: that the newest exists is a lemma on finite sets of
times), and it is taken before the file is touched (`SaveOnCourse`). The refinement needs besides that a save that counts judges its own text and
no other, and that the service had run with the text it began with (`CountedOnCourse`), so that the step that takes a save puts in force
what is in the file and the one that refuses it changes nothing.

`LogViewerProofs` proves, for any number of lines and any capacity: `Invariance` (`LvInv`), `TypeCorrect`, `PageRight`
(`PageIsTheLog`) and `FollowerRight` (`FollowerSeesNewLine`). `LvTypes` holds always; the rest while nothing is lost or cut
(`Undisturbed`): the buffer holds all lines (`LvBuffered`), what is on its way in the stream continues the
screen and the generator's offset continues that (`LvStreamed`), and an answer to a poll continues the screen if it
comes in time (`LvPolled`).

`ScheduleProofs` has two calendars in closed form: `NextRunIs` says that `get_next_run` returns the least target after its
argument, for every schedule, length of day and week and any months that are long enough, and `ScanNextRunIs` the same of scans,
whose days after the 28th are run on the 28th. They rest on lemmas about the least and greatest elements of sets of numbers,
about `%`, and
on `NextInstant`, `NextWeekday`, `NextMonthday`. From them:

| theorem | statement | the inductive invariant |
|---|---|---|
| `Invariance`, `TypeCorrect`, `TargetsKept`, `OnTime` | `BsInv`, `TypeOK`, `TargetsAreKept`, `BackupsOnTime` of `BackupScheduler` | the page shows the next target (`NextIsShown`); two scheduled backups have a target between them (`OnceEach`), because what a poll asked for is recorded by it, and what was done by the job (`RunsRecorded`); what a poll has read is old, but not older than the polls before it (`SeenIsOld`, `RunsSeen`), so that one that found nothing was right (`AskedFor`, `LateOnes`, `NothingLeft`) |
| `ScanInvariance`, `ScanTypeCorrect`, `ScansInCalendar`, `ScansOnTime` | `SsInv`, `ScanTypeOK`, `ScansFollowCalendar`, `EveryTargetIsScanned` of `ScanSchedules` | a poll decides by a copy that is older than the rows (`CopyIsOlder`), but a scan is in the copy or in the poll's hands (`ScansRecorded`); what a poll has passed over was not due or has been run (`SeenIsRun`) |

The assumptions on the calendar are those of the Gregorian one as the code uses it: hours, weekdays and days of the month are
above 0, a month starts at least
`LastDay` (28) days after the one before, and for scans that the calendar ends (`datetime.MAXYEAR`), without which a search
that starts late enough finds nothing.

The proofs about the parts, each for all values of the constants of its module, from the assumption named there:

| of, in | theorems that state properties of `PanelParts_all` | the inductive invariant, and why it is needed |
|---|---|---|
| `SwapFile`, Host | `SwapSound`, of `ActiveWhole`, `AsAsked`, `RoomIsKept` | `SwInv`: what each step has made of the file (`SwPlaced`, `SwNearlyDone`), that the room seen at the check is still there (`SwRoomSeen`), and that what the last job made stays until another has passed its checks (`SwSteady`) |
| `Databases`, Host | `RowsUsable`, of `RowsAreReal` and `UsersHaveAccess`; besides, `SharedUsersSurvive`: no step of a deletion takes a grant on another database | `DbInv`: what the job has made by its step (`DbPlaced`), above all that a user about to be dropped has no other row; schemas and grants of the databases no job is at (`DbKept`, `DbGranted`) |
| `Firewall`, Host | `SshStaysOpen` | `FwInv`: a request before its last command has SSH open for the clients it was not misled about, and before its own rule nothing stands in front of that for them (`SshSeenOpen`); needs that no two rules of a list have the same target (`FwTypeOK`), so that the rule it adds stands where the one it replaces stood |
| `WebAccess`, Host | `AccessRight` (`AccessIsAsGranted`), `MarkerRight` (`MarkerMeansServed`) | `WaInv`, site by site: only a job that will yet close `tmp` has it open (`WaTmp`); what a job has granted is still there at its next step (`WaJobGranted`); a grant is missing only where a chmod is about to reassert it, or was cut or failed to (`WaHolds`); a site the migration has passed is served (`WaPassed`) |
| `Fail2ban`, Host | `DaemonRight` (`DaemonMatches`) | `F2bInv`: an apply that none has overlapped found the files the daemon runs and wrote those it read (`F2bUndisturbed`) |
| `ChunkedUpload`, Host | `UploadsWhole` (`UploadsAreWhole`) | `UpInv`: a part holds the chunks before the session's next, however attempts and retries overlap (`UpCounted`), and the chunk the loop is about to write is the next one (`UpLoopKept`) |
| `TerminalSession`, Host | `TerminalsClean` (`TerminalsAreClean`) | `TmInv`: a number a terminal believes is its own is, until `close` gives it back, and while the thread is waited for no terminal takes that number (`FdsAreOwn`); one close at a time (`ClosesOne`), and what an ended terminal has left (`PhasesAre`); while no thread is late, all a terminal has written is in the pty, the queue or sent, its own, and the sentinel comes last (`OutputIsKept`) |
| `FileTree`, Host | `OwnedRight` (`OwnedByTheSite`), `NoLoss` (`NoSilentLoss`) | `FtInv`: what is not the site's lies under what some operation is filling or about to give to the site, unless the tree has changed since that one looked, and then the history says so (`OwedToTheSite`); what an operation has looked for and not found is still not there unless it is `stale`, a copy's or extraction's next files included (`FtLooked`); everything has a folder to be in (`RootedIn`), so that nothing lies under a file, an empty folder or a free name (`NothingUnder`) and a rename loses nothing else (`RenamedIs`) |
| `CronTabs`, Row | `RowsAreInstalled` (`CrontabIsRows`) | `CtInv`: a job that runs with nothing else on its way has read the rows as they are (`JobHasTheRows`) |
| `SshKeys`, Row | `KeysStayInSync` (`KeysInSync`) | `SkInv`: a request alone so far holds the rows (`AloneHasTheRows`), and while nothing is skewed whoever is under way is alone (`NothingSkewed`) |
| `SchemaRebuild`, Row | `RowsKept`, of `RowsSurvive` and `RowsArrive` | `SrInv`: what `init_db` has found or made at each step, so that no second rebuild renames over a table aside (`SrPlaced`), and where the rows are meanwhile (`SrWhere`) |
| `FtpAccounts`, Row | `AccountsRight` (`AccountsAreRows`) | `FpInv`: what a creation has made by its step, and that nobody else has its folder or name meanwhile (`FpMade`); a deletion is off the allow list before it deletes anything else (`FpTaken`); the site's user stays with the site |
| `SiteWorkers`, Row | `WorkersRight` (`WorkersAreTheirRows`) | `WkInv`: the file says what the row says and what runs says it too when systemd has read the file, and no instance is beyond its number, unless an update was ended (`WkCounted`, `WkUnitless`, `WkRendered`, `WkCurrent`); what a job that changes a row has looked at stays so until its commit and after it (`WkChanging`, `WkChanged`) |
| `LoginThrottle`, Row | `LockFair` (`LockIsFair`) | `LtInv`: a row counts failures since its start, unless its count is carried (`RowCounts`); a row that has changed since it was read counts on, or was started anew (`SeenIs`); a request that is alone knows the row (`AloneKnows`), so that failures examined one after the other are counted (`SerialCount`); during a lock all requests are older than it (`LockedAfter`) |

The second word is the module of the proofs: `HostPartsProofs` or `RowPartsProofs`. Each part's types are proved with it. One
lemma per action says
that it keeps the invariant, the theorem combines them. Beyond what the bounds need, the assumptions are that constants
standing for "none" are not values
(`NoDbUser`, `WkNoUnit`, `F2bNone`, `FpSiteUser`), that the names of sessions are not the marks the model uses for
descriptors, that SSH's port covers and mentions 22, that every client has a family, that sizes are finite and above 0, that the limit of failed logins is above 0, and that the file manager's tree at first (a folder
with a file in it, and a file) has two different names and fits in the depth.

The proof of `LockFair` changed the model. `LockIsEarned` used to hold in its run, and could not be proved: with a limit of 4 a login
that deletes the row between another request's reading and its commit leaves a count that no failure of the window has
earned. The instance
with a limit of 2 was too small to show it, and the row's id was taken for a key that always comes back. The model now says both.

At the end of `ScheduleProofs` the parts are put together: `PartsRunAlone` proves that a behaviour of `MCPanelParts` is one of
every part (the part that runs takes its steps, the others stay in an initial state of theirs), and from it and the
theorems above `PartsTyped` (`PartsTypeOK`) and `PartsKeepPromises`: all that `PanelParts_all` checks, for any
values of the constants of all parts.

Model-checked only: liveness (`RunningEnds`, `ExecutedMeanwhile`, `LogFinallyShown`), since the prover has no support for
fairness and ENABLED. Every other property of the passing runs is proved. Induction over data is out of reach too; what the calendars and
the backups' ring need of it is had from the
least element of a set of numbers, whose existence the library's theorem on well-founded relations gives.

## Where the code and its words part

Five runs show a sentence of the repository violated; the findings in
`PROJECT.json` quote the lines.

1. `jobs.py` 4-6, every operation is a row executed by a worker: a row that is PENDING when the
   process ends stays PENDING for ever (`main.py` 101-103 looks at RUNNING rows only).
2. `jobs.py` 8-10, the single worker keeps commands apart: when a flush inside
   `shell.stream` raises, the command goes on while the worker starts the next job.
3. `config_editor.py` 4-6, "if anything fails the backup is restored automatically": of two saves at once, both refused, one may
   restore the text of the other, which stays.
4. `routers/sites.py` 606-607, typing the domain confirms which site is deleted: the job keeps only the
   row id, and ids are used again (no AUTOINCREMENT), so that a second deletion waiting in the queue deletes the
   site that was created in between.
5. `databases.py` 215, "Re-grant privileges for remaining databases of old_user if any": the `REVOKE ALL PRIVILEGES` of line
   214 has by then
      deleted every grant of the user, so that the query of 216-223 finds none to give back and the user is dropped
   (227-229), though rows name it.

## Not modelled

- Text: the wording of logs, progress bars, redirects, templates.
- `JobProgress` and the progress columns; they guard nothing.
- The archive a backup makes and its pruning; several schedules at once (they are independent
  but for the order of the queue).
- Two early returns of `_execute` that cannot be reached (no code deletes a job row; a
  kind accepted by `enqueue` has its handler).
- Of sites: that a file cannot be written, running PHP-FPM and application processes (the code does not
  look at the exit codes of their restarts), the cron entries of a site that is deleted, aliases, sites that share a name but not
  the domain; the download and removal of packages, which either
  happens or not; the removal of nginx and certbot (certificates stay, `certbot.py` 78). What a deletion does to the
  site's databases and FTP accounts is in `Databases` and `FtpAccounts`, not composed with the steps of `SiteLifecycle`.
- Of the queue: that `db.refresh` raises between the commit of a row and its submission (`jobs.py` 284), so that the row
  stays PENDING in a panel that goes on, as one does over an end of the process (`BackupScheduler` has this step).
- Of the validators: what PHP and nginx say of a text is the parameter `Valid`, except that a cut text may pass. (`validate_php_ini`'s
  `die('INVALID')` exits with 0, so that a php.ini that does not parse may count as valid; whatever passes is valid here.) The reload of php-fpm
  does not ask the validator again; that of nginx does, and the model with it, which only saves that overlap could tell apart.
- Of fail2ban: a `systemctl enable` that times out or a restart that is refused may leave the old daemon running on new files, where the model
  has it down; both are among the applies that were cut off, which `DaemonMatches` exempts. A purge that fails.
- Of logins: a failure whose commit is refused is not counted. Of scans: `run_scan_now` reads the time and commits in one step, and
  the panel polls in every tick.
- Of workers: the site's PHP version, whose change renders the units anew, stands still.
- Of the parts: swappiness (a sysctl and a file of its own); rules that neither cover port 22 nor mention it; passwords, exports and imports of
    databases, grants MariaDB keeps for a schema that is dropped and made again by hand; `ftp.password`; session rows and
  cookies (each is made,
    read and deleted by its own token); status pages and the whitelist of fail2ban; what a scan finds; the choice of a name
  to keep both files of an
  upload, and two uploads that choose the same; symlinks, search and download, the validation of archives; two requests that add the same SSH key at once; the generation of key pairs.
- The providers as installers, monitoring, tuning, DNS, log reading, the command line and the installer: sequences of
  external commands inside one job, or read-only.

## Plan

Done: the job subsystem, the sites, and the fifteen parts. What is left, in order of what it would show:

1. `SiteLifecycle` composed with what a deletion cascades to (databases, FTP accounts, workers, cron): the parts'
   modules take a site's deletion as one of their requests already.
2. The import and export of databases behind `ChunkedUpload`, and the making and pruning of archives behind `BackupScheduler`.
3. Proofs: every safety property of the runs that hold is proved, alone and in the composition; what comes next are the modules of 1 and 2.
4. Sessions and the installation of packages, as small modules.
