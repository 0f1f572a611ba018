---------------------------- MODULE ScanSchedules ----------------------------
(***************************************************************************)
(* services/security.py: the schedules of malware and rootkit scans.  The  *)
(* scheduler thread polls all of them in one session, on a copy of the     *)
(* rows it read at the beginning, while requests pause, delete and run     *)
(* them and jobs install and remove the scanners.                          *)
(*                                                                         *)
(* Time is counted in ticks, SsHours of them a day; a tick is long enough  *)
(* for several polls (the code: every 30 seconds).                         *)
(***************************************************************************)
EXTENDS Integers, Sequences, FiniteSetsExt

CONSTANTS
    SsIds,          \* schedules
    SsPlans,        \* what they may be, a set of ScanPlans for each
    SsHours,        \* ticks of a day (24 hours of 60 minutes)
    SsWeek,         \* days of a week (7)
    SsMonths,       \* the days that begin a month
    SsLastDay,      \* the last day of a month a scan is made on (28)
    SsMaxTime,      \* bound: the last tick
    SsMaxScans,     \* bound: scans of one schedule
    SsMaxFaults,    \* bound: commits that raise, and deaths of the panel
    SsMaxChanges    \* bound: requests and installations

ASSUME ScanSchedulesAssumption ==
    /\ SsHours \in Nat \ {0} /\ SsWeek \in Nat \ {0} /\ SsLastDay \in Nat \ {0}
    /\ 0 \in SsMonths /\ SsMonths \subseteq Nat
    /\ \A a, b \in SsMonths : a < b => b - a >= SsLastDay
    \* The calendar ends (datetime.MAXYEAR).
    /\ \E end \in SsMonths : \A m \in SsMonths : m <= end
    /\ {SsMaxTime, SsMaxScans, SsMaxFaults, SsMaxChanges} \subseteq Nat

SsNever == -1     \* None
Scanners == {"maldet", "rkhunter"}

SsMonth(d) == Max({s \in SsMonths : s <= d})

\* create_scan_schedule: what it lets through, clamped.
ScanPlans ==
    [scanner : Scanners, frequency : {"daily", "weekly", "monthly"},
     hour : 0..(SsHours - 1), weekday : 0..(SsWeek - 1), day : 1..(SsLastDay + 1)]

\* The days check_scan_schedule_due looks at all.
ScanDay(p, d) ==
    /\ p.frequency = "weekly" => d % SsWeek = p.weekday
    /\ p.frequency = "monthly" => d - SsMonth(d) + 1 = Min({p.day, SsLastDay})

\* Faulty variant: current > target.
ScanDueAfter(p, last, t) ==
    LET target == (t \div SsHours) * SsHours + p.hour IN
    ScanDay(p, t \div SsHours) /\ last < target /\ target < t

\* Faulty variant: last_run <= target.
ScanDueInclusive(p, last, t) ==
    LET target == (t \div SsHours) * SsHours + p.hour IN
    ScanDay(p, t \div SsHours) /\ last <= target /\ target <= t

\* check_scan_schedule_due, of an enabled schedule.
ScanDue(p, last, t) ==
    LET target == (t \div SsHours) * SsHours + p.hour IN
    ScanDay(p, t \div SsHours) /\ last < target /\ target <= t

\* Faulty variant: a monthly scan whose time has passed is due tomorrow.
ScanNextRunTomorrow(p, t) ==
    LET d  == t \div SsHours
        on == CASE p.frequency = "daily" -> d
                [] p.frequency = "weekly" -> d + ((p.weekday - d) % SsWeek)
                [] OTHER -> SsMonth(d) + Min({p.day, SsLastDay}) - 1
    IN  IF on * SsHours + p.hour > t THEN on * SsHours + p.hour ELSE (d + 1) * SsHours + p.hour

\* get_next_scan_run: the candidate, or the same a period later.
ScanNextRun(p, t) ==
    LET d     == t \div SsHours
        day   == Min({p.day, SsLastDay}) - 1
        on    == CASE p.frequency = "daily" -> d
                   [] p.frequency = "weekly" -> d + ((p.weekday - d) % SsWeek)
                   [] OTHER -> SsMonth(d) + day
        later == CASE p.frequency = "daily" -> d + 1
                   [] p.frequency = "weekly" -> on + SsWeek
                   [] OTHER -> Min({s \in SsMonths : s > d}) + day
    IN  (IF on * SsHours + p.hour > t THEN on ELSE later) * SsHours + p.hour

-----------------------------------------------------------------------------
VARIABLES
    ssPlan,        \* the rows, except for
    ssEnabled,     \* is_enabled and
    ssLast,        \* last_run_at
    ssDeleted,     \* the schedules whose row is gone
    ssTools,       \* the scanners that are installed
    ssNow,
    ssPoll,        \* what a poll has still to look at, and the row it is about
                   \* to write; the copies of last_run_at it works with
    ssPolled,      \* a poll has seen everything as it is
    ssScans,       \* history: the ticks at which polls enqueued a scan
    ssLost,        \* history: schedules of which a run was not recorded
    ssFaults, ssChanges

ssRows == <<ssPlan, ssEnabled, ssLast, ssDeleted>>
ssVars == <<ssRows, ssTools, ssNow, ssPoll, ssPolled, ssScans, ssLost, ssFaults, ssChanges>>

SsIdle == [left |-> {}, writes |-> {}, last |-> <<>>]
SsIsIdle == ssPoll = SsIdle

ScanInit ==
    /\ ssPlan \in [SsIds -> ScanPlans] /\ \A i \in SsIds : ssPlan[i] \in SsPlans[i]
    /\ ssEnabled = [i \in SsIds |-> TRUE]
    /\ ssLast = [i \in SsIds |-> SsNever]
    /\ ssDeleted = {}
    /\ ssTools \in SUBSET Scanners
    /\ ssNow = 1
    /\ ssPoll = SsIdle /\ ssPolled = FALSE
    /\ ssScans = [i \in SsIds |-> <<>>]
    /\ ssLost = {}
    /\ ssFaults = 0 /\ ssChanges = 0

SsTick ==
    /\ ssNow < SsMaxTime /\ SsIsIdle /\ ssPolled
    /\ ssNow' = ssNow + 1
    /\ ssPolled' = FALSE
    /\ UNCHANGED <<ssRows, ssTools, ssPoll, ssScans, ssLost, ssFaults, ssChanges>>

-----------------------------------------------------------------------------
(* poll_and_run_scan_schedules *)

ScanPollReads ==
    /\ SsIsIdle /\ ~ssPolled
    /\ ssPoll' = [left |-> {i \in SsIds \ ssDeleted : ssEnabled[i]}, writes |-> {}, last |-> ssLast]
    /\ ssPolled' = TRUE
    /\ UNCHANGED <<ssRows, ssTools, ssNow, ssScans, ssLost, ssFaults, ssChanges>>

SsReady(i) ==
    /\ ssPoll.writes = {} /\ i \in ssPoll.left
    /\ ScanDue(ssPlan[i], ssPoll.last[i], ssNow)

\* Due, and its scanner is not installed.
ScanPassesOver(i) ==
    /\ SsReady(i) /\ ssPlan[i].scanner \notin ssTools
    /\ ssPoll' = [ssPoll EXCEPT !.left = @ \ {i}]
    /\ UNCHANGED <<ssRows, ssTools, ssNow, ssPolled, ssScans, ssLost, ssFaults, ssChanges>>

\* The first commit: enqueue.
ScanEnqueued(i) ==
    /\ SsReady(i) /\ ssPlan[i].scanner \in ssTools
    /\ Len(ssScans[i]) < SsMaxScans
    /\ ssScans' = [ssScans EXCEPT ![i] = Append(@, ssNow)]
    /\ ssPoll' = [ssPoll EXCEPT !.left = @ \ {i}, !.writes = {i}]
    /\ UNCHANGED <<ssRows, ssTools, ssNow, ssPolled, ssLost, ssFaults, ssChanges>>

\* The second: s.last_run_at = now.
ScanRecorded(i) ==
    /\ i \in ssPoll.writes /\ i \notin ssDeleted
    /\ ssLast' = [ssLast EXCEPT ![i] = ssNow]
    /\ ssPoll' = [ssPoll EXCEPT !.writes = {}]
    /\ UNCHANGED <<ssPlan, ssEnabled, ssDeleted, ssTools, ssNow, ssPolled, ssScans, ssLost, ssFaults, ssChanges>>

\* It raises, as it must when the row is gone, and the error is logged.  The
\* session was not rolled back: every enqueue of this poll raises after it.
ScanRecordRaises(i) ==
    /\ i \in ssPoll.writes
    /\ i \in ssDeleted \/ ssFaults < SsMaxFaults
    /\ ssFaults' = IF i \in ssDeleted THEN ssFaults ELSE ssFaults + 1
    /\ ssPoll' = SsIdle
    /\ ssPolled' = FALSE
    /\ ssLost' = ssLost \cup {i}
    /\ UNCHANGED <<ssRows, ssTools, ssNow, ssScans, ssChanges>>

ScanPollEnds ==
    /\ ~SsIsIdle /\ ssPoll.writes = {}
    /\ \A i \in ssPoll.left : ~ScanDue(ssPlan[i], ssPoll.last[i], ssNow)
    /\ ssPoll' = SsIdle
    /\ UNCHANGED <<ssRows, ssTools, ssNow, ssPolled, ssScans, ssLost, ssFaults, ssChanges>>

-----------------------------------------------------------------------------
(* Requests, installations, the end of the panel *)

SsChange ==
    /\ ssChanges < SsMaxChanges
    /\ ssChanges' = ssChanges + 1
    /\ ssPolled' = FALSE

ToggleScan(i) ==
    /\ SsChange /\ i \notin ssDeleted
    /\ ssEnabled' = [ssEnabled EXCEPT ![i] = ~@]
    /\ UNCHANGED <<ssPlan, ssLast, ssDeleted, ssTools, ssNow, ssPoll, ssScans, ssLost, ssFaults>>

DeleteScan(i) ==
    /\ SsChange /\ i \notin ssDeleted
    /\ ssDeleted' = ssDeleted \cup {i}
    /\ UNCHANGED <<ssPlan, ssEnabled, ssLast, ssTools, ssNow, ssPoll, ssScans, ssLost, ssFaults>>

\* run_scan_schedule: the job, and last_run_at.
RunScanNow(i) ==
    /\ SsChange /\ i \notin ssDeleted /\ ssPlan[i].scanner \in ssTools
    /\ ssLast' = [ssLast EXCEPT ![i] = ssNow]
    /\ UNCHANGED <<ssPlan, ssEnabled, ssDeleted, ssTools, ssNow, ssPoll, ssScans, ssLost, ssFaults>>

\* A job installs or removes a scanner.
ScannersChange ==
    /\ SsChange
    /\ \E s \in Scanners : ssTools' = IF s \in ssTools THEN ssTools \ {s} ELSE ssTools \cup {s}
    /\ UNCHANGED <<ssRows, ssNow, ssPoll, ssScans, ssLost, ssFaults>>

\* The panel dies and is started again in the same tick.
SsPanelEnds ==
    /\ ssFaults < SsMaxFaults
    /\ ssFaults' = ssFaults + 1
    /\ ssPoll' = SsIdle
    /\ ssPolled' = FALSE
    /\ ssLost' = ssLost \cup ssPoll.writes
    /\ UNCHANGED <<ssRows, ssTools, ssNow, ssScans, ssChanges>>

ScanNext ==
    \/ SsTick \/ ScanPollReads \/ ScanPollEnds \/ ScannersChange \/ SsPanelEnds
    \/ \E i \in SsIds :
          \/ ScanPassesOver(i) \/ ScanEnqueued(i) \/ ScanRecorded(i) \/ ScanRecordRaises(i)
          \/ ToggleScan(i) \/ DeleteScan(i) \/ RunScanNow(i)

ScanSpec == ScanInit /\ [][ScanNext]_ssVars

-----------------------------------------------------------------------------
ScanTarget(i, t) == ScanDay(ssPlan[i], t \div SsHours) /\ t % SsHours = ssPlan[i].hour

ScanTypeOK ==
    /\ ssPlan \in [SsIds -> ScanPlans]
    /\ ssEnabled \in [SsIds -> BOOLEAN]
    /\ ssLast \in [SsIds -> SsNever..ssNow]
    /\ ssDeleted \subseteq SsIds /\ ssLost \subseteq SsIds
    /\ ssTools \subseteq Scanners
    /\ ssPoll.left \subseteq SsIds /\ ssPoll.writes \subseteq SsIds

\* get_next_scan_run and check_scan_schedule_due, two pieces of calendar
\* arithmetic, speak of the same instants: the next run after any t is the
\* first instant after t that is a target (security.py 767-853).  It is of the
\* plan alone, and looked at in the initial states with every scanner.
ScanNextRunIsTarget ==
    ssNow = 1 /\ SsIsIdle /\ ssTools = Scanners =>
        \A i \in SsIds : \A t \in 0..(Max(SsMonths) * SsHours - 1) :
            LET n == ScanNextRun(ssPlan[i], t) IN
            n > t /\ ScanTarget(i, n) /\ \A x \in (t + 1)..(n - 1) : ~ScanTarget(i, x)

\* Two polls do not enqueue a scan for one target, whatever is paused, run by
\* hand or installed between them (security.py 944-978); a run whose
\* last_run_at was not written is the exception, as only that holds the next
\* poll back: the job itself, unlike that of a backup, records nothing.
NoScanTwice ==
    \A i \in SsIds \ ssLost : \A x, y \in 1..Len(ssScans[i]) :
        x < y => \E t \in (ssScans[i][x] + 1)..ssScans[i][y] : ScanTarget(i, t)

\* Both calendars have the same targets, and a target has one scan.
ScansFollowCalendar == ScanNextRunIsTarget /\ NoScanTwice

\* When a tick is over, every schedule that is enabled, with its scanner
\* installed, has been run for the target of that tick, although the write of
\* another schedule's row has made the rest of a poll fail (security.py 958-976).
EveryTargetIsScanned ==
    [][ssNow' # ssNow =>
        \A i \in SsIds \ ssDeleted :
            ssEnabled[i] /\ ScanTarget(i, ssNow) /\ ssPlan[i].scanner \in ssTools => ssLast[i] = ssNow]_ssVars
=============================================================================
