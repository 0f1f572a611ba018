--------------------------- MODULE BackupScheduler ---------------------------
(***************************************************************************)
(* services/backup.py: when a backup schedule is due, the scheduler thread *)
(* that polls for it, and the job backup.create (tasks.py) that records    *)
(* the run.  One schedule, the worker of module JobQueue reduced to its    *)
(* order, and the panel that may die and be started again.                 *)
(*                                                                         *)
(* Time is counted in ticks, Hours of them a day, and a schedule names a   *)
(* tick of the day where the code names a minute.  The scheduler polls at  *)
(* least once in every tick the panel is up (the code: every 30 seconds).  *)
(***************************************************************************)
EXTENDS Integers, Sequences, FiniteSetsExt

CONSTANTS
    Hours,        \* ticks of a day, an even number (24)
    Week,         \* days of a week (7)
    MonthStarts,  \* the days that begin a month
    LastDay,      \* the last day of a month a schedule may name (28)
    MaxTime,      \* bound: the last tick
    MaxJobs,      \* bound: backup jobs
    MaxFaults,    \* bound: commits of polls that raise
    MaxCrashes,   \* bound: deaths of the panel
    MaxToggles    \* bound: uses of the enable switch

ASSUME BackupSchedulerAssumption ==
    /\ Hours \in Nat \ {0} /\ Hours % 2 = 0
    /\ Week \in Nat \ {0} /\ LastDay \in Nat \ {0}
    /\ 0 \in MonthStarts /\ MonthStarts \subseteq Nat
    /\ \A a, b \in MonthStarts : a < b => b - a >= LastDay
    /\ MaxTime \in Nat \ {0} /\ {MaxJobs, MaxFaults, MaxCrashes, MaxToggles} \subseteq Nat
    \* Both calendars end (datetime.MAXYEAR), and the clock stays before that.
    /\ \E end \in MonthStarts : (\A m \in MonthStarts : m <= end) /\ MaxTime < end * Hours

-----------------------------------------------------------------------------
(* The calendar of the code: datetime.replace, weekday, day *)

Never == -1     \* None

Day(t)        == t \div Hours
Weekday(d)    == d % Week
MonthStart(d) == Max({s \in MonthStarts : s <= d})
DayOfMonth(d) == d - MonthStart(d) + 1
At(d, h)      == d * Hours + h

Frequencies == {"daily", "twice_daily", "weekly", "monthly"}

\* What schedule/create lets through, clamped; a day that the frequency does
\* not read is left at its default.
Schedules ==
    {s \in [frequency : Frequencies, hour : 0..(Hours - 1),
            weekday : 0..(Week - 1), day : 1..(LastDay + 1)] :
        /\ s.frequency # "weekly" => s.weekday = 0
        /\ s.frequency # "monthly" => s.day = 1}

TargetHours(s) ==
    IF s.frequency = "twice_daily" THEN {s.hour, (s.hour + Hours \div 2) % Hours}
    ELSE {s.hour}

TargetDay(s) == Min({s.day, LastDay})

\* The days check_schedule_due looks at all.
OnDay(s, d) ==
    /\ s.frequency = "weekly" => Weekday(d) = s.weekday
    /\ s.frequency = "monthly" => DayOfMonth(d) = TargetDay(s)

\* The targets of today that have passed.
Passed(s, t) ==
    IF OnDay(s, Day(t))
    THEN {At(Day(t), h) : h \in TargetHours(s)} \cap 0..t
    ELSE {}

\* Faulty variant: last_run <= target.
DueInclusive(s, last, t) ==
    /\ Passed(s, t) # {}
    /\ last <= Max(Passed(s, t))

\* Faulty variant: current > target.
DueAfter(s, last, t) ==
    /\ Passed(s, t) # {}
    /\ last < Max(Passed(s, t)) /\ Max(Passed(s, t)) < t

\* check_schedule_due, of an enabled schedule.
Due(s, last, t) ==
    /\ Passed(s, t) # {}
    /\ last < Max(Passed(s, t))

\* The candidate, or the same a period later.
From(candidate, t, later) == IF candidate > t THEN candidate ELSE later

\* Faulty variant: a weekly schedule whose hour has passed is due tomorrow.
NextRunWeekOff(s, t) ==
    LET d == Day(t) IN
    CASE s.frequency = "daily" ->
           From(At(d, s.hour), t, At(d + 1, s.hour))
      [] s.frequency = "twice_daily" ->
           LET today == {x \in {At(d, h) : h \in TargetHours(s)} : x > t}
           IN  IF today # {} THEN Min(today) ELSE At(d + 1, Min(TargetHours(s)))
      [] s.frequency = "weekly" ->
           LET on == d + ((s.weekday - Weekday(d)) % Week)
           IN  From(At(on, s.hour), t, At(on + 1, s.hour))
      [] s.frequency = "monthly" ->
           LET on   == MonthStart(d) + TargetDay(s) - 1
               next == Min({x \in MonthStarts : x > d}) + TargetDay(s) - 1
           IN  From(At(on, s.hour), t, At(next, s.hour))

\* get_next_run
NextRun(s, t) ==
    LET d == Day(t) IN
    CASE s.frequency = "daily" ->
           From(At(d, s.hour), t, At(d + 1, s.hour))
      [] s.frequency = "twice_daily" ->
           LET today == {x \in {At(d, h) : h \in TargetHours(s)} : x > t}
           IN  IF today # {} THEN Min(today) ELSE At(d + 1, Min(TargetHours(s)))
      [] s.frequency = "weekly" ->
           LET on == d + ((s.weekday - Weekday(d)) % Week)
           IN  From(At(on, s.hour), t, At(on + Week, s.hour))
      [] s.frequency = "monthly" ->
           LET on   == MonthStart(d) + TargetDay(s) - 1
               next == Min({x \in MonthStarts : x > d}) + TargetDay(s) - 1
           IN  From(At(on, s.hour), t, At(next, s.hour))

-----------------------------------------------------------------------------
VARIABLES
    schedule,   \* the row, except for
    enabled,    \* is_enabled, with the site's is_active, which nothing in the panel changes, and
    last,       \* last_run_at
    now,        \* the clock
    up,         \* the panel runs
    poll,       \* "idle", "read": the row is read and no more, or "enqueued": between
                \* the two commits of a poll
    seen,       \* the row as the poll has read it, or Unread
    polled,     \* a poll has begun since the tick, the panel or the last toggle
    refused,    \* history: a commit of a poll has been refused in this tick
    jobs,       \* the rows backup.create, in the order they were enqueued
    shown,      \* history: get_next_run when the schedule was made or last ran
    carried,    \* history: a job had not ended when this tick began
    faults, crashes, toggles

rows   == <<schedule, enabled, last, shown>>
bounds == <<faults, crashes, toggles>>
clock  == <<now, carried>>
polls  == <<poll, seen, refused>>
vars   == <<rows, clock, up, polls, polled, jobs, bounds>>

Unread == [on |-> FALSE, last |-> Never]

JobStates == {"pending", "running", "done", "failed", "forgotten"}

Active(i)   == jobs[i].state \in {"pending", "running"}
Running(i)  == jobs[i].state = "running"
Ids         == 1..Len(jobs)
Ran(t)      == last' = t /\ shown' = NextRun(schedule, t)

\* The schedule was made in this tick and has never run, or ran in the one
\* before.
Init ==
    /\ schedule \in Schedules
    /\ enabled = TRUE
    /\ last \in {Never, 0}
    /\ now = 1
    /\ carried = FALSE
    /\ up = TRUE
    /\ poll = "idle" /\ seen = Unread /\ refused = FALSE
    /\ polled = FALSE
    /\ jobs = <<>>
    /\ shown = NextRun(schedule, IF last = Never THEN 1 ELSE 0)
    /\ faults = 0 /\ crashes = 0 /\ toggles = 0

Tick ==
    /\ now < MaxTime
    /\ up => polled /\ poll = "idle"
    /\ now' = now + 1
    /\ carried' = \E i \in Ids : Active(i)
    /\ polled' = FALSE /\ refused' = FALSE
    /\ UNCHANGED <<rows, up, poll, seen, jobs, bounds>>

-----------------------------------------------------------------------------
(* poll_and_run_schedules *)

Enqueued(auto, state) ==
    /\ Len(jobs) < MaxJobs
    /\ jobs' = Append(jobs, [state |-> state, auto |-> auto, at |-> now])
Enqueue(auto) == Enqueued(auto, "pending")

\* The select; what it has read is not read again.
PollReads ==
    /\ up /\ poll = "idle"
    /\ poll' = "read" /\ seen' = [on |-> enabled, last |-> last]
    /\ polled' = TRUE
    /\ UNCHANGED <<rows, clock, up, refused, jobs, bounds>>

SeenDue == poll = "read" /\ seen.on /\ Due(schedule, seen.last, now)
PollEnds == poll' = "idle" /\ seen' = Unread

PollFindsNothing ==
    /\ poll = "read" /\ ~SeenDue
    /\ PollEnds
    /\ UNCHANGED <<rows, clock, up, polled, refused, jobs, bounds>>

\* The first commit: enqueue.
PollEnqueues ==
    /\ SeenDue
    /\ Enqueue(TRUE)
    /\ poll' = "enqueued"
    /\ UNCHANGED <<rows, clock, up, seen, polled, refused, bounds>>

PollRaises ==
    /\ faults < MaxFaults
    /\ faults' = faults + 1
    /\ refused' = TRUE
    /\ PollEnds
    /\ UNCHANGED <<rows, clock, up, polled, crashes, toggles>>

\* It raises; or the refresh that follows it, and the job is on no queue.
PollRefused ==
    /\ SeenDue
    /\ UNCHANGED jobs \/ Enqueued(TRUE, "forgotten")
    /\ PollRaises

\* The second: s.last_run_at = now.
PollRecords ==
    /\ poll = "enqueued"
    /\ Ran(now)
    /\ PollEnds
    /\ UNCHANGED <<schedule, enabled, clock, up, polled, refused, jobs, bounds>>

\* It raises; the exception is logged.
PollFails ==
    /\ poll = "enqueued"
    /\ PollRaises
    /\ UNCHANGED jobs

-----------------------------------------------------------------------------
(* routers/backup.py: run_schedule_now, toggle_schedule *)

RunNow ==
    /\ up
    /\ Enqueue(FALSE)
    /\ UNCHANGED <<rows, clock, up, polls, polled, bounds>>

Toggle ==
    /\ up
    /\ toggles < MaxToggles
    /\ toggles' = toggles + 1
    /\ enabled' = ~enabled
    /\ polled' = FALSE
    /\ UNCHANGED <<schedule, last, shown, clock, up, polls, jobs, faults, crashes>>

-----------------------------------------------------------------------------
(* The job: create_site_backup *)

JobStarts ==
    /\ \A i \in Ids : ~Running(i)
    /\ \E i \in Ids :
         /\ jobs[i].state = "pending"
         /\ \A k \in 1..(i - 1) : jobs[k].state # "pending"
         /\ jobs' = [jobs EXCEPT ![i].state = "running"]
    /\ UNCHANGED <<rows, clock, up, polls, polled, bounds>>

\* Faulty variant: only the scheduler records the run.
JobSucceedsUnrecorded ==
    /\ \E i \in Ids : Running(i) /\ jobs' = [jobs EXCEPT ![i].state = "done"]
    /\ UNCHANGED <<rows, clock, up, polls, polled, bounds>>

\* The archive is there; schedule.last_run_at = utcnow().
JobSucceeds ==
    /\ \E i \in Ids : Running(i) /\ jobs' = [jobs EXCEPT ![i].state = "done"]
    /\ Ran(now)
    /\ UNCHANGED <<schedule, enabled, clock, up, polls, polled, bounds>>

\* create_backup raised: JobFailed; or the commit of last_run_at did.
JobFails ==
    /\ \E i \in Ids : Running(i) /\ jobs' = [jobs EXCEPT ![i].state = "failed"]
    /\ UNCHANGED <<rows, clock, up, polls, polled, bounds>>

-----------------------------------------------------------------------------
(* The panel dies.  A running job will be declared failed, and a pending one *)
(* is on no queue any more (module JobQueue).                                *)

\* Faulty variant: the recovery overlooks the running job.
CrashKeepsJobs ==
    /\ up
    /\ crashes < MaxCrashes
    /\ crashes' = crashes + 1
    /\ up' = FALSE
    /\ PollEnds
    /\ polled' = FALSE
    /\ UNCHANGED <<rows, clock, refused, jobs, faults, toggles>>

Crash ==
    /\ up
    /\ crashes < MaxCrashes
    /\ crashes' = crashes + 1
    /\ up' = FALSE
    /\ PollEnds
    /\ polled' = FALSE
    /\ jobs' = [i \in Ids |->
                 [jobs[i] EXCEPT !.state = IF @ = "running" THEN "failed"
                                           ELSE IF @ = "pending" THEN "forgotten"
                                           ELSE @]]
    /\ UNCHANGED <<rows, clock, refused, faults, toggles>>

Restart ==
    /\ ~up
    /\ up' = TRUE
    /\ UNCHANGED <<rows, clock, polls, polled, jobs, bounds>>

-----------------------------------------------------------------------------
Poll == \/ PollReads \/ PollFindsNothing \/ PollEnqueues \/ PollRefused
        \/ PollRecords \/ PollFails
User == RunNow \/ Toggle
Job  == JobStarts \/ JobSucceeds \/ JobFails

Next == Tick \/ Poll \/ User \/ Job \/ Crash \/ Restart

Spec == Init /\ [][Next]_vars

-----------------------------------------------------------------------------
(* Properties *)

\* A target of the schedule, on whatever day.
Target(t) == t \in Passed(schedule, t)

\* Types; and one job at a time, none of them while the panel is down.
TypeOK ==
    /\ schedule \in Schedules
    /\ {enabled, up, polled, carried, refused} \subseteq BOOLEAN
    /\ last \in {Never} \cup 0..now
    /\ now \in 0..MaxTime
    /\ poll \in {"idle", "read", "enqueued"} /\ (poll # "idle" => up)
    /\ seen \in [on : BOOLEAN, last : {Never} \cup 0..now]
    /\ jobs \in Seq([state : JobStates, auto : BOOLEAN, at : 0..now])
    /\ \A i, k \in Ids : Running(i) /\ Running(k) => i = k
    /\ ~up => \A i \in Ids : ~Active(i)
    /\ shown \in Nat
    /\ faults \in 0..MaxFaults /\ crashes \in 0..MaxCrashes /\ toggles \in 0..MaxToggles

\* The days the calendar covers whole.
Span == 0..(At(Max(MonthStarts), 0) - 1)

\* get_next_run and check_schedule_due, two separate pieces of calendar
\* arithmetic, speak of the same instants: the next run after any t is the
\* first instant after t that check_schedule_due counts as a target (backup.py
\* 351-452).  A schedule's arithmetic does not change: it is asked at the start.
NextRunIsNextTarget ==
    now = 1 /\ ~polled /\ jobs = <<>> =>
        \A t \in Span :
            LET n == NextRun(schedule, t) IN
            n > t /\ Target(n) /\ \A x \in (t + 1)..(n - 1) : ~Target(x)

\* Two scheduled backups are not made for one target, although the panel may
\* die between the commit of the job and the commit of last_run_at, and a poll
\* decides on a row that it read before: the job records its run a second time
\* (backup.py 462-492, tasks.py 816-823).  A commit of last_run_at that raises
\* while the job is still going on is the exception.
OneBackupPerTarget ==
    faults = 0 =>
        \A i, k \in Ids :
            i < k /\ jobs[i].auto /\ jobs[k].auto
                  /\ jobs[i].state = "done" /\ jobs[k].state = "done" =>
                \E t \in (jobs[i].at + 1)..jobs[k].at : Target(t)

\* Both calendars have the same targets, and a target has one backup.
TargetsAreKept == NextRunIsNextTarget /\ OneBackupPerTarget

\* The scheduler does not run a schedule again before the time the page shows
\* as its next run (backup.py 351-352).  The first run of a new schedule is one
\* exception: it may be a target that had passed when the schedule was made.  A
\* poll that had read the row before a job recorded its run is the other.
NotBeforeNextRun ==
    poll = "read" /\ poll' = "enqueued" /\ last # Never /\ seen.last = last => now >= shown

\* A target that passes while the panel is up and the schedule is enabled has
\* a backup of its own, one asked for at that time (backup.py 351-352), unless
\* a job that had not ended by then has recorded its run in its place, or the
\* commit of the job was refused.
EveryTargetHasBackup ==
    now' # now /\ up /\ enabled /\ Target(now) /\ ~carried /\ ~refused =>
        \E i \in Ids : jobs[i].at = now

\* A target that passed while the panel was down or the schedule was off is
\* made up for on the same day: when a tick ends with both on, nothing is due,
\* unless a commit was refused in it.
NothingIsLeftDue ==
    now' # now /\ up /\ enabled /\ ~refused => ~Due(schedule, last, now)

\* No step makes a backup too early, and none lets a target pass without one.
BackupsOnTime == [][NotBeforeNextRun /\ EveryTargetHasBackup /\ NothingIsLeftDue]_vars
==============================================================================
