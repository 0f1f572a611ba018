---------------------------- MODULE LoginThrottle ----------------------------
(***************************************************************************)
(* security.py and routers/auth.py: the row of login_attempts that counts  *)
(* the failed logins of one address.  Requests run in threads, each with a *)
(* session of its own that reads the row, computes and writes back the     *)
(* columns it has changed.                                                 *)
(***************************************************************************)
EXTENDS Integers, Sequences, FiniteSets

CONSTANTS
    LtThreads,     \* request threads
    LtMax,         \* login_max_attempts
    LtWindow,      \* login_lockout_minutes
    LtMaxTime,     \* bound: minutes
    LtMaxLogins    \* bound: logins that succeed

ASSUME LoginThrottleAssumption ==
    /\ LtMax \in Nat \ {0} /\ LtWindow \in Nat
    /\ LtMaxTime \in Nat \ {0} /\ LtMaxLogins \in Nat

VARIABLES
    ltRow,       \* the address's row of login_attempts, or LtNoRow
    ltNow,
    ltReq,       \* what each thread is doing
    ltLogins,
    ltCarried,   \* history: the row goes on with the count of a row that a login deleted
    ltFailed,    \* history: the wrong passwords
    ltEarly      \* history: the threads whose request is older than the lock

ltHistory == <<ltFailed, ltEarly>>
ltVars == <<ltRow, ltNow, ltReq, ltLogins, ltCarried, ltHistory>>

LtNoRow == [n |-> 0, start |-> 0, until |-> 0]    \* until = 0 is NULL
\* seen, of: the row that was read, and whether it is still the one there ("row"),
\* that one with a count that is carried, or has been deleted ("gone").
LtIdle  == [step |-> "idle", seen |-> LtNoRow, of |-> "row", alone |-> FALSE]

LtLocked == ltRow.until > ltNow

LtInit ==
    /\ ltRow = LtNoRow
    /\ ltNow = 1
    /\ ltReq = [t \in LtThreads |-> LtIdle]
    /\ ltLogins = 0
    /\ ltCarried = FALSE
    /\ ltFailed = <<>>
    /\ ltEarly = {}

LtAt(t, step) == ltReq[t].step = step
LtGoes(t, r)  == ltReq' = [ltReq EXCEPT ![t] = r]
LtArrived(alone) == [step |-> IF ltRow.until = 0 THEN "authenticate" ELSE "unlock",
                     seen |-> ltRow, of |-> "row", alone |-> alone]

-----------------------------------------------------------------------------
\* Faulty variant: a lock that has not expired is taken away too.
LoginArrivesAnyway(t) ==
    /\ LtAt(t, "idle")
    /\ LtGoes(t, LtArrived(FALSE))
    /\ UNCHANGED <<ltRow, ltNow, ltLogins, ltCarried, ltHistory>>

\* is_locked_out, its reading; a locked address is answered 429 at once.
LoginArrives(t) ==
    /\ LtAt(t, "idle") /\ ~LtLocked
    /\ LET others == {u \in LtThreads : ~LtAt(u, "idle")} IN
       ltReq' = [u \in LtThreads |->
           IF u = t THEN LtArrived(others = {}) ELSE [ltReq[u] EXCEPT !.alone = FALSE]]
    /\ UNCHANGED <<ltRow, ltNow, ltLogins, ltCarried, ltHistory>>

\* An UPDATE goes by the row's id.  A row that a login has deleted is not found,
\* and the commit raises, unless a new row has been given the id.
LtFinds(t)  == ltReq[t].seen # LtNoRow /\ ltRow # LtNoRow
LtMisses(t) == (ltReq[t].seen = LtNoRow) # (ltRow = LtNoRow) \/ ltReq[t].of = "gone"

\* The lock had expired when it was read.
Unlock(t) ==
    /\ LtAt(t, "unlock")
    /\ \/ /\ LtFinds(t)
          /\ LtGoes(t, [ltReq[t] EXCEPT !.step = "authenticate"])
          /\ ltRow' = [ltRow EXCEPT !.n = IF ltReq[t].seen.n = 0 THEN @ ELSE 0, !.until = 0]
          /\ ltCarried' = (ltCarried /\ ltReq[t].seen.n = 0)
       \/ LtMisses(t) /\ LtGoes(t, LtIdle) /\ UNCHANGED <<ltRow, ltCarried>>
    /\ UNCHANGED <<ltNow, ltLogins, ltHistory>>

\* authenticate returns None; record_failed_login reads the row.
WrongPassword(t) ==
    /\ LtAt(t, "authenticate")
    /\ LtGoes(t, [ltReq[t] EXCEPT !.step = "count", !.seen = ltRow,
                                  !.of = IF ltCarried THEN "carried" ELSE "row"])
    /\ UNCHANGED <<ltRow, ltNow, ltLogins, ltCarried, ltHistory>>

\* Faulty variant: the count is never restarted.
NeverPassed(seen) == FALSE

LtPassed(seen) == ltNow - seen.start > LtWindow
LtCount(seen)  == IF LtPassed(seen) THEN 1 ELSE seen.n + 1

\* Faulty variant: one more is let through.
MoreThanEnough(n) == n > LtMax

LtEnough(n) == n >= LtMax

\* What the commit makes of the row: a column that is what was read is not
\* written.
Recorded(seen) ==
    [n     |-> IF LtCount(seen) = seen.n THEN ltRow.n ELSE LtCount(seen),
     start |-> IF LtPassed(seen) THEN ltNow ELSE ltRow.start,
     until |-> IF LtEnough(LtCount(seen)) THEN ltNow + LtWindow ELSE ltRow.until]

FirstFailure == [n |-> 1, start |-> ltNow, until |-> IF LtEnough(1) THEN ltNow + LtWindow ELSE 0]

\* Whose count the row has then.
LtCarries(t) ==
    LET seen == ltReq[t].seen IN
    IF LtCount(seen) = seen.n THEN ltCarried ELSE ~LtPassed(seen) /\ ltReq[t].of # "row"

LtCounted(t, row, carried) ==
    /\ ltRow' = row
    /\ ltCarried' = carried
    /\ LtGoes(t, LtIdle)
    /\ ltEarly' = IF row.until > ltRow.until THEN {u \in LtThreads \ {t} : ~LtAt(u, "idle")}
                  ELSE ltEarly \ {t}
    /\ ltFailed' = Append(ltFailed, [at |-> ltNow, serial |-> ltReq[t].alone])
    /\ UNCHANGED <<ltNow, ltLogins>>

\* The commit; an INSERT that finds a row raises too.
RecordFailure(t) ==
    /\ LtAt(t, "count")
    /\ \/ /\ ltReq[t].seen = LtNoRow /\ ltRow = LtNoRow
          /\ LtCounted(t, FirstFailure, FALSE)
       \/ LtFinds(t) /\ LtCounted(t, Recorded(ltReq[t].seen), LtCarries(t))
       \/ LtMisses(t) /\ LtCounted(t, ltRow, ltCarried)

\* The password is right: clear_failed_logins deletes the row, create_session.
LoginSucceeds(t) ==
    /\ LtAt(t, "authenticate") /\ ltLogins < LtMaxLogins
    /\ ltLogins' = ltLogins + 1
    /\ ltRow' = LtNoRow /\ ltCarried' = FALSE
    /\ ltReq' = [u \in LtThreads |->
           IF u = t THEN LtIdle
           ELSE IF ltReq[u].step \in {"count", "unlock"} /\ ltReq[u].seen # LtNoRow
           THEN [ltReq[u] EXCEPT !.of = "gone"]
           ELSE ltReq[u]]
    /\ ltEarly' = ltEarly \ {t}
    /\ ltFailed' = [i \in DOMAIN ltFailed |-> [ltFailed[i] EXCEPT !.serial = FALSE]]
    /\ UNCHANGED ltNow

\* A commit follows its reading within the minute.
LtTick ==
    /\ ltNow < LtMaxTime
    /\ \A t \in LtThreads : ~LtAt(t, "count") /\ ~LtAt(t, "unlock")
    /\ ltNow' = ltNow + 1
    /\ UNCHANGED <<ltRow, ltReq, ltLogins, ltCarried, ltHistory>>

LtNext ==
    \/ \E t \in LtThreads :
          \/ LoginArrives(t) \/ Unlock(t) \/ WrongPassword(t)
          \/ RecordFailure(t) \/ LoginSucceeds(t)
    \/ LtTick

LtSpec == LtInit /\ [][LtNext]_ltVars

-----------------------------------------------------------------------------
LtRows == [n : Nat, start : 0 .. LtMaxTime, until : 0 .. LtMaxTime + LtWindow]

LtTypeOK ==
    /\ ltRow \in LtRows
    /\ ltReq \in [LtThreads -> [step : {"idle", "unlock", "authenticate", "count"},
                                seen : LtRows, of : {"row", "carried", "gone"}, alone : BOOLEAN]]
    /\ ltEarly \subseteq LtThreads

\* An address is locked out only after LtMax wrong passwords within one
\* lockout time, however the threads read and write the row; but a login deletes
\* the row, and a request that had read it and finds a new row under its id
\* gives that one the old count.
LockIsEarned ==
    ltRow'.until > ltRow.until =>
        \/ ltCarried'
        \/ /\ Len(ltFailed') >= LtMax
           /\ ltNow - ltFailed'[Len(ltFailed') - LtMax + 1].at <= LtWindow

\* "Restart the count if the previous window has passed": windows do not
\* slide, so LtMax wrong passwords within one lockout time may fall into two of
\* them; but 2 LtMax in less than that, one after the other and no login between
\* them, are never examined.
FailuresLock ==
    \A i \in DOMAIN ltFailed :
        /\ \A k \in i .. Len(ltFailed) : ltFailed[k].serial
        /\ ltFailed[Len(ltFailed)].at - ltFailed[i].at < LtWindow
        => Len(ltFailed) - i + 1 < 2 * LtMax

\* A lock ends before its time only by a request that began before it was set:
\* one that knew the password, or that had read the lock before as expired.
LockLasts ==
    LtLocked /\ ltRow'.until < ltRow.until =>
        \E t \in ltEarly : ltReq[t].step \in {"authenticate", "unlock"} /\ ltReq'[t] # ltReq[t]

\* Too many failures lock, too few do not, and a lock lasts.
LockIsFair == [][LockIsEarned /\ FailuresLock' /\ LockLasts]_ltVars
=============================================================================
