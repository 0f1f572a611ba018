--------------------------- MODULE TerminalSession ---------------------------
(***************************************************************************)
(* services/terminal.py and routers/terminal.py: web terminals, each with  *)
(* a shell on a pty, a thread that reads the pty by its file descriptor's  *)
(* number, a task that sends what was read and a handler, both on the one  *)
(* event loop, which close() and the join after it block.                  *)
(***************************************************************************)
EXTENDS Integers, Sequences, FiniteSets

CONSTANTS
    TmSessions,    \* terminals
    TmFds,         \* the numbers that are free for descriptors
    TmMaxOut       \* bound: writes of a session

ASSUME TerminalSessionAssumption ==
    TmSessions \cap {"file", "free", "end", "none"} = {}

VARIABLES
    tmFd,        \* what a number refers to: a session's pty, "file" or "free"
    tmPhase,     \* of a session: "new", "open", "closed", "raised" by close(), or
                 \* its thread not joined: "stuck" in a read, or "late"
    tmNum,       \* self.master_fd
    tmShell,     \* the shell lives
    tmJob,       \* a command in the background can write to the pty
    tmOut,       \* writes in the pty that nobody has read yet
    tmMade,      \* all writes
    tmReader,    \* where the reader thread is
    tmStop,      \* stop_reading
    tmQueue,     \* output_queue: whose output; "end" is the sentinel
    tmPump,      \* pump_output runs, has closed the websocket, or is cancelled
    tmSent,      \* what it has sent
    tmLoop       \* the close that occupies the event loop, or TmFree

tmShells  == <<tmShell, tmJob>>
tmOutput  == <<tmOut, tmMade>>
tmReaders == <<tmReader, tmQueue>>
tmPumps   == <<tmPump, tmSent>>
tmVars == <<tmFd, tmPhase, tmNum, tmStop, tmLoop, tmShells, tmOutput, tmReaders, tmPumps>>

TmFree == [s |-> "none", step |-> "free"]
TmNone == 0

TmInit ==
    /\ tmFd = [n \in TmFds |-> "free"]
    /\ tmPhase = [s \in TmSessions |-> "new"] /\ tmNum = [s \in TmSessions |-> TmNone]
    /\ tmShell = [s \in TmSessions |-> FALSE] /\ tmJob = [s \in TmSessions |-> FALSE]
    /\ tmOut = [s \in TmSessions |-> 0] /\ tmMade = [s \in TmSessions |-> 0]
    /\ tmReader = [s \in TmSessions |-> "none"] /\ tmStop = [s \in TmSessions |-> FALSE]
    /\ tmQueue = [s \in TmSessions |-> <<>>] /\ tmPump = [s \in TmSessions |-> "none"]
    /\ tmSent = [s \in TmSessions |-> <<>>]
    /\ tmLoop = TmFree

TmPut(f, s, v) == [f EXCEPT ![s] = v]
TmLowest(n) == tmFd[n] = "free" /\ \A m \in TmFds : m < n => tmFd[m] # "free"

-----------------------------------------------------------------------------
(* The handler, the shell and the rest of the panel *)

\* terminal_ws up to its loop; a shell that cannot start leaves nothing.
OpenTerminal(s) ==
    /\ tmLoop = TmFree /\ tmPhase[s] = "new"
    /\ \E n \in TmFds :
          /\ TmLowest(n)
          /\ tmFd' = TmPut(tmFd, n, s) /\ tmNum' = TmPut(tmNum, s, n)
    /\ tmPhase' = TmPut(tmPhase, s, "open")
    /\ tmShell' = TmPut(tmShell, s, TRUE)
    /\ tmReader' = TmPut(tmReader, s, "check") /\ tmPump' = TmPut(tmPump, s, "runs")
    /\ UNCHANGED <<tmJob, tmOutput, tmStop, tmQueue, tmSent, tmLoop>>

ShellWrites(s) ==
    /\ tmShell[s] \/ tmJob[s]
    /\ tmFd[tmNum[s]] = s /\ tmMade[s] < TmMaxOut
    /\ tmOut' = TmPut(tmOut, s, tmOut[s] + 1) /\ tmMade' = TmPut(tmMade, s, tmMade[s] + 1)
    /\ UNCHANGED <<tmFd, tmPhase, tmNum, tmStop, tmLoop, tmShells, tmReaders, tmPumps>>

TmProcesses(s, shell, job) ==
    /\ tmShell' = TmPut(tmShell, s, shell) /\ tmJob' = TmPut(tmJob, s, job)
    /\ UNCHANGED <<tmFd, tmPhase, tmNum, tmStop, tmOutput, tmReaders, tmPumps>>

ShellForks(s) == tmShell[s] /\ ~tmJob[s] /\ TmProcesses(s, TRUE, TRUE) /\ UNCHANGED tmLoop
ProcessExits(s) ==
    /\ \E shell \in {FALSE, tmShell[s]}, job \in {FALSE, tmJob[s]} :
          (shell # tmShell[s]) # (job # tmJob[s]) /\ TmProcesses(s, shell, job)
    /\ UNCHANGED tmLoop

\* Any other thread of the panel opens and closes files and pipes.
OtherFiles ==
    /\ \E n \in TmFds :
          \/ TmLowest(n) /\ tmFd' = TmPut(tmFd, n, "file")
          \/ tmFd[n] = "file" /\ tmFd' = TmPut(tmFd, n, "free")
    /\ UNCHANGED <<tmPhase, tmNum, tmStop, tmLoop, tmShells, tmOutput, tmReaders, tmPumps>>

-----------------------------------------------------------------------------
(* The reader thread *)

TmReads(s, step, item) ==
    /\ tmReader' = TmPut(tmReader, s, step)
    /\ tmQueue' = TmPut(tmQueue, s, tmQueue[s] \o item)
    /\ UNCHANGED <<tmFd, tmPhase, tmNum, tmStop, tmLoop, tmShells, tmMade, tmPumps>>

\* Faulty variant: the thread ends with the shell.
CheckStopOrShell(s) ==
    /\ tmReader[s] = "check"
    /\ IF tmStop[s] \/ ~tmShell[s] THEN TmReads(s, "gone", <<"end">>) ELSE TmReads(s, "select", <<>>)
    /\ UNCHANGED tmOut

CheckStop(s) ==
    /\ tmReader[s] = "check"
    /\ IF tmStop[s] THEN TmReads(s, "gone", <<"end">>) ELSE TmReads(s, "select", <<>>)
    /\ UNCHANGED tmOut

\* select, of a fifth of a second: on its own pty it tells the truth; once
\* that is closed it may wait on the old pty, on another file, or raise.
SelectReturns(s) ==
    /\ tmReader[s] = "select"
    /\ \/ /\ tmFd[tmNum[s]] = s => tmOut[s] > 0 \/ ~(tmShell[s] \/ tmJob[s])
          /\ TmReads(s, "read", <<>>)
       \/ /\ tmFd[tmNum[s]] = s => tmOut[s] = 0
          /\ TmReads(s, "check", <<>>)
       \/ tmFd[tmNum[s]] # s /\ TmReads(s, "gone", <<"end">>)
    /\ UNCHANGED tmOut

\* os.read by the number, whatever that now is; nothing is the end.  A pipe of
\* another thread's has none of the pty's O_NONBLOCK: the read may wait for it.
ReadPty(s) ==
    /\ tmReader[s] = "read"
    /\ LET f == tmFd[tmNum[s]] IN
       \/ /\ f \in TmSessions /\ tmOut[f] > 0
          /\ TmReads(s, "check", <<f>>) /\ tmOut' = TmPut(tmOut, f, tmOut[f] - 1)
       \/ /\ ~(f \in TmSessions /\ tmOut[f] > 0)
          /\ TmReads(s, "gone", <<"end">>) /\ UNCHANGED tmOut
       \/ /\ f = "file" /\ UNCHANGED tmOut
          /\ TmReads(s, "check", <<f>>) \/ TmReads(s, "blocked", <<>>)

\* What a read has waited for comes, if it ever does; its number may by then be
\* closed, or another terminal's.
BlockedReturns(s) ==
    /\ tmReader[s] = "blocked"
    /\ TmReads(s, "check", <<"file">>) \/ TmReads(s, "gone", <<"end">>)
    /\ UNCHANGED tmOut

-----------------------------------------------------------------------------
(* The event loop *)

\* pump_output: everything in its order, and the sentinel closes the websocket.
PumpOutput(s) ==
    /\ tmLoop = TmFree /\ tmPump[s] = "runs" /\ tmQueue[s] # <<>>
    /\ tmQueue' = TmPut(tmQueue, s, Tail(tmQueue[s]))
    /\ IF Head(tmQueue[s]) = "end"
       THEN tmPump' = TmPut(tmPump, s, "ended") /\ UNCHANGED tmSent
       ELSE tmSent' = TmPut(tmSent, s, Append(tmSent[s], Head(tmQueue[s]))) /\ UNCHANGED tmPump
    /\ UNCHANGED <<tmFd, tmPhase, tmNum, tmStop, tmLoop, tmShells, tmOutput, tmReader>>

\* The client has gone, or been idle: stop_reading.set() and close().
CloseBegins(s) ==
    /\ tmLoop = TmFree /\ tmPhase[s] = "open"
    /\ tmStop' = TmPut(tmStop, s, TRUE)
    /\ tmLoop' = [s |-> s, step |-> IF tmShell[s] THEN "term" ELSE "close"]
    /\ UNCHANGED <<tmFd, tmPhase, tmNum, tmShells, tmOutput, tmReaders, tmPumps>>

TmCloses(s, step) == tmLoop = [s |-> s, step |-> step]

\* SIGTERM to the shell's groups, and its grace; any of them may ignore it.
SendTerm(s) ==
    /\ TmCloses(s, "term")
    /\ \E shell \in {FALSE, tmShell[s]}, job \in {FALSE, tmJob[s]} :
          /\ TmProcesses(s, shell, job)
          /\ tmLoop' = [s |-> s, step |-> IF shell THEN "kill" ELSE "close"]

\* Faulty variant: a shell that ignores SIGTERM is left.
SendNothing(s) ==
    /\ TmCloses(s, "kill")
    /\ TmProcesses(s, tmShell[s], tmJob[s])
    /\ tmLoop' = [s |-> s, step |-> "close"]

\* SIGKILL; a shell that the kernel does not let die in 2 seconds raises out
\* of close(), with the descriptor open and the thread not waited for.
SendKill(s) ==
    /\ TmCloses(s, "kill")
    /\ \/ TmProcesses(s, FALSE, FALSE) /\ tmLoop' = [s |-> s, step |-> "close"]
       \/ TmProcesses(s, tmShell[s], tmJob[s]) /\ tmLoop' = [s |-> s, step |-> "raised"]

\* The pty is gone with what is in it, for a command in the background too.
CloseFd(s) ==
    /\ TmCloses(s, "close")
    /\ tmFd' = TmPut(tmFd, tmNum[s], "free")
    /\ tmJob' = TmPut(tmJob, s, FALSE) /\ tmOut' = TmPut(tmOut, s, 0)
    /\ tmLoop' = [s |-> s, step |-> "join"]
    /\ UNCHANGED <<tmPhase, tmNum, tmStop, tmShell, tmMade, tmReaders, tmPumps>>

\* The handler returns, and what it has queued and sent is forgotten with it.
TmEnded(s, phase) ==
    /\ tmPhase' = TmPut(tmPhase, s, phase)
    /\ tmPump' = TmPut(tmPump, s, "cancelled")
    /\ tmQueue' = TmPut(tmQueue, s, <<>>) /\ tmSent' = TmPut(tmSent, s, <<>>)
    /\ tmLoop' = TmFree
    /\ UNCHANGED <<tmFd, tmNum, tmStop, tmShells, tmOutput, tmReader>>

\* Faulty variant: the thread, a daemon, is left to itself.
JoinNobody(s) == TmCloses(s, "join") /\ TmEnded(s, "closed")

\* reader_thread.join(timeout=2).  It expires on a thread that waits in a read,
\* or that has not run for ten times the length of its select; nothing looks.
JoinReader(s) == TmCloses(s, "join") /\ tmReader[s] = "gone" /\ TmEnded(s, "closed")
JoinExpires(s) ==
    /\ TmCloses(s, "join") /\ tmReader[s] # "gone"
    /\ TmEnded(s, IF tmReader[s] = "blocked" THEN "stuck" ELSE "late")
CloseRaised(s) == TmCloses(s, "raised") /\ TmEnded(s, "raised")

TmNext ==
    \/ OtherFiles
    \/ \E s \in TmSessions :
          \/ OpenTerminal(s) \/ ShellWrites(s) \/ ShellForks(s) \/ ProcessExits(s)
          \/ CheckStop(s) \/ SelectReturns(s) \/ ReadPty(s) \/ BlockedReturns(s) \/ PumpOutput(s)
          \/ CloseBegins(s) \/ SendTerm(s) \/ SendKill(s) \/ CloseFd(s)
          \/ JoinReader(s) \/ JoinExpires(s) \/ CloseRaised(s)

TmSpec == TmInit /\ [][TmNext]_tmVars

-----------------------------------------------------------------------------
TmTypeOK ==
    /\ tmFd \in [TmFds -> TmSessions \cup {"file", "free"}]
    /\ tmPhase \in [TmSessions -> {"new", "open", "closed", "raised", "stuck", "late"}]
    /\ \A s \in TmSessions : tmPhase[s] = "open" /\ tmLoop.s # s => tmFd[tmNum[s]] = s

\* A thread that was still between its calls when its join expired may read by a
\* number that has become another terminal's.
NoneIsLate == \A s \in TmSessions : tmPhase[s] # "late"

\* A thread that reads by a number that has been closed may take bytes of a
\* file another thread has just opened, and one that waits for them may outlive
\* its terminal; but no terminal ever takes or shows another terminal's output,
\* because the loop, which opens them, waits for the thread, unless it waited in
\* vain for one that was between its calls.
TerminalsKeepApart ==
    NoneIsLate =>
        \A s, u \in TmSessions : s # u =>
            \A q \in {tmQueue[s], tmSent[s]} : \A i \in DOMAIN q : q[i] # u

\* A terminal that ends because its shell and all it started have ended has
\* sent all they wrote: "EOF has no such race" (routers/terminal.py 225), unless
\* a late thread of another terminal has taken some of it.
EofShowsAll ==
    NoneIsLate =>
        \A s \in TmSessions :
            tmPump[s] = "ended" /\ ~tmStop[s] => Len(tmSent[s]) = tmMade[s]

\* A terminal whose close() has returned has no shell and no descriptor left,
\* and no thread but one whose join has expired; one whose close() raised may
\* have all three.
ClosedIsReleased ==
    \A s \in TmSessions :
        /\ tmPhase[s] \in {"closed", "stuck", "late"} => ~tmShell[s] /\ \A n \in TmFds : tmFd[n] # s
        /\ tmPhase[s] = "closed" => tmReader[s] = "gone"

\* A terminal shows its own output, all of it, and leaves nothing behind.
TerminalsAreClean == TerminalsKeepApart /\ EofShowsAll /\ ClosedIsReleased
=============================================================================
