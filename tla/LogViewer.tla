------------------------------ MODULE LogViewer ------------------------------
(***************************************************************************)
(* How the log of one job reaches a browser: JobLogBuffer (jobs.py), the   *)
(* page, the event stream and the poll (routers/jobs.py), and the script   *)
(* of the page (static/job-detail.js).                                     *)
(*                                                                         *)
(* The job is reduced to what module JobOutput says of it: it adds lines   *)
(* 1, 2, 3, ... to the buffer and then, with all of them on the row,       *)
(* becomes terminal.  A restart of the panel empties the buffer, and       *)
(* leaves the job failed with a prefix of its lines on the row.            *)
(***************************************************************************)
EXTENDS Naturals, Sequences, FiniteSets

CONSTANTS
    MaxLines,     \* bound: lines the job logs
    Capacity,     \* MAX_BUFFERED_LINES (2000)
    MaxPolls,     \* bound: polls of a page on their way at once
    MaxBreaks,    \* bound: times the stream is cut or times out
    MaxRestarts   \* bound: restarts of the panel during the job

ASSUME LogViewerAssumption ==
    /\ MaxLines \in Nat /\ MaxPolls \in Nat
    /\ MaxBreaks \in Nat /\ MaxRestarts \in Nat
    /\ Capacity \in Nat \ {0}

VARIABLES
    logged,      \* lines the job has logged
    buffer,      \* JobLogBuffer: the deque of this job
    row,         \* the row: [terminal, log]
    gen,         \* the generator events(): [step, cursor]
    sent,        \* what the stream has sent and the browser not yet read
    polls,       \* answers to polls on their way: lines, log, next, terminal
    page,        \* see Pages
    shown,       \* the lines on the screen
    nextOffset,  \* nextOffset of the script
    setting,     \* what differs from one browser to another, and stays
                 \* [stream: EventSource reaches the panel, poll: the timer
                 \* fires during the job, early: opened before the first line]
    breaks,      \* times the stream was cut or timed out
    restarts     \* times the panel restarted

server  == <<logged, buffer, row>>
stream  == <<gen, sent>>
browser == <<page, shown, nextOffset>>
bounds  == <<breaks, restarts, setting>>
vars    == <<server, stream, polls, browser, bounds>>

Pages == {"closed",   \* not loaded yet
          "live",     \* loaded while the job was not terminal
          "ended",    \* markFinished: the reload is due in half a second
          "static"}   \* loaded when the job was terminal

Upto(n) == [i \in 1..n |-> i]

\* events(): about to read the buffer, to read the row, to drain; or gone.
Steps     == {"read", "status", "drain", "off"}
NoStream  == [step |-> "off", cursor |-> 0]
NewStream == IF setting.stream THEN [step |-> "read", cursor |-> 0] ELSE NoStream

Done    == <<0>>                  \* the done event; no line is numbered 0
Data(s) == IF s = <<>> THEN <<>> ELSE <<s>>    \* no event without lines

Settings == {s \in [stream : BOOLEAN, poll : BOOLEAN, early : BOOLEAN] :
                s.stream \/ s.poll}

Init ==
    /\ setting \in Settings
    /\ logged = 0
    /\ buffer = <<>>
    /\ row = [terminal |-> FALSE, log |-> <<>>]
    /\ gen = NoStream
    /\ sent = <<>>
    /\ polls = {}
    /\ page = "closed"
    /\ shown = <<>>
    /\ nextOffset = 0
    /\ breaks = 0
    /\ restarts = 0

-----------------------------------------------------------------------------
(* The job *)

\* Faulty variant: the deque has no maxlen.
AppendUnbounded ==
    /\ ~row.terminal
    /\ logged < MaxLines
    /\ logged' = logged + 1
    /\ buffer' = Append(buffer, logged')
    /\ UNCHANGED <<row, stream, polls, browser, bounds>>

\* JobLogBuffer.append: a deque with maxlen drops its oldest element.
AppendLine ==
    /\ ~row.terminal
    /\ logged < MaxLines
    /\ logged' = logged + 1
    /\ buffer' = IF Len(buffer) = Capacity
                 THEN Append(Tail(buffer), logged')
                 ELSE Append(buffer, logged')
    /\ UNCHANGED <<row, stream, polls, browser, bounds>>

\* _finish.  Nothing discards the buffer of a job that ended.
Finish ==
    /\ ~row.terminal
    /\ row' = [terminal |-> TRUE, log |-> Upto(logged)]
    /\ UNCHANGED <<logged, buffer, stream, polls, browser, bounds>>

\* The process ends and lifespan fails the job; what was flushed remains.  The
\* connections are gone, and the browser's EventSource connects again.
Restart ==
    /\ ~row.terminal
    /\ restarts < MaxRestarts
    /\ restarts' = restarts + 1
    /\ buffer' = <<>>
    /\ \E n \in 0..logged : row' = [terminal |-> TRUE, log |-> Upto(n)]
    /\ IF gen = NoStream THEN UNCHANGED stream
       ELSE gen' = NewStream /\ sent' = <<>>
    /\ polls' = {}
    /\ UNCHANGED <<logged, browser, breaks, setting>>

\* Faulty variant: the element at the offset itself is left out.
SinceExclusive(offset) == SubSeq(buffer, offset + 2, Len(buffer))

\* JobLogBuffer.since: lines[offset:], nothing from the end on.
Since(offset) == SubSeq(buffer, offset + 1, Len(buffer))

-----------------------------------------------------------------------------
(* The page: job_detail renders it, then the script starts.  A job that is  *)
(* not terminal is shown with what the buffer holds, and followed.          *)

\* Faulty variant: the script does not count the lines already on the page.
LoadUncounted ==
    /\ (page = "closed" /\ setting.early) => (logged = 0 /\ ~row.terminal)
    /\ shown' = IF row.terminal THEN row.log ELSE Since(0)
    /\ nextOffset' = 0
    /\ page' = IF row.terminal THEN "static" ELSE "live"
    /\ gen' = IF row.terminal THEN NoStream ELSE NewStream
    /\ sent' = <<>>
    /\ polls' = {}
    /\ UNCHANGED <<server, bounds>>

Load ==
    /\ (page = "closed" /\ setting.early) => (logged = 0 /\ ~row.terminal)
    /\ shown' = IF row.terminal THEN row.log ELSE Since(0)
    /\ nextOffset' = Len(shown')
    /\ page' = IF row.terminal THEN "static" ELSE "live"
    /\ gen' = IF row.terminal THEN NoStream ELSE NewStream
    /\ sent' = <<>>
    /\ polls' = {}
    /\ UNCHANGED <<server, bounds>>

Open == page = "closed" /\ Load

\* finish(): the page of a job that failed, and of one without return_to,
\* loads itself again.
Reload == page = "ended" /\ Load

-----------------------------------------------------------------------------
(* The stream: each step of events() is one read *)

\* log_buffer.since(job_id, cursor), and the data event.
StreamRead ==
    /\ gen.step = "read"
    /\ LET lines == Since(gen.cursor) IN
       /\ sent' = sent \o Data(lines)
       /\ gen' = [step |-> "status", cursor |-> gen.cursor + Len(lines)]
    /\ UNCHANGED <<server, polls, browser, bounds>>

\* _job_status(job_id), on a session of its own; then the generator sleeps
\* or has only to drain the buffer.
StreamStatus ==
    /\ gen.step = "status"
    /\ gen' = [gen EXCEPT !.step = IF row.terminal THEN "drain" ELSE "read"]
    /\ UNCHANGED <<server, sent, polls, browser, bounds>>

\* Faulty variant: done is sent without another look at the buffer.
StreamEndsAtOnce ==
    /\ gen.step = "drain"
    /\ sent' = sent \o <<Done>>
    /\ gen' = NoStream
    /\ UNCHANGED <<server, polls, browser, bounds>>

\* Faulty variant: the generator returns without a done event.
StreamJustReturns ==
    /\ gen.step = "drain"
    /\ sent' = sent \o Data(Since(gen.cursor))
    /\ gen' = NewStream
    /\ UNCHANGED <<server, polls, browser, bounds>>

\* The remaining lines, and the done event.
StreamDrain ==
    /\ gen.step = "drain"
    /\ sent' = sent \o Data(Since(gen.cursor)) \o <<Done>>
    /\ gen' = NoStream
    /\ UNCHANGED <<server, polls, browser, bounds>>

\* The connection breaks and the browser connects again, from cursor 0.
StreamBreaks ==
    /\ gen # NoStream
    /\ breaks < MaxBreaks
    /\ breaks' = breaks + 1
    /\ gen' = NewStream
    /\ sent' = <<>>
    /\ UNCHANGED <<server, polls, browser, restarts, setting>>

\* STREAM_TIMEOUT has passed: a done event, with no further read.
StreamTimesOut ==
    /\ gen.step = "read"
    /\ breaks < MaxBreaks
    /\ breaks' = breaks + 1
    /\ sent' = sent \o <<Done>>
    /\ gen' = NoStream
    /\ UNCHANGED <<server, polls, browser, restarts, setting>>

\* onmessage, and the done listener: markFinished, close.
BrowserReads ==
    /\ sent # <<>>
    /\ IF Head(sent) = Done
       THEN /\ page' = "ended"
            /\ UNCHANGED <<shown, nextOffset>>
       ELSE /\ shown' = shown \o Head(sent)
            /\ nextOffset' = nextOffset + Len(Head(sent))
            /\ UNCHANGED page
    /\ sent' = Tail(sent)
    /\ UNCHANGED <<server, gen, polls, bounds>>

-----------------------------------------------------------------------------
(* The poll, every 2.5 s whatever became of the one before *)

\* job_poll reads the row, then the buffer.  Between the two the job can only
\* become terminal, so the answer is the status of then and the lines of now.
PollAnswered ==
    /\ page = "live" /\ setting.poll
    /\ Cardinality(polls) < MaxPolls
    /\ LET lines == Since(nextOffset) IN
       \E terminal \in {FALSE, row.terminal} :
         polls' = polls \cup
           {[lines |-> lines, next |-> nextOffset + Len(lines),
             log |-> IF terminal /\ lines = <<>> THEN row.log ELSE <<>>,
             terminal |-> terminal]}
    /\ UNCHANGED <<server, stream, browser, bounds>>

\* The rest of the callback, after its awaits: it does not ask again whether
\* the page has ended.
PollArrives ==
    \E a \in polls :
      /\ polls' = polls \ {a}
      /\ IF a.lines # <<>>
         THEN shown' = shown \o a.lines /\ nextOffset' = a.next
         ELSE IF a.terminal /\ a.log # <<>> /\ shown = <<>>
         THEN shown' = a.log /\ nextOffset' = Len(a.log)
         ELSE UNCHANGED <<shown, nextOffset>>
      /\ IF a.terminal
         THEN page' = "ended" /\ gen' = NoStream /\ sent' = <<>>
         ELSE UNCHANGED <<page, stream>>
      /\ UNCHANGED <<server, bounds>>

-----------------------------------------------------------------------------
Job    == AppendLine \/ Finish \/ Restart
Stream == StreamRead \/ StreamStatus \/ StreamDrain
Cuts   == StreamBreaks \/ StreamTimesOut
Page   == Open \/ Reload \/ BrowserReads \/ PollAnswered \/ PollArrives

Next == Job \/ Stream \/ Cuts \/ Page

Spec == Init /\ [][Next]_vars

\* The event loop runs the generator and the browser runs its callbacks; that
\* a user opens the page, that the job goes on, is nobody's obligation.
Fairness ==
    /\ WF_vars(Stream)
    /\ WF_vars(Reload) /\ WF_vars(BrowserReads) /\ WF_vars(PollArrives)

FairSpec == Spec /\ Fairness

-----------------------------------------------------------------------------
(* Properties *)

Lines == UNION {[1..n -> 1..MaxLines] : n \in 0..MaxLines}

\* Types: the buffer never exceeds MAX_BUFFERED_LINES, a row's log is what was
\* logged up to some line, a cursor never passes the end of the buffer unless
\* the panel restarted, and a closed or static page has no stream, no poll.
TypeOK ==
    /\ logged \in 0..MaxLines
    /\ buffer \in Lines /\ Len(buffer) <= Capacity
    /\ row.terminal \in BOOLEAN
    /\ \E n \in 0..logged : row.log = Upto(n)
    /\ gen.step \in Steps
    /\ gen.cursor <= Len(buffer)
    /\ page \in Pages
    /\ page \in {"closed", "static"} => gen = NoStream /\ sent = <<>> /\ polls = {}
    /\ Cardinality(polls) <= MaxPolls
    /\ nextOffset \in Nat
    /\ setting \in Settings
    /\ breaks \in 0..MaxBreaks /\ restarts \in 0..MaxRestarts

\* Nothing was cut or restarted, and the buffer still holds every line.
Undisturbed == breaks = 0 /\ restarts = 0 /\ logged <= Capacity

\* The page was fed by one channel: by the stream from the first line, or by
\* polls of which one at a time is on its way.
OneChannel == \/ setting.stream /\ setting.early /\ ~setting.poll
              \/ setting.poll /\ ~setting.stream /\ MaxPolls <= 1

\* With one channel the screen shows no line twice and none out of its turn:
\* what the page was rendered with, the lines of the events and of the answers
\* fit together (routers/jobs.py 56-61, 136-164, 107-122; job-detail.js).
ShownInOrder ==
    Undisturbed /\ OneChannel =>
        \A i, k \in DOMAIN shown : i < k => shown[i] < shown[k]

\* A client that follows the log is handed every line added after its offset
\* (jobs.py 63-67): as soon as a line is appended, since() has something to
\* return for the cursor of the generator.
FollowerSeesNewLine ==
    [][logged' # logged /\ logged' <= Capacity /\ gen # NoStream =>
            Since(gen.cursor)' # <<>>]_vars

\* When the script has ended a page, before it loads it again, the screen shows
\* every line the job logged: the generator drains the buffer after it saw the
\* job terminal, and a poll reads the row before the buffer.
EndedShowsAll ==
    Undisturbed /\ OneChannel /\ page = "ended" => shown = Upto(logged)

\* On the way to its end and when it has ended, the page shows the log.
PageIsTheLog == ShownInOrder /\ EndedShowsAll

\* An open page the stream reaches comes to show what is on the row of a job
\* that is over, whatever was cut, timed out, restarted, dropped or shown twice
\* in between (routers/jobs.py 157-170, job-detail.js 128-163).
LogFinallyShown ==
    (row.terminal /\ page # "closed" /\ setting.stream)
        ~> (page = "static" /\ shown = row.log)
==============================================================================
