--------------------------- MODULE JobQueueProofs ---------------------------
(***************************************************************************)
(* Proofs about JobQueue, for any set of jobs and any bounds: the          *)
(* inductive invariant, the safety properties it implies, and the          *)
(* refinement of JobLifecycle.                                             *)
(***************************************************************************)
EXTENDS JobQueue, SequenceTheorems, TLAPS

(***************************************************************************)
(* Sequences: what the two ways the queue changes do to its elements.      *)
(***************************************************************************)

\* Append leaves the old elements where they are and adds one at the end.
LEMMA AppendElements ==
    ASSUME NEW S, NEW s \in Seq(S), NEW e \in S
    PROVE  /\ Append(s, e) \in Seq(S)
           /\ Len(Append(s, e)) = Len(s) + 1
           /\ \A p \in 1..Len(s) : Append(s, e)[p] = s[p]
           /\ Append(s, e)[Len(s) + 1] = e
  OBVIOUS

\* Tail moves every element but the first one place forward.
LEMMA TailElements ==
    ASSUME NEW S, NEW s \in Seq(S), s # <<>>
    PROVE  /\ Tail(s) \in Seq(S)
           /\ Len(Tail(s)) = Len(s) - 1
           /\ Len(s) \in Nat \ {0}
           /\ Head(s) = s[1]
           /\ Head(s) \in S
           /\ \A p \in 1..Len(Tail(s)) : Tail(s)[p] = s[p + 1] /\ p + 1 \in 1..Len(s)
  OBVIOUS

(***************************************************************************)
(* The inductive invariant, one lemma per conjunct                         *)
(***************************************************************************)

\* The initial state satisfies the inductive invariant.
LEMMA InitIInv == Init => IInv
<1> SUFFICES ASSUME Init PROVE IInv
  OBVIOUS
<1> USE JobQueueAssumption DEF JobQueueAssumption, Init
<1>1. TypeOK
  <2>1. queue \in Seq(Jobs \cup {Sentinel})
    OBVIOUS
  <2>2. restarts \in 0..MaxRestarts /\ faults \in 0..MaxFaults
    OBVIOUS
  <2>3. status \in [Jobs -> Statuses] /\ runs \in [Jobs -> Nat] /\ ahead \in [Jobs -> SUBSET Jobs]
    BY DEF Statuses
  <2> QED
    BY <2>1, <2>2, <2>3 DEF TypeOK, Panels, WorkerSteps, Terminal
<1>2. InvProcess /\ InvWorker /\ InvQueue /\ InvRuns /\ InvAhead
  BY DEF InvProcess, InvWorker, InvQueue, InvRuns, InvAhead
<1>3. RunningIsOwned /\ SuccessMeansReturned /\ NoOvertaking
  BY DEF RunningIsOwned, SuccessMeansReturned, NoOvertaking
<1> QED
  BY <1>1, <1>2, <1>3 DEF IInv

\* Every step preserves the types.  RunsAtMostOnce is not needed: runs[j] is
\* only known to be a natural number here.
LEMMA TypeStep == TypeOK /\ InvProcess /\ InvWorker /\ [Next]_vars => TypeOK'
<1> SUFFICES ASSUME TypeOK, InvProcess, InvWorker, [Next]_vars PROVE TypeOK'
  OBVIOUS
<1> USE JobQueueAssumption
    DEF JobQueueAssumption, TypeOK, rows, process, bounds, history
<1>1. CASE Recover
  BY <1>1 DEF Recover, Statuses, Panels, Terminal
<1>2. CASE StartWorker
  BY <1>2 DEF StartWorker, Panels, WorkerSteps
<1>3. CASE StopSet
  BY <1>3 DEF StopSet, Panels
<1>4. CASE StopPut
  <2>1. queue' \in Seq(Jobs \cup {Sentinel})
    BY <1>4 DEF StopPut
  <2> QED
    BY <1>4, <2>1 DEF StopPut, Panels
<1>5. CASE Exit \/ Crash
  <2>1. restarts < MaxRestarts /\ Vanish
    BY <1>5 DEF Exit, Crash, InvProcess
  <2>2. queue' \in Seq(Jobs \cup {Sentinel})
    BY <2>1 DEF Vanish
  <2>3. restarts' \in 0..MaxRestarts
    BY <2>1 DEF Vanish
  <2>4. UNCHANGED <<status, faults, runs, returned, unreported, ahead>>
    BY <2>1 DEF Vanish
  <2> QED
    BY <2>1, <2>2, <2>3, <2>4 DEF Vanish, Panels, WorkerSteps
<1>6. ASSUME NEW j \in Jobs, CommitRow(j) PROVE TypeOK'
  <2>1. Enqueued \subseteq Jobs /\ Held \subseteq Jobs
    BY DEF Enqueued, Held
  <2>2. ahead' \in [Jobs -> SUBSET Jobs]
    BY <1>6, <2>1 DEF CommitRow
  <2> QED
    BY <1>6, <2>2 DEF CommitRow, Statuses
<1>7. ASSUME NEW j \in Jobs, Submit(j) PROVE TypeOK'
  <2>1. queue' \in Seq(Jobs \cup {Sentinel})
    BY <1>7, AppendElements DEF Submit
  <2> QED
    BY <1>7, <2>1 DEF Submit
<1>8. CASE TestStop
  BY <1>8 DEF TestStop, WorkerSteps
<1>9. CASE Get
  <2>1. queue' \in Seq(Jobs \cup {Sentinel}) /\ current' \in Jobs \cup {Sentinel}
    BY <1>9, TailElements DEF Get
  <2> QED
    BY <1>9, <2>1 DEF Get, WorkerSteps
<1>10. CASE Claim
  <2>1. status' \in [Jobs -> Statuses]
    BY <1>10 DEF Claim, Statuses
  <2>2. runs' \in [Jobs -> Nat]
    BY <1>10 DEF Claim, InvWorker
  <2> QED
    BY <1>10, <2>1, <2>2 DEF Claim, WorkerSteps
<1>11. CASE HandlerReturns
  BY <1>11 DEF HandlerReturns, WorkerSteps, Terminal, InvWorker
<1>12. CASE HandlerRaises
  BY <1>12 DEF HandlerRaises, WorkerSteps, Terminal
<1>13. CASE Finish
  BY <1>13 DEF Finish, WorkerSteps, Statuses, Terminal, InvWorker
<1>14. CASE WriteRaises
  BY <1>14 DEF WriteRaises, WorkerSteps, InvWorker
<1>15. CASE UNCHANGED vars
  BY <1>15 DEF vars
<1> QED
  BY <1>1, <1>2, <1>3, <1>4, <1>5, <1>6, <1>7, <1>8, <1>9, <1>10, <1>11,
     <1>12, <1>13, <1>14, <1>15
  DEF Next, Lifespan, Enqueue, Worker, Handler

\* A process that is not serving has nothing in memory.
LEMMA ProcessStep == IInv /\ [Next]_vars => InvProcess'
<1> SUFFICES ASSUME IInv, [Next]_vars PROVE InvProcess'
  OBVIOUS
<1> USE DEF InvProcess, IInv, TypeOK, rows, process, bounds, history
<1>1. CASE Lifespan
  BY <1>1 DEF Lifespan, Recover, StartWorker, StopSet, StopPut, Exit, Crash, Vanish
<1>2. CASE Enqueue
  BY <1>2 DEF Enqueue, CommitRow, Submit, Serving
<1>3. CASE Worker
  BY <1>3 DEF Worker, TestStop, Get, Claim, Handler, HandlerReturns, HandlerRaises, Finish
<1>4. CASE WriteRaises
  BY <1>4 DEF WriteRaises
<1>5. CASE UNCHANGED vars
  BY <1>5 DEF vars
<1> QED
  BY <1>1, <1>2, <1>3, <1>4, <1>5 DEF Next

\* The row of the job the worker holds changes only by the worker itself.
LEMMA WorkerStep == IInv /\ [Next]_vars => InvWorker'
<1> SUFFICES ASSUME IInv, [Next]_vars PROVE InvWorker'
  OBVIOUS
<1> USE JobQueueAssumption
    DEF JobQueueAssumption, InvWorker, IInv, TypeOK, rows, process, bounds, history
<1>1. CASE Recover
  BY <1>1 DEF Recover, InvProcess
<1>2. CASE StartWorker
  BY <1>2 DEF StartWorker, InvProcess
<1>3. CASE StopSet \/ StopPut
  BY <1>3 DEF StopSet, StopPut
<1>4. CASE Exit \/ Crash
  BY <1>4 DEF Exit, Crash, Vanish
<1>5. ASSUME NEW j \in Jobs, CommitRow(j) PROVE InvWorker'
  BY <1>5 DEF CommitRow
<1>6. ASSUME NEW j \in Jobs, Submit(j) PROVE InvWorker'
  BY <1>6 DEF Submit
<1>7. CASE TestStop
  BY <1>7 DEF TestStop
<1>8. CASE Get
  <2>1. Head(queue) = queue[1] /\ 1 \in 1..Len(queue) /\ Head(queue) \in Jobs \cup {Sentinel}
    BY <1>8, TailElements DEF Get
  <2> QED
    BY <1>8, <2>1 DEF Get, InvQueue
<1>9. CASE Claim
  BY <1>9 DEF Claim
<1>10. CASE Handler
  BY <1>10 DEF Handler, HandlerReturns, HandlerRaises, Terminal
<1>11. CASE Finish
  BY <1>11 DEF Finish
<1>12. CASE WriteRaises
  BY <1>12 DEF WriteRaises
<1>13. CASE UNCHANGED vars
  BY <1>13 DEF vars
<1> QED
  BY <1>1, <1>2, <1>3, <1>4, <1>5, <1>6, <1>7, <1>8, <1>9, <1>10, <1>11, <1>12, <1>13
  DEF Next, Lifespan, Enqueue, Worker

\* The counter of a job moves together with its row.
LEMMA RunsStep == IInv /\ [Next]_vars => InvRuns'
<1> SUFFICES ASSUME IInv, [Next]_vars PROVE InvRuns'
  OBVIOUS
<1> USE DEF InvRuns, IInv, TypeOK, rows, process, bounds, history
<1>1. CASE Recover
  BY <1>1 DEF Recover
<1>2. CASE StartWorker \/ StopSet \/ StopPut \/ Exit \/ Crash
  BY <1>2 DEF StartWorker, StopSet, StopPut, Exit, Crash, Vanish
<1>3. ASSUME NEW j \in Jobs, CommitRow(j) PROVE InvRuns'
  BY <1>3 DEF CommitRow
<1>4. ASSUME NEW j \in Jobs, Submit(j) PROVE InvRuns'
  BY <1>4 DEF Submit
<1>5. CASE TestStop \/ Get \/ Handler
  BY <1>5 DEF TestStop, Get, Handler, HandlerReturns, HandlerRaises
<1>6. CASE Claim
  <2>1. current \in Jobs /\ runs[current] = 0
    BY <1>6 DEF Claim, InvWorker
  <2> QED
    BY <1>6, <2>1 DEF Claim
<1>7. CASE Finish
  <2>1. current \in Jobs /\ runs[current] = 1 /\ outcome \in Terminal
    BY <1>7 DEF Finish, InvWorker
  <2> QED
    BY <1>7, <2>1 DEF Finish, Terminal
<1>8. CASE WriteRaises
  BY <1>8 DEF WriteRaises
<1>9. CASE UNCHANGED vars
  BY <1>9 DEF vars
<1> QED
  BY <1>1, <1>2, <1>3, <1>4, <1>5, <1>6, <1>7, <1>8, <1>9
  DEF Next, Lifespan, Enqueue, Worker

\* Enqueued, spelled out by positions.
LEMMA EnqueuedPositions ==
    \A j \in Jobs : j \in Enqueued => \E p \in 1..Len(queue) : queue[p] = j
  BY DEF Enqueued

\* A job never gets into two places: the queue only takes what was handed
\* over, and the worker only what was queued.
LEMMA QueueStep == IInv /\ [Next]_vars => InvQueue'
<1> SUFFICES ASSUME IInv, [Next]_vars PROVE InvQueue'
  OBVIOUS
<1> USE JobQueueAssumption
    DEF JobQueueAssumption, InvQueue, IInv, TypeOK, rows, process, bounds, history
<1>1. CASE Recover
  BY <1>1 DEF Recover, InvProcess
<1>2. CASE StartWorker \/ StopSet
  BY <1>2 DEF StartWorker, StopSet
<1>3. CASE StopPut
  <2>1. /\ Len(queue') = Len(queue) + 1
        /\ \A p \in 1..Len(queue) : queue'[p] = queue[p]
        /\ queue'[Len(queue) + 1] = Sentinel
    BY <1>3, AppendElements DEF StopPut
  <2> QED
    BY <1>3, <2>1 DEF StopPut
<1>4. CASE Exit \/ Crash
  BY <1>4 DEF Exit, Crash, Vanish
<1>5. ASSUME NEW j \in Jobs, CommitRow(j) PROVE InvQueue'
  <2>1. status[j] = "none" /\ j # current
    BY <1>5 DEF CommitRow, InvWorker
  <2>2. \A p \in 1..Len(queue) : queue[p] # j
    BY <2>1
  <2> QED
    BY <1>5, <2>1, <2>2 DEF CommitRow
<1>6. ASSUME NEW j \in Jobs, Submit(j) PROVE InvQueue'
  <2>1. /\ Len(queue') = Len(queue) + 1
        /\ \A p \in 1..Len(queue) : queue'[p] = queue[p]
        /\ queue'[Len(queue) + 1] = j
    BY <1>6, AppendElements DEF Submit
  <2>2. j \in handing /\ j # current /\ status[j] = "pending"
    BY <1>6 DEF Submit
  <2>3. \A p \in 1..Len(queue) : queue[p] # j
    BY <2>2
  <2> QED
    BY <1>6, <2>1, <2>2, <2>3 DEF Submit
<1>7. CASE TestStop \/ Handler
  BY <1>7 DEF TestStop, Handler, HandlerReturns, HandlerRaises
<1>8. CASE Get
  <2>1. /\ Len(queue) \in Nat \ {0}
        /\ Head(queue) = queue[1]
        /\ Len(queue') = Len(queue) - 1
        /\ \A p \in 1..Len(queue') : queue'[p] = queue[p + 1] /\ p + 1 \in 1..Len(queue)
    BY <1>8, TailElements DEF Get
  <2>2. \A p \in 1..Len(queue') : queue'[p] \in Jobs => queue'[p] # queue[1]
    <3>1. 1 \in 1..Len(queue)
      BY <2>1
    <3>2. \A p \in 1..Len(queue') : p + 1 # 1
      OBVIOUS
    <3> QED
      BY <2>1, <3>1, <3>2
  <2>3. \A j \in handing : j # queue[1]
    BY <2>1
  <2>4. UNCHANGED <<status, handing>> /\ current' = queue[1]
    BY <1>8, <2>1 DEF Get
  <2>5. \A p, q \in 1..Len(queue') :
            queue'[p] = queue'[q] /\ queue'[p] \in Jobs => p = q
    <3> SUFFICES ASSUME NEW p \in 1..Len(queue'), NEW q \in 1..Len(queue'),
                        queue'[p] = queue'[q], queue'[p] \in Jobs
                 PROVE  p = q
      OBVIOUS
    <3>1. p + 1 = q + 1
      BY <2>1
    <3> QED
      BY <3>1
  <2>6. \A p \in 1..Len(queue') : queue'[p] \in Jobs =>
            /\ status'[queue'[p]] = "pending"
            /\ queue'[p] \notin handing'
            /\ queue'[p] # current'
    <3> SUFFICES ASSUME NEW p \in 1..Len(queue'), queue'[p] \in Jobs
                 PROVE  /\ status'[queue'[p]] = "pending"
                        /\ queue'[p] \notin handing'
                        /\ queue'[p] # current'
      OBVIOUS
    <3>1. queue'[p] = queue[p + 1] /\ p + 1 \in 1..Len(queue)
      BY <2>1
    <3>2. status[queue[p + 1]] = "pending" /\ queue[p + 1] \notin handing
      BY <3>1
    <3> QED
      BY <3>1, <3>2, <2>2, <2>4
  <2>7. \A j \in handing' : status'[j] = "pending" /\ j # current'
    BY <2>3, <2>4
  <2> QED
    BY <2>5, <2>6, <2>7
<1>9. CASE Claim
  <2>1. current \in Jobs
    BY <1>9 DEF Claim, InvWorker
  <2> QED
    BY <1>9, <2>1 DEF Claim
<1>10. CASE Finish
  <2>1. current \in Jobs /\ status[current] = "running"
    BY <1>10 DEF Finish, InvWorker
  <2> QED
    BY <1>10, <2>1 DEF Finish
<1>11. CASE WriteRaises
  BY <1>11 DEF WriteRaises
<1>12. CASE UNCHANGED vars
  BY <1>12 DEF vars
<1> QED
  BY <1>1, <1>2, <1>3, <1>4, <1>5, <1>6, <1>7, <1>8, <1>9, <1>10, <1>11, <1>12
  DEF Next, Lifespan, Enqueue, Worker

\* Steps after which a RUNNING row has still an owner.
LEMMA OwnedStep == IInv /\ [Next]_vars => RunningIsOwned'
<1> SUFFICES ASSUME IInv, [Next]_vars PROVE RunningIsOwned'
  OBVIOUS
<1> USE JobQueueAssumption
    DEF JobQueueAssumption, RunningIsOwned, IInv, TypeOK, rows, process, bounds, history
<1>1. CASE Recover
  BY <1>1 DEF Recover
<1>2. CASE StartWorker
  BY <1>2 DEF StartWorker, InvProcess
<1>3. CASE StopSet \/ StopPut
  BY <1>3 DEF StopSet, StopPut
<1>4. CASE Exit \/ Crash
  BY <1>4 DEF Exit, Crash, Vanish
<1>5. ASSUME NEW j \in Jobs, CommitRow(j) PROVE RunningIsOwned'
  BY <1>5 DEF CommitRow, Serving
<1>6. ASSUME NEW j \in Jobs, Submit(j) PROVE RunningIsOwned'
  BY <1>6 DEF Submit
<1>7. CASE TestStop \/ Get \/ Handler
  BY <1>7 DEF TestStop, Get, Handler, HandlerReturns, HandlerRaises, InvProcess, InvWorker
<1>8. CASE Claim
  BY <1>8 DEF Claim, InvProcess, InvWorker
<1>9. CASE Finish
  BY <1>9 DEF Finish, InvProcess, InvWorker, Terminal
<1>10. CASE WriteRaises
  BY <1>10 DEF WriteRaises, InvProcess, InvWorker
<1>11. CASE UNCHANGED vars
  BY <1>11 DEF vars
<1> QED
  BY <1>1, <1>2, <1>3, <1>4, <1>5, <1>6, <1>7, <1>8, <1>9, <1>10, <1>11
  DEF Next, Lifespan, Enqueue, Worker

\* Only Finish writes SUCCESS, after the handler returned.
LEMMA SuccessStep == IInv /\ [Next]_vars => SuccessMeansReturned'
<1> SUFFICES ASSUME IInv, [Next]_vars PROVE SuccessMeansReturned'
  OBVIOUS
<1> USE DEF SuccessMeansReturned, IInv, TypeOK, rows, process, bounds, history
<1>1. CASE Recover
  BY <1>1 DEF Recover
<1>2. CASE StartWorker \/ StopSet \/ StopPut \/ Exit \/ Crash
  BY <1>2 DEF StartWorker, StopSet, StopPut, Exit, Crash, Vanish
<1>3. CASE Enqueue
  BY <1>3 DEF Enqueue, CommitRow, Submit
<1>4. CASE TestStop \/ Get \/ Claim \/ Handler
  BY <1>4 DEF TestStop, Get, Claim, Handler, HandlerReturns, HandlerRaises
<1>5. CASE Finish
  BY <1>5 DEF Finish, InvWorker
<1>6. CASE WriteRaises
  BY <1>6 DEF WriteRaises
<1>7. CASE UNCHANGED vars
  BY <1>7 DEF vars
<1> QED
  BY <1>1, <1>2, <1>3, <1>4, <1>5, <1>6, <1>7 DEF Next, Lifespan, Worker

\* What was ahead of a job when its row was committed leaves before it.
LEMMA AheadStep == IInv /\ [Next]_vars => InvAhead'
<1> SUFFICES ASSUME IInv, [Next]_vars PROVE InvAhead'
  OBVIOUS
<1> USE JobQueueAssumption
    DEF JobQueueAssumption, InvAhead, IInv, TypeOK, rows, process, bounds, history
<1>1. CASE Recover
  BY <1>1 DEF Recover
<1>2. CASE StartWorker \/ StopSet
  BY <1>2 DEF StartWorker, StopSet
<1>3. CASE StopPut
  <2>1. /\ Len(queue') = Len(queue) + 1
        /\ \A p \in 1..Len(queue) : queue'[p] = queue[p]
        /\ queue'[Len(queue) + 1] = Sentinel
    BY <1>3, AppendElements DEF StopPut
  <2>2. UNCHANGED <<status, handing, ahead>>
    BY <1>3 DEF StopPut
  <2>3. ASSUME NEW k \in Jobs, NEW p \in 1..Len(queue'), NEW q \in 1..Len(queue'),
               queue'[p] = k, queue'[q] \in ahead[k]
        PROVE  q < p
    <3>1. p # Len(queue) + 1 /\ q # Len(queue) + 1
      BY <2>1, <2>3
    <3>2. p \in 1..Len(queue) /\ q \in 1..Len(queue)
      BY <2>1, <3>1
    <3> QED
      BY <2>1, <2>3, <3>2
  <2> QED
    BY <2>2, <2>3
<1>4. CASE Exit \/ Crash
  BY <1>4 DEF Exit, Crash, Vanish
<1>5. ASSUME NEW j \in Jobs, CommitRow(j) PROVE InvAhead'
  <2>1. status[j] = "none" /\ j \notin handing
    BY <1>5 DEF CommitRow, InvQueue
  <2>2. \A p \in 1..Len(queue) : queue[p] # j
    BY <2>1 DEF InvQueue
  <2>3. ahead'[j] = Enqueued \cup Held \cup {k \in Jobs : runs[k] > 0}
    BY <1>5 DEF CommitRow
  <2>4. \A k \in ahead'[j] : k \in Jobs /\ status[k] # "none" /\ k \notin handing
    <3>1. \A k \in Enqueued : k \in Jobs /\ status[k] # "none" /\ k \notin handing
      BY EnqueuedPositions DEF InvQueue, Enqueued
    <3>2. \A k \in Held : k \in Jobs /\ status[k] # "none" /\ k \notin handing
      BY DEF Held, InvWorker, InvQueue
    <3>3. \A k \in {i \in Jobs : runs[i] > 0} :
              k \in Jobs /\ status[k] # "none" /\ k \notin handing
      BY DEF InvRuns, InvQueue
    <3> QED
      BY <2>3, <3>1, <3>2, <3>3
  <2>5. /\ handing' = handing \cup {j}
        /\ UNCHANGED queue
        /\ \A k \in Jobs : k # j => status'[k] = status[k] /\ ahead'[k] = ahead[k]
        /\ status'[j] = "pending"
    BY <1>5 DEF CommitRow
  <2>6. ASSUME NEW k \in Jobs, NEW i \in ahead'[k]
        PROVE  status'[i] # "none" /\ i \notin handing'
    <3>1. i \in Jobs /\ status[i] # "none" /\ i \notin handing
      BY <2>4, <2>5, <2>6
    <3>2. i # j
      BY <3>1, <2>1
    <3> QED
      BY <3>1, <3>2, <2>5
  <2>7. ASSUME NEW k \in Jobs, NEW p \in 1..Len(queue'), NEW q \in 1..Len(queue'),
               queue'[p] = k, queue'[q] \in ahead'[k]
        PROVE  q < p
    <3>1. k # j
      BY <2>2, <2>5, <2>7
    <3> QED
      BY <3>1, <2>5, <2>7
  <2> QED
    BY <2>6, <2>7
<1>6. ASSUME NEW j \in Jobs, Submit(j) PROVE InvAhead'
  <2>1. /\ Len(queue') = Len(queue) + 1
        /\ \A p \in 1..Len(queue) : queue'[p] = queue[p]
        /\ queue'[Len(queue) + 1] = j
    BY <1>6, AppendElements DEF Submit
  <2>2. /\ j \in handing
        /\ handing' = handing \ {j}
        /\ UNCHANGED <<status, ahead>>
    BY <1>6 DEF Submit
  <2>3. ASSUME NEW k \in Jobs, NEW p \in 1..Len(queue'), NEW q \in 1..Len(queue'),
               queue'[p] = k, queue'[q] \in ahead[k]
        PROVE  q < p
    <3>1. queue'[q] # j
      BY <2>2, <2>3
    <3>2. q \in 1..Len(queue) /\ queue[q] \in ahead[k]
      BY <2>1, <2>3, <3>1
    <3>3. CASE p = Len(queue) + 1
      BY <3>2, <3>3
    <3>4. CASE p \in 1..Len(queue)
      BY <2>1, <2>3, <3>2, <3>4
    <3> QED
      BY <2>1, <3>3, <3>4
  <2> QED
    BY <2>2, <2>3
<1>7. CASE TestStop \/ Handler
  BY <1>7 DEF TestStop, Handler, HandlerReturns, HandlerRaises
<1>8. CASE Get
  <2>1. /\ Len(queue') = Len(queue) - 1
        /\ \A p \in 1..Len(queue') : queue'[p] = queue[p + 1] /\ p + 1 \in 1..Len(queue)
    BY <1>8, TailElements DEF Get
  <2>2. UNCHANGED <<status, handing, ahead>>
    BY <1>8 DEF Get
  <2>3. ASSUME NEW k \in Jobs, NEW p \in 1..Len(queue'), NEW q \in 1..Len(queue'),
               queue'[p] = k, queue'[q] \in ahead[k]
        PROVE  q < p
    <3>1. q + 1 < p + 1
      BY <2>1, <2>3
    <3> QED
      BY <3>1
  <2> QED
    BY <2>2, <2>3
<1>9. CASE Claim
  BY <1>9 DEF Claim, InvWorker
<1>10. CASE Finish
  BY <1>10 DEF Finish, InvWorker, Terminal
<1>11. CASE WriteRaises
  BY <1>11 DEF WriteRaises
<1>12. CASE UNCHANGED vars
  BY <1>12 DEF vars
<1> QED
  BY <1>1, <1>2, <1>3, <1>4, <1>5, <1>6, <1>7, <1>8, <1>9, <1>10, <1>11, <1>12
  DEF Next, Lifespan, Enqueue, Worker

\* Get takes the head, and nothing ahead of the head is behind it.
LEMMA OvertakingStep == IInv /\ [Next]_vars => NoOvertaking'
<1> SUFFICES ASSUME IInv, [Next]_vars PROVE NoOvertaking'
  OBVIOUS
<1> USE JobQueueAssumption
    DEF JobQueueAssumption, NoOvertaking, IInv, TypeOK, rows, process, bounds, history
\* Most steps leave the queue, the holder and the history alone.
<1>1. ASSUME UNCHANGED <<queue, current, runs, ahead>> PROVE NoOvertaking'
  BY <1>1 DEF Enqueued
<1>2. CASE Recover \/ StartWorker \/ StopSet
  BY <1>1, <1>2 DEF Recover, StartWorker, StopSet
<1>3. CASE StopPut
  <2>1. /\ Len(queue') = Len(queue) + 1
        /\ \A p \in 1..Len(queue) : queue'[p] = queue[p]
        /\ queue'[Len(queue) + 1] = Sentinel
    BY <1>3, AppendElements DEF StopPut
  <2>2. Enqueued' \subseteq Enqueued
    BY <2>1 DEF Enqueued
  <2>3. UNCHANGED <<current, runs, ahead>>
    BY <1>3 DEF StopPut
  <2> QED
    BY <2>2, <2>3
<1>4. CASE Exit \/ Crash
  <2>1. Enqueued' = {}
    BY <1>4 DEF Exit, Crash, Vanish, Enqueued
  <2> QED
    BY <2>1
<1>5. ASSUME NEW j \in Jobs, CommitRow(j) PROVE NoOvertaking'
  <2>1. status[j] = "none" /\ j # current /\ runs[j] = 0
    BY <1>5 DEF CommitRow, InvWorker, InvRuns
  <2>2. /\ UNCHANGED <<queue, current, runs>>
        /\ \A k \in Jobs : k # j => ahead'[k] = ahead[k]
    BY <1>5 DEF CommitRow
  <2>3. Enqueued' = Enqueued
    BY <2>2 DEF Enqueued
  <2> QED
    BY <2>1, <2>2, <2>3
<1>6. ASSUME NEW j \in Jobs, Submit(j) PROVE NoOvertaking'
  <2>1. /\ Len(queue') = Len(queue) + 1
        /\ \A p \in 1..Len(queue) : queue'[p] = queue[p]
        /\ queue'[Len(queue) + 1] = j
    BY <1>6, AppendElements DEF Submit
  <2>2. Enqueued' \subseteq Enqueued \cup {j}
    BY <2>1 DEF Enqueued
  <2>3. j \in handing /\ UNCHANGED <<current, runs, ahead>>
    BY <1>6 DEF Submit
  <2>4. \A k \in Jobs : j \notin ahead[k]
    BY <2>3 DEF InvAhead
  <2> QED
    BY <2>2, <2>3, <2>4
<1>7. CASE TestStop \/ Handler
  BY <1>1, <1>7 DEF TestStop, Handler, HandlerReturns, HandlerRaises
<1>8. CASE Get
  <2>1. /\ Len(queue) \in Nat \ {0}
        /\ Head(queue) = queue[1]
        /\ Len(queue') = Len(queue) - 1
        /\ \A p \in 1..Len(queue') : queue'[p] = queue[p + 1] /\ p + 1 \in 1..Len(queue)
    BY <1>8, TailElements DEF Get
  <2>2. current' = queue[1] /\ UNCHANGED <<runs, ahead>>
    BY <1>8, <2>1 DEF Get
  <2>3. Enqueued' \subseteq Enqueued
    BY <2>1 DEF Enqueued
  <2>4. \A k \in Jobs : k = queue[1] => ahead[k] \cap Enqueued' = {}
    <3> SUFFICES ASSUME queue[1] \in Jobs, NEW i \in ahead[queue[1]], i \in Enqueued'
                 PROVE  FALSE
      OBVIOUS
    <3>1. PICK p \in 1..Len(queue') : queue'[p] = i
      BY DEF Enqueued
    <3>2. queue[p + 1] = i /\ p + 1 \in 1..Len(queue) /\ 1 \in 1..Len(queue)
      BY <2>1, <3>1
    <3>3. p + 1 < 1
      BY <3>2 DEF InvAhead
    <3> QED
      BY <3>3
  <2> QED
    BY <2>2, <2>3, <2>4
<1>9. CASE Claim
  <2>1. current \in Jobs /\ UNCHANGED <<queue, current, ahead>>
    BY <1>9 DEF Claim, InvWorker
  <2>2. Enqueued' = Enqueued
    BY <2>1 DEF Enqueued
  <2>3. \A k \in Jobs : k # current => runs'[k] = runs[k]
    BY <1>9 DEF Claim
  <2> QED
    BY <2>1, <2>2, <2>3
<1>10. CASE Finish \/ WriteRaises
  <2>1. Enqueued' = Enqueued
    BY <1>10 DEF Finish, WriteRaises, Enqueued
  <2> QED
    BY <1>10, <2>1 DEF Finish, WriteRaises
<1>11. CASE UNCHANGED vars
  BY <1>1, <1>11 DEF vars
<1> QED
  BY <1>2, <1>3, <1>4, <1>5, <1>6, <1>7, <1>8, <1>9, <1>10, <1>11
  DEF Next, Lifespan, Enqueue, Worker

(***************************************************************************)
(* The theorems                                                            *)
(***************************************************************************)

\* IInv holds in every reachable state: it is true initially and every step
\* of the requests, the worker and the process preserves it.
THEOREM Invariant == Spec => []IInv
<1>1. IInv /\ [Next]_vars => IInv'
  BY TypeStep, ProcessStep, WorkerStep, QueueStep, RunsStep, AheadStep,
     OwnedStep, SuccessStep, OvertakingStep
  DEF IInv
<1> QED
  BY InitIInv, <1>1, PTL DEF Spec

\* The variables keep their types (jobs.py 184-258, main.py 82-119).
THEOREM TypeCorrect == Spec => []TypeOK
<1>1. IInv => TypeOK
  BY DEF IInv
<1> QED
  BY Invariant, <1>1, PTL

\* No interleaving of requests, stops, crashes and failed writes makes a
\* handler run twice (jobs.py 209-248, main.py 96-107).
THEOREM AtMostOnce == Spec => []RunsAtMostOnce
<1>1. IInv => RunsAtMostOnce
  BY DEF IInv, InvRuns, RunsAtMostOnce
<1> QED
  BY Invariant, <1>1, PTL

\* After recovery a RUNNING row is the executing job, or one whose result the
\* database refused (main.py 96-107).
THEOREM RunningOwned == Spec => []RunningIsOwned
<1>1. IInv => RunningIsOwned
  BY DEF IInv
<1> QED
  BY Invariant, <1>1, PTL

\* SUCCESS is only shown for a handler that returned (jobs.py 238-248).
THEOREM SuccessReturned == Spec => []SuccessMeansReturned
<1>1. IInv => SuccessMeansReturned
  BY DEF IInv
<1> QED
  BY Invariant, <1>1, PTL

\* A job that was queued before another was accepted leaves the queue before
\* it (jobs.py 206-219, 264-287).
THEOREM Orderly == Spec => []NoOvertaking
<1>1. IInv => NoOvertaking
  BY DEF IInv
<1> QED
  BY Invariant, <1>1, PTL

(***************************************************************************)
(* Refinement                                                              *)
(***************************************************************************)

\* Every step of the panel is a step of the abstract life cycle, or leaves
\* its two variables alone.
LEMMA LifecycleStep == IInv /\ [Next]_vars => [Lifecycle!ANext]_Lifecycle!avars
<1> SUFFICES ASSUME IInv, [Next]_vars PROVE [Lifecycle!ANext]_Lifecycle!avars
  OBVIOUS
<1> USE DEF IInv, TypeOK, rows, process, bounds, history, Lifecycle!avars
\* Steps that touch neither the rows nor the worker.
<1>1. ASSUME UNCHANGED <<status, wpc, current>> PROVE UNCHANGED Lifecycle!avars
  BY <1>1
<1>2. CASE Recover
  <2>1. Lifecycle!FailOrphans
    BY <1>2 DEF Recover, Lifecycle!FailOrphans, InvProcess
  <2> QED
    BY <2>1 DEF Lifecycle!ANext
<1>3. CASE StartWorker
  BY <1>3 DEF StartWorker, InvProcess
<1>4. CASE StopSet \/ StopPut
  BY <1>1, <1>4 DEF StopSet, StopPut
<1>5. CASE Exit \/ Crash
  <2>1. CASE wpc \in {"handler", "finish"}
    <3>1. Lifecycle!Abandon
      BY <1>5, <2>1 DEF Exit, Crash, Vanish, Lifecycle!Abandon
    <3> QED
      BY <3>1 DEF Lifecycle!ANext
  <2>2. CASE wpc \notin {"handler", "finish"}
    BY <1>5, <2>2 DEF Exit, Crash, Vanish
  <2> QED
    BY <2>1, <2>2
<1>6. ASSUME NEW j \in Jobs, CommitRow(j) PROVE [Lifecycle!ANext]_Lifecycle!avars
  <2>1. Lifecycle!Accept(j)
    BY <1>6 DEF CommitRow, Lifecycle!Accept
  <2> QED
    BY <2>1 DEF Lifecycle!ANext
<1>7. ASSUME NEW j \in Jobs, Submit(j) PROVE [Lifecycle!ANext]_Lifecycle!avars
  BY <1>1, <1>7 DEF Submit
<1>8. CASE TestStop \/ Get
  BY <1>8 DEF TestStop, Get
<1>9. CASE Claim
  <2>1. current \in Jobs /\ Lifecycle!Execute(current)
    BY <1>9 DEF Claim, InvWorker, Lifecycle!Execute
  <2> QED
    BY <2>1 DEF Lifecycle!ANext
<1>10. CASE Handler
  BY <1>10 DEF Handler, HandlerReturns, HandlerRaises
<1>11. CASE Finish
  <2>1. current \in Jobs /\ outcome \in Lifecycle!Terminal
    BY <1>11 DEF Finish, InvWorker, Terminal, Lifecycle!Terminal
  <2>2. Lifecycle!Report(current)
    BY <1>11, <2>1 DEF Finish, Lifecycle!Report
  <2> QED
    BY <2>1, <2>2 DEF Lifecycle!ANext
<1>12. CASE WriteRaises
  <2>1. CASE wpc = "finish"
    <3>1. Lifecycle!Abandon
      BY <1>12, <2>1 DEF WriteRaises, Lifecycle!Abandon
    <3> QED
      BY <3>1 DEF Lifecycle!ANext
  <2>2. CASE wpc # "finish"
    BY <1>12, <2>2 DEF WriteRaises
  <2> QED
    BY <2>1, <2>2
<1>13. CASE UNCHANGED vars
  BY <1>1, <1>13 DEF vars
<1> QED
  BY <1>2, <1>3, <1>4, <1>5, <1>6, <1>7, <1>8, <1>9, <1>10, <1>11, <1>12, <1>13
  DEF Next, Lifespan, Enqueue, Worker

\* The queue, the worker and the process together implement the life cycle
\* the rest of the panel relies on.
THEOREM Refinement == Spec => ImplementsLifecycle
<1>1. Init => Lifecycle!AInit
  BY DEF Init, Lifecycle!AInit
<1>2. QED
  BY Invariant, <1>1, LifecycleStep, PTL
  DEF Spec, ImplementsLifecycle, Lifecycle!ASpec

\* What a row says of its job is so (jobs.py 209-248, main.py 96-107).
THEOREM RowsHonest == Spec => []RowsAreHonest
<1>1. RunsAtMostOnce /\ RunningIsOwned /\ SuccessMeansReturned => RowsAreHonest
  BY DEF RowsAreHonest
<1> QED
  BY <1>1, AtMostOnce, RunningOwned, SuccessReturned, PTL
=============================================================================
