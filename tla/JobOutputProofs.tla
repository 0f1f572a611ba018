---------------------------- MODULE JobOutputProofs ----------------------------
(***************************************************************************)
(* Proofs about JobOutput, for any number of jobs, lines, faults and any   *)
(* batch size: what reaches the log column of a row, and when it is final. *)
(***************************************************************************)
EXTENDS JobOutput, SequenceTheorems, TLAPS

(***************************************************************************)
(* Sequences of line numbers                                               *)
(***************************************************************************)

Numbers(n) == [i \in 1..n |-> i]

\* The lines of a concatenation.
LEMMA Concatenated ==
    ASSUME NEW s \in Seq(Nat), NEW t \in Seq(Nat)
    PROVE  /\ s \o t \in Seq(Nat) /\ Len(s \o t) = Len(s) + Len(t)
           /\ Len(s) \in Nat /\ Len(t) \in Nat
           /\ \A i \in 1..(Len(s) + Len(t)) :
                 (s \o t)[i] = IF i <= Len(s) THEN s[i] ELSE t[i - Len(s)]
  OBVIOUS

LEMMA Appended ==
    ASSUME NEW s \in Seq(Nat), NEW n \in Nat
    PROVE  /\ Append(s, n) \in Seq(Nat) /\ Len(Append(s, n)) = Len(s) + 1 /\ Len(s) \in Nat
           /\ \A i \in 1..Len(s) : Append(s, n)[i] = s[i]
           /\ Append(s, n)[Len(s) + 1] = n
  OBVIOUS

\* Two sequences of numbers are equal if they agree at every place.
LEMMA SameLines ==
    ASSUME NEW s \in Seq(Nat), NEW t \in Seq(Nat), Len(s) = Len(t),
           \A i \in 1..Len(s) : s[i] = t[i]
    PROVE  s = t
  BY SeqEqual

\* A line logged after some pending ones comes after all the output.
LEMMA LineComesLast ==
    ASSUME NEW s \in Seq(Nat), NEW t \in Seq(Nat), NEW n \in Nat
    PROVE  s \o Append(t, n) = Append(s \o t, n)
<1>1. s \o Append(t, n) \in Seq(Nat) /\ Append(s \o t, n) \in Seq(Nat)
  BY Concatenated, Appended
<1>2. Len(s \o Append(t, n)) = Len(s) + Len(t) + 1 /\ Len(Append(s \o t, n)) = Len(s) + Len(t) + 1
  BY Concatenated, Appended
<1>3. ASSUME NEW i \in 1..(Len(s) + Len(t) + 1)
      PROVE  (s \o Append(t, n))[i] = Append(s \o t, n)[i]
  <2>1. Len(s) \in Nat /\ Len(t) \in Nat /\ s \o t \in Seq(Nat) /\ Append(t, n) \in Seq(Nat)
    BY Concatenated, Appended
  <2>2. CASE i <= Len(s)
    BY <2>1, <2>2, Concatenated, Appended
  <2>3. CASE Len(s) < i /\ i <= Len(s) + Len(t)
    BY <2>1, <2>3, Concatenated, Appended
  <2>4. CASE i = Len(s) + Len(t) + 1
    BY <2>1, <2>4, Concatenated, Appended
  <2> QED
    BY <2>1, <2>2, <2>3, <2>4
<1> QED
  BY <1>1, <1>2, <1>3, SameLines

\* The next number after lines in order leaves them in order.
LEMMA OrderedGrows ==
    ASSUME NEW s \in Seq(Nat), NEW n \in Nat, Ordered(s, n)
    PROVE  Ordered(Append(s, n + 1), n + 1)
<1>1. Append(s, n + 1) \in Seq(Nat) /\ Len(Append(s, n + 1)) = Len(s) + 1 /\ Len(s) \in Nat
  BY Appended
<1>2. /\ \A i \in 1..Len(s) : Append(s, n + 1)[i] = s[i]
      /\ Append(s, n + 1)[Len(s) + 1] = n + 1
  BY Appended
<1>3. ASSUME NEW p \in 1..(Len(s) + 1) PROVE Append(s, n + 1)[p] \in 1..(n + 1)
  BY <1>1, <1>2 DEF Ordered
<1>4. ASSUME NEW p \in 1..(Len(s) + 1), NEW q \in 1..(Len(s) + 1), p < q
      PROVE  Append(s, n + 1)[p] < Append(s, n + 1)[q]
  <2>1. p \in 1..Len(s) /\ s[p] \in 1..n
    BY <1>1, <1>4 DEF Ordered
  <2>2. CASE q \in 1..Len(s)
    BY <1>2, <1>4, <2>1, <2>2 DEF Ordered
  <2>3. CASE q = Len(s) + 1
    BY <1>2, <2>1, <2>3
  <2> QED
    BY <1>1, <2>2, <2>3
<1> QED
  BY <1>1, <1>3, <1>4 DEF Ordered

\* What is written of lines in order is in order.
LEMMA OrderedPrefix ==
    ASSUME NEW s \in Seq(Nat), NEW t \in Seq(Nat), NEW n \in Nat, Ordered(s \o t, n)
    PROVE  Ordered(s, n) /\ Ordered(s, n + 1)
<1>1. /\ Len(s) \in Nat /\ Len(t) \in Nat /\ Len(s \o t) = Len(s) + Len(t)
      /\ \A i \in 1..Len(s) : i \in 1..Len(s \o t) /\ (s \o t)[i] = s[i]
  BY Concatenated
<1>2. \A p \in 1..Len(s) : s[p] \in 1..n
  BY <1>1 DEF Ordered
<1>3. \A p, q \in 1..Len(s) : p < q => s[p] < s[q]
  BY <1>1 DEF Ordered
<1> QED
  BY <1>2, <1>3 DEF Ordered

\* The numbers from 1 to n, and one more.
LEMMA NumbersGrow ==
    ASSUME NEW n \in Nat
    PROVE  /\ Numbers(n) \in Seq(Nat) /\ Len(Numbers(n)) = n
           /\ Append(Numbers(n), n + 1) = Numbers(n + 1)
<1>1. Numbers(n) \in Seq(Nat) /\ Len(Numbers(n)) = n
  BY DEF Numbers
<1>2. Numbers(n + 1) \in Seq(Nat) /\ Len(Numbers(n + 1)) = n + 1
  BY DEF Numbers
<1>3. \A i \in 1..(n + 1) : Append(Numbers(n), n + 1)[i] = Numbers(n + 1)[i]
  BY <1>1, Appended DEF Numbers
<1> QED
  BY <1>1, <1>2, <1>3, Appended, SameLines

LEMMA NothingPending ==
    ASSUME NEW s \in Seq(Nat)
    PROVE  s \o <<>> = s
  OBVIOUS

(***************************************************************************)
(* JobContext.flush and JobContext.log                                     *)
(***************************************************************************)

\* A refused write is remembered; the bound on outside refusals is kept.
LEMMA RefusedWrite ==
    ASSUME TypeOK, job \in Jobs, WriteRefused
    PROVE  /\ refusals' \in [outside : 0..MaxFaults, of : SUBSET Jobs]
           /\ refusals'.of = refusals.of \cup {job}
<1> USE JobOutputAssumption DEF JobOutputAssumption, TypeOK, WriteRefused
<1>1. CASE refusals' = [refusals EXCEPT !.of = @ \cup {job}]
  BY <1>1
<1>2. CASE /\ refusals.outside < MaxFaults
           /\ refusals' = [outside |-> refusals.outside + 1, of |-> refusals.of \cup {job}]
  <2>1. refusals.outside + 1 \in 0..MaxFaults
    BY <1>2
  <2> QED
    BY <1>2, <2>1
<1> QED
  BY <1>1, <1>2

\* What any call that may write does to the output of the running job: the lines written and
\* pending stay in order up to n, and are all of them unless a write was refused.
OutputGoesTo(n) ==
    /\ rowLog' \in [Jobs -> Seq(Nat)]
    /\ pending' \in Seq(Nat) /\ Len(pending') < FlushAt
    /\ \A j \in Jobs \ {job} : rowLog'[j] = rowLog[j]
    /\ refusals' \in [outside : 0..MaxFaults, of : SUBSET Jobs]
    /\ refusals.of \subseteq refusals'.of
    /\ Ordered(rowLog'[job], n)
    /\ Ordered(rowLog'[job] \o pending', n)
    /\ job \notin refusals'.of => rowLog'[job] \o pending' = Numbers(n)

\* A flush of a batch that continues the row's log.
LEMMA FlushDoes ==
    ASSUME TypeOK, job \in Jobs, NEW batch \in Seq(Nat), NEW n \in Nat, NEW ok, NEW raise,
           Ordered(rowLog[job] \o batch, n),
           job \notin refusals.of => rowLog[job] \o batch = Numbers(n),
           Flush(batch, ok, raise)
    PROVE  /\ OutputGoesTo(n) /\ pending' = <<>>
           /\ \/ wpc' = ok
              \/ wpc' = raise /\ job \in refusals'.of
<1>1. /\ pending' = <<>> /\ pending' \in Seq(Nat) /\ Len(pending') = 0 /\ 0 < FlushAt
      /\ rowLog[job] \in Seq(Nat) /\ rowLog[job] \o batch \in Seq(Nat)
  BY Concatenated, JobOutputAssumption DEF JobOutputAssumption, Flush, TypeOK
<1>2. CASE rowLog' = [rowLog EXCEPT ![job] = @ \o batch] /\ wpc' = ok /\ UNCHANGED refusals
  <2>1. /\ rowLog' \in [Jobs -> Seq(Nat)] /\ rowLog'[job] = rowLog[job] \o batch
        /\ \A j \in Jobs \ {job} : rowLog'[j] = rowLog[j]
    BY <1>1, <1>2 DEF TypeOK
  <2>2. rowLog'[job] \o pending' = rowLog[job] \o batch
    BY <1>1, <2>1, NothingPending
  <2> QED
    BY <1>1, <1>2, <2>1, <2>2 DEF OutputGoesTo, TypeOK
<1>3. CASE WriteRefused /\ wpc' = raise /\ UNCHANGED rowLog
  <2>1. Ordered(rowLog[job], n)
    BY <1>1, OrderedPrefix
  <2>2. rowLog'[job] \o pending' = rowLog[job]
    BY <1>1, <1>3, NothingPending
  <2> QED
    BY <1>1, <1>3, <2>1, <2>2, RefusedWrite DEF OutputGoesTo, TypeOK
<1> QED
  BY <1>2, <1>3 DEF Flush

\* A logged line: pending, or written with those before it, or lost in a refused write.
LEMMA LogDoes ==
    ASSUME IInv, wpc # "idle", NEW ok, NEW raise, Log(ok, raise)
    PROVE  /\ emitted' = [emitted EXCEPT ![job] = @ + 1]
           /\ job \in Jobs /\ emitted[job] \in Nat
           /\ OutputGoesTo(emitted[job] + 1)
           /\ \/ wpc' = ok
              \/ wpc' = raise /\ job \in refusals'.of
<1> DEFINE n == emitted[job]
           batch == Append(pending, n + 1)
<1>1. /\ TypeOK /\ job \in Jobs /\ n \in Nat /\ n + 1 \in Nat
      /\ rowLog[job] \in Seq(Nat) /\ pending \in Seq(Nat)
      /\ emitted' = [emitted EXCEPT ![job] = @ + 1]
  BY DEF IInv, TypeOK, JobStands, Log
<1>2. batch \in Seq(Nat) /\ rowLog[job] \o batch = Append(rowLog[job] \o pending, n + 1)
  BY <1>1, Appended, LineComesLast
<1>3. Output \in Seq(Nat) /\ Ordered(Output, n)
  BY <1>1, Concatenated DEF IInv, OutputInOrder, Output
<1>4. Ordered(rowLog[job] \o batch, n + 1)
  BY <1>1, <1>2, <1>3, OrderedGrows DEF Output
<1>5. job \notin refusals.of => rowLog[job] \o batch = Numbers(n + 1)
  BY <1>1, <1>2, NumbersGrow DEF IInv, OutputIsWhole, Output, Numbers
<1>6. CASE /\ Len(batch) < FlushAt /\ pending' = batch /\ wpc' = ok
           /\ UNCHANGED <<rowLog, refusals>>
  <2>1. Ordered(rowLog[job], n + 1)
    BY <1>1, <1>2, <1>4, OrderedPrefix
  <2> HIDE DEF batch
  <2> QED
    BY <1>1, <1>2, <1>4, <1>5, <1>6, <2>1 DEF OutputGoesTo, TypeOK
<1>7. CASE Flush(batch, ok, raise)
  <2> HIDE DEF batch
  <2> QED
    BY <1>1, <1>2, <1>4, <1>5, <1>7, FlushDoes
<1> QED
  BY <1>1, <1>6, <1>7 DEF Log

\* The invariant after a call that may write, whatever else the step changes.
LEMMA WriteKeeps ==
    ASSUME IInv, wpc # "idle", NEW n \in Nat, emitted[job] <= n, OutputGoesTo(n),
           emitted' = [emitted EXCEPT ![job] = n], UNCHANGED <<job, status>>,
           wpc' \in Steps, wpc' \in {"finish", "mark"} => outcome' \in Terminal,
           wpc' = "mark" => pending' = <<>>,
           outcome' \in Terminal \cup {"none"}, txn' \in BOOLEAN,
           child' \in {"none", "open", "closed"},
           orphans' \subseteq Jobs, orphans' \subseteq refusals'.of \cup garbled',
           garbled' \subseteq Jobs
    PROVE  IInv'
<1>1. /\ TypeOK /\ job \in Jobs /\ status[job] = "running"
      /\ \A j \in Jobs : emitted'[j] = IF j = job THEN n ELSE emitted[j]
      /\ rowLog' \in [Jobs -> Seq(Nat)] /\ pending' \in Seq(Nat)
  BY DEF IInv, TypeOK, JobStands, OutputGoesTo
<1>2. TypeOK'
  BY <1>1 DEF TypeOK, OutputGoesTo
<1>3. JobStands'
  BY <1>1 DEF IInv, JobStands, OutputGoesTo, Jobs
<1>4. RowsInOrder'
  BY <1>1 DEF IInv, RowsInOrder, OutputGoesTo, Ordered
<1>5. OutputInOrder' /\ OutputIsWhole'
  BY <1>1 DEF OutputInOrder, OutputIsWhole, Output, OutputGoesTo, Ordered, Numbers
<1>6. ASSUME NEW j \in Jobs, status[j] \in Terminal, j \notin refusals'.of
      PROVE  rowLog'[j] = [i \in 1..emitted'[j] |-> i]
  <2>1. j # job /\ j \notin refusals.of
    BY <1>1, <1>6 DEF Terminal, OutputGoesTo
  <2>2. rowLog'[j] = rowLog[j] /\ emitted'[j] = emitted[j]
    BY <1>1, <2>1 DEF OutputGoesTo
  <2> QED
    BY <1>6, <2>1, <2>2 DEF IInv, FullOutputRetained
<1> QED
  BY <1>2, <1>3, <1>4, <1>5, <1>6 DEF IInv, OrphansAreRefused, FullOutputRetained

\* The invariant after a step that writes no line.
LEMMA SilentKeeps ==
    ASSUME IInv, UNCHANGED <<job, status, rowLog, emitted, pending, refusals>>,
           wpc # "idle" \/ (wpc' = "idle" /\ UNCHANGED garbled),
           wpc' \in Steps, wpc' \in {"finish", "mark"} => outcome' \in Terminal,
           wpc' = "mark" => pending = <<>>,
           outcome' \in Terminal \cup {"none"}, txn' \in BOOLEAN,
           child' \in {"none", "open", "closed"},
           garbled' \in {garbled, garbled \cup {job}},
           orphans' \subseteq orphans \cup garbled'
    PROVE  IInv'
<1>4. garbled' \subseteq Jobs /\ orphans' \subseteq Jobs
  <2>1. CASE garbled' = garbled
    BY <2>1 DEF IInv, TypeOK
  <2>2. CASE garbled' = garbled \cup {job} /\ garbled' # garbled
    BY <2>2 DEF IInv, TypeOK, JobStands
  <2> QED
    BY <2>1, <2>2
<1>1. TypeOK' /\ OrphansAreRefused'
  BY <1>4 DEF IInv, TypeOK, OrphansAreRefused
<1>2. JobStands'
  BY DEF IInv, JobStands
<1>3. RowsInOrder' /\ OutputInOrder' /\ OutputIsWhole' /\ FullOutputRetained'
  BY DEF IInv, RowsInOrder, OutputInOrder, OutputIsWhole, Output, FullOutputRetained, Ordered
<1> QED
  BY <1>1, <1>2, <1>3 DEF IInv

(***************************************************************************)
(* Initial state, and one lemma for the actions of each kind               *)
(***************************************************************************)

LEMMA InitIInv == Init => IInv
<1> SUFFICES ASSUME Init PROVE IInv
  OBVIOUS
<1>1. /\ <<>> \in Seq(Nat) /\ Len(<<>>) = 0 /\ 0 < FlushAt
      /\ 0 \in 0..NumJobs /\ 0 \in 0..MaxFaults
  BY JobOutputAssumption DEF JobOutputAssumption
<1>2. TypeOK
  BY <1>1 DEF Init, TypeOK, Steps
<1> QED
  BY <1>2 DEF Init, IInv, JobStands, RowsInOrder, OutputInOrder, OutputIsWhole,
              FullOutputRetained, OrphansAreRefused, Ordered, Terminal, Jobs

\* A new job starts with an empty log and nothing pending.
LEMMA BeginKeeps == IInv /\ Begin => IInv'
<1> SUFFICES ASSUME IInv, Begin PROVE IInv'
  OBVIOUS
<1>1. /\ TypeOK /\ job' = job + 1 /\ job' \in Jobs /\ job' > job /\ wpc' = "handler" /\ pending' = <<>>
      /\ UNCHANGED <<outcome, rowLog, emitted, txn, child, orphans, refusals, garbled>>
      /\ rowLog[job'] = <<>> /\ emitted[job'] = 0
      /\ status' = [status EXCEPT ![job'] = "running"]
  <2>1. job + 1 \in Jobs /\ job + 1 > job
    BY JobOutputAssumption DEF JobOutputAssumption, IInv, TypeOK, Begin, Jobs
  <2>2. rowLog[job + 1] = <<>> /\ emitted[job + 1] = 0
    BY <2>1 DEF IInv, JobStands
  <2> QED
    BY <2>1, <2>2 DEF IInv, Begin
<1>2. TypeOK'
  <2>1. job' \in 0..NumJobs /\ <<>> \in Seq(Nat) /\ Len(<<>>) < FlushAt
    BY <1>1, JobOutputAssumption DEF JobOutputAssumption, Jobs
  <2> QED
    BY <1>1, <2>1 DEF TypeOK, Steps
<1>3. JobStands'
  BY <1>1 DEF IInv, TypeOK, JobStands, Jobs
<1>4. Output' = <<>>
  BY <1>1 DEF Output
<1>5. RowsInOrder' /\ OutputInOrder' /\ OutputIsWhole' /\ OrphansAreRefused'
  BY <1>1, <1>4 DEF IInv, RowsInOrder, OutputInOrder, OutputIsWhole, OrphansAreRefused, Ordered
<1>6. FullOutputRetained'
  BY <1>1 DEF IInv, TypeOK, FullOutputRetained, Terminal
<1> QED
  BY <1>2, <1>3, <1>5, <1>6 DEF IInv

\* The actions of the handler and its command that log nothing.
LEMMA QuietKeeps ==
    ASSUME IInv,
           \/ HandlerWrites \/ HandlerCommits \/ HandlerRaises \/ HandlerCatches
           \/ HandlerReturns \/ CommandGarbles \/ CommandCloses \/ CommandSucceeds
           \/ OrphanEnds \/ Unwind
    PROVE  IInv'
<1>1. TypeOK /\ (wpc \in {"finish", "mark"} => outcome \in Terminal) /\ (wpc = "mark" => pending = <<>>)
  BY DEF IInv, JobStands
<1>2. CASE HandlerWrites \/ HandlerCommits \/ HandlerRaises \/ HandlerCatches
  BY <1>1, <1>2, SilentKeeps
     DEF HandlerWrites, HandlerCommits, HandlerRaises, HandlerCatches, TypeOK, Steps
<1>3. CASE HandlerReturns \/ CommandCloses \/ CommandSucceeds \/ OrphanEnds \/ Unwind
  BY <1>1, <1>3, SilentKeeps
     DEF HandlerReturns, CommandCloses, CommandSucceeds, OrphanEnds, Unwind, TypeOK, Steps, Terminal
<1>4. CASE CommandGarbles
  <2>1. /\ UNCHANGED <<job, outcome, status, rowLog, emitted, pending, txn, refusals>>
        /\ wpc = "running" /\ wpc' = "raised" /\ child' = "none"
        /\ garbled' = garbled \cup {job} /\ orphans' = orphans \cup {job}
    BY <1>4 DEF CommandGarbles
  <2>2. orphans' \subseteq orphans \cup garbled'
    BY <2>1
  <2>3. garbled' \in {garbled, garbled \cup {job}}
    BY <2>1
  <2>4. /\ wpc' \in Steps /\ wpc' \notin {"finish", "mark"} /\ wpc # "idle"
        /\ outcome' \in Terminal \cup {"none"} /\ txn' \in BOOLEAN
        /\ child' \in {"none", "open", "closed"}
    BY <1>1, <2>1 DEF TypeOK, Steps
  <2> QED
    BY <2>1, <2>2, <2>3, <2>4, SilentKeeps
<1> QED
  BY <1>2, <1>3, <1>4

\* The actions that log a line.
LEMMA LoggingKeeps ==
    ASSUME IInv,
           \/ HandlerLogs \/ RunCommand \/ CommandPrints \/ CommandFails \/ CommandTimesOut
           \/ LogError
    PROVE  IInv'
<1>1. PICK ok \in {"handler", "running", "raised", "finish"}, raise \in {"raised", "idle"} :
         /\ Log(ok, raise)
         /\ ok = "finish" => outcome' \in Terminal
  BY DEF HandlerLogs, RunCommand, CommandPrints, CommandFails, CommandTimesOut, LogCode, LogError,
         Terminal
<1>2. /\ wpc # "idle" /\ UNCHANGED <<job, status, txn, garbled>> /\ TypeOK
      /\ outcome' \in {outcome, "failed"}
      /\ child' \in {child, "open", "none"}
      /\ orphans' = orphans \/ (CommandPrints /\ wpc' = "raised" /\ orphans' = orphans \cup {job})
  BY DEF HandlerLogs, RunCommand, CommandPrints, CommandFails, CommandTimesOut, LogCode, LogError,
         IInv
<1>3. /\ emitted' = [emitted EXCEPT ![job] = @ + 1]
      /\ job \in Jobs /\ emitted[job] \in Nat
      /\ OutputGoesTo(emitted[job] + 1)
      /\ wpc' = ok \/ (wpc' = raise /\ job \in refusals'.of)
  BY <1>1, <1>2, LogDoes
<1>4. CommandPrints /\ wpc' = "raised" => job \in refusals'.of
  <2>1. CommandPrints => Log("running", "raised")
    BY DEF CommandPrints
  <2> QED
    BY <1>2, <2>1, LogDoes
<1>5. orphans' \subseteq Jobs /\ orphans' \subseteq refusals'.of \cup garbled' /\ garbled' \subseteq Jobs
  BY <1>2, <1>3, <1>4 DEF IInv, TypeOK, OrphansAreRefused, OutputGoesTo
<1>6. wpc' \in Steps /\ wpc' # "mark" /\ (wpc' = "finish" => outcome' \in Terminal)
  BY <1>1, <1>3 DEF Steps
<1> DEFINE n == emitted[job] + 1
<1>7. n \in Nat /\ emitted[job] <= n /\ OutputGoesTo(n) /\ emitted' = [emitted EXCEPT ![job] = n]
  BY <1>3
<1> HIDE DEF n
<1> QED
  BY <1>2, <1>5, <1>6, <1>7, WriteKeeps DEF TypeOK, Terminal

\* The last flush of _finish.
LEMMA FinalFlushKeeps == IInv /\ FinalFlush => IInv'
<1> SUFFICES ASSUME IInv, FinalFlush PROVE IInv'
  OBVIOUS
<1>1. /\ TypeOK /\ wpc = "finish" /\ job \in Jobs /\ outcome \in Terminal
      /\ UNCHANGED <<job, outcome, status, emitted, txn, child, orphans, garbled>>
  BY DEF IInv, JobStands, FinalFlush
<1>2. CASE pending = <<>> /\ wpc' = "mark" /\ UNCHANGED <<rowLog, pending, refusals>>
  BY <1>1, <1>2, SilentKeeps DEF TypeOK, Steps
<1>3. CASE Flush(pending, "mark", "idle")
  <2> DEFINE n == emitted[job]
  <2>1. /\ n \in Nat /\ emitted[job] <= n /\ pending \in Seq(Nat)
        /\ emitted' = [emitted EXCEPT ![job] = n]
    BY <1>1 DEF TypeOK
  <2>2. Ordered(rowLog[job] \o pending, n)
    BY <1>1 DEF IInv, OutputInOrder, Output
  <2>3. job \notin refusals.of => rowLog[job] \o pending = Numbers(n)
    BY <1>1 DEF IInv, OutputIsWhole, Output, Numbers
  <2> HIDE DEF n
  <2>4. OutputGoesTo(n) /\ pending' = <<>> /\ wpc' \in {"mark", "idle"}
    BY <1>1, <1>3, <2>1, <2>2, <2>3, FlushDoes
  <2>5. orphans' \subseteq Jobs /\ orphans' \subseteq refusals'.of \cup garbled' /\ garbled' \subseteq Jobs
    BY <1>1, <2>4 DEF IInv, TypeOK, OrphansAreRefused, OutputGoesTo
  <2> QED
    BY <1>1, <2>1, <2>4, <2>5, WriteKeeps DEF TypeOK, Steps
<1> QED
  BY <1>2, <1>3 DEF FinalFlush

\* The row becomes terminal when nothing is pending: its log is the output.
LEMMA MarkKeeps == IInv /\ Mark => IInv'
<1> SUFFICES ASSUME IInv, Mark PROVE IInv'
  OBVIOUS
<1>1. /\ TypeOK /\ wpc = "mark" /\ wpc' = "idle" /\ job \in Jobs /\ outcome \in Terminal
      /\ pending = <<>> /\ status' = [status EXCEPT ![job] = outcome]
      /\ UNCHANGED <<job, outcome, rowLog, emitted, pending, txn, child, orphans, refusals, garbled>>
  BY DEF IInv, JobStands, Mark
<1>2. TypeOK' /\ OrphansAreRefused'
  BY <1>1 DEF IInv, TypeOK, Steps, OrphansAreRefused
<1>3. JobStands' /\ OutputInOrder' /\ OutputIsWhole' /\ RowsInOrder'
  BY <1>1 DEF IInv, TypeOK, JobStands, OutputInOrder, OutputIsWhole, RowsInOrder, Ordered, Jobs
<1>4. FullOutputRetained'
  <2>1. rowLog[job] \in Seq(Nat) /\ Output = rowLog[job]
    BY <1>1, NothingPending DEF TypeOK, Output
  <2>2. job \notin refusals.of => rowLog[job] = [i \in 1..emitted[job] |-> i]
    BY <1>1, <2>1 DEF IInv, OutputIsWhole
  <2> QED
    BY <1>1, <2>2 DEF IInv, TypeOK, FullOutputRetained
<1> QED
  BY <1>2, <1>3, <1>4 DEF IInv

\* A refused last write leaves the row RUNNING, with the log it has.
LEMMA MarkRefusedKeeps == IInv /\ MarkRefused => IInv'
<1> SUFFICES ASSUME IInv, MarkRefused PROVE IInv'
  OBVIOUS
<1>1. /\ TypeOK /\ wpc = "mark" /\ wpc' = "idle" /\ job \in Jobs
      /\ UNCHANGED <<job, outcome, status, rowLog, emitted, pending, txn, child, orphans, garbled>>
      /\ refusals' \in [outside : 0..MaxFaults, of : SUBSET Jobs]
      /\ refusals'.of = refusals.of \cup {job}
  BY RefusedWrite DEF IInv, JobStands, MarkRefused
<1>2. TypeOK' /\ OrphansAreRefused'
  BY <1>1 DEF IInv, TypeOK, Steps, OrphansAreRefused
<1>3. JobStands' /\ OutputInOrder' /\ OutputIsWhole' /\ RowsInOrder' /\ FullOutputRetained'
  BY <1>1 DEF IInv, JobStands, OutputInOrder, OutputIsWhole, RowsInOrder, Ordered,
              FullOutputRetained
<1> QED
  BY <1>2, <1>3 DEF IInv

LEMMA NextIInv == IInv /\ [Next]_vars => IInv'
<1> SUFFICES ASSUME IInv, [Next]_vars PROVE IInv'
  OBVIOUS
<1>1. CASE Handler
  BY <1>1, QuietKeeps, LoggingKeeps DEF Handler
<1>2. CASE Command
  BY <1>2, QuietKeeps, LoggingKeeps DEF Command
<1>3. CASE Panel
  BY <1>3, BeginKeeps, QuietKeeps, LoggingKeeps, FinalFlushKeeps, MarkKeeps, MarkRefusedKeeps
     DEF Panel
<1>4. CASE OrphanEnds
  BY <1>4, QuietKeeps
<1>5. CASE UNCHANGED vars
  BY <1>5 DEF vars, IInv, TypeOK, JobStands, RowsInOrder, OutputInOrder, OutputIsWhole, Output,
              FullOutputRetained, OrphansAreRefused, Ordered
<1> QED
  BY <1>1, <1>2, <1>3, <1>4, <1>5 DEF Next

(***************************************************************************)
(* The theorems                                                            *)
(***************************************************************************)

\* The inductive invariant holds in every reachable state.
THEOREM Invariance == Spec => []IInv
  BY InitIInv, NextIInv, PTL DEF Spec

\* The types; fewer lines than a batch are pending between two steps (jobs.py log).
THEOREM TypeCorrect == Spec => []TypeOK
<1>1. IInv => TypeOK
  BY DEF IInv
<1> QED
  BY <1>1, Invariance, PTL

\* However the writes of log, flush and _finish fail, the log column has its lines in order,
\* none of them twice; without a refused write it has them all once the row is terminal; and
\* with neither a refused write nor a line that cannot be decoded no command outlives its job.
THEOREM OutputKept == Spec => []OutputIsKept
<1>1. IInv => OutputIsKept
  BY DEF IInv, OutputIsKept, LinesInOrder, RowsInOrder, Ordered
<1> QED
  BY <1>1, Invariance, PTL

\* A step of the worker writes to the log of the job in execution, which is not terminal.
LEMMA LogStays ==
    ASSUME IInv, [Next]_vars, NEW j \in Jobs, status[j] \in Terminal
    PROVE  rowLog'[j] = rowLog[j]
<1>1. TypeOK /\ (wpc # "idle" => job \in Jobs /\ j # job)
  BY DEF IInv, JobStands, Terminal
<1>2. ASSUME NEW batch, NEW ok, NEW raise, Flush(batch, ok, raise), wpc # "idle"
      PROVE  rowLog'[j] = rowLog[j]
  BY <1>1, <1>2 DEF Flush, TypeOK
<1>3. ASSUME NEW ok, NEW raise, Log(ok, raise), wpc # "idle" PROVE rowLog'[j] = rowLog[j]
  BY <1>2, <1>3 DEF Log
<1>4. CASE Handler \/ Command
  BY <1>3, <1>4 DEF Handler, HandlerLogs, HandlerWrites, HandlerCommits, HandlerRaises,
     HandlerCatches, RunCommand, HandlerReturns, Command, CommandPrints, CommandGarbles, CommandCloses,
     CommandSucceeds, CommandFails, LogCode
<1>5. CASE Panel \/ OrphanEnds
  BY <1>2, <1>3, <1>5 DEF Panel, Begin, CommandTimesOut, LogCode, Unwind, LogError, FinalFlush,
     Mark, MarkRefused, OrphanEnds
<1>6. CASE UNCHANGED vars
  BY <1>6 DEF vars
<1> QED
  BY <1>4, <1>5, <1>6 DEF Next

\* A row that is terminal has the log it will always have: no later job, and no step of the
\* worker, writes to it (jobs.py _finish marks after the last flush).
THEOREM LogsFinal == Spec => LogIsFinal
<1>1. IInv /\ [Next]_vars => [\A j \in Jobs : status[j] \in Terminal => rowLog'[j] = rowLog[j]]_vars
  BY LogStays
<1> QED
  BY <1>1, Invariance, PTL DEF Spec, LogIsFinal

\* What a step does to the lines and the end of a job whose writes were not refused.
LEMMA LineOrEnd ==
    ASSUME IInv, Next, NEW j \in Jobs, j \notin refusals'.of
    PROVE  \/ /\ emitted'[j] = emitted[j]
              /\ status'[j] \in Terminal <=> status[j] \in Terminal
           \/ /\ emitted'[j] = emitted[j] + 1
              /\ status[j] \notin Terminal /\ status'[j] \notin Terminal
           \/ /\ emitted'[j] = emitted[j]
              /\ status[j] \notin Terminal /\ status'[j] \in Terminal
              /\ rowLog'[j] = [i \in 1..emitted[j] |-> i]
<1>1. /\ TypeOK /\ \A k \in Jobs : k > job => status[k] = "pending"
      /\ wpc # "idle" => job \in Jobs /\ status[job] = "running"
  BY DEF IInv, JobStands
<1>2. ASSUME NEW ok, NEW raise, Log(ok, raise), wpc # "idle", UNCHANGED status
      PROVE  \/ emitted'[j] = emitted[j] /\ status'[j] = status[j]
             \/ emitted'[j] = emitted[j] + 1 /\ status'[j] = status[j] /\ status[j] = "running"
  BY <1>1, <1>2 DEF Log, TypeOK
<1>3. CASE UNCHANGED <<emitted, status>>
  BY <1>3
<1>4. CASE \/ HandlerLogs \/ RunCommand \/ CommandPrints \/ CommandFails
           \/ CommandTimesOut \/ LogError
  <2>1. wpc # "idle" /\ UNCHANGED status /\ \E ok, raise : Log(ok, raise)
    BY <1>4 DEF HandlerLogs, RunCommand, CommandPrints, CommandFails, CommandTimesOut, LogCode, LogError
  <2> QED
    BY <1>2, <2>1 DEF Terminal
<1>5. CASE Begin
  <2>1. /\ UNCHANGED emitted /\ job + 1 \in Jobs /\ job + 1 > job
        /\ status' = [status EXCEPT ![job + 1] = "running"]
    BY <1>1, <1>5, JobOutputAssumption DEF Begin, TypeOK, Jobs, JobOutputAssumption
  <2> QED
    BY <1>1, <2>1 DEF TypeOK, Terminal
<1>6. CASE Mark
  <2>1. /\ UNCHANGED emitted /\ status' = [status EXCEPT ![job] = outcome] /\ wpc # "idle"
    BY <1>6 DEF Mark
  <2>2. FullOutputRetained'
    BY NextIInv DEF IInv
  <2>3. status'[j] \in Terminal => rowLog'[j] = [i \in 1..emitted[j] |-> i]
    BY <2>1, <2>2 DEF FullOutputRetained
  <2>4. status[job] \notin Terminal /\ (j # job => status'[j] = status[j])
    BY <1>1, <2>1 DEF TypeOK, Terminal
  <2> QED
    BY <2>1, <2>3, <2>4
<1> QED
  BY <1>3, <1>4, <1>5, <1>6
     DEF Next, Handler, Command, Panel, HandlerWrites, HandlerCommits, HandlerRaises, HandlerCatches,
         HandlerReturns, CommandGarbles, CommandCloses, CommandSucceeds, Unwind, FinalFlush,
         MarkRefused, OrphanEnds

(***************************************************************************)
(* The rows as JobLifecycle sees them                                      *)
(***************************************************************************)

\* Where an exception of the log or the last flush ends _execute, the job is
\* abandoned as RUNNING; else the worker stays in it.
LEMMA InJob ==
    ASSUME wpc # "idle", UNCHANGED <<job, status>>
    PROVE  [Lifecycle!ANext]_(Lifecycle!avars)
<1>1. CASE wpc' = "idle"
  BY <1>1 DEF Lifecycle!ANext, Lifecycle!Abandon
<1>2. CASE wpc' # "idle"
  BY <1>2 DEF Lifecycle!avars
<1> QED
  BY <1>1, <1>2

LEMMA LifecycleStep ==
    ASSUME IInv, [Next]_vars
    PROVE  [Lifecycle!ANext]_(Lifecycle!avars)
<1>1. CASE Begin
  <2>1. /\ wpc = "idle" /\ wpc' = "handler" /\ job' = job + 1
        /\ status' = [status EXCEPT ![job'] = "running"]
    BY <1>1 DEF Begin
  <2>2. job' \in Jobs /\ status[job'] = "pending"
    BY <1>1, JobOutputAssumption DEF Begin, IInv, TypeOK, JobStands, Jobs, JobOutputAssumption
  <2> QED
    BY <2>1, <2>2 DEF Lifecycle!ANext, Lifecycle!Execute
<1>2. CASE Mark
  <2>1. /\ wpc = "mark" /\ wpc' = "idle" /\ job \in Jobs /\ outcome \in Terminal
        /\ status' = [status EXCEPT ![job] = outcome]
    BY <1>2 DEF Mark, IInv, JobStands
  <2> QED
    BY <2>1 DEF Lifecycle!ANext, Lifecycle!Report, Lifecycle!Terminal, Terminal
<1>3. CASE OrphanEnds \/ UNCHANGED vars
  BY <1>3 DEF OrphanEnds, vars, Lifecycle!avars
<1>4. CASE Handler \/ Command
  <2>1. wpc # "idle" /\ UNCHANGED <<job, status>>
    BY <1>4 DEF Handler, HandlerLogs, HandlerWrites, HandlerCommits, HandlerRaises, HandlerCatches,
       RunCommand, HandlerReturns, Command, CommandPrints, CommandGarbles, CommandCloses, CommandSucceeds,
       CommandFails, LogCode
  <2> QED
    BY <2>1, InJob
<1>5. CASE CommandTimesOut \/ Unwind \/ LogError \/ FinalFlush \/ MarkRefused
  <2>1. wpc # "idle" /\ UNCHANGED <<job, status>>
    BY <1>5 DEF CommandTimesOut, LogCode, Unwind, LogError, FinalFlush, MarkRefused
  <2> QED
    BY <2>1, InJob
<1> QED
  BY <1>1, <1>2, <1>3, <1>4, <1>5 DEF Next, Panel

\* However handlers log, run commands and fail: lines come one by one until the end and the
\* row then has them all, short of a refused write; a terminal row keeps its status and its
\* log; and every step moves the rows as JobLifecycle allows.
THEOREM EndFinal == Spec => EndIsFinal
<1>1. IInv /\ [Next]_vars => [Lifecycle!ANext]_(Lifecycle!avars)
  BY LifecycleStep
<1>2. Spec => RowsKeepLifecycle
  BY Invariance, <1>1, PTL DEF Spec, RowsKeepLifecycle
<1>3. IInv /\ [Next]_vars =>
        [\A j \in Jobs \ refusals'.of :
            \/ /\ emitted'[j] = emitted[j]
               /\ status'[j] \in Terminal <=> status[j] \in Terminal
            \/ /\ emitted'[j] = emitted[j] + 1
               /\ status[j] \notin Terminal /\ status'[j] \notin Terminal
            \/ /\ emitted'[j] = emitted[j]
               /\ status[j] \notin Terminal /\ status'[j] \in Terminal
               /\ rowLog'[j] = [i \in 1..emitted[j] |-> i]]_vars
  BY LineOrEnd
<1>4. Spec => LinesThenEnd
  BY Invariance, <1>3, PTL DEF Spec, LinesThenEnd
<1> QED
  BY LogsFinal, <1>2, <1>4 DEF EndIsFinal
================================================================================
