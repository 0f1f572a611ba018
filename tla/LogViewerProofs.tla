---------------------------- MODULE LogViewerProofs ----------------------------
(***************************************************************************)
(* Theorems about LogViewer, for any number of lines, any capacity of the  *)
(* buffer and all bounds: what is on the screen, what is on its way in the *)
(* stream or in an answer, and what is left in the buffer are, in this     *)
(* order, the lines the job has logged, however the worker, the generator  *)
(* and the script of the page take their turns.                            *)
(***************************************************************************)
EXTENDS LogViewer, FiniteSetTheorems, TLAPS

(***************************************************************************)
(* The lines from one number to another                                    *)
(***************************************************************************)

Between(a, b) == [k \in 1..(b - a) |-> a + k]

LEMMA BetweenIs ==
    ASSUME NEW a \in Nat, NEW b \in Nat, a <= b
    PROVE  /\ Between(a, b) \in Seq(Nat) /\ Len(Between(a, b)) = b - a
           /\ \A k \in 1..(b - a) : Between(a, b)[k] = a + k
           /\ a = b <=> Between(a, b) = <<>>
           /\ a < b => Between(a, b)[Len(Between(a, b))] = b
           /\ Between(a, b) # Done
<1>1. Between(a, b) \in Seq(Nat) /\ Len(Between(a, b)) = b - a /\ \A k \in 1..(b - a) : Between(a, b)[k] = a + k
  BY DEF Between
<1>2. a = b <=> Between(a, b) = <<>>
  BY <1>1
<1>3. Len(Done) = 1 /\ Done[1] = 0
  BY DEF Done
<1>4. Between(a, b) # Done
  BY <1>1, <1>3
<1> QED
  BY <1>1, <1>2, <1>4

LEMMA UptoIs ==
    ASSUME NEW n \in Nat
    PROVE  Upto(n) \in Seq(Nat) /\ Len(Upto(n)) = n /\ \A i \in 1..n : Upto(n)[i] = i
  BY DEF Upto

\* Sequences that agree everywhere are one.
LEMMA SameLines ==
    ASSUME NEW S, NEW s \in Seq(S), NEW t \in Seq(S), Len(s) = Len(t), \A i \in 1..Len(s) : s[i] = t[i]
    PROVE  s = t
<1>1. s = [i \in 1..Len(s) |-> s[i]] /\ t = [i \in 1..Len(s) |-> t[i]]
  OBVIOUS
<1> QED
  BY <1>1

LEMMA UptoGrows ==
    ASSUME NEW n \in Nat
    PROVE  Append(Upto(n), n + 1) = Upto(n + 1)
<1> DEFINE s == Append(Upto(n), n + 1)
<1>1. s \in Seq(Nat) /\ Len(s) = n + 1 /\ \A i \in 1..(n + 1) : s[i] = i
  BY UptoIs
<1>2. Upto(n + 1) \in Seq(Nat) /\ Len(Upto(n + 1)) = n + 1 /\ \A i \in 1..(n + 1) : Upto(n + 1)[i] = i
  BY UptoIs
<1> HIDE DEF s
<1>3. s = Upto(n + 1)
  BY <1>1, <1>2, SameLines
<1> QED
  BY <1>3 DEF s

LEMMA UptoExtends ==
    ASSUME NEW a \in Nat, NEW b \in Nat, a <= b
    PROVE  Upto(a) \o Between(a, b) = Upto(b)
<1> DEFINE s == Upto(a) \o Between(a, b)
<1>1. /\ Upto(a) \in Seq(Nat) /\ Len(Upto(a)) = a /\ \A i \in 1..a : Upto(a)[i] = i
      /\ Between(a, b) \in Seq(Nat) /\ Len(Between(a, b)) = b - a /\ \A k \in 1..(b - a) : Between(a, b)[k] = a + k
  BY UptoIs, BetweenIs
<1>2. s \in Seq(Nat) /\ Len(s) = b /\ \A i \in 1..b : s[i] = i
  BY <1>1
<1>3. Upto(b) \in Seq(Nat) /\ Len(Upto(b)) = b /\ \A i \in 1..b : Upto(b)[i] = i
  BY UptoIs
<1> HIDE DEF s
<1>4. s = Upto(b)
  BY <1>2, <1>3, SameLines
<1> QED
  BY <1>4 DEF s

LEMMA RestOfLines ==
    ASSUME NEW n \in Nat, NEW o \in Nat, o <= n
    PROVE  SubSeq(Upto(n), o + 1, n) = Between(o, n)
<1> DEFINE s == SubSeq(Upto(n), o + 1, n)
<1>1. Upto(n) \in Seq(Nat) /\ Len(Upto(n)) = n /\ \A i \in 1..n : Upto(n)[i] = i
  BY UptoIs
<1>2. s \in Seq(Nat) /\ Len(s) = n - o /\ \A i \in 1..(n - o) : s[i] = o + i
  BY <1>1
<1>3. /\ Between(o, n) \in Seq(Nat) /\ Len(Between(o, n)) = n - o
      /\ \A k \in 1..(n - o) : Between(o, n)[k] = o + k
  BY BetweenIs
<1> HIDE DEF s
<1>4. s = Between(o, n)
  BY <1>2, <1>3, SameLines
<1> QED
  BY <1>4 DEF s

LEMMA RestIs ==
    ASSUME NEW s \in Seq(Nat), NEW o \in Nat, o <= Len(s)
    PROVE  Len(SubSeq(s, o + 1, Len(s))) = Len(s) - o
<1>1. Len(s) \in Nat
  OBVIOUS
<1> QED
  BY <1>1

\* What since() returns of any buffer.
LEMMA SinceIs ==
    ASSUME NEW o \in Nat, buffer \in Seq(Nat)
    PROVE  /\ Since(o) \in Seq(Nat)
           /\ o <= Len(buffer) => Len(Since(o)) = Len(buffer) - o
<1>1. CASE o <= Len(buffer)
  BY <1>1 DEF Since
<1>2. CASE ~(o <= Len(buffer))
  BY <1>2 DEF Since
<1> QED
  BY <1>1, <1>2


(***************************************************************************)
(* The invariant.  What the page shows is the log as far as it has come    *)
(* when one channel feeds it: by the stream, each event continues the one  *)
(* before; by polls, the answer on its way continues the page.             *)
(***************************************************************************)

Answers == [lines : Seq(Nat), next : Nat, log : Seq(Nat), terminal : BOOLEAN]

LvTypes ==
    /\ logged \in 0..MaxLines
    /\ buffer \in Seq(Nat) /\ (\A i \in 1..Len(buffer) : buffer[i] \in 1..MaxLines)
    /\ Len(buffer) <= Capacity /\ Len(buffer) <= logged
    /\ row \in [terminal : BOOLEAN, log : Seq(Nat)] /\ (\E n \in 0..logged : row.log = Upto(n))
    /\ gen \in [step : Steps, cursor : Nat] /\ gen.cursor <= Len(buffer)
    /\ gen.step = "off" => gen = NoStream
    /\ sent \in Seq(Seq(Nat))
    /\ polls \subseteq Answers /\ IsFiniteSet(polls) /\ Cardinality(polls) <= MaxPolls
    /\ page \in Pages
    /\ page \in {"closed", "static"} => gen = NoStream /\ sent = <<>> /\ polls = {}
    /\ shown \in Seq(Nat) /\ nextOffset \in Nat
    /\ setting \in Settings /\ breaks \in 0..MaxBreaks /\ restarts \in 0..MaxRestarts

\* The last line on the screen once i of the events are read.
EndOf(screen, events, i) == IF i = 0 THEN Len(screen) ELSE events[i][Len(events[i])]

\* The events go on where the screen, or the event before, ends, up to line n.
Continue(screen, events, n) ==
    /\ \A i \in 1..Len(events) :
          /\ EndOf(screen, events, i - 1) \in Nat /\ EndOf(screen, events, i) \in Nat
          /\ EndOf(screen, events, i - 1) < EndOf(screen, events, i)
          /\ events[i] = Between(EndOf(screen, events, i - 1), EndOf(screen, events, i))
    /\ EndOf(screen, events, Len(events)) = n

\* The generator has sent what it has read, or all there is and the end.
LvFollows ==
    /\ shown = Upto(Len(shown))
    /\ gen.step = "drain" => row.terminal
    /\ gen # NoStream => Continue(shown, sent, gen.cursor)
    /\ gen = NoStream =>
          /\ row.terminal
          /\ \E events \in Seq(Seq(Nat)) : sent = events \o <<Done>> /\ Continue(shown, events, logged)

LvWhole == row.terminal /\ shown = Upto(logged)

\* Before the page, and after its end.
LvAround ==
    /\ page = "closed" => shown = <<>>
    /\ page = "static" => LvWhole
    /\ page = "ended" => LvWhole /\ gen = NoStream /\ sent = <<>> /\ polls = {}

ByStream == setting.stream /\ setting.early /\ ~setting.poll
ByPolls  == setting.poll /\ ~setting.stream /\ MaxPolls <= 1

LvStreamed == ByStream => LvAround /\ polls = {} /\ (page = "live" => LvFollows)

\* The answer of a poll continues the page it left.
LvAnswer(a) ==
    /\ nextOffset <= a.next /\ a.next <= logged
    /\ a.lines = Between(nextOffset, a.next)
    /\ a.terminal => row.terminal /\ a.next = logged
    /\ a.log # <<>> => a.terminal /\ a.log = Upto(logged)

LvPolled ==
    ByPolls =>
        /\ LvAround /\ gen = NoStream /\ sent = <<>>
        /\ page = "live" => /\ shown = Upto(nextOffset) /\ nextOffset <= logged
                            /\ \A a \in polls : LvAnswer(a)

LvBuffered == buffer = Upto(logged) /\ (row.terminal => row.log = Upto(logged))

LvRight == LvBuffered /\ LvStreamed /\ LvPolled

LvInv == LvTypes /\ (Undisturbed => LvRight)

(***************************************************************************)
(* Its types                                                               *)
(***************************************************************************)

LEMMA DataIs ==
    ASSUME NEW s \in Seq(Nat)
    PROVE  /\ Data(s) \in Seq(Seq(Nat))
           /\ s = <<>> => Data(s) = <<>>
           /\ s # <<>> => Data(s) = <<s>>
  BY DEF Data

LEMMA StreamIs ==
    ASSUME setting \in Settings
    PROVE  /\ NewStream \in [step : Steps, cursor : Nat] /\ NoStream \in [step : Steps, cursor : Nat]
           /\ NewStream.cursor = 0 /\ NoStream.cursor = 0 /\ NoStream.step = "off"
           /\ NewStream.step = "off" => NewStream = NoStream
           /\ setting.stream => NewStream.step = "read"
           /\ ~setting.stream => NewStream = NoStream
  BY DEF NewStream, NoStream, Steps, Settings

LEMMA LvInitTypes == Init => LvTypes
<1> SUFFICES ASSUME Init PROVE LvTypes
  OBVIOUS
<1>1. /\ logged \in 0..MaxLines /\ breaks \in 0..MaxBreaks /\ restarts \in 0..MaxRestarts /\ setting \in Settings
      /\ page \in Pages /\ shown \in Seq(Nat) /\ nextOffset \in Nat
  BY LogViewerAssumption DEF Init, Pages
<1>2. /\ buffer \in Seq(Nat) /\ (\A i \in 1..Len(buffer) : buffer[i] \in 1..MaxLines)
      /\ Len(buffer) <= Capacity /\ Len(buffer) <= logged
  BY LogViewerAssumption DEF Init
<1>3. row \in [terminal : BOOLEAN, log : Seq(Nat)] /\ \E n \in 0..logged : row.log = Upto(n)
  <2>1. Upto(0) = <<>>
    BY DEF Upto
  <2>2. 0 \in 0..logged
    BY DEF Init
  <2> QED
    BY <2>1, <2>2 DEF Init
<1>4. gen \in [step : Steps, cursor : Nat] /\ gen.cursor <= Len(buffer) /\ gen = NoStream
  BY <1>1, StreamIs DEF Init
<1>5. IsFiniteSet(polls) /\ Cardinality(polls) <= MaxPolls
  BY FS_EmptySet, LogViewerAssumption DEF Init
<1> QED
  BY <1>1, <1>2, <1>3, <1>4, <1>5 DEF Init, LvTypes

LEMMA AppendTypes == LvTypes /\ AppendLine => LvTypes'
<1> SUFFICES ASSUME LvTypes, AppendLine PROVE LvTypes'
  OBVIOUS
<1>1. /\ logged < MaxLines /\ logged' = logged + 1 /\ UNCHANGED <<row, stream, polls, browser, bounds>>
      /\ buffer' = IF Len(buffer) = Capacity THEN Append(Tail(buffer), logged') ELSE Append(buffer, logged')
  BY DEF AppendLine
<1>2. /\ logged \in Nat /\ buffer \in Seq(Nat) /\ (\A i \in 1..Len(buffer) : buffer[i] \in 1..MaxLines)
      /\ Len(buffer) <= Capacity /\ Len(buffer) <= logged
      /\ Capacity \in Nat \ {0} /\ MaxLines \in Nat
  BY LogViewerAssumption DEF LvTypes
<1>3. logged' \in 1..MaxLines /\ logged' \in 0..MaxLines
  BY <1>1, <1>2
<1>4. /\ buffer' \in Seq(Nat) /\ (\A i \in 1..Len(buffer') : buffer'[i] \in 1..MaxLines)
      /\ Len(buffer') <= Capacity /\ Len(buffer') <= logged' /\ Len(buffer) <= Len(buffer')
  <2>1. CASE Len(buffer) = Capacity
    <3>1. /\ Tail(buffer) \in Seq(Nat) /\ Len(Tail(buffer)) = Len(buffer) - 1
          /\ \A i \in 1..(Len(buffer) - 1) : Tail(buffer)[i] = buffer[i + 1]
      BY <1>2, <2>1
    <3>2. buffer' = Append(Tail(buffer), logged')
      BY <1>1, <2>1
    <3> QED
      BY <1>1, <1>2, <1>3, <2>1, <3>1, <3>2
  <2>2. CASE Len(buffer) # Capacity
    <3>1. buffer' = Append(buffer, logged')
      BY <1>1, <2>2
    <3> QED
      BY <1>1, <1>2, <1>3, <2>2, <3>1
  <2> QED
    BY <2>1, <2>2
<1>5. \E n \in 0..logged' : row'.log = Upto(n)
  BY <1>1, <1>2 DEF LvTypes
<1>6. gen'.cursor <= Len(buffer')
  BY <1>1, <1>2, <1>4 DEF LvTypes, stream
<1> QED
  BY <1>1, <1>3, <1>4, <1>5, <1>6 DEF LvTypes, stream, browser, bounds

LEMMA FinishTypes == LvTypes /\ Finish => LvTypes'
<1> SUFFICES ASSUME LvTypes, Finish PROVE LvTypes'
  OBVIOUS
<1>1. row' = [terminal |-> TRUE, log |-> Upto(logged)] /\ UNCHANGED <<logged, buffer, stream, polls, browser, bounds>>
  BY DEF Finish
<1>2. row' \in [terminal : BOOLEAN, log : Seq(Nat)] /\ \E n \in 0..logged : row'.log = Upto(n)
  BY <1>1, UptoIs DEF LvTypes
<1> QED
  BY <1>1, <1>2 DEF LvTypes, stream, browser, bounds

LEMMA RestartTypes == LvTypes /\ Restart => LvTypes'
<1> SUFFICES ASSUME LvTypes, Restart PROVE LvTypes'
  OBVIOUS
<1>1. /\ restarts < MaxRestarts /\ restarts' = restarts + 1 /\ buffer' = <<>> /\ polls' = {}
      /\ UNCHANGED <<logged, browser, breaks, setting>>
      /\ IF gen = NoStream THEN UNCHANGED stream ELSE gen' = NewStream /\ sent' = <<>>
  BY DEF Restart
<1>2. PICK n \in 0..logged : row' = [terminal |-> TRUE, log |-> Upto(n)]
  BY DEF Restart
<1>3. row' \in [terminal : BOOLEAN, log : Seq(Nat)] /\ \E k \in 0..logged : row'.log = Upto(k)
  BY <1>2, UptoIs DEF LvTypes
<1>4. /\ gen' \in [step : Steps, cursor : Nat] /\ gen'.cursor <= Len(buffer')
      /\ gen'.step = "off" => gen' = NoStream
      /\ gen = NoStream => gen' = NoStream /\ sent' = sent
      /\ sent' \in Seq(Seq(Nat))
  <2>1. setting \in Settings /\ Len(buffer') = 0 /\ sent \in Seq(Seq(Nat)) /\ <<>> \in Seq(Seq(Nat))
    BY <1>1 DEF LvTypes
  <2>2. CASE gen = NoStream
    BY <1>1, <2>1, <2>2, StreamIs DEF stream
  <2>3. CASE gen # NoStream
    BY <1>1, <2>1, <2>3, StreamIs
  <2> QED
    BY <2>2, <2>3
<1>5. IsFiniteSet(polls') /\ Cardinality(polls') <= MaxPolls
  BY <1>1, FS_EmptySet, LogViewerAssumption
<1>6. buffer' \in Seq(Nat) /\ Len(buffer') = 0 /\ restarts' \in 0..MaxRestarts
  BY <1>1, LogViewerAssumption DEF LvTypes
<1> QED
  BY <1>1, <1>3, <1>4, <1>5, <1>6, LogViewerAssumption DEF LvTypes, browser

LEMMA LoadTypes == LvTypes /\ Load => LvTypes'
<1> SUFFICES ASSUME LvTypes, Load PROVE LvTypes'
  OBVIOUS
<1>1. /\ shown' = IF row.terminal THEN row.log ELSE Since(0)
      /\ nextOffset' = Len(shown') /\ page' = IF row.terminal THEN "static" ELSE "live"
      /\ gen' = IF row.terminal THEN NoStream ELSE NewStream
      /\ sent' = <<>> /\ polls' = {} /\ UNCHANGED <<server, bounds>>
  BY DEF Load
<1>2. row.log \in Seq(Nat) /\ Since(0) \in Seq(Nat) /\ setting \in Settings
  BY SinceIs DEF LvTypes
<1>3. shown' \in Seq(Nat) /\ nextOffset' \in Nat
  BY <1>1, <1>2
<1>4. /\ gen' \in [step : Steps, cursor : Nat] /\ gen'.cursor <= Len(buffer')
      /\ gen'.step = "off" => gen' = NoStream
      /\ page' \in {"closed", "static"} => gen' = NoStream
  BY <1>1, <1>2, StreamIs DEF LvTypes, server
<1>5. IsFiniteSet(polls') /\ Cardinality(polls') <= MaxPolls
  BY <1>1, FS_EmptySet, LogViewerAssumption
<1> QED
  BY <1>1, <1>3, <1>4, <1>5 DEF LvTypes, server, bounds, Pages

\* What a step of the generator reads and what it has then sent.
LEMMA StreamTypes == LvTypes /\ Stream => LvTypes'
<1> SUFFICES ASSUME LvTypes, Stream PROVE LvTypes'
  OBVIOUS
<1>1. /\ gen # NoStream /\ UNCHANGED <<server, polls, browser, bounds>>
  BY DEF Stream, StreamRead, StreamStatus, StreamDrain, NoStream
<1>2. /\ buffer \in Seq(Nat) /\ gen \in [step : Steps, cursor : Nat] /\ gen.cursor <= Len(buffer) /\ setting \in Settings
      /\ sent \in Seq(Seq(Nat))
  BY DEF LvTypes
<1>3. Since(gen.cursor) \in Seq(Nat) /\ Len(Since(gen.cursor)) = Len(buffer) - gen.cursor
  BY <1>2, SinceIs
<1>4. Data(Since(gen.cursor)) \in Seq(Seq(Nat)) /\ <<Done>> \in Seq(Seq(Nat))
  BY <1>3, DataIs DEF Done
<1>5. /\ gen' \in [step : Steps, cursor : Nat] /\ gen'.cursor <= Len(buffer) /\ sent' \in Seq(Seq(Nat))
      /\ gen'.step = "off" => gen' = NoStream
  <2>1. CASE StreamRead
    <3>1. /\ sent' = sent \o Data(Since(gen.cursor))
          /\ gen' = [step |-> "status", cursor |-> gen.cursor + Len(Since(gen.cursor))]
      BY <2>1 DEF StreamRead
    <3> QED
      BY <1>2, <1>3, <1>4, <3>1 DEF Steps
  <2>2. CASE StreamStatus
    BY <1>2, <2>2 DEF StreamStatus, Steps
  <2>3. CASE StreamDrain
    <3>1. sent' = sent \o Data(Since(gen.cursor)) \o <<Done>> /\ gen' = NoStream
      BY <2>3 DEF StreamDrain
    <3> QED
      BY <1>2, <1>4, <3>1, StreamIs
  <2> QED
    BY <2>1, <2>2, <2>3 DEF Stream
<1> QED
  BY <1>1, <1>5 DEF LvTypes, server, browser, bounds

LEMMA CutTypes == LvTypes /\ Cuts => LvTypes'
<1> SUFFICES ASSUME LvTypes, Cuts PROVE LvTypes'
  OBVIOUS
<1>1. /\ gen # NoStream /\ breaks < MaxBreaks /\ breaks' = breaks + 1
      /\ UNCHANGED <<server, polls, browser, restarts, setting>>
  BY DEF Cuts, StreamBreaks, StreamTimesOut, NoStream
<1>2. /\ gen' \in [step : Steps, cursor : Nat] /\ gen'.cursor = 0 /\ sent' \in Seq(Seq(Nat))
      /\ gen'.step = "off" => gen' = NoStream
  <2>1. setting \in Settings /\ sent \in Seq(Seq(Nat)) /\ <<Done>> \in Seq(Seq(Nat))
    BY DEF LvTypes, Done
  <2>2. CASE StreamBreaks
    BY <2>1, <2>2, StreamIs DEF StreamBreaks
  <2>3. CASE StreamTimesOut
    <3>1. sent' = sent \o <<Done>> /\ gen' = NoStream
      BY <2>3 DEF StreamTimesOut
    <3> QED
      BY <2>1, <3>1, StreamIs
  <2> QED
    BY <2>2, <2>3 DEF Cuts
<1>3. breaks' \in 0..MaxBreaks /\ Len(buffer) \in Nat
  BY <1>1, LogViewerAssumption DEF LvTypes
<1> QED
  BY <1>1, <1>2, <1>3 DEF LvTypes, server, browser

LEMMA BrowserTypes == LvTypes /\ BrowserReads => LvTypes'
<1> SUFFICES ASSUME LvTypes, BrowserReads PROVE LvTypes'
  OBVIOUS
<1>1. /\ sent # <<>> /\ sent' = Tail(sent) /\ UNCHANGED <<server, gen, polls, bounds>>
  BY DEF BrowserReads
<1>2. sent \in Seq(Seq(Nat)) /\ Head(sent) \in Seq(Nat) /\ Tail(sent) \in Seq(Seq(Nat))
  BY <1>1 DEF LvTypes
<1>3. page' \in {page, "ended"} /\ shown' \in Seq(Nat) /\ nextOffset' \in Nat
  <2>1. shown \in Seq(Nat) /\ nextOffset \in Nat
    BY DEF LvTypes
  <2>2. CASE Head(sent) = Done
    BY <2>1, <2>2 DEF BrowserReads
  <2>3. CASE Head(sent) # Done
    <3>1. shown' = shown \o Head(sent) /\ nextOffset' = nextOffset + Len(Head(sent)) /\ page' = page
      BY <2>3 DEF BrowserReads
    <3> QED
      BY <1>2, <2>1, <3>1
  <2> QED
    BY <2>2, <2>3
<1>4. page \notin {"closed", "static"} /\ page' \in Pages /\ page' \notin {"closed", "static"}
  BY <1>1, <1>3 DEF LvTypes, Pages
<1> QED
  BY <1>1, <1>2, <1>3, <1>4 DEF LvTypes, server, bounds

LEMMA PollTypes == LvTypes /\ PollAnswered => LvTypes'
<1> SUFFICES ASSUME LvTypes, PollAnswered PROVE LvTypes'
  OBVIOUS
<1>1. page = "live" /\ Cardinality(polls) < MaxPolls /\ UNCHANGED <<server, stream, browser, bounds>>
  BY DEF PollAnswered
<1>2. PICK terminal \in {FALSE, row.terminal} :
         polls' = polls \cup
           {[lines |-> Since(nextOffset), next |-> nextOffset + Len(Since(nextOffset)),
             log |-> IF terminal /\ Since(nextOffset) = <<>> THEN row.log ELSE <<>>, terminal |-> terminal]}
  BY DEF PollAnswered
<1>3. Since(nextOffset) \in Seq(Nat) /\ nextOffset + Len(Since(nextOffset)) \in Nat
  <2>1. Since(nextOffset) \in Seq(Nat) /\ nextOffset \in Nat
    BY SinceIs DEF LvTypes
  <2> QED
    BY <2>1
<1>4. [lines |-> Since(nextOffset), next |-> nextOffset + Len(Since(nextOffset)),
       log |-> IF terminal /\ Since(nextOffset) = <<>> THEN row.log ELSE <<>>, terminal |-> terminal] \in Answers
  <2>1. row.log \in Seq(Nat) /\ <<>> \in Seq(Nat) /\ row.terminal \in BOOLEAN
    BY DEF LvTypes
  <2>2. terminal \in BOOLEAN
    BY <2>1, Zenon
  <2> QED
    BY <1>3, <2>1, <2>2 DEF Answers
<1>5. PICK a \in Answers : polls' = polls \cup {a}
  BY <1>2, <1>4
<1>6. IsFiniteSet(polls') /\ Cardinality(polls') <= MaxPolls /\ polls' \subseteq Answers
  <2>1. IsFiniteSet(polls) /\ Cardinality(polls) \in Nat /\ polls \subseteq Answers
    BY FS_CardinalityType DEF LvTypes
  <2> QED
    BY <1>1, <1>5, <2>1, FS_AddElement, LogViewerAssumption
<1> QED
  BY <1>1, <1>6 DEF LvTypes, server, stream, browser, bounds

LEMMA ArrivesTypes == LvTypes /\ PollArrives => LvTypes'
<1> SUFFICES ASSUME LvTypes, PollArrives PROVE LvTypes'
  OBVIOUS
<1>1. PICK a \in polls :
         /\ polls' = polls \ {a}
         /\ IF a.lines # <<>>
            THEN shown' = shown \o a.lines /\ nextOffset' = a.next
            ELSE IF a.terminal /\ a.log # <<>> /\ shown = <<>>
            THEN shown' = a.log /\ nextOffset' = Len(a.log)
            ELSE UNCHANGED <<shown, nextOffset>>
         /\ IF a.terminal THEN page' = "ended" /\ gen' = NoStream /\ sent' = <<>> ELSE UNCHANGED <<page, stream>>
         /\ UNCHANGED <<server, bounds>>
  BY DEF PollArrives
<1>2. a \in Answers /\ a.lines \in Seq(Nat) /\ a.next \in Nat /\ a.log \in Seq(Nat)
  BY DEF LvTypes, Answers
<1>3. shown' \in Seq(Nat) /\ nextOffset' \in Nat
  <2>1. shown \in Seq(Nat) /\ nextOffset \in Nat /\ shown \o a.lines \in Seq(Nat) /\ Len(a.log) \in Nat
    BY <1>2 DEF LvTypes
  <2> QED
    BY <1>1, <1>2, <2>1
<1>4. IsFiniteSet(polls') /\ Cardinality(polls') <= MaxPolls /\ polls' \subseteq Answers
  <2>1. IsFiniteSet(polls) /\ Cardinality(polls) \in Nat /\ polls \subseteq Answers /\ Cardinality(polls) <= MaxPolls
    BY FS_CardinalityType DEF LvTypes
  <2>2. IsFiniteSet(polls \ {a}) /\ Cardinality(polls \ {a}) = Cardinality(polls) - 1
    BY <2>1, FS_RemoveElement
  <2> QED
    BY <1>1, <2>1, <2>2, LogViewerAssumption
<1>5. /\ page \notin {"closed", "static"} /\ page' \in Pages /\ page' \notin {"closed", "static"}
  BY <1>1 DEF LvTypes, Pages
<1>6. /\ gen' \in [step : Steps, cursor : Nat] /\ gen'.cursor <= Len(buffer) /\ sent' \in Seq(Seq(Nat))
      /\ gen'.step = "off" => gen' = NoStream
  <2>1. /\ setting \in Settings /\ Len(buffer) \in Nat /\ sent \in Seq(Seq(Nat)) /\ <<>> \in Seq(Seq(Nat))
        /\ gen \in [step : Steps, cursor : Nat] /\ gen.cursor <= Len(buffer) /\ (gen.step = "off" => gen = NoStream)
    BY DEF LvTypes
  <2>2. (gen' = NoStream /\ sent' = <<>>) \/ (gen' = gen /\ sent' = sent)
    BY <1>1 DEF stream
  <2>3. CASE gen' = NoStream /\ sent' = <<>>
    BY <2>1, <2>3, StreamIs
  <2>4. CASE gen' = gen /\ sent' = sent
    BY <2>1, <2>4
  <2> QED
    BY <2>2, <2>3, <2>4
<1> QED
  BY <1>1, <1>3, <1>4, <1>5, <1>6 DEF LvTypes, server, bounds

LEMMA TypesKept == LvTypes /\ [Next]_vars => LvTypes'
<1> SUFFICES ASSUME LvTypes, [Next]_vars PROVE LvTypes'
  OBVIOUS
<1>1. CASE Job
  BY <1>1, AppendTypes, FinishTypes, RestartTypes DEF Job
<1>2. CASE Stream
  BY <1>2, StreamTypes
<1>3. CASE Cuts
  BY <1>3, CutTypes
<1>4. CASE Page
  BY <1>4, LoadTypes, BrowserTypes, PollTypes, ArrivesTypes DEF Page, Open, Reload
<1>5. CASE UNCHANGED vars
  BY <1>5 DEF LvTypes, vars, server, stream, browser, bounds
<1> QED
  BY <1>1, <1>2, <1>3, <1>4, <1>5 DEF Next

(***************************************************************************)
(* Events that continue the screen                                         *)
(***************************************************************************)

LEMMA NothingContinues ==
    ASSUME NEW screen \in Seq(Nat)
    PROVE  Continue(screen, <<>>, Len(screen))
  BY DEF Continue, EndOf

LEMMA MoreContinues ==
    ASSUME NEW screen \in Seq(Nat), NEW events \in Seq(Seq(Nat)), NEW n \in Nat, NEW m \in Nat, n < m,
           Continue(screen, events, n)
    PROVE  Continue(screen, events \o <<Between(n, m)>>, m)
<1> DEFINE e == Between(n, m)
           more == events \o <<e>>
           k == Len(events)
<1>1. e \in Seq(Nat) /\ e[Len(e)] = m
  <2>1. n <= m
    OBVIOUS
  <2> QED
    BY <2>1, BetweenIs
<1>2. k \in Nat /\ more \in Seq(Seq(Nat)) /\ Len(more) = k + 1 /\ more[k + 1] = e /\ \A i \in 1..k : more[i] = events[i]
  BY <1>1
<1> HIDE DEF e, more, k
<1>3. \A i \in 0..k : EndOf(screen, more, i) = EndOf(screen, events, i)
  BY <1>2 DEF EndOf
<1>4. EndOf(screen, more, k + 1) = m
  BY <1>1, <1>2 DEF EndOf
<1>5. EndOf(screen, events, k) = n
  BY DEF Continue, k
<1>6. ASSUME NEW i \in 1..(k + 1)
      PROVE  /\ EndOf(screen, more, i - 1) \in Nat /\ EndOf(screen, more, i) \in Nat
             /\ EndOf(screen, more, i - 1) < EndOf(screen, more, i)
             /\ more[i] = Between(EndOf(screen, more, i - 1), EndOf(screen, more, i))
  <2>1. CASE i = k + 1
    BY <1>2, <1>3, <1>4, <1>5, <2>1 DEF e
  <2>2. CASE i \in 1..k
    <3>1. i - 1 \in 0..k /\ i \in 0..k
      BY <1>2, <2>2
    <3>2. /\ EndOf(screen, events, i - 1) \in Nat /\ EndOf(screen, events, i) \in Nat
          /\ EndOf(screen, events, i - 1) < EndOf(screen, events, i)
          /\ events[i] = Between(EndOf(screen, events, i - 1), EndOf(screen, events, i))
      BY <2>2 DEF Continue, k
    <3> QED
      BY <1>2, <1>3, <2>2, <3>1, <3>2
  <2> QED
    BY <1>2, <2>1, <2>2
<1>7. Continue(screen, more, m)
  BY <1>2, <1>4, <1>6 DEF Continue
<1> QED
  BY <1>7 DEF more, e

\* Reading the first event leaves the rest to continue.
LEMMA ReadingContinues ==
    ASSUME NEW screen \in Seq(Nat), screen = Upto(Len(screen)), NEW events \in Seq(Seq(Nat)), events # <<>>,
           NEW n, Continue(screen, events, n)
    PROVE  /\ Head(events) # Done
           /\ screen \o Head(events) = Upto(Len(screen \o Head(events)))
           /\ Continue(screen \o Head(events), Tail(events), n)
<1> DEFINE a == Len(screen)
           b == EndOf(screen, events, 1)
           after == screen \o Head(events)
           rest == Tail(events)
           k == Len(events)
<1>1. a \in Nat /\ b \in Nat /\ a < b /\ Head(events) = Between(a, b) /\ k \in Nat /\ k >= 1
  <2>1. k \in Nat /\ k >= 1 /\ Head(events) = events[1] /\ 1 \in 1..Len(events) /\ 1 - 1 = 0
    OBVIOUS
  <2>2. EndOf(screen, events, 0) = a
    BY DEF EndOf
  <2> QED
    BY <2>1, <2>2 DEF Continue
<1>2. Head(events) # Done /\ after = Upto(b) /\ after \in Seq(Nat) /\ Len(after) = b
  <2>1. a <= b
    BY <1>1
  <2>2. Between(a, b) # Done /\ Upto(a) \o Between(a, b) = Upto(b) /\ Upto(b) \in Seq(Nat) /\ Len(Upto(b)) = b
    BY <1>1, <2>1, BetweenIs, UptoExtends, UptoIs
  <2> HIDE DEF b
  <2>3. screen = Upto(a)
    OBVIOUS
  <2> QED
    BY <1>1, <2>2, <2>3
<1>3. rest \in Seq(Seq(Nat)) /\ Len(rest) = k - 1 /\ \A i \in 1..(k - 1) : rest[i] = events[i + 1]
  BY <1>1
<1>4. b = EndOf(screen, events, 1)
  OBVIOUS
<1> HIDE DEF after, rest, b
<1>5. \A i \in 0..(k - 1) : EndOf(after, rest, i) = EndOf(screen, events, i + 1)
  <2>1. EndOf(after, rest, 0) = EndOf(screen, events, 1)
    BY <1>2, <1>4 DEF EndOf
  <2>2. ASSUME NEW i \in 1..(k - 1) PROVE EndOf(after, rest, i) = EndOf(screen, events, i + 1)
    <3>1. i # 0 /\ i + 1 # 0 /\ rest[i] = events[i + 1]
      BY <1>1, <1>3
    <3> QED
      BY <3>1 DEF EndOf
  <2> QED
    BY <1>1, <2>1, <2>2
<1>6. ASSUME NEW i \in 1..(k - 1)
      PROVE  /\ EndOf(after, rest, i - 1) \in Nat /\ EndOf(after, rest, i) \in Nat
             /\ EndOf(after, rest, i - 1) < EndOf(after, rest, i)
             /\ rest[i] = Between(EndOf(after, rest, i - 1), EndOf(after, rest, i))
  <2>1. i + 1 \in 1..k /\ (i + 1) - 1 = i /\ i - 1 \in 0..(k - 1) /\ i \in 0..(k - 1) /\ (i - 1) + 1 = i
    BY <1>1
  <2>2. /\ EndOf(screen, events, i) \in Nat /\ EndOf(screen, events, i + 1) \in Nat
        /\ EndOf(screen, events, i) < EndOf(screen, events, i + 1)
        /\ events[i + 1] = Between(EndOf(screen, events, i), EndOf(screen, events, i + 1))
    BY <2>1 DEF Continue
  <2>3. EndOf(after, rest, i - 1) = EndOf(screen, events, i) /\ EndOf(after, rest, i) = EndOf(screen, events, i + 1)
    BY <1>5, <2>1
  <2> QED
    BY <1>3, <2>2, <2>3
<1>7. EndOf(after, rest, k - 1) = n
  <2>1. EndOf(screen, events, k) = n /\ (k - 1) + 1 = k /\ k - 1 \in 0..(k - 1)
    BY <1>1 DEF Continue
  <2> QED
    BY <1>5, <2>1
<1>8. Continue(after, rest, n)
  BY <1>3, <1>6, <1>7 DEF Continue
<1> QED
  BY <1>2, <1>8 DEF after, rest

LEMMA EventsAndDone ==
    ASSUME NEW events \in Seq(Seq(Nat))
    PROVE  /\ events \o <<Done>> \in Seq(Seq(Nat)) /\ events \o <<Done>> # <<>>
           /\ events = <<>> => Head(events \o <<Done>>) = Done /\ Tail(events \o <<Done>>) = <<>>
           /\ events # <<>> => /\ Head(events \o <<Done>>) = Head(events)
                              /\ Tail(events \o <<Done>>) = Tail(events) \o <<Done>>
                              /\ Tail(events) \in Seq(Seq(Nat))
<1>1. Done \in Seq(Nat)
  BY DEF Done
<1> HIDE DEF Done
<1> DEFINE s == events \o <<Done>>
<1>2. /\ s \in Seq(Seq(Nat)) /\ s # <<>> /\ Len(s) = Len(events) + 1 /\ s[Len(events) + 1] = Done
      /\ \A i \in 1..Len(events) : s[i] = events[i]
  BY <1>1
<1> HIDE DEF s
<1>3. CASE events = <<>>
  BY <1>1, <1>3
<1>4. CASE events # <<>>
  <2> DEFINE rest == Tail(events) \o <<Done>>
  <2>1. /\ Tail(events) \in Seq(Seq(Nat)) /\ Len(Tail(events)) = Len(events) - 1 /\ Head(events) = events[1]
        /\ \A i \in 1..(Len(events) - 1) : Tail(events)[i] = events[i + 1]
        /\ Len(events) \in Nat /\ Len(events) >= 1
    BY <1>4
  <2>2. /\ rest \in Seq(Seq(Nat)) /\ Len(rest) = Len(events) /\ rest[Len(events)] = Done
        /\ \A i \in 1..(Len(events) - 1) : rest[i] = events[i + 1]
    BY <1>1, <2>1
  <2> HIDE DEF rest
  <2>3. Tail(s) \in Seq(Seq(Nat)) /\ Len(Tail(s)) = Len(events) /\ \A i \in 1..Len(events) : Tail(s)[i] = s[i + 1]
    BY <1>2, <2>1
  <2>4. ASSUME NEW i \in 1..Len(events) PROVE Tail(s)[i] = rest[i]
    <3>1. Tail(s)[i] = s[i + 1]
      BY <2>3
    <3>2. CASE i = Len(events)
      BY <1>2, <2>2, <3>1, <3>2
    <3>3. CASE i # Len(events)
      <4>1. Len(events) \in Nat
        BY <2>1
      <4>2. i \in 1..(Len(events) - 1) /\ i + 1 \in 1..Len(events)
        BY <3>3, <4>1
      <4> QED
        BY <1>2, <2>2, <3>1, <4>2
    <3> QED
      BY <3>2, <3>3
  <2>5. Tail(s) = rest
    BY <2>2, <2>3, <2>4, SameLines
  <2>6. Head(s) = Head(events)
    BY <1>2, <2>1
  <2> QED
    BY <1>2, <1>4, <2>1, <2>5, <2>6 DEF rest, s
<1> QED
  BY <1>2, <1>3, <1>4 DEF s

(***************************************************************************)
(* The steps of a page nothing disturbs                                    *)
(***************************************************************************)

LEMMA UptoIsBetween ==
    ASSUME NEW n \in Nat
    PROVE  Between(0, n) = Upto(n)
<1>1. 1..(n - 0) = 1..n /\ \A k \in 1..n : 0 + k = k
  OBVIOUS
<1> QED
  BY <1>1 DEF Between, Upto

\* What since() returns of a buffer that holds every line.
LEMMA SinceOfAll ==
    ASSUME NEW o \in Nat, logged \in Nat, buffer = Upto(logged), o <= logged
    PROVE  /\ Since(o) = Between(o, logged) /\ Since(o) \in Seq(Nat) /\ Len(Since(o)) = logged - o
           /\ Since(o) = <<>> <=> o = logged
<1>1. Len(buffer) = logged
  BY UptoIs
<1>2. Since(o) = SubSeq(Upto(logged), o + 1, logged)
  BY <1>1 DEF Since
<1>3. Since(o) = Between(o, logged)
  BY <1>2, RestOfLines
<1> QED
  BY <1>3, BetweenIs

LEMMA AppendRight == LvTypes /\ LvRight /\ AppendLine /\ logged' <= Capacity => LvRight'
<1> SUFFICES ASSUME LvTypes, LvRight, AppendLine, logged' <= Capacity PROVE LvRight'
  OBVIOUS
<1>1. /\ ~row.terminal /\ logged' = logged + 1 /\ UNCHANGED <<row, stream, polls, browser, bounds>>
      /\ buffer' = IF Len(buffer) = Capacity THEN Append(Tail(buffer), logged') ELSE Append(buffer, logged')
  BY DEF AppendLine
<1>2. logged \in Nat /\ Capacity \in Nat /\ buffer = Upto(logged) /\ Len(buffer) = logged
  BY UptoIs, LogViewerAssumption DEF LvTypes, LvRight, LvBuffered
<1>3. buffer' = Upto(logged')
  <2>1. Len(buffer) # Capacity
    BY <1>1, <1>2
  <2> QED
    BY <1>1, <1>2, <2>1, UptoGrows
<1>4. LvBuffered'
  BY <1>1, <1>3 DEF LvBuffered
<1>5. UNCHANGED <<gen, sent, polls, page, shown, nextOffset, setting, row>>
  BY <1>1 DEF stream, browser, bounds
<1>6. LvAround => LvAround'
  BY <1>1, <1>5 DEF LvAround, LvWhole
<1>7. LvStreamed'
  BY <1>1, <1>5, <1>6 DEF LvRight, LvStreamed, ByStream, LvFollows
<1>8. LvPolled'
  <2> SUFFICES ASSUME ByPolls' PROVE LvPolled'
    BY DEF LvPolled
  <2>1. LvAround /\ gen = NoStream /\ sent = <<>>
        /\ (page = "live" => shown = Upto(nextOffset) /\ nextOffset <= logged /\ \A a \in polls : LvAnswer(a))
    BY <1>5 DEF LvRight, LvPolled, ByPolls
  <2>2. ASSUME page = "live", NEW a \in polls PROVE LvAnswer(a)'
    <3>1. LvAnswer(a) /\ a.next \in Nat
      BY <2>1, <2>2 DEF LvTypes, Answers
    <3> QED
      BY <1>1, <1>2, <1>5, <3>1 DEF LvAnswer
  <2>3. nextOffset <= logged => nextOffset <= logged'
    BY <1>1, <1>2 DEF LvTypes
  <2> QED
    BY <1>5, <1>6, <2>1, <2>2, <2>3 DEF LvPolled
<1> QED
  BY <1>4, <1>7, <1>8 DEF LvRight

LEMMA FinishRight == LvTypes /\ LvRight /\ Finish => LvRight'
<1> SUFFICES ASSUME LvTypes, LvRight, Finish PROVE LvRight'
  OBVIOUS
<1>1. /\ ~row.terminal /\ row' = [terminal |-> TRUE, log |-> Upto(logged)]
      /\ UNCHANGED <<logged, buffer, gen, sent, polls, page, shown, nextOffset, setting>>
  BY DEF Finish, stream, browser, bounds
<1>2. row'.terminal /\ row'.log = Upto(logged)
  BY <1>1
<1>3. LvBuffered'
  BY <1>1, <1>2 DEF LvRight, LvBuffered
<1>4. LvAround => LvAround'
  BY <1>1 DEF LvAround, LvWhole
<1>5. LvStreamed'
  BY <1>1, <1>2, <1>4 DEF LvRight, LvStreamed, ByStream, LvFollows
<1>6. LvPolled'
  <2> SUFFICES ASSUME ByPolls' PROVE LvPolled'
    BY DEF LvPolled
  <2>1. LvAround /\ gen = NoStream /\ sent = <<>>
        /\ (page = "live" => shown = Upto(nextOffset) /\ nextOffset <= logged /\ \A a \in polls : LvAnswer(a))
    BY <1>1 DEF LvRight, LvPolled, ByPolls
  <2>2. ASSUME page = "live", NEW a \in polls PROVE LvAnswer(a)'
    <3>1. LvAnswer(a)
      BY <2>1, <2>2
    <3> QED
      BY <1>1, <3>1 DEF LvAnswer
  <2> QED
    BY <1>1, <1>4, <2>1, <2>2 DEF LvPolled
<1> QED
  BY <1>3, <1>5, <1>6 DEF LvRight

LEMMA LoadRight == LvTypes /\ LvRight /\ (Open \/ Reload) => LvRight'
<1> SUFFICES ASSUME LvTypes, LvRight, Open \/ Reload PROVE LvRight'
  OBVIOUS
<1>1. /\ shown' = IF row.terminal THEN row.log ELSE Since(0)
      /\ nextOffset' = Len(shown') /\ page' = IF row.terminal THEN "static" ELSE "live"
      /\ gen' = IF row.terminal THEN NoStream ELSE NewStream
      /\ sent' = <<>> /\ polls' = {} /\ UNCHANGED <<logged, buffer, row, setting>>
  BY DEF Open, Reload, Load, server, bounds
<1>2. logged \in Nat /\ buffer = Upto(logged) /\ setting \in Settings
  BY DEF LvTypes, LvRight, LvBuffered
<1>3. shown' = Upto(logged) /\ Len(shown') = logged
  <2>1. row.terminal => row.log = Upto(logged)
    BY DEF LvRight, LvBuffered
  <2>2. Since(0) = Upto(logged)
    BY <1>2, SinceOfAll, UptoIsBetween
  <2> QED
    BY <1>1, <1>2, <2>1, <2>2, UptoIs
<1>4. LvBuffered'
  BY <1>1 DEF LvRight, LvBuffered
<1>5. LvAround'
  BY <1>1, <1>3 DEF LvAround, LvWhole
<1>6. LvStreamed'
  <2> SUFFICES ASSUME ByStream', page' = "live" PROVE LvFollows'
    BY <1>1, <1>5 DEF LvStreamed
  <2>1. ByStream /\ ~row.terminal
    BY <1>1 DEF ByStream
  <2>2. page = "closed"
    <3>1. page = "ended" => row.terminal
      BY <2>1 DEF LvRight, LvStreamed, LvAround, LvWhole
    <3> QED
      BY <2>1, <3>1 DEF Open, Reload
  <2>3. logged = 0
    BY <2>1, <2>2 DEF Open, Reload, Load, ByStream
  <2>4. gen' = NewStream /\ NewStream.step = "read" /\ NewStream.cursor = 0 /\ NewStream # NoStream
    BY <1>1, <1>2, <2>1, StreamIs DEF ByStream
  <2>5. Continue(shown', <<>>, 0)
    <3>1. shown' \in Seq(Nat) /\ Len(shown') = 0
      BY <1>2, <1>3, <2>3, UptoIs
    <3> QED
      BY <3>1, NothingContinues
  <2>6. shown' = Upto(Len(shown'))
    BY <1>3
  <2> QED
    BY <1>1, <2>4, <2>5, <2>6 DEF LvFollows
<1>7. LvPolled'
  <2> SUFFICES ASSUME ByPolls' PROVE LvPolled'
    BY DEF LvPolled
  <2>1. NewStream = NoStream
    BY <1>1, <1>2, StreamIs DEF ByPolls
  <2> QED
    BY <1>1, <1>2, <1>3, <1>5, <2>1 DEF LvPolled
<1> QED
  BY <1>4, <1>6, <1>7 DEF LvRight

\* Only a page that is live, fed by the stream, has a generator.
LEMMA StreamIsLive ==
    ASSUME LvTypes, LvRight, gen # NoStream \/ sent # <<>>
    PROVE  page = "live" \/ (~ByStream /\ ~ByPolls)
  BY DEF LvTypes, LvRight, LvStreamed, LvPolled, LvAround, Pages

\* The events and what is left in the buffer.
LEMMA RestContinues ==
    ASSUME LvTypes, LvBuffered, Continue(shown, sent, gen.cursor)
    PROVE  /\ sent \o Data(Since(gen.cursor)) \in Seq(Seq(Nat))
           /\ Continue(shown, sent \o Data(Since(gen.cursor)), logged)
           /\ gen.cursor + Len(Since(gen.cursor)) = logged
<1>1. /\ logged \in Nat /\ buffer = Upto(logged) /\ gen.cursor \in Nat /\ gen.cursor <= Len(buffer)
      /\ sent \in Seq(Seq(Nat)) /\ shown \in Seq(Nat)
  BY DEF LvTypes, LvBuffered
<1>2. gen.cursor <= logged
  BY <1>1, UptoIs
<1>3. /\ Since(gen.cursor) = Between(gen.cursor, logged) /\ Since(gen.cursor) \in Seq(Nat)
      /\ Len(Since(gen.cursor)) = logged - gen.cursor /\ (Since(gen.cursor) = <<>> <=> gen.cursor = logged)
  BY <1>1, <1>2, SinceOfAll
<1>4. gen.cursor + Len(Since(gen.cursor)) = logged
  BY <1>1, <1>3
<1>5. CASE gen.cursor = logged
  <2>1. sent \o Data(Since(gen.cursor)) = sent
    BY <1>1, <1>3, <1>5 DEF Data
  <2> QED
    BY <1>1, <1>4, <1>5, <2>1
<1>6. CASE gen.cursor # logged
  <2>1. Data(Since(gen.cursor)) = <<Between(gen.cursor, logged)>> /\ gen.cursor < logged
    BY <1>1, <1>2, <1>3, <1>6 DEF Data
  <2>2. sent \o Data(Since(gen.cursor)) \in Seq(Seq(Nat))
    BY <1>1, <1>3, DataIs
  <2> QED
    BY <1>1, <1>4, <2>1, <2>2, MoreContinues
<1> QED
  BY <1>5, <1>6

LEMMA StreamRight == LvTypes /\ LvRight /\ Stream => LvRight'
<1> SUFFICES ASSUME LvTypes, LvRight, Stream PROVE LvRight'
  OBVIOUS
<1>1. /\ gen # NoStream /\ UNCHANGED <<logged, buffer, row, polls, page, shown, nextOffset, setting>>
  BY DEF Stream, StreamRead, StreamStatus, StreamDrain, NoStream, server, browser, bounds
<1>2. LvBuffered'
  BY <1>1 DEF LvRight, LvBuffered
<1>3. LvPolled'
  BY <1>1 DEF LvRight, LvPolled, ByPolls
<1>4. LvStreamed'
  <2> SUFFICES ASSUME ByStream' PROVE LvStreamed'
    BY DEF LvStreamed
  <2>1. ByStream /\ page = "live" /\ polls = {} /\ LvFollows
    BY <1>1, StreamIsLive DEF LvRight, LvStreamed, ByStream
  <2>2. LvAround' /\ polls' = {} /\ page' = "live" /\ shown' = Upto(Len(shown'))
    BY <1>1, <2>1 DEF LvAround, LvFollows
  <2>3. Continue(shown, sent, gen.cursor) /\ (gen.step = "drain" => row.terminal)
    BY <1>1, <2>1 DEF LvFollows
  <2>4. /\ sent \o Data(Since(gen.cursor)) \in Seq(Seq(Nat))
        /\ Continue(shown, sent \o Data(Since(gen.cursor)), logged)
        /\ gen.cursor + Len(Since(gen.cursor)) = logged
    BY <2>3, RestContinues DEF LvRight
  <2>5. LvFollows'
    <3>1. CASE StreamRead
      <4>1. /\ sent' = sent \o Data(Since(gen.cursor))
            /\ gen' = [step |-> "status", cursor |-> logged]
        BY <2>4, <3>1 DEF StreamRead
      <4>2. gen'.step = "status" /\ gen'.cursor = logged /\ gen' # NoStream
        BY <4>1 DEF NoStream
      <4> QED
        BY <1>1, <2>2, <2>4, <4>1, <4>2 DEF LvFollows
    <3>2. CASE StreamStatus
      <4>1. sent' = sent /\ gen' = [gen EXCEPT !.step = IF row.terminal THEN "drain" ELSE "read"]
        BY <3>2 DEF StreamStatus
      <4>2. gen'.cursor = gen.cursor /\ gen' # NoStream /\ (gen'.step = "drain" => row.terminal)
        BY <4>1 DEF NoStream, LvTypes
      <4> QED
        BY <1>1, <2>2, <2>3, <4>1, <4>2 DEF LvFollows
    <3>3. CASE StreamDrain
      <4>1. /\ gen.step = "drain" /\ sent' = sent \o Data(Since(gen.cursor)) \o <<Done>> /\ gen' = NoStream
        BY <3>3 DEF StreamDrain
      <4>2. gen'.step # "drain" /\ row'.terminal
        BY <1>1, <2>3, <4>1 DEF NoStream
      <4>3. \E events \in Seq(Seq(Nat)) : sent' = events \o <<Done>> /\ Continue(shown', events, logged')
        BY <1>1, <2>4, <4>1
      <4> QED
        BY <2>2, <4>1, <4>2, <4>3 DEF LvFollows
    <3> QED
      BY <3>1, <3>2, <3>3 DEF Stream
  <2> QED
    BY <2>2, <2>5 DEF LvStreamed
<1> QED
  BY <1>2, <1>3, <1>4 DEF LvRight

LEMMA BrowserRight == LvTypes /\ LvRight /\ BrowserReads => LvRight'
<1> SUFFICES ASSUME LvTypes, LvRight, BrowserReads PROVE LvRight'
  OBVIOUS
<1>1. /\ sent # <<>> /\ sent' = Tail(sent) /\ UNCHANGED <<logged, buffer, row, gen, polls, setting>>
      /\ IF Head(sent) = Done
         THEN page' = "ended" /\ UNCHANGED <<shown, nextOffset>>
         ELSE shown' = shown \o Head(sent) /\ UNCHANGED page
  BY DEF BrowserReads, server, bounds
<1>2. LvBuffered'
  BY <1>1 DEF LvRight, LvBuffered
<1>3. LvPolled'
  BY <1>1 DEF LvRight, LvPolled, ByPolls
<1>4. LvStreamed'
  <2> SUFFICES ASSUME ByStream' PROVE LvStreamed'
    BY DEF LvStreamed
  <2>1. ByStream /\ page = "live" /\ polls = {} /\ LvFollows
    BY <1>1, StreamIsLive DEF LvRight, LvStreamed, ByStream
  <2>2. shown \in Seq(Nat) /\ sent \in Seq(Seq(Nat)) /\ shown = Upto(Len(shown)) /\ logged \in Nat
    BY <2>1 DEF LvTypes, LvFollows
  <2>3. CASE gen # NoStream
    <3>1. Continue(shown, sent, gen.cursor)
      BY <2>1, <2>3 DEF LvFollows
    <3>2. /\ Head(sent) # Done /\ shown \o Head(sent) = Upto(Len(shown \o Head(sent)))
          /\ Continue(shown \o Head(sent), Tail(sent), gen.cursor)
      BY <1>1, <2>2, <3>1, ReadingContinues
    <3>3. shown' = shown \o Head(sent) /\ page' = "live"
      BY <1>1, <2>1, <3>2
    <3>4. LvFollows'
      BY <1>1, <2>1, <2>3, <3>2, <3>3 DEF LvFollows
    <3> QED
      BY <1>1, <2>1, <3>3, <3>4 DEF LvStreamed, LvAround
  <2>4. CASE gen = NoStream
    <3>1. PICK events \in Seq(Seq(Nat)) : sent = events \o <<Done>> /\ Continue(shown, events, logged)
      BY <2>1, <2>4 DEF LvFollows
    <3>2. row.terminal
      BY <2>1, <2>4 DEF LvFollows
    <3>3. CASE events = <<>>
      <4>1. Head(sent) = Done /\ Tail(sent) = <<>>
        BY <3>1, <3>3, EventsAndDone
      <4>2. Len(shown) = logged
        BY <2>2, <3>1, <3>3 DEF Continue, EndOf
      <4>3. page' = "ended" /\ shown' = shown /\ sent' = <<>>
        BY <1>1, <4>1
      <4>4. LvWhole'
        BY <1>1, <2>2, <3>2, <4>2, <4>3 DEF LvWhole
      <4> QED
        BY <1>1, <2>1, <2>4, <4>3, <4>4 DEF LvStreamed, LvAround
    <3>4. CASE events # <<>>
      <4>1. Head(sent) = Head(events) /\ Tail(sent) = Tail(events) \o <<Done>> /\ Tail(events) \in Seq(Seq(Nat))
        BY <3>1, <3>4, EventsAndDone
      <4>2. /\ Head(events) # Done /\ shown \o Head(events) = Upto(Len(shown \o Head(events)))
            /\ Continue(shown \o Head(events), Tail(events), logged)
        BY <2>2, <3>1, <3>4, ReadingContinues
      <4>3. shown' = shown \o Head(events) /\ page' = "live" /\ sent' = Tail(events) \o <<Done>>
        BY <1>1, <2>1, <4>1, <4>2
      <4>4. \E more \in Seq(Seq(Nat)) : sent' = more \o <<Done>> /\ Continue(shown', more, logged')
        BY <1>1, <4>1, <4>2, <4>3
      <4>5. LvFollows'
        BY <1>1, <2>4, <3>2, <4>2, <4>3, <4>4 DEF LvFollows, NoStream
      <4> QED
        BY <1>1, <2>1, <4>3, <4>5 DEF LvStreamed, LvAround
    <3> QED
      BY <3>3, <3>4
  <2> QED
    BY <2>3, <2>4
<1> QED
  BY <1>2, <1>3, <1>4 DEF LvRight

LEMMA PollRight == LvTypes /\ LvRight /\ PollAnswered => LvRight'
<1> SUFFICES ASSUME LvTypes, LvRight, PollAnswered PROVE LvRight'
  OBVIOUS
<1>1. /\ page = "live" /\ setting.poll
      /\ UNCHANGED <<logged, buffer, row, gen, sent, page, shown, nextOffset, setting>>
  BY DEF PollAnswered, server, stream, browser, bounds
<1>2. PICK terminal \in {FALSE, row.terminal} :
         polls' = polls \cup
           {[lines |-> Since(nextOffset), next |-> nextOffset + Len(Since(nextOffset)),
             log |-> IF terminal /\ Since(nextOffset) = <<>> THEN row.log ELSE <<>>, terminal |-> terminal]}
  BY DEF PollAnswered
<1>3. LvBuffered'
  BY <1>1 DEF LvRight, LvBuffered
<1>4. LvStreamed'
  BY <1>1 DEF LvStreamed, ByStream
<1>5. LvPolled'
  <2> SUFFICES ASSUME ByPolls' PROVE LvPolled'
    BY DEF LvPolled
  <2>1. /\ LvAround /\ gen = NoStream /\ sent = <<>> /\ shown = Upto(nextOffset) /\ nextOffset <= logged
        /\ \A a \in polls : LvAnswer(a)
    BY <1>1 DEF LvRight, LvPolled, ByPolls
  <2>2. logged \in Nat /\ nextOffset \in Nat /\ buffer = Upto(logged) /\ (row.terminal => row.log = Upto(logged))
    BY DEF LvTypes, LvRight, LvBuffered
  <2>3. Since(nextOffset) = Between(nextOffset, logged) /\ nextOffset + Len(Since(nextOffset)) = logged
    <3>1. Since(nextOffset) = Between(nextOffset, logged) /\ Len(Since(nextOffset)) = logged - nextOffset
      BY <2>1, <2>2, SinceOfAll
    <3> QED
      BY <2>2, <3>1
  <2>4. ASSUME NEW a \in polls' PROVE LvAnswer(a)
    <3>1. CASE a \in polls
      BY <2>1, <3>1
    <3>2. CASE a \notin polls
      <4>1. /\ a.lines = Between(nextOffset, logged) /\ a.next = logged /\ a.terminal = terminal
            /\ a.log = IF terminal /\ Since(nextOffset) = <<>> THEN row.log ELSE <<>>
        BY <1>2, <2>3, <3>2
      <4>2. terminal => row.terminal
        OBVIOUS
      <4> QED
        BY <2>1, <2>2, <4>1, <4>2 DEF LvAnswer
    <3> QED
      BY <3>1, <3>2
  <2>5. LvAround'
    BY <1>1 DEF LvAround
  <2>6. \A a \in polls' : LvAnswer(a)'
    BY <1>1, <2>4 DEF LvAnswer
  <2> QED
    BY <1>1, <2>1, <2>5, <2>6 DEF LvPolled
<1> QED
  BY <1>3, <1>4, <1>5 DEF LvRight

LEMMA ArrivesRight == LvTypes /\ LvRight /\ PollArrives => LvRight'
<1> SUFFICES ASSUME LvTypes, LvRight, PollArrives PROVE LvRight'
  OBVIOUS
<1>1. PICK a \in polls :
         /\ polls' = polls \ {a}
         /\ IF a.lines # <<>>
            THEN shown' = shown \o a.lines /\ nextOffset' = a.next
            ELSE IF a.terminal /\ a.log # <<>> /\ shown = <<>>
            THEN shown' = a.log /\ nextOffset' = Len(a.log)
            ELSE UNCHANGED <<shown, nextOffset>>
         /\ IF a.terminal THEN page' = "ended" /\ gen' = NoStream /\ sent' = <<>> ELSE UNCHANGED <<page, stream>>
         /\ UNCHANGED <<server, bounds>>
  BY DEF PollArrives
<1>2. UNCHANGED <<logged, buffer, row, setting>>
  BY <1>1 DEF server, bounds
<1>3. LvBuffered'
  BY <1>2 DEF LvRight, LvBuffered
<1>4. LvStreamed'
  BY <1>1, <1>2 DEF LvRight, LvStreamed, ByStream
<1>5. LvPolled'
  <2> SUFFICES ASSUME ByPolls' PROVE LvPolled'
    BY DEF LvPolled
  <2>1. ByPolls
    BY <1>2 DEF ByPolls
  <2>2. page = "live" /\ gen = NoStream /\ sent = <<>>
    BY <1>1, <2>1 DEF LvTypes, LvRight, LvPolled, LvAround, Pages
  <2>3. shown = Upto(nextOffset) /\ nextOffset <= logged /\ LvAnswer(a)
    BY <1>1, <2>1, <2>2 DEF LvRight, LvPolled
  <2>4. /\ logged \in Nat /\ nextOffset \in Nat /\ a.next \in Nat /\ nextOffset <= a.next /\ a.next <= logged
        /\ a.lines = Between(nextOffset, a.next)
    BY <2>3 DEF LvTypes, Answers, LvAnswer
  <2>5. polls' = {}
    <3>1. IsFiniteSet(polls) /\ Cardinality(polls) <= MaxPolls /\ MaxPolls <= 1 /\ Cardinality(polls) \in Nat
      BY <2>1, FS_CardinalityType DEF LvTypes, ByPolls
    <3>2. IsFiniteSet(polls \ {a}) /\ Cardinality(polls \ {a}) = Cardinality(polls) - 1
      BY <3>1, FS_RemoveElement
    <3>3. Cardinality(polls \ {a}) = 0
      BY <3>1, <3>2, FS_CardinalityType, LogViewerAssumption
    <3> QED
      BY <1>1, <3>2, <3>3, FS_EmptySet
  <2>6. shown' = Upto(nextOffset') /\ nextOffset' <= logged /\ (a.terminal => shown' = Upto(logged))
    <3>1. CASE a.lines # <<>>
      <4>1. shown' = Upto(a.next) /\ nextOffset' = a.next
        BY <1>1, <2>3, <2>4, <3>1, UptoExtends
      <4> QED
        BY <2>3, <2>4, <4>1 DEF LvAnswer
    <3>2. CASE a.lines = <<>>
      <4>1. a.next = nextOffset
        <5>1. Between(nextOffset, a.next) = <<>>
          BY <2>4, <3>2
        <5>2. nextOffset \in Nat /\ a.next \in Nat /\ nextOffset <= a.next
          BY <2>4
        <5> QED
          BY <5>1, <5>2, BetweenIs
      <4>2. CASE a.terminal /\ a.log # <<>> /\ shown = <<>>
        <5>1. shown' = Upto(logged) /\ nextOffset' = Len(shown')
          BY <1>1, <2>3, <3>2, <4>2 DEF LvAnswer
        <5> QED
          BY <2>4, <5>1, UptoIs
      <4>3. CASE ~(a.terminal /\ a.log # <<>> /\ shown = <<>>)
        <5>1. shown' = shown /\ nextOffset' = nextOffset
          BY <1>1, <3>2, <4>3
        <5> QED
          BY <2>3, <4>1, <5>1 DEF LvAnswer
      <4> QED
        BY <4>2, <4>3
    <3> QED
      BY <3>1, <3>2
  <2>7. CASE a.terminal
    <3>1. row.terminal /\ page' = "ended" /\ gen' = NoStream /\ sent' = <<>>
      BY <1>1, <2>3, <2>7 DEF LvAnswer
    <3>2. LvWhole'
      BY <1>2, <2>6, <2>7, <3>1 DEF LvWhole
    <3> QED
      BY <2>5, <3>1, <3>2 DEF LvPolled, LvAround
  <2>8. CASE ~a.terminal
    <3>1. page' = "live" /\ gen' = NoStream /\ sent' = <<>>
      BY <1>1, <2>2, <2>8 DEF stream
    <3> QED
      BY <1>2, <2>5, <2>6, <3>1 DEF LvPolled, LvAround
  <2> QED
    BY <2>7, <2>8
<1> QED
  BY <1>3, <1>4, <1>5 DEF LvRight

(***************************************************************************)
(* The theorems                                                            *)
(***************************************************************************)

LEMMA LvInitInv == Init => LvInv
<1> SUFFICES ASSUME Init PROVE LvInv
  OBVIOUS
<1>1. /\ logged = 0 /\ buffer = <<>> /\ row = [terminal |-> FALSE, log |-> <<>>] /\ gen = NoStream /\ sent = <<>>
      /\ polls = {} /\ page = "closed" /\ shown = <<>>
  BY DEF Init
<1>2. Upto(0) = <<>>
  BY DEF Upto
<1>3. LvBuffered
  BY <1>1, <1>2 DEF LvBuffered
<1>4. LvAround
  BY <1>1 DEF LvAround
<1>5. LvStreamed /\ LvPolled
  BY <1>1, <1>4 DEF LvStreamed, LvPolled
<1> QED
  BY <1>3, <1>5, LvInitTypes DEF LvInv, LvRight

LEMMA LvNextInv == LvInv /\ [Next]_vars => LvInv'
<1> SUFFICES ASSUME LvInv, [Next]_vars PROVE LvInv'
  OBVIOUS
<1>1. LvTypes /\ LvTypes'
  BY TypesKept DEF LvInv
<1> SUFFICES ASSUME Undisturbed' PROVE LvRight'
  BY <1>1 DEF LvInv
<1>2. /\ logged \in Nat /\ breaks \in Nat /\ restarts \in Nat
      /\ logged' \in Nat /\ breaks' = 0 /\ restarts' = 0 /\ logged' <= Capacity /\ Capacity \in Nat
  BY <1>1, LogViewerAssumption DEF LvTypes, Undisturbed
<1>3. CASE AppendLine
  <2>1. Undisturbed
    BY <1>2, <1>3 DEF AppendLine, bounds, Undisturbed
  <2> QED
    BY <1>1, <1>2, <1>3, <2>1, AppendRight DEF LvInv
<1>4. CASE Finish
  <2>1. Undisturbed
    BY <1>2, <1>4 DEF Finish, bounds, Undisturbed
  <2> QED
    BY <1>1, <1>4, <2>1, FinishRight DEF LvInv
<1>5. CASE Restart \/ Cuts
  <2>1. restarts' = restarts + 1 \/ breaks' = breaks + 1
    BY <1>5 DEF Restart, Cuts, StreamBreaks, StreamTimesOut
  <2> QED
    BY <1>2, <2>1
<1>6. CASE Stream
  <2>1. Undisturbed
    BY <1>2, <1>6 DEF Stream, StreamRead, StreamStatus, StreamDrain, bounds, server, Undisturbed
  <2> QED
    BY <1>1, <1>6, <2>1, StreamRight DEF LvInv
<1>7. CASE Page
  <2>1. Undisturbed
    BY <1>2, <1>7 DEF Page, Open, Reload, Load, BrowserReads, PollAnswered, PollArrives, bounds, server, Undisturbed
  <2> QED
    BY <1>1, <1>7, <2>1, LoadRight, BrowserRight, PollRight, ArrivesRight DEF LvInv, Page
<1>8. CASE UNCHANGED vars
  <2>1. Undisturbed /\ UNCHANGED <<logged, buffer, row, gen, sent, polls, page, shown, nextOffset, setting>>
    BY <1>2, <1>8 DEF vars, server, stream, browser, bounds, Undisturbed
  <2> QED
    BY <2>1 DEF LvInv, LvRight, LvBuffered, LvStreamed, LvPolled, LvAround, LvWhole, LvFollows, LvAnswer, ByStream, ByPolls
<1> QED
  BY <1>3, <1>4, <1>5, <1>6, <1>7, <1>8 DEF Next, Job

\* In every behaviour the invariant holds: the page shows the log as far as one
\* channel has brought it, whatever interleaving of worker, generator, answers and
\* callbacks brought it (routers/jobs.py, static/job-detail.js).
THEOREM Invariance == Spec => []LvInv
  BY LvInitInv, LvNextInv, PTL DEF Spec

\* Every variable of the log viewer keeps its type; in particular the deque of
\* JobLogBuffer (jobs.py) never exceeds its capacity and no cursor its end.
THEOREM TypeCorrect == Spec => []TypeOK
<1>1. LvInv => TypeOK
  <2> SUFFICES ASSUME LvInv PROVE TypeOK
    OBVIOUS
  <2>1. LvTypes
    BY DEF LvInv
  <2>2. buffer \in Lines
    <3>1. /\ buffer = [i \in 1..Len(buffer) |-> buffer[i]] /\ Len(buffer) \in Nat
          /\ \A i \in 1..Len(buffer) : buffer[i] \in 1..MaxLines
      BY <2>1 DEF LvTypes
    <3>2. buffer \in [1..Len(buffer) -> 1..MaxLines]
      BY <3>1
    <3>3. Len(buffer) \in 0..MaxLines
      BY <2>1, <3>1, LogViewerAssumption DEF LvTypes
    <3> QED
      BY <3>2, <3>3 DEF Lines
  <2> QED
    BY <2>1, <2>2 DEF LvTypes, TypeOK
<1> QED
  BY <1>1, Invariance, PTL

\* With one channel, nothing cut and the buffer not full, the screen never shows a
\* line twice or out of its turn, and an ended page shows the whole log, however
\* many lines there are (routers/jobs.py 107-164, job-detail.js).
THEOREM PageRight == Spec => []PageIsTheLog
<1>1. LvInv => PageIsTheLog
  <2> SUFFICES ASSUME LvInv, Undisturbed, OneChannel
               PROVE  /\ \A i, k \in DOMAIN shown : i < k => shown[i] < shown[k]
                      /\ page = "ended" => shown = Upto(logged)
    BY DEF PageIsTheLog, ShownInOrder, EndedShowsAll
  <2>1. LvTypes /\ LvRight /\ (ByStream \/ ByPolls)
    BY DEF LvInv, OneChannel, ByStream, ByPolls
  <2>2. LvAround
    BY <2>1 DEF LvRight, LvStreamed, LvPolled
  <2>3. \E n \in Nat : shown = Upto(n)
    <3>1. CASE page = "closed"
      <4>1. shown = <<>> /\ Upto(0) = <<>>
        BY <2>2, <3>1 DEF LvAround, Upto
      <4> QED
        BY <4>1
    <3>2. CASE page \in {"static", "ended"}
      BY <2>1, <2>2, <3>2 DEF LvAround, LvWhole, LvTypes
    <3>3. CASE page = "live"
      <4>1. shown = Upto(Len(shown)) \/ shown = Upto(nextOffset)
        BY <2>1, <3>3 DEF LvRight, LvStreamed, LvPolled, LvFollows
      <4> QED
        BY <2>1, <4>1 DEF LvTypes
    <3> QED
      BY <2>1, <3>1, <3>2, <3>3 DEF LvTypes, Pages
  <2>4. PICK n \in Nat : shown = Upto(n)
    BY <2>3
  <2>5. DOMAIN shown = 1..n /\ \A i \in 1..n : shown[i] = i
    BY <2>4 DEF Upto
  <2> QED
    BY <2>2, <2>5 DEF LvAround, LvWhole
<1> QED
  BY <1>1, Invariance, PTL

\* While the buffer is not full a client that follows the log is handed every line
\* that is added after its offset (jobs.py 63-67).
THEOREM FollowerRight == Spec => FollowerSeesNewLine
<1>1. LvInv /\ [Next]_vars => [logged' # logged /\ logged' <= Capacity /\ gen # NoStream => Since(gen.cursor)' # <<>>]_vars
  <2> SUFFICES ASSUME LvInv, Next, logged' # logged, logged' <= Capacity, gen # NoStream PROVE Since(gen.cursor)' # <<>>
    BY DEF vars
  <2>1. AppendLine
    BY DEF Next, Job, Stream, Cuts, Page, Finish, Restart, StreamRead, StreamStatus, StreamDrain, StreamBreaks,
           StreamTimesOut, Open, Reload, Load, BrowserReads, PollAnswered, PollArrives, server
  <2>2. LvTypes
    BY DEF LvInv
  <2>3. /\ buffer \in Seq(Nat) /\ Len(buffer) <= logged /\ gen.cursor \in Nat /\ gen.cursor <= Len(buffer)
        /\ logged \in Nat /\ Capacity \in Nat
    BY <2>2, LogViewerAssumption DEF LvTypes
  <2>4. logged' = logged + 1 /\ gen' = gen /\ buffer' = Append(buffer, logged')
    BY <2>1, <2>3 DEF AppendLine, stream
  <2>5. buffer' \in Seq(Nat) /\ Len(buffer') = Len(buffer) + 1
    BY <2>3, <2>4
  <2>6. Since(gen.cursor)' = SubSeq(buffer', gen.cursor + 1, Len(buffer'))
    BY <2>4 DEF Since
  <2>7. Len(SubSeq(buffer', gen.cursor + 1, Len(buffer'))) = Len(buffer') - gen.cursor
    <3>1. gen.cursor <= Len(buffer')
      BY <2>3, <2>5
    <3> QED
      BY <2>3, <2>5, <3>1, RestIs
  <2>8. Len(buffer') - gen.cursor > 0
    <3>1. Len(buffer) \in Nat
      BY <2>3
    <3> QED
      BY <2>3, <2>5, <3>1
  <2>9. PICK rest : rest = SubSeq(buffer', gen.cursor + 1, Len(buffer'))
    OBVIOUS
  <2>10. Len(rest) > 0
    BY <2>7, <2>8, <2>9
  <2>11. rest # <<>>
    BY <2>10
  <2> QED
    BY <2>6, <2>9, <2>11, Zenon
<1> QED
  BY <1>1, Invariance, PTL DEF Spec, FollowerSeesNewLine
==============================================================================
