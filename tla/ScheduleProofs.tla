---------------------------- MODULE ScheduleProofs ----------------------------
(***************************************************************************)
(* Theorems about BackupScheduler and ScanSchedules, for any hours, weeks, *)
(* months, schedules and bounds.  Each has two pieces of calendar          *)
(* arithmetic, one that says when a schedule is due and one that says when *)
(* it will be; they are shown to name the same instants, so that the time  *)
(* the page shows is the time of the run.  On that rests that no target is *)
(* run twice, and none is left out, whoever stops, fails or interferes.    *)
(* Last, MCPanelParts: the parts side by side keep what each of them does. *)
(***************************************************************************)
EXTENDS MCPanelParts, HostPartsProofs, RowPartsProofs, BackupScheduler

(***************************************************************************)
(* Arithmetic: days and hours, least and greatest elements                 *)
(***************************************************************************)

LEMMA DivMod ==
    ASSUME NEW H \in Nat \ {0}, NEW d \in Int, NEW h \in 0..(H - 1)
    PROVE  (d * H + h) \div H = d /\ (d * H + h) % H = h
  OBVIOUS

LEMMA DivIs ==
    ASSUME NEW H \in Nat \ {0}, NEW t \in Nat
    PROVE  \E d \in Nat, h \in 0..(H - 1) : d = t \div H /\ h = t % H /\ t = d * H + h
<1>1. t \div H \in Int /\ t % H \in 0..(H - 1) /\ t \div H >= 0
  OBVIOUS
<1>2. PICK d \in Nat, h \in 0..(H - 1) : d = t \div H /\ h = t % H
  BY <1>1
<1>3. t = H * d + h
  BY <1>2, Z3
<1>4. t = d * H + h
  BY <1>3
<1> QED
  BY <1>2, <1>4, Zenon

LEMMA NextDay ==
    ASSUME NEW H \in Nat \ {0}, NEW a \in Int, NEW b \in Int, a < b
    PROVE  a * H + H <= b * H
  OBVIOUS

\* Instants are ordered by day, and by hour within a day.
LEMMA InOrder ==
    ASSUME NEW H \in Nat \ {0}, NEW d \in Int, NEW e \in Int, NEW h \in 0..(H - 1), NEW k \in 0..(H - 1)
    PROVE  /\ d * H + h < e * H + k <=> d < e \/ (d = e /\ h < k)
           /\ d * H + h = e * H + k <=> d = e /\ h = k
<1>2. d * H \in Int /\ e * H \in Int /\ H \in Nat /\ h \in 0..(H - 1) /\ k \in 0..(H - 1)
  OBVIOUS
<1>3. CASE d < e
  <2>1. d * H + H <= e * H
    BY <1>3, NextDay
  <2>2. d * H + h < e * H + k
    BY <1>2, <2>1
  <2> QED
    BY <1>2, <1>3, <2>2
<1>4. CASE e < d
  <2>1. e * H + H <= d * H
    BY <1>4, NextDay
  <2>2. e * H + k < d * H + h
    BY <1>2, <2>1
  <2> QED
    BY <1>2, <1>4, <2>2
<1>5. CASE d = e
  BY <1>2, <1>5
<1> QED
  BY <1>3, <1>4, <1>5

LEMMA MinIs ==
    ASSUME NEW T, T \subseteq Nat, T # {}
    PROVE  Min(T) \in T /\ \A y \in T : Min(T) <= y
<1>1. PICK x \in T : \A y \in T : x <= y
  BY Least
<1> QED
  BY <1>1 DEF Min

\* A bounded one has a greatest.
LEMMA MaxIs ==
    ASSUME NEW T, T \subseteq Nat, T # {}, NEW b \in Nat, \A y \in T : y <= b
    PROVE  Max(T) \in T /\ \A y \in T : y <= Max(T)
<1> DEFINE R == {b - y : y \in T}
<1>1. R \subseteq Nat /\ R # {}
  <2>1. \A y \in T : b - y \in Nat
    OBVIOUS
  <2> QED
    BY <2>1
<1>2. PICK r \in R : \A q \in R : r <= q
  BY <1>1, Least
<1>3. PICK x \in T : r = b - x
  BY <1>2
<1>4. ASSUME NEW y \in T PROVE x >= y
  <2>1. b - x <= b - y
    BY <1>2, <1>3
  <2>2. x \in Nat /\ y \in Nat
    OBVIOUS
  <2> QED
    BY <2>1, <2>2
<1>5. Max(T) \in T /\ \A y \in T : Max(T) >= y
  BY <1>4 DEF Max
<1> QED
  BY <1>5

(***************************************************************************)
(* Days and instants: H hours a day, W days a week, months of L days or    *)
(* more that begin at the days M                                           *)
(***************************************************************************)

\* How many days are left until a day of the week.
Mod(a, b) == a % b

LEMMA ModIs ==
    ASSUME NEW W \in Nat \ {0}
    PROVE  /\ \A d \in Int, h \in 0..(W - 1) : Mod(d * W + h, W) = h
           /\ \A t \in Nat : \E d \in Nat, h \in 0..(W - 1) : h = Mod(t, W) /\ t = d * W + h
<1>1. \A d \in Int, h \in 0..(W - 1) : Mod(d * W + h, W) = h
  BY DivMod DEF Mod
<1>2. ASSUME NEW t \in Nat
      PROVE  \E d \in Nat, h \in 0..(W - 1) : h = Mod(t, W) /\ t = d * W + h
  <2>1. PICK d \in Nat, h \in 0..(W - 1) : h = t % W /\ t = d * W + h
    BY DivIs
  <2>2. h = Mod(t, W)
    BY <2>1, Zenon DEF Mod
  <2> QED
    BY <2>1, <2>2, Zenon
<1> QED
  BY <1>1, <1>2

LEMMA DaysLeft ==
    ASSUME NEW W \in Nat \ {0}, NEW w \in 0..(W - 1), NEW d \in Nat
    PROVE  Mod(w - d, W) = IF Mod(d, W) <= w THEN w - Mod(d, W) ELSE w - Mod(d, W) + W
<1>1. PICK q \in Nat, r \in 0..(W - 1) : r = Mod(d, W) /\ d = q * W + r
  BY ModIs
<1>2. d = q * W + r
  BY <1>1
<1>3. q * W \in Int /\ (0 - q) * W = 0 - q * W /\ (0 - (q + 1)) * W = 0 - q * W - W
  OBVIOUS
<1>4. CASE r <= w
  <2>1. PICK z \in Int : z = 0 - q
    OBVIOUS
  <2>2. z * W = 0 - q * W
    BY <1>3, <2>1
  <2>3. PICK k \in 0..(W - 1) : k = w - r
    BY <1>4
  <2>4. z * W + k = w - d
    BY <1>2, <1>3, <2>2, <2>3
  <2>5. Mod(z * W + k, W) = k
    BY ModIs
  <2> QED
    BY <1>1, <1>4, <2>3, <2>4, <2>5
<1>5. CASE ~(r <= w)
  <2>1. PICK z \in Int : z = 0 - (q + 1)
    OBVIOUS
  <2>2. z * W = 0 - q * W - W
    BY <1>3, <2>1
  <2>3. PICK k \in 0..(W - 1) : k = w - r + W
    BY <1>5
  <2>4. z * W + k = w - d
    BY <1>2, <1>3, <2>2, <2>3
  <2>5. Mod(z * W + k, W) = k
    BY ModIs
  <2> QED
    BY <1>1, <1>5, <2>3, <2>4, <2>5
<1> QED
  BY <1>4, <1>5

LEMMA DaysLeftIs ==
    ASSUME NEW W \in Nat \ {0}, NEW w \in 0..(W - 1), NEW d \in Nat
    PROVE  Mod(w - Mod(d, W), W) = Mod(w - d, W)
<1>1. PICK r \in 0..(W - 1) : r = Mod(d, W)
  BY ModIs
<1>2. r \in Nat /\ Mod(r, W) = r
  <2>1. PICK z \in Int : z = 0
    OBVIOUS
  <2>2. Mod(z * W + r, W) = r
    BY ModIs
  <2>3. z * W + r = r
    BY <2>1
  <2> QED
    BY <2>2, <2>3
<1>3. Mod(w - r, W) = IF r <= w THEN w - r ELSE w - r + W
  BY <1>2, DaysLeft
<1>4. Mod(w - d, W) = IF r <= w THEN w - r ELSE w - r + W
  BY <1>1, DaysLeft
<1> QED
  BY <1>1, <1>3, <1>4

\* The next day with a given name, today or later, and a week after it.
IsWeekday(W, d, w, on) ==
    /\ on \in Nat /\ d <= on /\ on < d + W
    /\ Mod(on, W) = w /\ Mod(on + W, W) = w
    /\ \A e \in Nat : d <= e /\ e < on + W /\ Mod(e, W) = w => e = on

LEMMA NextWeekday ==
    ASSUME NEW W \in Nat \ {0}, NEW d \in Nat, NEW w \in 0..(W - 1)
    PROVE  IsWeekday(W, d, w, d + Mod(w - d, W))
<1> DEFINE on == d + Mod(w - d, W)
<1>1. PICK q \in Nat, r \in 0..(W - 1) : r = Mod(d, W) /\ d = q * W + r
  BY ModIs
<1>2. ASSUME NEW p \in Int, NEW k \in 0..(W - 1)
      PROVE  Mod(p * W + k, W) = k
  BY ModIs
<1>3. q * W \in Int /\ (q + 1) * W = q * W + W
  OBVIOUS
<1>4. Mod(w - d, W) = IF r <= w THEN w - r ELSE w - r + W
  BY <1>1, DaysLeft
<1>5. PICK p \in Nat : on = p * W + w /\ (r <= w => p = q) /\ (w < r => p = q + 1)
  <2>1. CASE r <= w
    <3>1. on = q * W + w
      BY <1>1, <1>3, <1>4, <2>1
    <3> QED
      BY <2>1, <3>1
  <2>2. CASE w < r
    <3>1. on = d + (w - r + W)
      BY <1>4, <2>2
    <3>2. on = (q + 1) * W + w
      BY <1>1, <1>3, <3>1
    <3> QED
      BY <2>2, <3>2
  <2> QED
    BY <2>1, <2>2
<1>6. on \in Nat /\ d <= on /\ on < d + W
  BY <1>4
<1> HIDE DEF on
<1>7. on + W = (p + 1) * W + w
  <2>1. (p + 1) * W + w = p * W + W + w
    OBVIOUS
  <2> QED
    BY <1>5, <2>1
<1>8. Mod(on, W) = w /\ Mod(on + W, W) = w
  <2>1. PICK z \in Int : z = p + 1
    OBVIOUS
  <2>2. Mod(z * W + w, W) = w
    BY <1>2, Zenon
  <2>3. p \in Int
    OBVIOUS
  <2>4. Mod(p * W + w, W) = w
    BY <1>2, <2>3, Zenon
  <2> QED
    BY <1>5, <1>7, <2>1, <2>2, <2>4
<1>9. ASSUME NEW e \in Nat, d <= e, e < on + W, Mod(e, W) = w
      PROVE  e = on
  <2>0. PICK f \in Nat, k \in 0..(W - 1) : k = Mod(e, W) /\ e = f * W + k
    BY ModIs
  <2>1. e = f * W + w
    BY <1>9, <2>0
  <2>2. f < p + 1
    <3>1. f * W + w < (p + 1) * W + w
      BY <1>7, <1>9, <2>1
    <3>2. f < p + 1 \/ (f = p + 1 /\ w < w)
      BY <3>1, InOrder
    <3> QED
      BY <3>2
  <2>3. q < f \/ (q = f /\ r <= w)
    <3>1. q * W + r < f * W + w \/ q * W + r = f * W + w
      BY <1>1, <1>9, <2>1
    <3>2. q < f \/ (q = f /\ r < w) \/ (q = f /\ r = w)
      BY <3>1, InOrder
    <3> QED
      BY <3>2
  <2>4. f = p
    BY <1>5, <2>2, <2>3
  <2> QED
    BY <1>5, <2>1, <2>4
<1> QED
  BY <1>6, <1>8, <1>9 DEF IsWeekday, on

\* The month of a day.
First(M, d) == Max({m \in M : m <= d})

LEMMA FirstIs ==
    ASSUME NEW M, M \subseteq Nat, 0 \in M, NEW d \in Nat
    PROVE  /\ First(M, d) \in M /\ First(M, d) \in Nat /\ First(M, d) <= d
           /\ \A m \in M : m <= d => m <= First(M, d)
<1> DEFINE T == {m \in M : m <= d}
<1>1. T \subseteq Nat /\ 0 \in T /\ \A m \in T : m <= d
  <2>1. 0 <= d
    OBVIOUS
  <2> QED
    BY <2>1
<1>2. Max(T) \in T /\ \A m \in T : m <= Max(T)
  BY <1>1, MaxIs
<1>3. First(M, d) = Max(T)
  BY DEF First
<1> QED
  BY <1>1, <1>2, <1>3

\* That day of this month, and of the next.
AreMonthdays(M, d, T, on, next) ==
    /\ on \in Nat /\ next \in Nat /\ d < next /\ on < next
    /\ on - First(M, on) + 1 = T /\ next - First(M, next) + 1 = T
    /\ \A e \in Nat : d <= e /\ e < next /\ e - First(M, e) + 1 = T => e = on

LEMMA NextMonthday ==
    ASSUME NEW M, M \subseteq Nat, 0 \in M, NEW L \in Nat, \A a, b \in M : a < b => b - a >= L,
           NEW d \in Nat, NEW T \in 1..L,
           NEW m2 \in M, d < m2, \A n \in M : d < n => m2 <= n
    PROVE  AreMonthdays(M, d, T, First(M, d) + T - 1, m2 + T - 1)
<1> DEFINE on == First(M, d) + T - 1
           next == m2 + T - 1
<1> DEFINE m == First(M, d)
<1>1. m \in M /\ m \in Nat /\ m <= d /\ \A n \in M : n <= d => n <= m
  BY FirstIs
<1>2. m2 \in M /\ m2 \in Nat /\ d < m2 /\ \A n \in M : d < n => m2 <= n
  OBVIOUS
<1>0. on = m + T - 1 /\ next = m2 + T - 1
  OBVIOUS
<1> HIDE DEF m, on, next
<1>3. \A n \in M : n \in Nat /\ (m < n => m2 <= n) /\ (m2 < n => m2 + L <= n)
  BY <1>1, <1>2
<1>4. m + L <= m2
  BY <1>1, <1>2
<1>5. ASSUME NEW e \in Nat, NEW a \in M, a <= e, \A n \in M : a < n => e < n
      PROVE  First(M, e) = a
  <2>1. /\ First(M, e) \in M /\ First(M, e) \in Nat /\ First(M, e) <= e
        /\ \A n \in M : n <= e => n <= First(M, e)
    BY FirstIs
  <2>2. a \in Nat /\ a <= First(M, e) /\ ~(a < First(M, e))
    BY <1>5, <2>1
  <2> QED
    BY <2>1, <2>2
<1>6. ASSUME NEW e \in Nat, m <= e, e < m2
      PROVE  e - First(M, e) + 1 = e - m + 1
  <2>1. \A n \in M : m < n => e < n
    BY <1>3, <1>2, <1>6
  <2> QED
    BY <1>1, <1>5, <1>6, <2>1
<1>7. ASSUME NEW e \in Nat, m2 <= e, e < m2 + L
      PROVE  e - First(M, e) + 1 = e - m2 + 1
  <2>1. \A n \in M : m2 < n => e < n
    BY <1>3, <1>2, <1>7
  <2> QED
    BY <1>2, <1>5, <1>7, <2>1
<1>8. on - First(M, on) + 1 = T
  <2>1. on \in Nat /\ m <= on /\ on < m2
    BY <1>0, <1>1, <1>2, <1>4
  <2>2. on - First(M, on) + 1 = on - m + 1
    BY <1>6, <2>1
  <2> QED
    BY <1>0, <1>1, <2>2
<1>9. next - First(M, next) + 1 = T
  <2>1. next \in Nat /\ m2 <= next /\ next < m2 + L
    BY <1>0, <1>2
  <2>2. next - First(M, next) + 1 = next - m2 + 1
    BY <1>7, <2>1
  <2> QED
    BY <1>0, <1>2, <2>2
<1>10. ASSUME NEW e \in Nat, d <= e, e < next, e - First(M, e) + 1 = T
       PROVE  e = on
  <2>1. CASE e < m2
    <3>1. e - m + 1 = T
      BY <1>0, <1>1, <1>2, <1>6, <1>10, <2>1
    <3> QED
      BY <1>0, <1>1, <3>1
  <2>2. CASE m2 <= e
    <3>1. e < m2 + L
      BY <1>0, <1>2, <1>10
    <3>2. e - m2 + 1 = T
      BY <1>0, <1>7, <1>10, <2>2, <3>1
    <3> QED
      BY <1>0, <1>2, <1>10, <3>2
  <2> QED
    BY <1>0, <1>2, <2>1, <2>2
<1>11. on \in Nat /\ next \in Nat /\ d < next /\ on < next
  BY <1>0, <1>1, <1>2
<1> QED
  BY <1>8, <1>9, <1>10, <1>11 DEF AreMonthdays, on, next

\* One hour a day, on the days of D: if no other of them lies between today
\* and the later one, the first instant is the candidate or, once that has
\* passed, the later one.
CandidateIsNext(H, hour, D, d, h, on, later) ==
    LET t == d * H + h
        n == (IF on * H + hour > t THEN on ELSE later) * H + hour
    IN  /\ n \in Nat /\ t < n /\ n \in {on * H + hour, later * H + hour}
        /\ \A e \in Nat, k \in 0..(H - 1) :
             e \in D /\ k = hour /\ t < e * H + k => n <= e * H + k

LEMMA NextInstant ==
    ASSUME NEW H \in Nat \ {0}, NEW hour \in 0..(H - 1), NEW D, NEW d \in Nat, NEW h \in 0..(H - 1),
           NEW on \in Nat, NEW later \in Nat, d < later, on < later, on \in D, later \in D,
           \A e \in Nat : d <= e /\ e < later /\ e \in D => e = on
    PROVE  CandidateIsNext(H, hour, D, d, h, on, later)
<1> DEFINE t == d * H + h
           m == IF on * H + hour > t THEN on ELSE later
           n == m * H + hour
<1>1. on * H + hour \in Nat /\ later * H + hour \in Nat /\ t \in Nat
  <2>1. on * H \in Nat /\ later * H \in Nat /\ d * H \in Nat
    OBVIOUS
  <2> QED
    BY <2>1
<1>2. t < later * H + hour /\ on * H + hour < later * H + hour
  BY InOrder
<1>3. n \in Nat /\ t < n /\ n \in {on * H + hour, later * H + hour} /\ m \in Nat /\ m \in {on, later}
  BY <1>1, <1>2
<1>4. ASSUME NEW e \in Nat, e \in D, t < e * H + hour
      PROVE  n <= e * H + hour
  <2>1. d <= e
    <3>1. d < e \/ (d = e /\ h < hour)
      BY <1>4, InOrder
    <3> QED
      BY <3>1
  <2>2. e * H + hour \in Nat
    <3>1. e * H \in Nat
      OBVIOUS
    <3> QED
      BY <3>1
  <2>3. CASE e < later
    <3>1. e = on
      BY <1>4, <2>1, <2>3
    <3>2. m = on
      BY <1>4, <3>1
    <3> QED
      BY <1>1, <3>1, <3>2
  <2>4. CASE e = later
    BY <1>1, <1>2, <1>3, <2>4
  <2>5. CASE later < e
    <3>1. later * H + hour < e * H + hour
      BY <2>5, InOrder
    <3> QED
      BY <1>1, <1>2, <1>3, <2>2, <3>1
  <2> QED
    BY <2>3, <2>4, <2>5
<1> QED
  BY <1>3, <1>4 DEF CandidateIsNext

(***************************************************************************)
(* The calendar of backup schedules                                        *)
(***************************************************************************)

\* An instant that check_schedule_due takes for a target.
TargetOf(s, t) == t \in Passed(s, t)

\* The first instant after t that is one.
IsNext(s, t, n) ==
    n \in Nat /\ t < n /\ TargetOf(s, n) /\ \A x \in Nat : t < x /\ x < n => ~TargetOf(s, x)

LEMMA ScheduleIs ==
    ASSUME NEW s \in Schedules
    PROVE  /\ s.frequency \in Frequencies /\ s.hour \in 0..(Hours - 1) /\ s.weekday \in 0..(Week - 1)
           /\ TargetDay(s) \in 1..LastDay
           /\ TargetHours(s) \subseteq 0..(Hours - 1) /\ s.hour \in TargetHours(s)
           /\ s.frequency # "twice_daily" => TargetHours(s) = {s.hour}
<1>1. /\ s.frequency \in Frequencies /\ s.hour \in 0..(Hours - 1) /\ s.weekday \in 0..(Week - 1)
      /\ s.day \in 1..(LastDay + 1) /\ LastDay \in Nat \ {0} /\ Hours \in Nat \ {0}
  BY BackupSchedulerAssumption DEF Schedules
<1>2. TargetDay(s) \in 1..LastDay
  <2>1. {s.day, LastDay} \subseteq Nat
    BY <1>1
  <2>2. Min({s.day, LastDay}) \in {s.day, LastDay} /\ Min({s.day, LastDay}) <= LastDay
    BY <2>1, MinIs
  <2> QED
    BY <1>1, <2>2 DEF TargetDay
<1>3. (s.hour + Hours \div 2) % Hours \in 0..(Hours - 1)
  <2>1. Hours \div 2 \in Int
    BY <1>1
  <2>2. s.hour + Hours \div 2 \in Int
    BY <1>1, <2>1
  <2> HIDE <1>1
  <2>3. \A k \in Int : k % Hours \in 0..(Hours - 1)
    BY BackupSchedulerAssumption
  <2> QED
    BY <2>2, <2>3
<1> QED
  BY <1>1, <1>2, <1>3 DEF TargetHours

LEMMA DayIs ==
    ASSUME NEW d \in Int, NEW h \in 0..(Hours - 1)
    PROVE  Day(At(d, h)) = d
  BY BackupSchedulerAssumption, DivMod DEF Day, At

LEMMA TargetIs ==
    ASSUME NEW s \in Schedules, NEW d \in Nat, NEW h \in 0..(Hours - 1)
    PROVE  TargetOf(s, At(d, h)) <=> OnDay(s, d) /\ h \in TargetHours(s)
<1>1. Day(At(d, h)) = d /\ Hours \in Nat \ {0}
  BY DayIs, BackupSchedulerAssumption
<1>2. At(d, h) \in 0..At(d, h)
  <2>1. d * Hours \in Nat
    BY <1>1
  <2> QED
    BY <2>1 DEF At
<1>3. ASSUME NEW k \in TargetHours(s), At(d, h) = At(d, k)
      PROVE  h = k
  <2>1. k \in 0..(Hours - 1)
    BY ScheduleIs
  <2> QED
    BY <1>1, <1>3, <2>1, InOrder DEF At
<1> QED
  BY <1>1, <1>2, <1>3 DEF TargetOf, Passed

\* A schedule with one hour, and no day of its own between today and the later one.
LEMMA FromIs ==
    ASSUME NEW s \in Schedules, TargetHours(s) = {s.hour},
           NEW d \in Nat, NEW h \in 0..(Hours - 1), NEW on \in Nat, NEW later \in Nat,
           d < later, on < later, OnDay(s, on), OnDay(s, later),
           \A e \in Nat : d <= e /\ e < later /\ OnDay(s, e) => e = on
    PROVE  IsNext(s, At(d, h), From(At(on, s.hour), At(d, h), At(later, s.hour)))
<1> DEFINE t == At(d, h)
           n == From(At(on, s.hour), t, At(later, s.hour))
           D == {e \in Nat : OnDay(s, e)}
<1>1. s.hour \in 0..(Hours - 1) /\ Hours \in Nat \ {0}
  BY ScheduleIs, BackupSchedulerAssumption
<1>2. n = (IF on * Hours + s.hour > d * Hours + h THEN on ELSE later) * Hours + s.hour
  BY DEF From, At
<1>3. /\ n \in Nat /\ t < n /\ n \in {At(on, s.hour), At(later, s.hour)}
      /\ \A e \in Nat, k \in 0..(Hours - 1) :
           OnDay(s, e) /\ k = s.hour /\ t < e * Hours + k => n <= e * Hours + k
  <2>1. on \in D /\ later \in D /\ \A e \in Nat : d <= e /\ e < later /\ e \in D => e = on
    OBVIOUS
  <2> QED
    <3>1. CandidateIsNext(Hours, s.hour, D, d, h, on, later)
      BY <1>1, <2>1, NextInstant
    <3> QED
      BY <1>2, <3>1 DEF CandidateIsNext, At
<1>4. TargetOf(s, n)
  BY <1>1, <1>3, TargetIs
<1>5. ASSUME NEW x \in Nat, t < x, x < n, TargetOf(s, x)
      PROVE  FALSE
  <2>1. PICK e \in Nat, k \in 0..(Hours - 1) : x = e * Hours + k
    BY <1>1, DivIs
  <2>2. x = At(e, k)
    BY <2>1 DEF At
  <2>3. OnDay(s, e) /\ k = s.hour
    BY <1>5, <2>2, TargetIs
  <2>4. n <= x
    BY <1>3, <1>5, <2>1, <2>3
  <2> QED
    BY <1>3, <1>5, <2>4
<1> HIDE DEF n, t
<1>6. IsNext(s, t, n)
  BY <1>3, <1>4, <1>5 DEF IsNext
<1> QED
  BY <1>6 DEF n, t
\* Two hours a day: the first of today that is left, or the first of tomorrow.
LEMMA TwiceIs ==
    ASSUME NEW s \in Schedules, s.frequency = "twice_daily", NEW d \in Nat, NEW h \in 0..(Hours - 1)
    PROVE  LET today == {x \in {At(d, k) : k \in TargetHours(s)} : x > At(d, h)} IN
           IsNext(s, At(d, h), IF today # {} THEN Min(today) ELSE At(d + 1, Min(TargetHours(s))))
<1> DEFINE t == At(d, h)
           today == {x \in {At(d, k) : k \in TargetHours(s)} : x > t}
           first == Min(TargetHours(s))
           n == IF today # {} THEN Min(today) ELSE At(d + 1, first)
<1>1. Hours \in Nat \ {0} /\ TargetHours(s) \subseteq 0..(Hours - 1) /\ TargetHours(s) # {}
  BY ScheduleIs, BackupSchedulerAssumption
<1>2. first \in TargetHours(s) /\ (\A k \in TargetHours(s) : first <= k) /\ first \in 0..(Hours - 1)
  <2>1. TargetHours(s) \subseteq Nat
    BY <1>1
  <2> QED
    BY <1>1, <2>1, MinIs
<1>3. \A e \in Int, k \in Int : At(e, k) \in Int
  BY <1>1 DEF At
<1>4. \A e \in Nat : OnDay(s, e)
  BY DEF OnDay
<1>5. ASSUME NEW e \in Nat, NEW k \in 0..(Hours - 1)
      PROVE  /\ TargetOf(s, At(e, k)) <=> k \in TargetHours(s)
             /\ At(e, k) \in Nat
  <2>1. e * Hours \in Nat
    BY <1>1
  <2> QED
    BY <1>4, <2>1, TargetIs DEF At
<1>6. ASSUME NEW e \in Nat, NEW f \in Nat, NEW k \in 0..(Hours - 1), NEW l \in 0..(Hours - 1)
      PROVE  /\ At(e, k) < At(f, l) <=> e < f \/ (e = f /\ k < l)
  BY <1>1, InOrder DEF At
<1> HIDE DEF first
<1>7. CASE today # {}
  <2>1. today \subseteq Nat
    BY <1>1, <1>5
  <2>2. n \in today /\ \A x \in today : n <= x
    BY <1>7, <2>1, MinIs
  <2>3. PICK k \in TargetHours(s) : n = At(d, k)
    BY <2>2
  <2>4. n \in Nat /\ t < n /\ TargetOf(s, n)
    BY <1>1, <1>5, <2>1, <2>2, <2>3
  <2>5. ASSUME NEW x \in Nat, t < x, x < n, TargetOf(s, x)
        PROVE  FALSE
    <3>1. PICK e \in Nat, l \in 0..(Hours - 1) : x = At(e, l)
      BY <1>1, DivIs DEF At
    <3>2. l \in TargetHours(s)
      BY <1>5, <2>5, <3>1
    <3>3. e = d
      <4>1. At(d, h) < At(e, l) /\ At(e, l) < At(d, k) /\ k \in 0..(Hours - 1)
        BY <1>1, <2>3, <2>5, <3>1
      <4>2. (d < e \/ (d = e /\ h < l)) /\ (e < d \/ (e = d /\ l < k))
        BY <1>6, <4>1
      <4> QED
        BY <4>2
    <3>4. x \in today
      BY <2>5, <3>1, <3>2, <3>3
    <3>5. n <= x
      BY <2>2, <3>4
    <3> QED
      BY <2>4, <2>5, <3>5
  <2> HIDE DEF n, t
  <2>6. IsNext(s, t, n)
    BY <2>4, <2>5 DEF IsNext
  <2> QED
    BY <2>6 DEF n, t, first
<1>8. CASE today = {}
  <2>1. n = At(d + 1, first)
    BY <1>8
  <2>2. n \in Nat /\ t < n /\ TargetOf(s, n)
    <3>1. d + 1 \in Nat /\ d < d + 1
      OBVIOUS
    <3>2. At(d, h) < At(d + 1, first) /\ At(d + 1, first) \in Nat /\ TargetOf(s, At(d + 1, first))
      BY <1>2, <1>5, <1>6, <3>1
    <3> QED
      BY <2>1, <3>2
  <2>3. ASSUME NEW x \in Nat, t < x, x < n, TargetOf(s, x)
        PROVE  FALSE
    <3>1. PICK e \in Nat, l \in 0..(Hours - 1) : x = At(e, l)
      BY <1>1, DivIs DEF At
    <3>2. l \in TargetHours(s)
      BY <1>5, <2>3, <3>1
    <3>3. (d < e \/ (d = e /\ h < l)) /\ (e < d + 1 \/ (e = d + 1 /\ l < first))
      BY <1>2, <1>6, <2>1, <2>3, <3>1
    <3>4. e = d \/ l < first
      BY <3>3
    <3>5. CASE e = d
      BY <1>8, <2>3, <3>1, <3>2, <3>5
    <3>6. CASE l < first
      BY <1>2, <3>2, <3>6
    <3> QED
      BY <3>4, <3>5, <3>6
  <2> HIDE DEF n, t
  <2>4. IsNext(s, t, n)
    BY <2>2, <2>3 DEF IsNext
  <2> QED
    BY <2>4 DEF n, t, first
<1> QED
  BY <1>7, <1>8

\* get_next_run and check_schedule_due agree, at every instant within the calendar.
LEMMA NextRunIs ==
    ASSUME NEW s \in Schedules, NEW t \in Nat, \E m \in MonthStarts : Day(t) < m
    PROVE  IsNext(s, t, NextRun(s, t))
<1>1. PICK d \in Nat, h \in 0..(Hours - 1) : Day(t) = d /\ t = At(d, h)
  <2>1. Hours \in Nat \ {0}
    BY BackupSchedulerAssumption
  <2>2. PICK d \in Nat, h \in 0..(Hours - 1) : d = t \div Hours /\ t = d * Hours + h
    BY <2>1, DivIs
  <2>3. Day(t) = d /\ t = At(d, h)
    BY <2>2, Zenon DEF Day, At
  <2> QED
    BY <2>3
<1>2. Hours \in Nat \ {0} /\ Week \in Nat \ {0}
  BY BackupSchedulerAssumption
<1>3. /\ s.frequency \in Frequencies /\ s.weekday \in 0..(Week - 1) /\ TargetDay(s) \in 1..LastDay
      /\ s.frequency # "twice_daily" => TargetHours(s) = {s.hour}
  BY ScheduleIs
<1>4. CASE s.frequency = "daily"
  <2>1. NextRun(s, t) = From(At(d, s.hour), t, At(d + 1, s.hour))
    BY <1>1, <1>4 DEF NextRun
  <2>2. \A e \in Nat : OnDay(s, e)
    BY <1>4 DEF OnDay
  <2>3. /\ d + 1 \in Nat /\ d < d + 1 /\ \A e \in Nat : d <= e /\ e < d + 1 => e = d
    OBVIOUS
  <2>4. TargetHours(s) = {s.hour} /\ OnDay(s, d) /\ OnDay(s, d + 1)
    BY <1>3, <1>4, <2>2, <2>3
  <2> QED
    BY <1>1, <2>1, <2>3, <2>4, FromIs
<1>5. CASE s.frequency = "twice_daily"
  BY <1>1, <1>5, TwiceIs DEF NextRun
<1>6. CASE s.frequency = "weekly"
  <2> DEFINE on == d + ((s.weekday - Weekday(d)) % Week)
  <2>1. NextRun(s, t) = From(At(on, s.hour), t, At(on + Week, s.hour))
    BY <1>1, <1>6 DEF NextRun
  <2>2. \A e \in Nat : OnDay(s, e) <=> Weekday(e) = s.weekday
    BY <1>6 DEF OnDay
  <2>3. /\ on \in Nat /\ d <= on /\ on < d + Week
        /\ Weekday(on) = s.weekday /\ Weekday(on + Week) = s.weekday
        /\ \A e \in Nat : d <= e /\ e < on + Week /\ Weekday(e) = s.weekday => e = on
    <3>1. \A e : Weekday(e) = Mod(e, Week)
      BY Zenon DEF Weekday, Mod
    <3>2. on = d + Mod(s.weekday - Mod(d, Week), Week)
      BY Zenon DEF Weekday, Mod
    <3>3. on = d + Mod(s.weekday - d, Week)
      BY <1>2, <1>3, <3>2, DaysLeftIs
    <3> HIDE DEF on
    <3> QED
      <4>1. IsWeekday(Week, d, s.weekday, on)
        BY <1>2, <1>3, <3>3, NextWeekday
      <4> QED
        BY <3>1, <4>1 DEF IsWeekday
  <2> HIDE DEF on
  <2>4. on + Week \in Nat /\ d < on + Week /\ on < on + Week
    BY <1>2, <2>3
  <2>5. TargetHours(s) = {s.hour} /\ OnDay(s, on) /\ OnDay(s, on + Week)
    BY <1>3, <1>6, <2>2, <2>3, <2>4
  <2>6. \A e \in Nat : d <= e /\ e < on + Week /\ OnDay(s, e) => e = on
    BY <2>2, <2>3
  <2> QED
    BY <1>1, <2>1, <2>3, <2>4, <2>5, <2>6, FromIs
<1>7. CASE s.frequency = "monthly"
  <2> DEFINE on == MonthStart(d) + TargetDay(s) - 1
             next == Min({x \in MonthStarts : x > d}) + TargetDay(s) - 1
  <2>1. NextRun(s, t) = From(At(on, s.hour), t, At(next, s.hour))
    BY <1>1, <1>7 DEF NextRun
  <2>2. \A e \in Nat : OnDay(s, e) <=> DayOfMonth(e) = TargetDay(s)
    BY <1>7 DEF OnDay
  <2>3. /\ on \in Nat /\ next \in Nat /\ d < next /\ on < next
        /\ DayOfMonth(on) = TargetDay(s) /\ DayOfMonth(next) = TargetDay(s)
        /\ \A e \in Nat : d <= e /\ e < next /\ DayOfMonth(e) = TargetDay(s) => e = on
    <3>1. PICK m2 : /\ m2 = Min({x \in MonthStarts : x > d})
                   /\ m2 \in MonthStarts /\ d < m2 /\ \A n \in MonthStarts : d < n => m2 <= n
      <4> DEFINE N == {x \in MonthStarts : x > d}
      <4>1. N \subseteq Nat /\ N # {}
        BY <1>1, BackupSchedulerAssumption
      <4>2. Min(N) \in N /\ \A n \in N : Min(N) <= n
        BY <4>1, MinIs
      <4> QED
        BY <4>2
    <3>2. /\ MonthStarts \subseteq Nat /\ 0 \in MonthStarts /\ LastDay \in Nat
          /\ \A a, b \in MonthStarts : a < b => b - a >= LastDay
      BY BackupSchedulerAssumption
    <3>3. \A e : DayOfMonth(e) = e - First(MonthStarts, e) + 1
      BY Zenon DEF MonthStart, First, DayOfMonth
    <3>4. /\ on = First(MonthStarts, d) + TargetDay(s) - 1
          /\ next = m2 + TargetDay(s) - 1
      BY <3>1, Zenon DEF MonthStart, First
    <3> HIDE DEF on, next
    <3>5. AreMonthdays(MonthStarts, d, TargetDay(s), on, next)
      BY <1>3, <3>1, <3>2, <3>4, NextMonthday
    <3> QED
      BY <3>3, <3>5 DEF AreMonthdays
  <2> HIDE DEF on, next
  <2>4. TargetHours(s) = {s.hour} /\ OnDay(s, on) /\ OnDay(s, next)
    BY <1>3, <1>7, <2>2, <2>3
  <2>5. \A e \in Nat : d <= e /\ e < next /\ OnDay(s, e) => e = on
    BY <2>2, <2>3
  <2> QED
    BY <1>1, <2>1, <2>3, <2>4, <2>5, FromIs
<1> QED
  BY <1>3, <1>4, <1>5, <1>6, <1>7 DEF Frequencies

\* The clock stays within the calendar.
LEMMA ClockIs ==
    ASSUME NEW t \in 0..MaxTime
    PROVE  t \in Nat /\ \E m \in MonthStarts : Day(t) < m
<1>1. Hours \in Nat \ {0} /\ MonthStarts \subseteq Nat /\ MaxTime \in Nat
  BY BackupSchedulerAssumption
<1>2. PICK end \in MonthStarts : MaxTime < end * Hours
  BY BackupSchedulerAssumption
<1>3. PICK d \in Nat, h \in 0..(Hours - 1) : d = t \div Hours /\ t = d * Hours + h
  BY <1>1, DivIs
<1>4. d < end
  <2>1. end \in Nat /\ 0 \in 0..(Hours - 1) /\ end * Hours \in Nat
    BY <1>1
  <2>2. d * Hours + h < end * Hours + 0
    BY <1>1, <1>2, <1>3, <2>1
  <2>3. d < end \/ (d = end /\ h < 0)
    BY <1>1, <2>1, <2>2, InOrder
  <2> QED
    BY <2>3
<1>5. Day(t) = d
  BY <1>3, Zenon DEF Day
<1> QED
  BY <1>1, <1>4, <1>5

\* A schedule that is due has a target since its last run.
LEMMA DueIs ==
    ASSUME NEW s \in Schedules, NEW l \in Int, NEW t \in Nat, Due(s, l, t)
    PROVE  \E x \in 0..t : TargetOf(s, x) /\ l < x
<1>1. Passed(s, t) # {} /\ l < Max(Passed(s, t))
  BY DEF Due
<1>2. OnDay(s, Day(t)) /\ Passed(s, t) = {At(Day(t), h) : h \in TargetHours(s)} \cap 0..t
  BY <1>1 DEF Passed
<1>3. Max(Passed(s, t)) \in Passed(s, t)
  <2>1. Passed(s, t) \subseteq Nat /\ \A y \in Passed(s, t) : y <= t
    BY <1>2
  <2> QED
    BY <1>1, <2>1, MaxIs
<1>4. PICK h \in TargetHours(s) : Max(Passed(s, t)) = At(Day(t), h)
  BY <1>2, <1>3
<1>5. Day(t) \in Nat /\ h \in 0..(Hours - 1)
  <2>1. Hours \in Nat \ {0}
    BY BackupSchedulerAssumption
  <2>2. PICK d \in Nat, k \in 0..(Hours - 1) : d = t \div Hours
    BY <2>1, DivIs
  <2>3. Day(t) = d
    BY <2>2, Zenon DEF Day
  <2> QED
    BY <2>3, ScheduleIs
<1>6. TargetOf(s, At(Day(t), h))
  BY <1>2, <1>5, TargetIs
<1> QED
  BY <1>1, <1>2, <1>3, <1>4, <1>6

\* One that is not due at a target has run at that time.
LEMMA NotDueIs ==
    ASSUME NEW s \in Schedules, NEW t \in Nat, NEW l \in {Never} \cup 0..t, TargetOf(s, t), ~Due(s, l, t)
    PROVE  l = t
<1>1. t \in Passed(s, t)
  BY DEF TargetOf
<1>2. Passed(s, t) \subseteq 0..t
  BY DEF Passed
<1>3. Max(Passed(s, t)) = t
  <2>1. Passed(s, t) \subseteq Nat /\ Passed(s, t) # {} /\ \A y \in Passed(s, t) : y <= t
    BY <1>1, <1>2
  <2>2. Max(Passed(s, t)) \in Passed(s, t) /\ \A y \in Passed(s, t) : y <= Max(Passed(s, t))
    BY <2>1, MaxIs
  <2> QED
    BY <1>1, <2>1, <2>2
<1>4. ~(l < t)
  BY <1>1, <1>3 DEF Due
<1> QED
  BY <1>4 DEF Never

\* One that is not due is not due for having run once more.
LEMMA NotDueStays ==
    ASSUME NEW s \in Schedules, NEW t \in Nat, NEW l \in {Never} \cup 0..t, NEW m \in l..t
    PROVE  /\ ~Due(s, l, t) => ~Due(s, m, t)
           /\ ~Due(s, t, t)
<1>1. Passed(s, t) \subseteq 0..t /\ l \in Int /\ m \in Int
  BY DEF Passed, Never
<1>2. CASE Passed(s, t) = {}
  BY <1>2 DEF Due
<1>3. CASE Passed(s, t) # {}
  <2>1. PICK x : x = Max(Passed(s, t)) /\ x \in 0..t
    <3>1. Passed(s, t) \subseteq Nat /\ \A y \in Passed(s, t) : y <= t
      BY <1>1
    <3>2. Max(Passed(s, t)) \in Passed(s, t)
      BY <1>3, <3>1, MaxIs
    <3> QED
      BY <1>1, <3>2
  <2> QED
    BY <1>1, <1>3, <2>1 DEF Due
<1> QED
  BY <1>2, <1>3

(***************************************************************************)
(* The inductive invariant                                                 *)
(***************************************************************************)

BackupJob(n) == [state : JobStates, auto : BOOLEAN, at : 0..n]

\* A job that has made, or may still make, a backup.
Live(i) == jobs[i].state \in {"pending", "running", "done"}

\* Between two scheduled backups lies a target.
OnceEach ==
    faults = 0 =>
        \A i, k \in Ids : i < k /\ jobs[i].auto /\ jobs[k].auto /\ Live(i) /\ Live(k) =>
            \E t \in (jobs[i].at + 1)..jobs[k].at : Target(t)

\* What was asked for by a poll is recorded by that poll, and what is done by the job.
RunsRecorded ==
    \A i \in Ids : jobs[i].auto =>
        /\ jobs[i].state = "done" => jobs[i].at <= last
        /\ faults = 0 /\ poll # "enqueued" /\ Active(i) => jobs[i].at <= last

\* What a poll has read is old, but not older than the polls before it.
SeenIsOld ==
    poll = "read" =>
        /\ seen.last <= last
        /\ polled => seen.on = enabled
RunsSeen ==
    poll = "read" /\ faults = 0 => \A i \in Ids : jobs[i].auto /\ Live(i) => jobs[i].at <= seen.last

\* A job from an earlier tick was there when this one began.
LateOnes == \A i \in Ids : Active(i) /\ jobs[i].at < now => carried

Asked == \E i \in Ids : jobs[i].at = now

\* Why a poll that has found nothing was right.
AskedFor ==
    /\ last = now /\ ~carried => Asked
    /\ poll = "enqueued" => Asked
    /\ polled /\ poll = "idle" /\ enabled /\ Target(now) /\ ~carried /\ ~refused => Asked

NothingLeft == polled /\ poll = "idle" /\ enabled /\ ~refused => ~Due(schedule, last, now)

NextIsShown == last # Never => shown = NextRun(schedule, last)

BsInv ==
    /\ TypeOK
    /\ NextIsShown /\ OnceEach
    /\ RunsRecorded /\ SeenIsOld /\ RunsSeen
    /\ LateOnes /\ AskedFor /\ NothingLeft

(***************************************************************************)
(* The list of jobs                                                        *)
(***************************************************************************)

LEMMA EachJob ==
    ASSUME NEW n \in Nat, NEW js \in Seq(BackupJob(n))
    PROVE  \A i \in 1..Len(js) : js[i] \in BackupJob(n) /\ js[i].at \in 0..n
<1>1. \A i \in 1..Len(js) : js[i] \in BackupJob(n)
  OBVIOUS
<1> QED
  BY <1>1 DEF BackupJob

\* A job changes its state.
LEMMA StateOnly ==
    ASSUME NEW n \in Nat, NEW js \in Seq(BackupJob(n)), NEW i \in 1..Len(js), NEW st \in JobStates
    PROVE  LET new == [js EXCEPT ![i].state = st] IN
           /\ new \in Seq(BackupJob(n)) /\ Len(new) = Len(js)
           /\ \A k \in 1..Len(js) :
                /\ new[k].at = js[k].at /\ new[k].auto = js[k].auto
                /\ new[k].state = IF k = i THEN st ELSE js[k].state
<1> DEFINE new == [js EXCEPT ![i].state = st]
<1>1. \A k \in 1..Len(js) : js[k] \in BackupJob(n)
  OBVIOUS
<1>2. /\ Len(new) = Len(js) /\ DOMAIN new = 1..Len(js)
      /\ new = [k \in 1..Len(js) |-> IF k = i THEN [js[i] EXCEPT !.state = st] ELSE js[k]]
  OBVIOUS
<1>3. [js[i] EXCEPT !.state = st] \in BackupJob(n)
  BY <1>1 DEF BackupJob
<1>4. \A k \in 1..Len(js) : new[k] = IF k = i THEN [js[i] EXCEPT !.state = st] ELSE js[k]
  BY <1>2
<1>5. new \in Seq(BackupJob(n))
  BY <1>1, <1>2, <1>3
<1>6. ASSUME NEW k \in 1..Len(js)
      PROVE  /\ new[k].at = js[k].at /\ new[k].auto = js[k].auto
             /\ new[k].state = IF k = i THEN st ELSE js[k].state
  BY <1>1, <1>4 DEF BackupJob
<1> QED
  BY <1>2, <1>5, <1>6

\* A job is enqueued.
LEMMA EnqueuedLast ==
    ASSUME NEW n \in Nat, NEW js \in Seq(BackupJob(n)), NEW b \in BOOLEAN, NEW st \in JobStates
    PROVE  LET new == Append(js, [state |-> st, auto |-> b, at |-> n])
               end == Len(js) + 1 IN
           /\ new \in Seq(BackupJob(n)) /\ Len(new) = end
           /\ \A k \in 1..end : k = end \/ k \in 1..Len(js)
           /\ \A k \in 1..Len(js) : new[k] = js[k] /\ k # end
           /\ end \in 1..end /\ \A k \in 1..end : ~(end < k)
           /\ new[end].state = st /\ new[end].auto = b /\ new[end].at = n
<1> DEFINE job == [state |-> st, auto |-> b, at |-> n]
<1>1. job \in BackupJob(n)
  BY DEF BackupJob
<1> QED
  BY <1>1

\* The panel dies, and every job that had not ended with it.
LEMMA AllEnd ==
    ASSUME NEW n \in Nat, NEW js \in Seq(BackupJob(n))
    PROVE  LET new == [i \in 1..Len(js) |->
                        [js[i] EXCEPT !.state = IF @ = "running" THEN "failed"
                                                ELSE IF @ = "pending" THEN "forgotten"
                                                ELSE @]] IN
           /\ new \in Seq(BackupJob(n)) /\ Len(new) = Len(js)
           /\ \A k \in 1..Len(js) :
                /\ new[k].at = js[k].at /\ new[k].auto = js[k].auto
                /\ new[k].state \notin {"pending", "running"}
                /\ new[k].state = "done" <=> js[k].state = "done"
<1> DEFINE End(st) == IF st = "running" THEN "failed" ELSE IF st = "pending" THEN "forgotten" ELSE st
           new == [i \in 1..Len(js) |-> [js[i] EXCEPT !.state = End(@)]]
<1>1. \A k \in 1..Len(js) : js[k] \in BackupJob(n)
  OBVIOUS
<1>2. \A k \in 1..Len(js) : [js[k] EXCEPT !.state = End(@)] \in BackupJob(n)
  BY <1>1 DEF BackupJob, JobStates
<1>3. new \in Seq(BackupJob(n)) /\ Len(new) = Len(js)
  BY <1>2
<1>4. ASSUME NEW k \in 1..Len(js)
      PROVE  /\ new[k].at = js[k].at /\ new[k].auto = js[k].auto
             /\ new[k].state \notin {"pending", "running"}
             /\ new[k].state = "done" <=> js[k].state = "done"
  <2>1. new[k] = [js[k] EXCEPT !.state = End(@)]
    OBVIOUS
  <2> QED
    BY <1>1, <2>1 DEF BackupJob
<1> QED
  BY <1>3, <1>4

\* Time passes for the list too.
LEMMA Older ==
    ASSUME NEW n \in Nat, NEW m \in Nat, n <= m, NEW js \in Seq(BackupJob(n))
    PROVE  js \in Seq(BackupJob(m))
<1>1. BackupJob(n) \subseteq BackupJob(m)
  BY DEF BackupJob
<1> QED
  BY <1>1

(***************************************************************************)
(* Every step keeps the invariant                                          *)
(***************************************************************************)

\* What the page shows is an instant.
LEMMA ShownIs ==
    ASSUME BsInv
    PROVE  NextRun(schedule, now) \in Nat
<1>1. schedule \in Schedules /\ now \in 0..MaxTime
  BY DEF BsInv, TypeOK
<1> QED
  BY <1>1, ClockIs, NextRunIs DEF IsNext

\* What holds of the jobs stays when they only change their states, and no
\* ended job is revived.
LEMMA JobsStay ==
    ASSUME BsInv, UNCHANGED <<schedule, now, carried>>, faults' = 0 => faults = 0,
           Len(jobs') = Len(jobs),
           \A k \in Ids : /\ (jobs'[k]).at = jobs[k].at /\ (jobs'[k]).auto = jobs[k].auto
                          /\ Live(k)' => Live(k)
                          /\ Active(k)' => Active(k)
    PROVE  OnceEach' /\ LateOnes' /\ (Asked => Asked')
<1>1. Ids' = Ids
  BY DEF Ids
<1>2. OnceEach'
  <2> SUFFICES ASSUME faults' = 0, NEW i \in Ids, NEW k \in Ids, i < k,
                      (jobs'[i]).auto, (jobs'[k]).auto, Live(i)', Live(k)'
               PROVE  \E t \in ((jobs'[i]).at + 1)..(jobs'[k]).at : Target(t)'
    BY <1>1, Zenon DEF OnceEach
  <2>1. OnceEach
    BY DEF BsInv
  <2>2. \E t \in (jobs[i].at + 1)..jobs[k].at : Target(t)
    BY <2>1 DEF OnceEach
  <2>3. \A t : Target(t)' <=> Target(t)
    BY DEF Target, Passed, OnDay, TargetHours
  <2> QED
    BY <2>2, <2>3
<1>3. LateOnes'
  <2>1. LateOnes
    BY DEF BsInv
  <2> QED
    BY <1>1, <2>1, Zenon DEF LateOnes
<1>4. Asked => Asked'
  BY <1>1 DEF Asked
<1> QED
  BY <1>2, <1>3, <1>4

\* Steps that leave the jobs alone.
LEMMA SameJobs ==
    ASSUME BsInv, UNCHANGED <<schedule, jobs, now, carried>>, faults' = 0 => faults = 0
    PROVE  OnceEach' /\ LateOnes' /\ (Asked => Asked') /\ \A t : Target(t)' <=> Target(t)
<1>1. Ids' = Ids /\ \A k \in Ids : (Live(k)' => Live(k)) /\ (Active(k)' => Active(k))
  BY DEF Ids, Live, Active
<1>2. OnceEach' /\ LateOnes' /\ (Asked => Asked')
  BY <1>1, JobsStay
<1>3. \A t : Target(t)' <=> Target(t)
  BY DEF Target, Passed, OnDay, TargetHours
<1> QED
  BY <1>2, <1>3

LEMMA InitHolds == Init => BsInv
<1> SUFFICES ASSUME Init PROVE BsInv
  OBVIOUS
<1>1. /\ MaxTime \in Nat \ {0} /\ MaxFaults \in Nat /\ MaxCrashes \in Nat /\ MaxToggles \in Nat
      /\ 0 \in 0..MaxTime /\ 1 \in 0..MaxTime
  BY BackupSchedulerAssumption
<1>2. Ids = {}
  BY DEF Init, Ids
<1>3. shown \in Nat
  <2>1. schedule \in Schedules
    BY DEF Init
  <2>2. NextRun(schedule, 0) \in Nat /\ NextRun(schedule, 1) \in Nat
    BY <1>1, <2>1, ClockIs, NextRunIs DEF IsNext
  <2> QED
    BY <2>2 DEF Init
<1>4. TypeOK
  <2>1. jobs \in Seq([state : JobStates, auto : BOOLEAN, at : 0..now])
    BY DEF Init
  <2>2. {enabled, up, polled, carried, refused} \subseteq BOOLEAN
    BY DEF Init
  <2>3. last \in {Never} \cup 0..now /\ seen \in [on : BOOLEAN, last : {Never} \cup 0..now]
    BY DEF Init, Unread
  <2> QED
    BY <1>1, <1>2, <1>3, <2>1, <2>2, <2>3 DEF Init, TypeOK
<1>5. NextIsShown
  BY DEF Init, NextIsShown, Never
<1>6. OnceEach /\ RunsRecorded /\ LateOnes
  BY <1>2 DEF OnceEach, RunsRecorded, LateOnes
<1>7. AskedFor /\ NothingLeft /\ SeenIsOld /\ RunsSeen
  BY DEF Init, AskedFor, NothingLeft, SeenIsOld, RunsSeen, Never
<1> QED
  BY <1>4, <1>5, <1>6, <1>7 DEF BsInv

LEMMA TickStep ==
    ASSUME BsInv, Tick PROVE BsInv'
<1> USE DEF BsInv
<1>1. /\ now \in Nat /\ now' = now + 1 /\ now' \in 0..MaxTime /\ last \in {Never} \cup 0..now
      /\ poll = "idle" /\ ~up' = ~up /\ jobs \in Seq(BackupJob(now))
  BY BackupSchedulerAssumption DEF Tick, TypeOK, rows, BackupJob
<1>2. /\ UNCHANGED <<schedule, enabled, last, shown, up, poll, seen, jobs, faults, crashes, toggles>>
      /\ polled' = FALSE /\ refused' = FALSE /\ carried' = \E i \in Ids : Active(i)
  BY DEF Tick, rows, bounds
<1>3. Ids' = Ids /\ \A i \in Ids : (Active(i)' <=> Active(i)) /\ (Live(i)' <=> Live(i)) /\ (Running(i)' <=> Running(i))
  BY <1>2 DEF Ids, Active, Live, Running
<1>4. TypeOK'
  <2>1. jobs' \in Seq(BackupJob(now'))
    BY <1>1, <1>2, Older
  <2>2. last' \in {Never} \cup 0..now' /\ seen' \in [on : BOOLEAN, last : {Never} \cup 0..now']
    BY <1>1, <1>2 DEF TypeOK
  <2>3. {enabled, up, polled, carried, refused}' \subseteq BOOLEAN
    <3>1. {enabled, up} \subseteq BOOLEAN
      BY DEF TypeOK
    <3> QED
      BY <1>2, <3>1, Zenon
  <2> QED
    BY <1>1, <1>2, <1>3, <2>1, <2>2, <2>3 DEF TypeOK, BackupJob
<1>5. NextIsShown'
  BY <1>2 DEF NextIsShown
<1>6. OnceEach'
  <2>1. \A t : Target(t)' <=> Target(t)
    BY <1>2 DEF Target, Passed, OnDay, TargetHours
  <2> QED
    BY <1>2, <1>3, <2>1 DEF OnceEach
<1>7. RunsRecorded'
  BY <1>2, <1>3 DEF RunsRecorded
<1>8. LateOnes'
  BY <1>2, <1>3 DEF LateOnes
<1>9. AskedFor'
  <2>1. last' # now'
    BY <1>1, <1>2 DEF Never
  <2> QED
    BY <1>1, <1>2, <2>1 DEF AskedFor
<1>10. SeenIsOld' /\ RunsSeen' /\ NothingLeft'
  BY <1>1, <1>2 DEF SeenIsOld, RunsSeen, NothingLeft
<1> QED
  BY <1>4, <1>5, <1>6, <1>7, <1>8, <1>9, <1>10

LEMMA PollReadsStep ==
    ASSUME BsInv, PollReads PROVE BsInv'
<1> USE DEF BsInv
<1>1. /\ UNCHANGED <<schedule, enabled, last, shown, now, carried, up, refused, jobs, faults, crashes, toggles>>
      /\ poll = "idle" /\ poll' = "read" /\ seen' = [on |-> enabled, last |-> last] /\ polled' = TRUE /\ up
  BY DEF PollReads, rows, clock, bounds
<1>2. TypeOK'
  <2>1. seen' \in [on : BOOLEAN, last : {Never} \cup 0..now]
    BY <1>1 DEF TypeOK
  <2>2. {enabled, up, polled, carried, refused}' \subseteq BOOLEAN
    <3>1. {enabled, up, carried, refused} \subseteq BOOLEAN
      BY DEF TypeOK
    <3> QED
      BY <1>1, <3>1, Zenon
  <2> QED
    BY <1>1, <2>1, <2>2 DEF TypeOK, Ids, Active, Running
<1>3. OnceEach' /\ LateOnes' /\ (Asked => Asked') /\ \A t : Target(t)' <=> Target(t)
  BY <1>1, SameJobs
<1>4. NextIsShown' /\ RunsRecorded'
  BY <1>1 DEF NextIsShown, RunsRecorded, Ids, Active
<1>5. SeenIsOld'
  BY <1>1 DEF SeenIsOld, TypeOK, Never
<1>6. RunsSeen'
  BY <1>1 DEF RunsSeen, RunsRecorded, Ids, Live, Active
<1>7. AskedFor' /\ NothingLeft'
  BY <1>1, <1>3 DEF AskedFor, NothingLeft
<1> QED
  BY <1>2, <1>3, <1>4, <1>5, <1>6, <1>7

\* A poll ends without a job.
LEMMA PollEndsStep ==
    ASSUME BsInv, PollEnds, poll # "idle",
           UNCHANGED <<schedule, enabled, now, carried, up, polled, jobs, crashes, toggles>>,
           \/ UNCHANGED <<last, shown>>
           \/ last' = now /\ shown' = NextRun(schedule, now),
           \/ UNCHANGED <<faults, refused>> /\ ((poll = "read" /\ ~SeenDue) \/ last' = now)
           \/ faults' = faults + 1 /\ faults' \in 0..MaxFaults /\ refused' = TRUE,
           poll = "enqueued" \/ UNCHANGED last
    PROVE  BsInv'
<1> USE DEF BsInv
<1>1. /\ poll' = "idle" /\ seen' = Unread
      /\ schedule \in Schedules /\ now \in Nat /\ last \in {Never} \cup 0..now
      /\ seen \in [on : BOOLEAN, last : {Never} \cup 0..now] /\ faults \in Nat
  BY DEF PollEnds, TypeOK
<1>2. TypeOK'
  <2>1. shown' \in Nat /\ last' \in {Never} \cup 0..now
    BY <1>1, ShownIs DEF TypeOK
  <2>2. {enabled, up, polled, carried, refused}' \subseteq BOOLEAN
    <3>1. {enabled, up, polled, carried, refused} \subseteq BOOLEAN
      BY DEF TypeOK
    <3> QED
      BY <3>1, Zenon
  <2>3. seen' \in [on : BOOLEAN, last : {Never} \cup 0..now]
    BY <1>1 DEF Unread
  <2> QED
    BY <1>1, <2>1, <2>2, <2>3 DEF TypeOK, Ids, Active, Running
<1>3. OnceEach' /\ LateOnes' /\ (Asked => Asked') /\ \A t : Target(t)' <=> Target(t)
  <2>1. faults' = 0 => faults = 0
    BY <1>1
  <2> QED
    BY <2>1, SameJobs
<1>4. NextIsShown'
  BY DEF NextIsShown
<1>5. RunsRecorded'
  <2>1. now \in Nat /\ jobs \in Seq(BackupJob(now))
    BY DEF TypeOK, BackupJob
  <2>2. \A i \in Ids : jobs[i].at \in 0..now
    BY <2>1, EachJob DEF Ids
  <2>3. CASE last' = now
    BY <2>1, <2>2, <2>3 DEF RunsRecorded, Ids, Active
  <2>4. CASE UNCHANGED last /\ poll = "read"
    BY <1>1, <2>4 DEF RunsRecorded, Ids, Active
  <2>5. CASE UNCHANGED last /\ faults' = faults + 1
    BY <1>1, <2>5 DEF RunsRecorded, Ids, Active
  <2> QED
    BY <2>3, <2>4, <2>5
<1>6. SeenIsOld' /\ RunsSeen'
  BY <1>1 DEF SeenIsOld, RunsSeen
<1>7. ASSUME UNCHANGED <<faults, refused>>, poll = "read", ~SeenDue, polled, enabled
      PROVE  ~Due(schedule, last, now) /\ (Target(now) => last = now)
  <2>4. seen.last <= last /\ seen.on
    BY <1>7 DEF SeenIsOld
  <2>5. ~Due(schedule, seen.last, now)
    BY <1>7, <2>4 DEF SeenDue
  <2>1. ~Due(schedule, seen.last, now) /\ seen.last \in {Never} \cup 0..now /\ last \in (seen.last)..now
    BY <1>1, <2>4, <2>5 DEF Never
  <2>2. ~Due(schedule, last, now)
    BY <1>1, <2>1, NotDueStays
  <2>3. Target(now) => last = now
    BY <1>1, <2>2, NotDueIs DEF Target, TargetOf
  <2> QED
    BY <2>2, <2>3
<1>8. AskedFor'
  <2>1. CASE poll = "enqueued"
    BY <1>1, <1>3, <2>1 DEF AskedFor
  <2>2. CASE poll = "read" /\ refused'
    BY <1>1, <1>3, <2>2 DEF AskedFor
  <2>3. CASE poll = "read" /\ UNCHANGED <<faults, refused>> /\ UNCHANGED last /\ ~SeenDue
    BY <1>1, <1>3, <1>7, <2>3 DEF AskedFor
  <2>4. CASE poll = "read" /\ UNCHANGED last /\ last' = now
    BY <1>1, <1>3, <2>4 DEF AskedFor
  <2> QED
    BY <2>1, <2>2, <2>3, <2>4 DEF TypeOK
<1>9. NothingLeft'
  <2>1. CASE last' = now
    <3>1. ~Due(schedule, now, now)
      BY <1>1, NotDueStays DEF Never
    <3> QED
      BY <2>1, <3>1 DEF NothingLeft, Due, Passed, OnDay, TargetHours
  <2>2. CASE refused'
    BY <2>2 DEF NothingLeft
  <2>3. CASE UNCHANGED <<faults, refused>> /\ poll = "read" /\ ~SeenDue
    BY <1>7, <2>3 DEF NothingLeft, Due, Passed, OnDay, TargetHours
  <2> QED
    BY <2>1, <2>2, <2>3
<1> QED
  BY <1>2, <1>3, <1>4, <1>5, <1>6, <1>8, <1>9

LEMMA ToggleStep ==
    ASSUME BsInv, Toggle PROVE BsInv'
<1> USE DEF BsInv
<1>1. /\ UNCHANGED <<schedule, last, shown, now, carried, up, poll, seen, refused, jobs, faults, crashes>>
      /\ enabled' = ~enabled /\ polled' = FALSE
      /\ toggles' = toggles + 1 /\ toggles < MaxToggles /\ toggles \in Nat /\ MaxToggles \in Nat
  BY BackupSchedulerAssumption DEF Toggle, TypeOK, clock, polls
<1>2. TypeOK'
  <2>1. {enabled, up, polled, carried, refused}' \subseteq BOOLEAN
    <3>1. up \in BOOLEAN /\ carried \in BOOLEAN /\ refused \in BOOLEAN
      BY DEF TypeOK
    <3> QED
      BY <1>1, <3>1, Zenon
  <2> QED
    BY <1>1, <2>1 DEF TypeOK, Ids, Active, Running
<1>3. OnceEach' /\ LateOnes' /\ (Asked => Asked') /\ \A t : Target(t)' <=> Target(t)
  BY <1>1, SameJobs
<1>4. NextIsShown' /\ RunsRecorded' /\ SeenIsOld' /\ RunsSeen'
  BY <1>1 DEF NextIsShown, RunsRecorded, SeenIsOld, RunsSeen, Ids, Live, Active
<1>5. AskedFor' /\ NothingLeft'
  BY <1>1, <1>3 DEF AskedFor, NothingLeft, Due, Passed, OnDay, TargetHours
<1> QED
  BY <1>2, <1>3, <1>4, <1>5

LEMMA RestartStep ==
    ASSUME BsInv, Restart PROVE BsInv'
<1> USE DEF BsInv
<1>1. /\ UNCHANGED <<schedule, enabled, last, shown, now, carried, poll, seen, refused, polled, jobs, faults, crashes, toggles>>
      /\ up' = TRUE
  BY DEF Restart, rows, clock, polls, bounds
<1>2. TypeOK'
  BY <1>1 DEF TypeOK, Ids, Active, Running
<1>3. OnceEach' /\ LateOnes' /\ (Asked => Asked') /\ \A t : Target(t)' <=> Target(t)
  BY <1>1, SameJobs
<1>4. NextIsShown' /\ RunsRecorded' /\ SeenIsOld' /\ RunsSeen'
  BY <1>1 DEF NextIsShown, RunsRecorded, SeenIsOld, RunsSeen, Ids, Live, Active
<1>5. AskedFor' /\ NothingLeft'
  BY <1>1, <1>3 DEF AskedFor, NothingLeft, Due, Passed, OnDay, TargetHours
<1> QED
  BY <1>2, <1>3, <1>4, <1>5

\* A job is enqueued: by a poll, or by the user.
LEMMA EnqueueStep ==
    ASSUME BsInv, NEW b \in BOOLEAN, NEW st \in {"pending", "forgotten"}, Enqueued(b, st), up,
           UNCHANGED <<schedule, enabled, last, shown, now, carried, up, polled, crashes, toggles>>,
           \/ UNCHANGED <<poll, seen, refused, faults>> /\ b = FALSE
           \/ UNCHANGED <<seen, refused, faults>> /\ poll' = "enqueued" /\ SeenDue
           \/ /\ PollEnds /\ refused' = TRUE
              /\ faults' = faults + 1 /\ faults < MaxFaults
    PROVE  BsInv'
<1> USE DEF BsInv
<1>1. /\ now \in Nat /\ last \in {Never} \cup 0..now /\ jobs \in Seq(BackupJob(now)) /\ schedule \in Schedules
      /\ seen \in [on : BOOLEAN, last : {Never} \cup 0..now]
      /\ faults \in 0..MaxFaults /\ MaxFaults \in Nat /\ st \in JobStates
  BY BackupSchedulerAssumption DEF TypeOK, BackupJob, JobStates
<1> PICK end : end = Len(jobs) + 1
  OBVIOUS
<1>2. /\ jobs' \in Seq(BackupJob(now)) /\ Len(jobs') = end
      /\ \A k \in 1..end : k = end \/ k \in 1..Len(jobs)
      /\ \A k \in 1..Len(jobs) : jobs'[k] = jobs[k] /\ k # end
      /\ end \in 1..end /\ \A k \in 1..end : ~(end < k)
      /\ (jobs'[end]).state = st /\ (jobs'[end]).auto = b /\ (jobs'[end]).at = now
  BY <1>1, EnqueuedLast DEF Enqueued
<1>3. Ids' = 1..end /\ Ids = 1..Len(jobs) /\ \A k \in Ids : k \in Ids'
  BY <1>1, <1>2 DEF Ids
<1>4. \A k \in Ids : /\ (Active(k)' <=> Active(k)) /\ (Live(k)' <=> Live(k)) /\ (Running(k)' <=> Running(k))
  BY <1>2, <1>3 DEF Active, Live, Running
<1>5. ~Running(end)' /\ \A k \in Ids' : k = end \/ k \in Ids
  BY <1>2, <1>3 DEF Running
<1>6. TypeOK'
  <2>1. \A i, k \in Ids' : Running(i)' /\ Running(k)' => i = k
    BY <1>4, <1>5 DEF TypeOK
  <2>2. faults' \in 0..MaxFaults /\ seen' \in [on : BOOLEAN, last : {Never} \cup 0..now]
    <3>1. CASE UNCHANGED <<seen, faults>>
      BY <1>1, <3>1
    <3>2. CASE PollEnds /\ faults' = faults + 1 /\ faults < MaxFaults
      <4>1. Unread \in [on : BOOLEAN, last : {Never} \cup 0..now]
        BY DEF Unread
      <4> QED
        BY <1>1, <3>2, <4>1 DEF PollEnds
    <3> QED
      BY <3>1, <3>2
  <2>5. poll' \in {"idle", "read", "enqueued"} /\ up'
    BY DEF TypeOK, PollEnds
  <2>4. {enabled, up, polled, carried, refused}' \subseteq BOOLEAN
    <3>1. {enabled, up, polled, carried, refused} \subseteq BOOLEAN
      BY DEF TypeOK
    <3> QED
      BY <3>1, Zenon
  <2>3. jobs' \in Seq([state : JobStates, auto : BOOLEAN, at : 0..now])
    BY <1>2 DEF BackupJob
  <2> QED
    BY <2>1, <2>2, <2>3, <2>4, <2>5 DEF TypeOK
<1>7. NextIsShown'
  BY DEF NextIsShown
<1>8. \A i \in Ids : jobs[i] \in BackupJob(now) /\ jobs[i].at \in 0..now
  BY <1>1, EachJob DEF Ids
<1>9. OnceEach'
  <2> SUFFICES ASSUME faults' = 0, NEW i \in Ids', NEW k \in Ids', i < k,
                      (jobs'[i]).auto, (jobs'[k]).auto, Live(i)', Live(k)'
               PROVE  \E t \in ((jobs'[i]).at + 1)..(jobs'[k]).at : Target(t)'
    BY Zenon DEF OnceEach
  <2>1. \A t : Target(t)' <=> Target(t)
    BY DEF Target, Passed, OnDay, TargetHours
  <2>2. i \in Ids /\ Live(i) /\ jobs[i].auto /\ (jobs'[i]).at = jobs[i].at
    BY <1>2, <1>3, <1>4, <1>5
  <2>5. faults = 0 /\ UNCHANGED faults
    BY <1>1
  <2>3. CASE k \in Ids
    <3>1. Live(k) /\ jobs[k].auto /\ (jobs'[k]).at = jobs[k].at
      BY <1>2, <1>3, <1>4, <2>3
    <3>2. \E t \in (jobs[i].at + 1)..jobs[k].at : Target(t)
      BY <2>2, <2>3, <2>5, <3>1 DEF OnceEach
    <3> QED
      BY <2>1, <2>2, <3>1, <3>2
  <2>4. CASE k = end
    <3>1. poll = "read" /\ Due(schedule, seen.last, now)
      BY <1>1, <1>2, <2>4, <2>5 DEF SeenDue
    <3>2. jobs[i].at <= seen.last
      BY <2>2, <2>5, <3>1 DEF RunsSeen
    <3>3. PICK x \in 0..now : TargetOf(schedule, x) /\ seen.last < x
      <4>1. seen.last \in Int
        BY <1>1 DEF Never
      <4> QED
        BY <1>1, <3>1, <4>1, DueIs
    <3>4. x \in (jobs[i].at + 1)..now
      BY <1>1, <1>8, <2>2, <3>2, <3>3 DEF Never
    <3> QED
      BY <1>2, <2>1, <2>2, <2>4, <3>3, <3>4 DEF Target, TargetOf
  <2> QED
    BY <1>5, <2>3, <2>4
<1>10. RunsRecorded'
  <2> SUFFICES ASSUME NEW i \in Ids', (jobs'[i]).auto
               PROVE  /\ (jobs'[i]).state = "done" => (jobs'[i]).at <= last
                      /\ faults' = 0 /\ poll' # "enqueued" /\ Active(i)' => (jobs'[i]).at <= last
    BY Zenon DEF RunsRecorded
  <2>1. CASE i \in Ids
    <3>1. /\ jobs'[i] = jobs[i] /\ (faults' = 0 => faults = 0)
          /\ faults' = 0 /\ poll' # "enqueued" => poll # "enqueued"
      BY <1>1, <1>2, <1>3, <2>1
    <3> QED
      BY <1>4, <2>1, <3>1 DEF RunsRecorded
  <2>2. CASE i = end
    BY <1>1, <1>2, <2>2
  <2> QED
    BY <1>5, <2>1, <2>2
<1>11. LateOnes'
  <2>1. \A i \in Ids' : Active(i)' /\ (jobs'[i]).at < now => carried
    BY <1>1, <1>2, <1>3, <1>4, <1>5 DEF LateOnes
  <2> QED
    BY <2>1 DEF LateOnes
<1>12. AskedFor'
  <2>1. Asked'
    BY <1>2, <1>3 DEF Asked
  <2> QED
    BY <2>1 DEF AskedFor
<1>13. SeenIsOld'
  BY DEF SeenIsOld, PollEnds
<1>14. RunsSeen'
  <2> SUFFICES ASSUME poll' = "read", faults' = 0, NEW i \in Ids', (jobs'[i]).auto, Live(i)'
               PROVE  (jobs'[i]).at <= seen'.last
    BY Zenon DEF RunsSeen
  <2>1. UNCHANGED <<poll, seen, faults>> /\ b = FALSE
    BY <1>1 DEF PollEnds
  <2>2. i \in Ids /\ jobs'[i] = jobs[i] /\ Live(i)
    BY <1>2, <1>3, <1>4, <1>5, <2>1
  <2> QED
    BY <2>1, <2>2 DEF RunsSeen
<1>15. NothingLeft'
  BY DEF NothingLeft, Due, Passed, OnDay, TargetHours
<1> QED
  BY <1>6, <1>7, <1>9, <1>10, <1>11, <1>12, <1>13, <1>14, <1>15

\* The running job, or the next one, changes its state, and the rest stays.
LEMMA JobMoves ==
    ASSUME BsInv, NEW i \in Ids, NEW st \in JobStates, jobs' = [jobs EXCEPT ![i].state = st],
           Active(i), st \in {"running", "done", "failed"},
           st = "running" => \A k \in Ids : ~Running(k),
           UNCHANGED <<schedule, enabled, now, carried, up, poll, seen, refused, polled, faults, crashes, toggles>>,
           \/ UNCHANGED <<last, shown>> /\ st # "done"
           \/ last' = now /\ shown' = NextRun(schedule, now)
    PROVE  BsInv'
<1> USE DEF BsInv
<1>1. now \in Nat /\ last \in {Never} \cup 0..now /\ jobs \in Seq(BackupJob(now))
  BY DEF TypeOK, BackupJob
<1>2. /\ jobs' \in Seq(BackupJob(now)) /\ Len(jobs') = Len(jobs) /\ Ids' = Ids
      /\ \A k \in Ids : /\ (jobs'[k]).at = jobs[k].at /\ (jobs'[k]).auto = jobs[k].auto
                        /\ (jobs'[k]).state = IF k = i THEN st ELSE jobs[k].state
  BY <1>1, StateOnly DEF Ids
<1>3. \A k \in Ids : /\ Live(k)' => Live(k)
                     /\ Active(k)' => Active(k)
                     /\ Running(k)' <=> IF k = i THEN st = "running" ELSE Running(k)
  BY <1>2 DEF Live, Active, Running
<1>4. \A k \in Ids : jobs[k] \in BackupJob(now) /\ jobs[k].at \in 0..now
  BY <1>1, EachJob DEF Ids
<1>5. TypeOK'
  <2>1. \A j, k \in Ids' : Running(j)' /\ Running(k)' => j = k
    BY <1>2, <1>3 DEF TypeOK
  <2>2. ~up' => \A k \in Ids' : ~Active(k)'
    BY DEF TypeOK
  <2>3. shown' \in Nat /\ last' \in {Never} \cup 0..now
    BY <1>1, ShownIs DEF TypeOK
  <2>4. jobs' \in Seq([state : JobStates, auto : BOOLEAN, at : 0..now])
    BY <1>2 DEF BackupJob
  <2> QED
    BY <2>1, <2>2, <2>3, <2>4 DEF TypeOK
<1>6. OnceEach' /\ LateOnes' /\ (Asked => Asked')
  BY <1>2, <1>3, JobsStay
<1>7. NextIsShown'
  BY DEF NextIsShown
<1>8. RunsRecorded'
  <2> SUFFICES ASSUME NEW k \in Ids, (jobs'[k]).auto
               PROVE  /\ (jobs'[k]).state = "done" => (jobs'[k]).at <= last'
                      /\ faults = 0 /\ poll # "enqueued" /\ Active(k)' => (jobs'[k]).at <= last'
    BY <1>2, Zenon DEF RunsRecorded
  <2>1. CASE UNCHANGED last /\ st # "done"
    BY <1>2, <1>3, <2>1 DEF RunsRecorded
  <2>2. CASE last' = now
    BY <1>1, <1>2, <1>4, <2>2
  <2> QED
    BY <2>1, <2>2
<1>9. AskedFor'
  <2>1. last' = now /\ ~carried => Asked
    <3>1. CASE UNCHANGED last
      BY <3>1 DEF AskedFor
    <3>2. CASE ~carried
      <4>1. jobs[i].at = now
        BY <1>1, <1>4, <3>2 DEF LateOnes
      <4> QED
        BY <4>1 DEF Asked
    <3> QED
      BY <3>1, <3>2
  <2>2. \A t : Target(t)' <=> Target(t)
    BY DEF Target, Passed, OnDay, TargetHours
  <2> QED
    BY <1>6, <2>1, <2>2 DEF AskedFor
<1>10. SeenIsOld' /\ RunsSeen'
  <2>1. last' >= last /\ last \in Int /\ last' \in Int /\ seen.last \in Int
    BY <1>1 DEF Never, TypeOK
  <2>2. SeenIsOld'
    BY <2>1 DEF SeenIsOld
  <2> QED
    BY <1>2, <1>3, <2>2 DEF RunsSeen
<1>11. NothingLeft'
  <2>1. schedule \in Schedules
    BY DEF TypeOK
  <2>2. ~Due(schedule, now, now)
    BY <1>1, <2>1, NotDueStays DEF Never
  <2> QED
    BY <2>2 DEF NothingLeft, Due, Passed, OnDay, TargetHours
<1> QED
  BY <1>5, <1>6, <1>7, <1>8, <1>9, <1>10, <1>11

LEMMA CrashStep ==
    ASSUME BsInv, Crash PROVE BsInv'
<1> USE DEF BsInv
<1>1. /\ now \in Nat /\ jobs \in Seq(BackupJob(now))
      /\ crashes \in Nat /\ MaxCrashes \in Nat
  BY BackupSchedulerAssumption DEF TypeOK, BackupJob
<1>2. /\ UNCHANGED <<schedule, enabled, last, shown, now, carried, refused, faults, toggles>>
      /\ up' = FALSE /\ poll' = "idle" /\ seen' = Unread
      /\ polled' = FALSE /\ crashes' = crashes + 1 /\ crashes < MaxCrashes
  BY DEF Crash, PollEnds, rows, clock
<1>3. /\ jobs' \in Seq(BackupJob(now)) /\ Len(jobs') = Len(jobs) /\ Ids' = Ids
      /\ \A k \in Ids : /\ (jobs'[k]).at = jobs[k].at /\ (jobs'[k]).auto = jobs[k].auto
                        /\ (jobs'[k]).state \notin {"pending", "running"}
                        /\ (jobs'[k]).state = "done" <=> jobs[k].state = "done"
  BY <1>1, AllEnd DEF Crash, Ids
<1>4. \A k \in Ids : ~Active(k)' /\ ~Running(k)' /\ (Live(k)' => Live(k))
  BY <1>3 DEF Live, Active, Running
<1>5. TypeOK'
  <2>1. jobs' \in Seq([state : JobStates, auto : BOOLEAN, at : 0..now])
    BY <1>3 DEF BackupJob
  <2>2. {enabled, up, polled, carried, refused}' \subseteq BOOLEAN
    <3>1. enabled \in BOOLEAN /\ carried \in BOOLEAN /\ refused \in BOOLEAN
      BY DEF TypeOK
    <3> QED
      BY <1>2, <3>1, Zenon
  <2>3. seen' \in [on : BOOLEAN, last : {Never} \cup 0..now]
    BY <1>2 DEF Unread
  <2> QED
    BY <1>1, <1>2, <1>3, <1>4, <2>1, <2>2, <2>3 DEF TypeOK
<1>6. OnceEach' /\ LateOnes' /\ (Asked => Asked')
  BY <1>2, <1>3, <1>4, JobsStay
<1>7. NextIsShown'
  BY <1>2 DEF NextIsShown
<1>8. RunsRecorded'
  BY <1>2, <1>3, <1>4 DEF RunsRecorded
<1>9. AskedFor' /\ SeenIsOld' /\ RunsSeen' /\ NothingLeft'
  BY <1>2, <1>6 DEF AskedFor, SeenIsOld, RunsSeen, NothingLeft
<1> QED
  BY <1>5, <1>6, <1>7, <1>8, <1>9

LEMMA NextHolds == BsInv /\ [Next]_vars => BsInv'
<1> SUFFICES ASSUME BsInv, [Next]_vars PROVE BsInv'
  OBVIOUS
<1>1. CASE Tick
  BY <1>1, TickStep
<1>14. CASE PollReads
  BY <1>14, PollReadsStep
<1>2. CASE PollFindsNothing
  <2>1. /\ UNCHANGED <<schedule, enabled, last, shown, now, carried, up, polled, refused, jobs, faults, crashes, toggles>>
        /\ PollEnds /\ poll = "read" /\ ~SeenDue
    BY <1>2 DEF PollFindsNothing, rows, clock, bounds
  <2> QED
    BY <2>1, PollEndsStep
<1>3. CASE PollEnqueues
  <2>1. /\ UNCHANGED <<schedule, enabled, last, shown, now, carried, up, polled, seen, refused, faults, crashes, toggles>>
        /\ Enqueued(TRUE, "pending") /\ poll' = "enqueued" /\ SeenDue
    BY <1>3 DEF PollEnqueues, Enqueue, rows, clock, bounds
  <2>2. up
    BY <2>1 DEF SeenDue, BsInv, TypeOK
  <2> QED
    BY <2>1, <2>2, EnqueueStep
<1>15. CASE PollRefused
  <2>1. /\ UNCHANGED <<schedule, enabled, last, shown, now, carried, up, polled, crashes, toggles>>
        /\ faults < MaxFaults /\ faults' = faults + 1 /\ refused' = TRUE /\ PollEnds
        /\ SeenDue
    BY <1>15 DEF PollRefused, PollRaises, rows, clock
  <2>2. up /\ poll = "read"
    BY <2>1 DEF SeenDue, BsInv, TypeOK
  <2>3. CASE UNCHANGED jobs
    <3>1. faults' \in 0..MaxFaults
      BY <2>1, BackupSchedulerAssumption DEF BsInv, TypeOK
    <3> QED
      BY <2>1, <2>2, <2>3, <3>1, PollEndsStep
  <2>4. CASE Enqueued(TRUE, "forgotten")
    BY <2>1, <2>2, <2>4, EnqueueStep
  <2> QED
    BY <1>15, <2>3, <2>4 DEF PollRefused
<1>4. CASE PollRecords
  <2>1. /\ UNCHANGED <<schedule, enabled, now, carried, up, polled, refused, jobs, faults, crashes, toggles>>
        /\ PollEnds /\ poll = "enqueued" /\ last' = now /\ shown' = NextRun(schedule, now)
    BY <1>4 DEF PollRecords, Ran, clock, bounds
  <2> QED
    BY <2>1, PollEndsStep
<1>5. CASE PollFails
  <2>1. /\ UNCHANGED <<schedule, enabled, last, shown, now, carried, up, polled, jobs, crashes, toggles>>
        /\ faults < MaxFaults /\ faults' = faults + 1 /\ refused' = TRUE /\ PollEnds
        /\ poll = "enqueued"
    BY <1>5 DEF PollFails, PollRaises, rows, clock
  <2>2. faults' \in 0..MaxFaults
    BY <2>1, BackupSchedulerAssumption DEF BsInv, TypeOK
  <2> QED
    BY <2>1, <2>2, PollEndsStep
<1>6. CASE RunNow
  <2>1. /\ UNCHANGED <<schedule, enabled, last, shown, now, carried, up, poll, seen, refused, polled, faults, crashes, toggles>>
        /\ Enqueued(FALSE, "pending") /\ up
    BY <1>6 DEF RunNow, Enqueue, rows, clock, polls, bounds
  <2> QED
    BY <2>1, EnqueueStep
<1>7. CASE Toggle
  BY <1>7, ToggleStep
<1>8. CASE JobStarts
  <2>1. PICK i \in Ids : jobs[i].state = "pending" /\ jobs' = [jobs EXCEPT ![i].state = "running"]
    BY <1>8 DEF JobStarts
  <2>2. /\ UNCHANGED <<schedule, enabled, last, shown, now, carried, up, poll, seen, refused, polled, faults, crashes, toggles>>
        /\ \A k \in Ids : ~Running(k)
    BY <1>8 DEF JobStarts, rows, clock, polls, bounds
  <2>3. Active(i) /\ "running" \in JobStates
    BY <2>1 DEF Active, JobStates
  <2> QED
    BY <2>1, <2>2, <2>3, JobMoves
<1>9. CASE JobSucceeds
  <2>1. PICK i \in Ids : Running(i) /\ jobs' = [jobs EXCEPT ![i].state = "done"]
    BY <1>9 DEF JobSucceeds
  <2>2. /\ UNCHANGED <<schedule, enabled, now, carried, up, poll, seen, refused, polled, faults, crashes, toggles>>
        /\ last' = now /\ shown' = NextRun(schedule, now)
    BY <1>9 DEF JobSucceeds, Ran, clock, polls, bounds
  <2>3. Active(i) /\ "done" \in JobStates
    BY <2>1 DEF Active, Running, JobStates
  <2> QED
    BY <2>1, <2>2, <2>3, JobMoves
<1>10. CASE JobFails
  <2>1. PICK i \in Ids : Running(i) /\ jobs' = [jobs EXCEPT ![i].state = "failed"]
    BY <1>10 DEF JobFails
  <2>2. UNCHANGED <<schedule, enabled, last, shown, now, carried, up, poll, seen, refused, polled, faults, crashes, toggles>>
    BY <1>10 DEF JobFails, rows, clock, polls, bounds
  <2>3. Active(i) /\ "failed" \in JobStates
    BY <2>1 DEF Active, Running, JobStates
  <2> QED
    BY <2>1, <2>2, <2>3, JobMoves
<1>11. CASE Crash
  BY <1>11, CrashStep
<1>12. CASE Restart
  BY <1>12, RestartStep
<1>13. CASE UNCHANGED vars
  <2>1. UNCHANGED <<schedule, enabled, last, shown, now, carried, up, poll, seen, refused, polled, jobs, faults, crashes, toggles>>
    BY <1>13 DEF vars, rows, clock, polls, bounds
  <2>2. OnceEach' /\ LateOnes' /\ (Asked => Asked') /\ \A t : Target(t)' <=> Target(t)
    BY <2>1, SameJobs
  <2>3. TypeOK' /\ NextIsShown' /\ RunsRecorded' /\ SeenIsOld' /\ RunsSeen'
    BY <2>1 DEF BsInv, TypeOK, NextIsShown, RunsRecorded, SeenIsOld, RunsSeen, Ids, Live, Active, Running
  <2>4. AskedFor' /\ NothingLeft'
    BY <2>1, <2>2 DEF BsInv, AskedFor, NothingLeft, Due, Passed, OnDay, TargetHours
  <2> QED
    BY <2>2, <2>3, <2>4 DEF BsInv
<1> QED
  BY <1>1, <1>2, <1>3, <1>4, <1>5, <1>6, <1>7, <1>8, <1>9, <1>10, <1>11, <1>12, <1>13, <1>14, <1>15, Zenon
     DEF Next, Poll, User, Job

-----------------------------------------------------------------------------
(* The theorems *)

\* The invariant of the scheduler holds in every state (backup.py 344-492,
\* tasks.py 816-823).
THEOREM Invariance == Spec => []BsInv
BY InitHolds, NextHolds, PTL DEF Spec

\* The rows and the jobs have their types: in particular one job runs at a
\* time, none while the panel is down, and what the page shows is an instant.
THEOREM TypeCorrect == Spec => []TypeOK
<1>1. BsInv => TypeOK
  BY DEF BsInv
<1> QED
  BY Invariance, <1>1, PTL

\* An instant in the span is one of a day that a later month follows.
LEMMA SpanIs ==
    ASSUME NEW t \in Span
    PROVE  t \in Nat /\ \E m \in MonthStarts : Day(t) < m
<1>1. Hours \in Nat \ {0} /\ MonthStarts \subseteq Nat /\ MonthStarts # {}
  BY BackupSchedulerAssumption
<1>2. PICK end \in MonthStarts : \A m \in MonthStarts : m <= end
  BY BackupSchedulerAssumption
<1>3. PICK top : top = Max(MonthStarts) /\ top \in MonthStarts /\ top \in Nat
  BY <1>1, <1>2, MaxIs
<1>4. t \in Nat /\ t < top * Hours
  <2>1. top * Hours \in Nat
    BY <1>1, <1>3
  <2> QED
    BY <1>3, <2>1 DEF Span, At
<1>5. PICK d \in Nat, h \in 0..(Hours - 1) : d = t \div Hours /\ t = d * Hours + h
  BY <1>1, <1>4, DivIs
<1>6. d < top
  <2>1. 0 \in 0..(Hours - 1) /\ top * Hours \in Nat
    BY <1>1, <1>3
  <2>2. d * Hours + h < top * Hours + 0
    BY <1>4, <1>5, <2>1
  <2>3. d < top \/ (d = top /\ h < 0)
    BY <1>1, <1>3, <2>1, <2>2, InOrder
  <2> QED
    BY <2>3
<1>7. Day(t) = d
  BY <1>5, Zenon DEF Day
<1> QED
  BY <1>3, <1>4, <1>6, <1>7

\* get_next_run names the first instant that check_schedule_due counts as a
\* target, for every schedule and at every instant of the calendar, and no
\* target has two scheduled backups (backup.py 351-492, tasks.py 816-823).
THEOREM TargetsKept == Spec => []TargetsAreKept
<1>1. BsInv => TargetsAreKept
  <2> SUFFICES ASSUME BsInv PROVE TargetsAreKept
    OBVIOUS
  <2>1. schedule \in Schedules /\ now \in Nat /\ jobs \in Seq(BackupJob(now))
    BY BackupSchedulerAssumption DEF BsInv, TypeOK, BackupJob
  <2>2. ASSUME NEW t \in Span
        PROVE  LET n == NextRun(schedule, t) IN
               n > t /\ Target(n) /\ \A x \in (t + 1)..(n - 1) : ~Target(x)
    <3>1. t \in Nat /\ IsNext(schedule, t, NextRun(schedule, t))
      BY <2>1, SpanIs, NextRunIs
    <3> QED
      BY <3>1 DEF IsNext, Target, TargetOf
  <2>3. NextRunIsNextTarget
    BY <2>2 DEF NextRunIsNextTarget
  <2>4. OneBackupPerTarget
    BY DEF BsInv, OnceEach, OneBackupPerTarget, Live
  <2> QED
    BY <2>3, <2>4 DEF TargetsAreKept
<1> QED
  BY Invariance, <1>1, PTL

\* No poll makes a backup before the time the page shows on a row that it read
\* as it is, no target of an enabled schedule passes, while the panel is up,
\* without a backup of its own, and none that passed earlier in the day is left
\* to be made up for, unless a commit was refused (backup.py 351-352, 462-495).
THEOREM OnTime == Spec => BackupsOnTime
<1>1. BsInv /\ [Next]_vars => [NotBeforeNextRun /\ EveryTargetHasBackup /\ NothingIsLeftDue]_vars
  <2> SUFFICES ASSUME BsInv, [Next]_vars PROVE NotBeforeNextRun /\ EveryTargetHasBackup /\ NothingIsLeftDue
    OBVIOUS
  <2>1. /\ schedule \in Schedules /\ now \in Nat /\ now \in 0..MaxTime /\ last \in {Never} \cup 0..now
        /\ poll = "enqueued" => up
    BY BackupSchedulerAssumption DEF BsInv, TypeOK
  <2>2. NotBeforeNextRun
    <3> SUFFICES ASSUME last # Never, seen.last = last, poll = "read", poll' = "enqueued" PROVE now >= shown
      BY DEF NotBeforeNextRun
    <3>1. PollEnqueues
      BY DEF Next, Poll, User, Job, Tick, PollReads, PollFindsNothing, PollRefused, PollRaises, PollEnds,
             PollRecords, PollFails, RunNow, Toggle,
             JobStarts, JobSucceeds, JobFails, Crash, Restart, vars, polls
    <3>2. last \in 0..now /\ Due(schedule, last, now)
      BY <2>1, <3>1 DEF PollEnqueues, SeenDue
    <3>3. PICK x \in 0..now : TargetOf(schedule, x) /\ last < x
      BY <2>1, <3>2, DueIs
    <3>4. shown = NextRun(schedule, last)
      BY DEF BsInv, NextIsShown
    <3>5. last \in Nat /\ IsNext(schedule, last, shown)
      <4>1. last \in 0..MaxTime
        BY <2>1, <3>2, BackupSchedulerAssumption
      <4> QED
        BY <2>1, <3>4, <4>1, ClockIs, NextRunIs
    <3> QED
      BY <2>1, <3>3, <3>5 DEF IsNext
  <2>3. ASSUME now' # now PROVE Tick
    BY <2>3 DEF Next, Poll, User, Job, PollReads, PollFindsNothing, PollEnqueues, PollRefused, PollRaises,
                PollRecords, PollFails, RunNow, Toggle,
                JobStarts, JobSucceeds, JobFails, Crash, Restart, vars, clock
  <2>4. ASSUME now' # now, up PROVE polled /\ poll = "idle"
    BY <2>3, <2>4 DEF Tick
  <2>5. EveryTargetHasBackup
    BY <2>4 DEF EveryTargetHasBackup, BsInv, AskedFor, Asked
  <2>6. NothingIsLeftDue
    BY <2>4 DEF NothingIsLeftDue, BsInv, NothingLeft
  <2> QED
    BY <2>2, <2>5, <2>6
<1> QED
  BY Invariance, <1>1, PTL DEF Spec, BackupsOnTime
-----------------------------------------------------------------------------

(***************************************************************************)
(* The calendar of scans                                                   *)
(***************************************************************************)

ScanHolds(p, t) == ScanDay(p, t \div SsHours) /\ t % SsHours = p.hour

LEMMA ScanHoldsIs ==
    ASSUME NEW p \in ScanPlans, NEW e \in Nat, NEW k \in 0..(SsHours - 1)
    PROVE  ScanHolds(p, e * SsHours + k) <=> ScanDay(p, e) /\ k = p.hour
<1>1. (e * SsHours + k) \div SsHours = e /\ (e * SsHours + k) % SsHours = k
  <2>1. SsHours \in Nat \ {0} /\ e \in Int
    BY ScanSchedulesAssumption
  <2> QED
    BY <2>1, DivMod, Zenon
<1> QED
  BY <1>1, Zenon DEF ScanHolds

LEMMA ScanPlanIs ==
    ASSUME NEW p \in ScanPlans
    PROVE  /\ p.frequency \in {"daily", "weekly", "monthly"} /\ p.hour \in 0..(SsHours - 1)
           /\ p.weekday \in 0..(SsWeek - 1) /\ Min({p.day, SsLastDay}) \in 1..SsLastDay
<1>1. p.day \in 1..(SsLastDay + 1) /\ SsLastDay \in Nat \ {0}
  BY ScanSchedulesAssumption DEF ScanPlans
<1>2. {p.day, SsLastDay} \subseteq Nat
  BY <1>1
<1>3. Min({p.day, SsLastDay}) \in {p.day, SsLastDay} /\ Min({p.day, SsLastDay}) <= SsLastDay
  BY <1>2, MinIs
<1>4. Min({p.day, SsLastDay}) \in 1..SsLastDay
  BY <1>1, <1>3
<1> QED
  BY <1>4 DEF ScanPlans

\* get_next_scan_run names the first target after any instant of the calendar.
LEMMA ScanNextRunIs ==
    ASSUME NEW p \in ScanPlans, NEW t \in Nat, \E m \in SsMonths : t < m * SsHours
    PROVE  LET n == ScanNextRun(p, t) IN
           n \in Nat /\ t < n /\ ScanHolds(p, n) /\ \A x \in Nat : t < x /\ x < n => ~ScanHolds(p, x)
<1>0. /\ SsHours \in Nat \ {0} /\ SsWeek \in Nat \ {0} /\ SsLastDay \in Nat \ {0}
      /\ 0 \in SsMonths /\ SsMonths \subseteq Nat
      /\ \A a, b \in SsMonths : a < b => b - a >= SsLastDay
  BY ScanSchedulesAssumption
<1>1. PICK d \in Nat, h \in 0..(SsHours - 1) : d = t \div SsHours /\ t = d * SsHours + h
  BY <1>0, DivIs
<1> DEFINE day == Min({p.day, SsLastDay})
           D == {e \in Nat : ScanDay(p, e)}
           n == ScanNextRun(p, t)
<1>2. /\ p.frequency \in {"daily", "weekly", "monthly"} /\ p.hour \in 0..(SsHours - 1)
      /\ p.weekday \in 0..(SsWeek - 1) /\ day \in 1..SsLastDay
  BY ScanPlanIs
\* It is enough to know the candidate and the later day.
<1>3. ASSUME NEW on \in Nat, NEW later \in Nat, d < later, on < later, on \in D, later \in D,
             \A e \in Nat : d <= e /\ e < later /\ e \in D => e = on,
             n = (IF on * SsHours + p.hour > t THEN on ELSE later) * SsHours + p.hour
      PROVE  n \in Nat /\ t < n /\ ScanHolds(p, n) /\ \A x \in Nat : t < x /\ x < n => ~ScanHolds(p, x)
  <2>1. /\ n \in Nat /\ t < n /\ n \in {on * SsHours + p.hour, later * SsHours + p.hour}
        /\ \A e \in Nat, k \in 0..(SsHours - 1) :
             e \in D /\ k = p.hour /\ t < e * SsHours + k => n <= e * SsHours + k
    <3> HIDE DEF D, n
    <3> DEFINE u == d * SsHours + h
               x == (IF on * SsHours + p.hour > u THEN on ELSE later) * SsHours + p.hour
    <3>1. /\ x \in Nat /\ u < x /\ x \in {on * SsHours + p.hour, later * SsHours + p.hour}
          /\ \A e \in Nat, k \in 0..(SsHours - 1) :
               e \in D /\ k = p.hour /\ u < e * SsHours + k => x <= e * SsHours + k
      <4>1. CandidateIsNext(SsHours, p.hour, D, d, h, on, later)
        BY <1>0, <1>2, <1>3, NextInstant
      <4> QED
        BY <4>1 DEF CandidateIsNext
    <3>2. u = t /\ x = n
      BY <1>1, <1>3
    <3> HIDE DEF u, x
    <3> QED
      BY <3>1, <3>2
  <2>2. ScanHolds(p, n)
    <3>1. ScanHolds(p, on * SsHours + p.hour) /\ ScanHolds(p, later * SsHours + p.hour)
      BY <1>2, <1>3, ScanHoldsIs
    <3> HIDE DEF n
    <3> QED
      BY <2>1, <3>1
  <2>3. ASSUME NEW x \in Nat, t < x, x < n, ScanHolds(p, x)
        PROVE  FALSE
    <3>1. PICK e \in Nat, k \in 0..(SsHours - 1) : x = e * SsHours + k
      BY <1>0, DivIs
    <3>2. e \in D /\ k = p.hour
      BY <2>3, <3>1, ScanHoldsIs
    <3>3. n <= x
      BY <2>1, <2>3, <3>1, <3>2
    <3> HIDE DEF n
    <3> QED
      BY <2>1, <2>3, <3>3
  <2> QED
    BY <2>1, <2>2, <2>3
<1>4. CASE p.frequency = "daily"
  <2>1. n = (IF d * SsHours + p.hour > t THEN d ELSE d + 1) * SsHours + p.hour
    BY <1>1, <1>4, Zenon DEF ScanNextRun
  <2>2. d \in D /\ d + 1 \in D /\ \A e \in Nat : d <= e /\ e < d + 1 => e = d
    BY <1>4 DEF ScanDay
  <2> QED
    BY <1>3, <2>1, <2>2
<1>5. CASE p.frequency = "weekly"
  <2> DEFINE on == d + ((p.weekday - d) % SsWeek)
  <2>1. n = (IF on * SsHours + p.hour > t THEN on ELSE on + SsWeek) * SsHours + p.hour
    BY <1>1, <1>5, Zenon DEF ScanNextRun
  <2>2. \A e \in Nat : ScanDay(p, e) <=> Mod(e, SsWeek) = p.weekday
    BY <1>5, Zenon DEF ScanDay, Mod
  <2>3. on = d + Mod(p.weekday - d, SsWeek)
    BY Zenon DEF Mod
  <2> HIDE DEF on
  <2>4. IsWeekday(SsWeek, d, p.weekday, on)
    BY <1>0, <1>2, <2>3, NextWeekday
  <2>5. /\ on \in Nat /\ on + SsWeek \in Nat /\ d < on + SsWeek /\ on < on + SsWeek
        /\ on \in D /\ on + SsWeek \in D
        /\ \A e \in Nat : d <= e /\ e < on + SsWeek /\ e \in D => e = on
    BY <1>0, <2>2, <2>4 DEF IsWeekday
  <2> QED
    BY <1>3, <2>1, <2>5
<1>6. CASE p.frequency = "monthly"
  <2>0. PICK m2 : /\ m2 = Min({s \in SsMonths : s > d})
                  /\ m2 \in SsMonths /\ d < m2 /\ \A m \in SsMonths : d < m => m2 <= m
    <3> DEFINE N == {s \in SsMonths : s > d}
    <3>1. PICK m \in SsMonths : t < m * SsHours
      OBVIOUS
    <3>2. d < m
      <4>1. m \in Nat /\ 0 \in 0..(SsHours - 1) /\ m * SsHours \in Nat
        BY <1>0
      <4>2. d * SsHours + h < m * SsHours + 0
        BY <1>1, <3>1, <4>1
      <4>3. d < m \/ (d = m /\ h < 0)
        BY <1>0, <4>1, <4>2, InOrder
      <4> QED
        BY <4>3
    <3>3. N \subseteq Nat /\ N # {}
      BY <1>0, <3>2
    <3>4. Min(N) \in N /\ \A x \in N : Min(N) <= x
      BY <3>3, MinIs
    <3> QED
      BY <3>4
  <2> DEFINE on == First(SsMonths, d) + day - 1
             later == m2 + day - 1
  <2>1. n = (IF on * SsHours + p.hour > t THEN on ELSE later) * SsHours + p.hour
    <3>1. on = First(SsMonths, d) + (day - 1) /\ later = m2 + (day - 1)
      <4>1. First(SsMonths, d) \in Nat /\ m2 \in Nat
        BY <1>0, <2>0, FirstIs
      <4> HIDE DEF day
      <4> QED
        BY <1>2, <4>1
    <3> HIDE DEF on, later
    <3>2. n = (IF (SsMonth(d) + (day - 1)) * SsHours + p.hour > t
               THEN SsMonth(d) + (day - 1) ELSE m2 + (day - 1)) * SsHours + p.hour
      BY <1>1, <1>6, <2>0, Zenon DEF ScanNextRun
    <3>3. SsMonth(d) = First(SsMonths, d)
      BY Zenon DEF SsMonth, First
    <3> QED
      BY <3>1, <3>2, <3>3, Zenon
  <2>2. \A e \in Nat : ScanDay(p, e) <=> e - First(SsMonths, e) + 1 = day
    BY <1>6, Zenon DEF ScanDay, SsMonth, First
  <2>3. AreMonthdays(SsMonths, d, day, on, later)
    <3> HIDE DEF day
    <3> QED
      BY <1>0, <1>2, <2>0, NextMonthday
  <2> HIDE DEF on, later
  <2>4. /\ on \in Nat /\ later \in Nat /\ d < later /\ on < later /\ on \in D /\ later \in D
        /\ \A e \in Nat : d <= e /\ e < later /\ e \in D => e = on
    BY <2>2, <2>3 DEF AreMonthdays
  <2> QED
    BY <1>3, <2>1, <2>4
<1> QED
  BY <1>2, <1>4, <1>5, <1>6

(***************************************************************************)
(* The polls of scans: the invariant                                       *)
(***************************************************************************)

SsTimes == SsNever..ssNow

SsTypes ==
    /\ ssPlan \in [SsIds -> ScanPlans]
    /\ ssEnabled \in [SsIds -> BOOLEAN]
    /\ ssNow \in Nat
    /\ ssLast \in [SsIds -> SsTimes]
    /\ ssDeleted \subseteq SsIds /\ ssLost \subseteq SsIds
    /\ ssTools \subseteq Scanners
    /\ ssScans \in [SsIds -> Seq(Nat)]
    /\ ssPoll.left \subseteq SsIds /\ ssPoll.writes \subseteq SsIds
    /\ ssPoll = [left |-> ssPoll.left, writes |-> ssPoll.writes, last |-> ssPoll.last]
    /\ \A i, j \in ssPoll.writes : i = j

\* A poll looks at what last_run_at was when it began, and that was earlier.
CopyIsOlder ==
    ssPoll.left # {} => /\ ssPoll.last \in [SsIds -> SsTimes]
                        /\ \A i \in SsIds : ssPoll.last[i] <= ssLast[i]

\* A scan that was enqueued is recorded, or is about to be; and one that is
\* still to be looked at in this poll was recorded before it.
ScansRecorded ==
    \A i \in SsIds \ ssLost : \A x \in 1..Len(ssScans[i]) :
        /\ ssScans[i][x] <= ssNow
        /\ i \notin ssPoll.writes => ssScans[i][x] <= ssLast[i]
        /\ i \in ssPoll.left => ssScans[i][x] <= ssPoll.last[i]

\* A poll that has seen everything as it is has run what is due, or will.
SeenIsRun ==
    ssPolled =>
        \A i \in SsIds \ ssDeleted :
            ssEnabled[i] /\ ScanTarget(i, ssNow) /\ ssPlan[i].scanner \in ssTools =>
                ssLast[i] = ssNow \/ i \in ssPoll.left \cup ssPoll.writes

\* What is still to be looked at is not about to be written.
LeftOrWrites == ssPoll.left \cap ssPoll.writes = {}

SsInv == SsTypes /\ CopyIsOlder /\ ScansRecorded /\ SeenIsRun /\ LeftOrWrites /\ NoScanTwice

LEMMA IdleIs ==
    /\ SsIdle.left = {} /\ SsIdle.writes = {}
    /\ SsIdle = [left |-> SsIdle.left, writes |-> SsIdle.writes, last |-> SsIdle.last]
  BY DEF SsIdle

LEMMA SameScans ==
    ASSUME NoScanTwice, UNCHANGED <<ssPlan, ssScans>>, ssLost \subseteq ssLost'
    PROVE  NoScanTwice'
<1>1. \A i, t : ScanTarget(i, t)' <=> ScanTarget(i, t)
  BY DEF ScanTarget, ScanDay
<1> QED
  BY <1>1 DEF NoScanTwice

LEMMA ScanInitHolds == ScanInit => SsInv
<1> SUFFICES ASSUME ScanInit PROVE SsInv
  OBVIOUS
<1>1. ssNow = 1 /\ ssPoll = SsIdle /\ ssPolled = FALSE /\ ssScans = [i \in SsIds |-> <<>>]
      /\ ssLast = [i \in SsIds |-> SsNever]
  BY DEF ScanInit
<1>2. SsNever \in SsTimes
  BY <1>1 DEF SsTimes, SsNever
<1>3. SsTypes
  BY <1>1, <1>2, IdleIs DEF ScanInit, SsTypes
<1>4. \A i \in SsIds : Len(ssScans[i]) = 0
  BY <1>1
<1>5. ScansRecorded /\ NoScanTwice
  BY <1>4 DEF ScansRecorded, NoScanTwice
<1>6. CopyIsOlder /\ LeftOrWrites /\ SeenIsRun
  BY <1>1, IdleIs DEF CopyIsOlder, LeftOrWrites, SeenIsRun
<1> QED
  BY <1>3, <1>5, <1>6 DEF SsInv

LEMMA SsTickStep ==
    ASSUME SsInv, SsTick PROVE SsInv'
<1> USE DEF SsInv
<1>1. /\ UNCHANGED <<ssPlan, ssEnabled, ssLast, ssDeleted, ssTools, ssPoll, ssScans, ssLost>>
      /\ ssNow' = ssNow + 1 /\ ssPolled' = FALSE /\ ssPoll.left = {} /\ ssNow \in Nat
  BY IdleIs DEF SsTick, SsIsIdle, ssRows, SsTypes
<1>2. SsTypes'
  <2>1. SsTimes \subseteq SsTimes'
    BY <1>1 DEF SsTimes, SsNever
  <2>2. ssLast' \in [SsIds -> SsTimes']
    BY <1>1, <2>1 DEF SsTypes
  <2> QED
    BY <1>1, <2>2 DEF SsTypes
<1>3. ScansRecorded'
  <2> SUFFICES ASSUME NEW i \in SsIds \ ssLost, NEW x \in 1..Len(ssScans[i])
               PROVE  /\ ssScans[i][x] <= ssNow + 1
                      /\ i \notin ssPoll.writes => ssScans[i][x] <= ssLast[i]
    BY <1>1 DEF ScansRecorded
  <2>1. ssScans[i][x] <= ssNow /\ (i \notin ssPoll.writes => ssScans[i][x] <= ssLast[i])
    BY DEF ScansRecorded
  <2>2. ssScans[i][x] \in Nat
    BY DEF SsTypes
  <2> QED
    BY <1>1, <2>1, <2>2
<1>4. CopyIsOlder' /\ LeftOrWrites' /\ SeenIsRun'
  BY <1>1 DEF CopyIsOlder, LeftOrWrites, SeenIsRun
<1>5. NoScanTwice'
  BY <1>1, SameScans
<1> QED
  BY <1>2, <1>3, <1>4, <1>5

LEMMA ScanPollReadsStep ==
    ASSUME SsInv, ScanPollReads PROVE SsInv'
<1> USE DEF SsInv
<1>1. /\ UNCHANGED <<ssPlan, ssEnabled, ssLast, ssDeleted, ssTools, ssNow, ssScans, ssLost>>
      /\ ssPoll.writes = {} /\ ssPoll'.left = {i \in SsIds \ ssDeleted : ssEnabled[i]}
      /\ ssPoll'.writes = {} /\ ssPoll'.last = ssLast
      /\ ssPoll' = [left |-> ssPoll'.left, writes |-> ssPoll'.writes, last |-> ssPoll'.last]
  BY IdleIs DEF ScanPollReads, SsIsIdle, ssRows
<1>2. SsTypes' /\ LeftOrWrites'
  BY <1>1 DEF SsTypes, LeftOrWrites, SsTimes
<1>3. CopyIsOlder'
  <2>1. \A i \in SsIds : ssLast[i] <= ssLast[i]
    BY DEF SsTypes, SsTimes, SsNever
  <2> QED
    BY <1>1, <2>1 DEF CopyIsOlder, SsTypes, SsTimes
<1>4. ScansRecorded'
  BY <1>1 DEF ScansRecorded
<1>5. SeenIsRun'
  BY <1>1 DEF SeenIsRun, ScanTarget, ScanDay
<1>6. NoScanTwice'
  BY <1>1, SameScans
<1> QED
  BY <1>2, <1>3, <1>4, <1>5, <1>6

LEMMA ScanPassesOverStep ==
    ASSUME SsInv, NEW i \in SsIds, ScanPassesOver(i) PROVE SsInv'
<1> USE DEF SsInv
<1>1. /\ UNCHANGED <<ssPlan, ssEnabled, ssLast, ssDeleted, ssTools, ssNow, ssPolled, ssScans, ssLost>>
      /\ i \in ssPoll.left /\ ssPoll.writes = {} /\ ssPlan[i].scanner \notin ssTools
      /\ ssPoll'.left = ssPoll.left \ {i} /\ ssPoll'.writes = {} /\ ssPoll'.last = ssPoll.last
      /\ ssPoll' = [left |-> ssPoll'.left, writes |-> ssPoll'.writes, last |-> ssPoll'.last]
  BY DEF ScanPassesOver, SsReady, ssRows, SsTypes
<1>2. SsTypes' /\ LeftOrWrites'
  BY <1>1 DEF SsTypes, LeftOrWrites, SsTimes
<1>3. CopyIsOlder'
  BY <1>1 DEF CopyIsOlder, SsTimes
<1>4. ScansRecorded'
  BY <1>1 DEF ScansRecorded
<1>5. SeenIsRun'
  BY <1>1 DEF SeenIsRun, ScanTarget, ScanDay
<1>6. NoScanTwice'
  BY <1>1, SameScans
<1> QED
  BY <1>2, <1>3, <1>4, <1>5, <1>6

LEMMA ScanEnqueuedStep ==
    ASSUME SsInv, NEW i \in SsIds, ScanEnqueued(i) PROVE SsInv'
<1> USE DEF SsInv
<1>1. /\ UNCHANGED <<ssPlan, ssEnabled, ssLast, ssDeleted, ssTools, ssNow, ssPolled, ssLost>>
      /\ i \in ssPoll.left /\ ssPoll.writes = {} /\ ScanDue(ssPlan[i], ssPoll.last[i], ssNow)
      /\ ssPoll'.left = ssPoll.left \ {i} /\ ssPoll'.writes = {i} /\ ssPoll'.last = ssPoll.last
      /\ ssPoll' = [left |-> ssPoll'.left, writes |-> ssPoll'.writes, last |-> ssPoll'.last]
      /\ ssScans' = [ssScans EXCEPT ![i] = Append(@, ssNow)]
  BY DEF ScanEnqueued, SsReady, ssRows, SsTypes
<1>2. /\ ssNow \in Nat /\ ssScans \in [SsIds -> Seq(Nat)] /\ ssPlan[i] \in ScanPlans
      /\ ssPoll.last[i] \in SsTimes
  BY <1>1 DEF SsTypes, CopyIsOlder
<1> PICK end : end = Len(ssScans[i]) + 1
  OBVIOUS
<1>3. /\ ssScans' \in [SsIds -> Seq(Nat)] /\ Len(ssScans'[i]) = end /\ ssScans'[i][end] = ssNow
      /\ \A x \in 1..end : x = end \/ x \in 1..Len(ssScans[i])
      /\ \A x \in 1..Len(ssScans[i]) : ssScans'[i][x] = ssScans[i][x] /\ x # end
      /\ \A x \in 1..end : ~(end < x)
      /\ \A j \in SsIds : j # i => ssScans'[j] = ssScans[j]
  BY <1>1, <1>2
<1>4. SsTypes' /\ LeftOrWrites'
  BY <1>1, <1>3 DEF SsTypes, LeftOrWrites, SsTimes
<1>5. CopyIsOlder'
  BY <1>1 DEF CopyIsOlder, SsTimes
<1>6. ScansRecorded'
  <2> SUFFICES ASSUME NEW j \in SsIds \ ssLost, NEW x \in 1..Len(ssScans'[j])
               PROVE  /\ ssScans'[j][x] <= ssNow
                      /\ j \notin {i} => ssScans'[j][x] <= ssLast[j]
                      /\ j \in ssPoll.left \ {i} => ssScans'[j][x] <= ssPoll.last[j]
    BY <1>1 DEF ScansRecorded
  <2>1. CASE j # i
    BY <1>1, <1>3, <2>1 DEF ScansRecorded
  <2>2. CASE j = i /\ x = end
    BY <1>2, <1>3, <2>2
  <2>3. CASE j = i /\ x \in 1..Len(ssScans[i])
    BY <1>1, <1>3, <2>3 DEF ScansRecorded
  <2> QED
    BY <1>3, <2>1, <2>2, <2>3
<1>7. SeenIsRun'
  BY <1>1 DEF SeenIsRun, ScanTarget, ScanDay
<1>8. \A j, t : ScanTarget(j, t)' <=> ScanTarget(j, t)
  BY <1>1 DEF ScanTarget, ScanDay
<1>9. PICK t \in Nat : ScanTarget(i, t) /\ ssPoll.last[i] < t /\ t <= ssNow
  <2>1. SsHours \in Nat \ {0}
    BY ScanSchedulesAssumption
  <2>2. PICK d \in Nat : d = ssNow \div SsHours
    BY <1>2, <2>1, DivIs
  <2>3. ssPlan[i].hour \in 0..(SsHours - 1)
    BY <1>2, ScanPlanIs
  <2>4. /\ ScanDay(ssPlan[i], d) /\ ssPoll.last[i] < d * SsHours + ssPlan[i].hour
        /\ d * SsHours + ssPlan[i].hour <= ssNow
    BY <1>1, <2>2, Zenon DEF ScanDue
  <2>5. ScanHolds(ssPlan[i], d * SsHours + ssPlan[i].hour)
    BY <1>2, <2>3, <2>4, ScanHoldsIs
  <2>6. d * SsHours + ssPlan[i].hour \in Nat
    <3>1. d * SsHours \in Nat
      BY <2>1
    <3> QED
      BY <2>3, <3>1
  <2> QED
    BY <2>4, <2>5, <2>6 DEF ScanTarget, ScanHolds
<1>10. NoScanTwice'
  <2> SUFFICES ASSUME NEW j \in SsIds \ ssLost, NEW x \in 1..Len(ssScans'[j]), NEW y \in 1..Len(ssScans'[j]), x < y
               PROVE  \E u \in (ssScans'[j][x] + 1)..ssScans'[j][y] : ScanTarget(j, u)
    BY <1>1, <1>8 DEF NoScanTwice
  <2>1. CASE j # i
    BY <1>3, <2>1 DEF NoScanTwice
  <2>2. CASE j = i /\ y = end
    <3>1. x \in 1..Len(ssScans[i]) /\ ssScans'[i][x] = ssScans[i][x] /\ ssScans'[i][y] = ssNow
      BY <1>3, <2>2
    <3>2. ssScans[i][x] <= ssPoll.last[i] /\ ssScans[i][x] \in Nat
      BY <1>1, <1>2, <2>2, <3>1 DEF ScansRecorded
    <3>3. t \in (ssScans'[i][x] + 1)..ssScans'[i][y]
      BY <1>2, <1>9, <3>1, <3>2 DEF SsTimes, SsNever
    <3> QED
      BY <1>9, <2>2, <3>3
  <2>3. CASE j = i /\ y \in 1..Len(ssScans[i])
    <3>1. x \in 1..Len(ssScans[i])
      BY <1>3, <2>3
    <3> QED
      BY <1>3, <2>3, <3>1 DEF NoScanTwice
  <2> QED
    BY <1>3, <2>1, <2>2, <2>3
<1> QED
  BY <1>4, <1>5, <1>6, <1>7, <1>10

LEMMA ScanRecordedStep ==
    ASSUME SsInv, NEW i \in SsIds, ScanRecorded(i) PROVE SsInv'
<1> USE DEF SsInv
<1>1. /\ UNCHANGED <<ssPlan, ssEnabled, ssDeleted, ssTools, ssNow, ssPolled, ssScans, ssLost>>
      /\ i \in ssPoll.writes /\ ssLast' = [ssLast EXCEPT ![i] = ssNow]
      /\ ssPoll'.left = ssPoll.left /\ ssPoll'.writes = {} /\ ssPoll'.last = ssPoll.last
      /\ ssPoll' = [left |-> ssPoll'.left, writes |-> ssPoll'.writes, last |-> ssPoll'.last]
  BY DEF ScanRecorded, SsTypes
<1>2. /\ ssNow \in SsTimes /\ ssLast \in [SsIds -> SsTimes] /\ \A j \in ssPoll.writes : j = i
  BY <1>1 DEF SsTypes, SsTimes, SsNever
<1>3. /\ ssLast' \in [SsIds -> SsTimes] /\ ssLast'[i] = ssNow /\ \A j \in SsIds : j # i => ssLast'[j] = ssLast[j]
      /\ \A j \in SsIds : ssLast[j] <= ssLast'[j] /\ ssLast[j] \in Int
  BY <1>1, <1>2 DEF SsTimes, SsNever
<1>4. SsTypes' /\ LeftOrWrites'
  BY <1>1, <1>3 DEF SsTypes, LeftOrWrites, SsTimes
<1>5. CopyIsOlder'
  <2> SUFFICES ASSUME ssPoll.left # {}, NEW j \in SsIds
               PROVE  ssPoll.last \in [SsIds -> SsTimes] /\ ssPoll.last[j] <= ssLast'[j]
    BY <1>1 DEF CopyIsOlder, SsTimes
  <2>1. ssPoll.last \in [SsIds -> SsTimes] /\ ssPoll.last[j] <= ssLast[j]
    BY DEF CopyIsOlder
  <2>2. ssPoll.last[j] \in Int /\ ssLast[j] \in Int /\ ssLast'[j] \in Int
    BY <1>2, <1>3, <2>1 DEF SsTimes, SsNever
  <2> QED
    BY <1>3, <2>1, <2>2
<1>6. ScansRecorded'
  <2> SUFFICES ASSUME NEW j \in SsIds \ ssLost, NEW x \in 1..Len(ssScans[j])
               PROVE  /\ ssScans[j][x] <= ssNow /\ ssScans[j][x] <= ssLast'[j]
                      /\ j \in ssPoll.left => ssScans[j][x] <= ssPoll.last[j]
    BY <1>1 DEF ScansRecorded
  <2>1. CASE j = i
    BY <1>3, <2>1 DEF ScansRecorded
  <2>2. CASE j # i
    BY <1>2, <1>3, <2>2 DEF ScansRecorded
  <2> QED
    BY <2>1, <2>2
<1>7. SeenIsRun'
  <2>1. \A j, t : ScanTarget(j, t)' <=> ScanTarget(j, t)
    BY <1>1 DEF ScanTarget, ScanDay
  <2> QED
    BY <1>1, <1>2, <1>3, <2>1 DEF SeenIsRun
<1>8. NoScanTwice'
  BY <1>1, SameScans
<1> QED
  BY <1>4, <1>5, <1>6, <1>7, <1>8

\* The poll is over, or cut short: what it was about to write is lost.
LEMMA PollIsOver ==
    ASSUME SsInv, UNCHANGED <<ssPlan, ssEnabled, ssLast, ssDeleted, ssTools, ssNow, ssScans>>,
           ssPoll' = SsIdle, ssLost' \subseteq SsIds, ssLost \cup ssPoll.writes \subseteq ssLost',
           SeenIsRun'
    PROVE  SsInv'
<1> USE DEF SsInv
<1>1. ssPoll'.left = {} /\ ssPoll'.writes = {}
      /\ ssPoll' = [left |-> ssPoll'.left, writes |-> ssPoll'.writes, last |-> ssPoll'.last]
  BY IdleIs
<1>2. SsTypes' /\ LeftOrWrites' /\ CopyIsOlder'
  BY <1>1 DEF SsTypes, LeftOrWrites, CopyIsOlder, SsTimes
<1>3. ScansRecorded'
  BY <1>1 DEF ScansRecorded
<1>4. NoScanTwice'
  BY SameScans
<1> QED
  BY <1>2, <1>3, <1>4

LEMMA ScanPollEndsStep ==
    ASSUME SsInv, ScanPollEnds PROVE SsInv'
<1> USE DEF SsInv
<1>1. /\ UNCHANGED <<ssPlan, ssEnabled, ssLast, ssDeleted, ssTools, ssNow, ssPolled, ssScans, ssLost>>
      /\ ssPoll.writes = {} /\ ssPoll' = SsIdle
      /\ \A i \in ssPoll.left : ~ScanDue(ssPlan[i], ssPoll.last[i], ssNow)
  BY DEF ScanPollEnds, ssRows
<1>2. ASSUME NEW i \in ssPoll.left, ScanTarget(i, ssNow)
      PROVE  ssLast[i] = ssNow
  <2>1. /\ i \in SsIds /\ ssNow \in Nat /\ ssPlan[i] \in ScanPlans /\ ssLast[i] \in SsTimes
        /\ ssPoll.last[i] \in SsTimes /\ ssPoll.last[i] <= ssLast[i]
    BY DEF SsTypes, CopyIsOlder
  <2>2. PICK d \in Nat, h \in 0..(SsHours - 1) :
          d = ssNow \div SsHours /\ h = ssNow % SsHours /\ ssNow = d * SsHours + h
    BY <2>1, ScanSchedulesAssumption, DivIs
  <2>3. ScanDay(ssPlan[i], d) /\ h = ssPlan[i].hour
    BY <1>2, <2>2, Zenon DEF ScanTarget
  <2>4. ~(ssPoll.last[i] < d * SsHours + h /\ d * SsHours + h <= ssNow)
    BY <1>1, <2>2, <2>3, Zenon DEF ScanDue
  <2>5. ~(ssPoll.last[i] < ssNow /\ ssNow <= ssNow)
    BY <2>2, <2>4, Zenon
  <2> QED
    BY <2>1, <2>5 DEF SsTimes, SsNever
<1>3. \A i, t : ScanTarget(i, t)' <=> ScanTarget(i, t)
  BY <1>1 DEF ScanTarget, ScanDay
<1>4. SeenIsRun'
  BY <1>1, <1>2, <1>3 DEF SeenIsRun
<1>5. ssLost' \subseteq SsIds /\ ssLost \cup ssPoll.writes \subseteq ssLost'
  BY <1>1 DEF SsTypes
<1> QED
  BY <1>1, <1>4, <1>5, PollIsOver

LEMMA ScanRecordRaisesStep ==
    ASSUME SsInv, NEW i \in SsIds, ScanRecordRaises(i) PROVE SsInv'
<1>1. /\ UNCHANGED <<ssPlan, ssEnabled, ssLast, ssDeleted, ssTools, ssNow, ssScans>>
      /\ i \in ssPoll.writes /\ ssPoll' = SsIdle /\ ssPolled' = FALSE /\ ssLost' = ssLost \cup {i}
  BY DEF ScanRecordRaises, ssRows
<1>2. SeenIsRun'
  BY <1>1 DEF SeenIsRun
<1>3. ssLost' \subseteq SsIds /\ ssLost \cup ssPoll.writes \subseteq ssLost'
  BY <1>1 DEF SsInv, SsTypes
<1> QED
  BY <1>1, <1>2, <1>3, PollIsOver

LEMMA SsPanelEndsStep ==
    ASSUME SsInv, SsPanelEnds PROVE SsInv'
<1>1. /\ UNCHANGED <<ssPlan, ssEnabled, ssLast, ssDeleted, ssTools, ssNow, ssScans>>
      /\ ssPoll' = SsIdle /\ ssPolled' = FALSE /\ ssLost' = ssLost \cup ssPoll.writes
  BY DEF SsPanelEnds, ssRows
<1>2. SeenIsRun'
  BY <1>1 DEF SeenIsRun
<1>3. ssLost' \subseteq SsIds /\ ssLost \cup ssPoll.writes \subseteq ssLost'
  BY <1>1 DEF SsInv, SsTypes
<1> QED
  BY <1>1, <1>2, <1>3, PollIsOver

\* A request, or an installation: a poll has to look again.
LEMMA SsChanges ==
    ASSUME SsInv, UNCHANGED <<ssPlan, ssNow, ssPoll, ssScans, ssLost>>, ssPolled' = FALSE,
           ssEnabled' \in [SsIds -> BOOLEAN], ssDeleted' \subseteq SsIds, ssTools' \subseteq Scanners,
           ssLast' \in [SsIds -> SsTimes], \A i \in SsIds : ssLast'[i] = ssLast[i] \/ ssLast'[i] = ssNow
    PROVE  SsInv'
<1> USE DEF SsInv
<1>1. \A i \in SsIds : /\ ssLast[i] \in Int /\ ssLast'[i] \in Int /\ ssLast[i] <= ssLast'[i]
  <2>1. \A i \in SsIds : ssLast[i] \in SsTimes
    BY DEF SsTypes
  <2>2. ssNow \in Nat
    BY DEF SsTypes
  <2> QED
    BY <2>1, <2>2 DEF SsTimes, SsNever
<1>2. SsTypes' /\ LeftOrWrites' /\ SeenIsRun'
  BY DEF SsTypes, LeftOrWrites, SeenIsRun, SsTimes
<1>3. CopyIsOlder'
  <2> SUFFICES ASSUME ssPoll.left # {}, NEW j \in SsIds
               PROVE  ssPoll.last \in [SsIds -> SsTimes] /\ ssPoll.last[j] <= ssLast'[j]
    BY DEF CopyIsOlder, SsTimes
  <2>1. ssPoll.last \in [SsIds -> SsTimes] /\ ssPoll.last[j] <= ssLast[j]
    BY DEF CopyIsOlder
  <2>2. ssPoll.last[j] \in Int
    BY <2>1 DEF SsTypes, SsTimes, SsNever
  <2> QED
    BY <1>1, <2>1, <2>2
<1>4. ScansRecorded'
  <2> SUFFICES ASSUME NEW j \in SsIds \ ssLost, NEW x \in 1..Len(ssScans[j])
               PROVE  /\ ssScans[j][x] <= ssNow
                      /\ j \notin ssPoll.writes => ssScans[j][x] <= ssLast'[j]
                      /\ j \in ssPoll.left => ssScans[j][x] <= ssPoll.last[j]
    BY DEF ScansRecorded
  <2>1. /\ ssScans[j][x] <= ssNow
        /\ j \notin ssPoll.writes => ssScans[j][x] <= ssLast[j]
        /\ j \in ssPoll.left => ssScans[j][x] <= ssPoll.last[j]
    BY DEF ScansRecorded
  <2>2. ssScans[j][x] \in Nat
    BY DEF SsTypes
  <2> QED
    BY <1>1, <2>1, <2>2
<1>5. NoScanTwice'
  BY SameScans
<1> QED
  BY <1>2, <1>3, <1>4, <1>5

-----------------------------------------------------------------------------
(* The theorems about scans *)

LEMMA ScanNextHolds == SsInv /\ [ScanNext]_ssVars => SsInv'
<1> SUFFICES ASSUME SsInv, [ScanNext]_ssVars PROVE SsInv'
  OBVIOUS
<1>0. /\ ssNow \in Nat /\ ssEnabled \in [SsIds -> BOOLEAN] /\ ssDeleted \subseteq SsIds
      /\ ssTools \subseteq Scanners /\ ssLast \in [SsIds -> SsTimes] /\ ssNow \in SsTimes
  BY DEF SsInv, SsTypes, SsTimes, SsNever
<1>1. CASE SsTick \/ ScanPollReads \/ ScanPollEnds \/ SsPanelEnds
  BY <1>1, SsTickStep, ScanPollReadsStep, ScanPollEndsStep, SsPanelEndsStep
<1>2. ASSUME NEW i \in SsIds, ScanPassesOver(i) \/ ScanEnqueued(i) \/ ScanRecorded(i) \/ ScanRecordRaises(i)
      PROVE  SsInv'
  BY <1>2, ScanPassesOverStep, ScanEnqueuedStep, ScanRecordedStep, ScanRecordRaisesStep
<1>3. CASE ScannersChange
  <2>1. UNCHANGED <<ssPlan, ssEnabled, ssLast, ssDeleted, ssNow, ssPoll, ssScans, ssLost>> /\ ssPolled' = FALSE
    BY <1>3 DEF ScannersChange, SsChange, ssRows
  <2>2. ssTools' \subseteq Scanners
    BY <1>0, <1>3 DEF ScannersChange
  <2> QED
    BY <1>0, <2>1, <2>2, SsChanges
<1>4. ASSUME NEW i \in SsIds, ToggleScan(i) PROVE SsInv'
  <2>1. UNCHANGED <<ssPlan, ssLast, ssDeleted, ssTools, ssNow, ssPoll, ssScans, ssLost>> /\ ssPolled' = FALSE
    BY <1>4 DEF ToggleScan, SsChange
  <2>2. ssEnabled' \in [SsIds -> BOOLEAN]
    BY <1>0, <1>4 DEF ToggleScan
  <2> QED
    BY <1>0, <2>1, <2>2, SsChanges
<1>5. ASSUME NEW i \in SsIds, DeleteScan(i) PROVE SsInv'
  <2>1. /\ UNCHANGED <<ssPlan, ssEnabled, ssLast, ssTools, ssNow, ssPoll, ssScans, ssLost>>
        /\ ssPolled' = FALSE /\ ssDeleted' = ssDeleted \cup {i}
    BY <1>5 DEF DeleteScan, SsChange
  <2> QED
    BY <1>0, <2>1, SsChanges
<1>6. ASSUME NEW i \in SsIds, RunScanNow(i) PROVE SsInv'
  <2>1. /\ UNCHANGED <<ssPlan, ssEnabled, ssDeleted, ssTools, ssNow, ssPoll, ssScans, ssLost>>
        /\ ssPolled' = FALSE /\ ssLast' = [ssLast EXCEPT ![i] = ssNow]
    BY <1>6 DEF RunScanNow, SsChange
  <2>2. ssLast' \in [SsIds -> SsTimes] /\ \A j \in SsIds : ssLast'[j] = ssLast[j] \/ ssLast'[j] = ssNow
    BY <1>0, <2>1
  <2> QED
    BY <1>0, <2>1, <2>2, SsChanges
<1>7. CASE UNCHANGED ssVars
  <2>1. UNCHANGED <<ssPlan, ssEnabled, ssLast, ssDeleted, ssTools, ssNow, ssPoll, ssPolled, ssScans, ssLost>>
    BY <1>7 DEF ssVars, ssRows
  <2>2. SsTypes' /\ CopyIsOlder' /\ ScansRecorded' /\ LeftOrWrites'
    BY <2>1 DEF SsInv, SsTypes, SsTimes, CopyIsOlder, ScansRecorded, LeftOrWrites
  <2>3. SeenIsRun'
    BY <2>1 DEF SsInv, SeenIsRun, ScanTarget, ScanDay
  <2>4. NoScanTwice'
    BY <2>1, SameScans DEF SsInv
  <2> QED
    BY <2>2, <2>3, <2>4 DEF SsInv
<1> QED
  BY <1>1, <1>2, <1>3, <1>4, <1>5, <1>6, <1>7, Zenon DEF ScanNext

\* The invariant of the polls of scans holds in every state (security.py
\* 856-978).
THEOREM ScanInvariance == ScanSpec => []SsInv
BY ScanInitHolds, ScanNextHolds, PTL DEF ScanSpec

\* The rows and the polls of scans have their types.
THEOREM ScanTypeCorrect == ScanSpec => []ScanTypeOK
<1>1. SsInv => ScanTypeOK
  BY DEF SsInv, SsTypes, ScanTypeOK, SsTimes
<1> QED
  BY ScanInvariance, <1>1, PTL

\* get_next_scan_run names the first instant that check_scan_schedule_due
\* counts as a target, for every plan and at every instant of the calendar,
\* and no two polls enqueue a scan for one target (security.py 767-853,
\* 944-978).
THEOREM ScansInCalendar == ScanSpec => []ScansFollowCalendar
<1>1. SsInv => ScansFollowCalendar
  <2> SUFFICES ASSUME SsInv PROVE ScansFollowCalendar
    OBVIOUS
  <2>1. SsHours \in Nat \ {0} /\ SsMonths \subseteq Nat /\ SsMonths # {}
    BY ScanSchedulesAssumption
  <2>2. PICK end \in SsMonths : \A m \in SsMonths : m <= end
    BY ScanSchedulesAssumption
  <2>3. PICK top : top = Max(SsMonths) /\ top \in SsMonths /\ top \in Nat
    BY <2>1, <2>2, MaxIs
  <2>4. ASSUME NEW i \in SsIds, NEW t \in 0..(Max(SsMonths) * SsHours - 1)
        PROVE  LET n == ScanNextRun(ssPlan[i], t) IN
               n > t /\ ScanTarget(i, n) /\ \A x \in (t + 1)..(n - 1) : ~ScanTarget(i, x)
    <3>1. ssPlan[i] \in ScanPlans
      BY DEF SsInv, SsTypes
    <3>2. t \in Nat /\ t < top * SsHours
      <4>1. top * SsHours \in Nat
        BY <2>1, <2>3
      <4> QED
        BY <2>3, <4>1
    <3>3. PICK n : n = ScanNextRun(ssPlan[i], t)
      OBVIOUS
    <3>4. /\ n \in Nat /\ t < n /\ ScanHolds(ssPlan[i], n)
          /\ \A x \in Nat : t < x /\ x < n => ~ScanHolds(ssPlan[i], x)
      BY <2>3, <3>1, <3>2, <3>3, ScanNextRunIs
    <3>5. \A x : ScanTarget(i, x) <=> ScanHolds(ssPlan[i], x)
      BY DEF ScanTarget, ScanHolds
    <3> QED
      BY <3>2, <3>3, <3>4, <3>5
  <2>5. ScanNextRunIsTarget
    BY <2>4 DEF ScanNextRunIsTarget
  <2> QED
    BY <2>5 DEF ScansFollowCalendar, SsInv
<1> QED
  BY ScanInvariance, <1>1, PTL

\* No tick ends before every enabled schedule whose target it is, and whose
\* scanner is installed, has been run (security.py 944-978).
THEOREM ScansOnTime == ScanSpec => EveryTargetIsScanned
<1>1. SsInv /\ [ScanNext]_ssVars =>
        [ssNow' # ssNow =>
          \A i \in SsIds \ ssDeleted :
            ssEnabled[i] /\ ScanTarget(i, ssNow) /\ ssPlan[i].scanner \in ssTools => ssLast[i] = ssNow]_ssVars
  <2> SUFFICES ASSUME SsInv, [ScanNext]_ssVars, ssNow' # ssNow,
                      NEW i \in SsIds \ ssDeleted, ssEnabled[i], ScanTarget(i, ssNow), ssPlan[i].scanner \in ssTools
               PROVE  ssLast[i] = ssNow
    OBVIOUS
  <2>1. SsTick
    BY DEF ScanNext, ScanPollReads, ScanPollEnds, ScannersChange, SsPanelEnds, ScanPassesOver, ScanEnqueued,
           ScanRecorded, ScanRecordRaises, ToggleScan, DeleteScan, RunScanNow, ssVars
  <2>2. ssPolled /\ ssPoll.left = {} /\ ssPoll.writes = {}
    BY <2>1, IdleIs DEF SsTick, SsIsIdle
  <2> QED
    BY <2>2 DEF SsInv, SeenIsRun
<1> QED
  BY ScanInvariance, <1>1, PTL DEF ScanSpec, EveryTargetIsScanned

(***************************************************************************)
(* The parts together                                                      *)
(*                                                                         *)
(* MCPanelParts runs one part at a time while the others rest.  Whatever   *)
(* part it is, each of them behaves as its own specification says, so that *)
(* what is proved of a part alone holds of it there.                       *)
(***************************************************************************)

\* A behaviour of the parts is one of every part: the part that runs takes its
\* steps, and the others stay in an initial state of theirs (MCPanelParts.Only).
THEOREM PartsRunAlone ==
    PartsSpec =>
        /\ FwSpec
        /\ SwSpec
        /\ DbSpec
        /\ UpSpec
        /\ F2bSpec
        /\ ScanSpec
        /\ FileTreeSpec
        /\ WorkersSpec
        /\ WebAccessSpec
        /\ LtSpec
        /\ TmSpec
        /\ FtpSpec
        /\ CronSpec
        /\ SshSpec
        /\ SrSpec
<1>1. PartsInit =>
        /\ FwInit
        /\ SwInit
        /\ DbInit
        /\ UpInit
        /\ F2bInit
        /\ ScanInit
        /\ FileTreeInit
        /\ WkInit
        /\ WaInit
        /\ LtInit
        /\ TmInit
        /\ FpInit
        /\ CronInit
        /\ SkInit
        /\ SrInit
  BY DEF PartsInit
<1>2. [PartsNext]_partsVars =>
        /\ [FwNext]_fwVars
        /\ [SwNext]_swVars
        /\ [DbNext]_dbVars
        /\ [UpNext]_upVars
        /\ [F2bNext]_f2Vars
        /\ [ScanNext]_ssVars
        /\ [FileTreeNext]_ftVars
        /\ [WorkersNext]_wkVars
        /\ [WebAccessNext]_waVars
        /\ [LtNext]_ltVars
        /\ [TmNext]_tmVars
        /\ [FtpNext]_fpVars
        /\ [CronNext]_ctVars
        /\ [SshNext]_skVars
        /\ [SrNext]_srVars
  BY DEF PartsNext, partsVars, Only
<1> QED
  BY <1>1, <1>2, PTL DEF PartsSpec, FwSpec, SwSpec, DbSpec, UpSpec, F2bSpec, ScanSpec,
       FileTreeSpec, WorkersSpec, WebAccessSpec, LtSpec, TmSpec, FtpSpec, CronSpec, SshSpec, SrSpec

\* Every variable of every part keeps its type, whichever part runs and for any
\* values of their constants; the part that runs stays the same.
THEOREM PartsTyped == PartsSpec => []PartsTypeOK
<1>1. PartsInit => part \in Parts
  BY DEF PartsInit
<1>2. part \in Parts /\ [PartsNext]_partsVars => (part \in Parts)'
  BY DEF PartsNext, partsVars, Only
<1>3. PartsSpec => [](part \in Parts)
  BY <1>1, <1>2, PTL DEF PartsSpec
<1>4. /\ part \in Parts
      /\ FwTypeOK
      /\ SwTypeOK
      /\ DbTypeOK
      /\ UpTypeOK
      /\ F2bTypeOK
      /\ ScanTypeOK
      /\ FtTypeOK
      /\ WkTypeOK
      /\ WaTypeOK
      /\ LtTypeOK
      /\ TmTypeOK
      /\ FtpTypeOK
      /\ CronTypeOK
      /\ SshTypeOK
      /\ SrTypeOK
      => PartsTypeOK
  BY DEF PartsTypeOK
<1> QED
  BY PartsRunAlone, <1>3, <1>4, PTL,
     FwTypeCorrect, SwTypeCorrect, DbTypeCorrect, UpTypeCorrect, F2bTypeCorrect,
     ScanTypeCorrect, FtTypeCorrect, WkTypeCorrect, WaTypeCorrect, LtTypeCorrect,
     TmTypeCorrect, FpTypeCorrect, CtTypeCorrect, SkTypeCorrect, SrTypeCorrect

\* What the run of the parts checks holds of them for any values of their
\* constants: each property is the one its own theorem states.
THEOREM PartsKeepPromises ==
    PartsSpec =>
        /\ [](/\ SwapIsSound /\ RowsAreUsable /\ UploadsAreWhole /\ DaemonMatches
              /\ ScansFollowCalendar /\ OwnedByTheSite /\ WorkersAreTheirRows
              /\ AccessIsAsGranted /\ TerminalsAreClean /\ AccountsAreRows
              /\ CrontabIsRows /\ KeysInSync /\ RowsAreKept)
        /\ LockIsFair /\ ClosingKeepsSshOpen /\ EveryTargetIsScanned
        /\ NoSilentLoss /\ MarkerMeansServed
  BY PartsRunAlone, PTL,
     SwapSound, RowsUsable, UploadsWhole, DaemonRight, ScansInCalendar, OwnedRight,
     WorkersRight, AccessRight, TerminalsClean, AccountsRight, RowsAreInstalled,
     KeysStayInSync, RowsKept, LockFair, SshStaysOpen, ScansOnTime, NoLoss, MarkerRight
==============================================================================
