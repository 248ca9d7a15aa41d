---------------------------- MODULE RecurrenceProofs ---------------------------
(***************************************************************************)
(* Proofs about Recurrence: the leaps from date to date pass over no date  *)
(* that fits the rule and stop at none that does not, for any calendar,    *)
(* rule and window.                                                        *)
(***************************************************************************)
EXTENDS Recurrence, WellFoundedInduction, TLAPS

-------------------------------------------------------------------------------
(* Arithmetic *)

(* Division with remainder, by a divisor that is not known.                *)
LEMMA Division ==
    ASSUME NEW a \in Int, NEW k \in Nat \ {0}
    PROVE  /\ a \div k \in Int /\ a % k \in 0 .. k - 1
           /\ a = k * (a \div k) + (a % k)
OBVIOUS

(* And what the remainder of a sum is.                                     *)
LEMMA Remainder ==
    ASSUME NEW k \in Nat \ {0}, NEW q \in Int, NEW r \in 0 .. k - 1
    PROVE  (k * q + r) \div k = q /\ (k * q + r) % k = r
OBVIOUS

(* A multiple divides, and what divides is a multiple.                     *)
LEMMA Multiple ==
    ASSUME NEW a \in Int, NEW k \in Nat \ {0}
    PROVE  a % k = 0 <=> \E q \in Int : a = k * q
<1>1. ASSUME a % k = 0 PROVE \E q \in Int : a = k * q
  <2>1. a \div k \in Int /\ a = k * (a \div k)
    BY <1>1, Division
  <2> QED BY <2>1
<1>2. ASSUME NEW q \in Int, a = k * q PROVE a % k = 0
  <2>1. (k * q + 0) % k = 0 /\ k * q + 0 = k * q
    BY Remainder
  <2> QED BY <1>2, <2>1
<1> QED BY <1>1, <1>2

(* From one multiple to a greater one it is at least a step.               *)
LEMMA Step ==
    ASSUME NEW k \in Nat \ {0}, NEW i \in Int, NEW j \in Int
    PROVE  /\ k * i \in Int /\ k * j \in Int
           /\ k * (i + 1) = k * i + k /\ k * (i + j) = k * i + k * j
           /\ i < j => k * i + k <= k * j
           /\ i <= j => k * i <= k * j
<1>1. k * i \in Int /\ k * j \in Int /\ k * (i + 1) = k * i + k /\ k * (i + j) = k * i + k * j
  OBVIOUS
<1>2. ASSUME i < j PROVE k * i + k <= k * j
  <2>1. k * (j - i - 1) >= 0
    BY <1>2
  <2>2. k * (j - i - 1) = k * j - k * i - k
    OBVIOUS
  <2> QED BY <1>1, <2>1, <2>2
<1>3. ASSUME i <= j PROVE k * i <= k * j
  <2>1. i = j \/ i < j
    BY <1>3
  <2> QED BY <1>1, <1>2, <2>1
<1> QED BY <1>1, <1>2, <1>3

(* Numbers up to a bound have a largest.                                   *)
LEMMA Largest ==
    ASSUME NEW n \in Nat, NEW S \in SUBSET (0 .. n), S # {}
    PROVE  \E m \in S : \A i \in S : i <= m
<1> DEFINE T == {n - i : i \in S}
<1>1. T \in SUBSET Nat /\ T # {}
  <2>1. \A i \in S : n - i \in Nat
    OBVIOUS
  <2> QED BY <2>1
<1> HIDE DEF T
<1>2. PICK t \in T : \A u \in T : ~ (<<u, t>> \in OpToRel(<, Nat))
  BY <1>1, NatLessThanWellFounded, WFMin
<1>3. \A u \in T : ~ (u < t)
  <2> SUFFICES ASSUME NEW u \in T, u < t PROVE FALSE
    OBVIOUS
  <2>1. u \in Nat /\ t \in Nat
    BY <1>1
  <2>2. <<u, t>> \in OpToRel(<, Nat)
    BY <2>1, Zenon DEF OpToRel
  <2> QED BY <1>2, <2>2
<1>4. PICK m \in S : t = n - m
  BY DEF T
<1>5. ASSUME NEW i \in S PROVE i <= m
  <2>1. n - i \in T
    BY DEF T
  <2>2. ~ (n - i < n - m)
    BY <1>3, <1>4, <2>1
  <2> QED BY <2>2
<1> QED BY <1>5

-------------------------------------------------------------------------------
(* Leaps *)

(* The first multiple that is not before the target.                       *)
LEMMA LeapIs ==
    ASSUME NEW first \in Int, NEW target \in Int, NEW step \in Nat \ {0}
    PROVE  LET x == Leap(first, target, step) IN
             /\ x \in Int /\ x >= target /\ x >= first /\ (x - first) % step = 0
             /\ \A y \in Int : y >= target /\ y >= first /\ (y - first) % step = 0 => x <= y
<1>1. CASE target <= first
  <2>1. Leap(first, target, step) = first
    BY <1>1 DEF Leap
  <2>2. (first - first) % step = 0
    <3>1. first - first = step * 0
      OBVIOUS
    <3> QED BY <3>1, Multiple
  <2> QED BY <1>1, <2>1, <2>2
<1>2. CASE target > first
  <2> DEFINE n == target - first
             a == n + step - 1
             c == a \div step
             b == a % step
             x == first + step * c
  <2>1. n \in Nat \ {0} /\ a \in Int
    BY <1>2
  <2>2. c \in Int /\ b \in 0 .. step - 1 /\ a = step * c + b
    <3> HIDE DEF a
    <3> QED BY <2>1, Division
  <2>3. Leap(first, target, step) = x
    <3>1. c * step = step * c
      <4> HIDE DEF c
      <4> QED BY <2>2
    <3> QED BY <1>2, <3>1 DEF Leap, CeilDiv
  <2>4. step * c \in Int /\ step * c >= n
    <3>1. step * c \in Int
      BY <2>2
    <3> DEFINE p == step * c
    <3>2. p \in Int /\ n + step - 1 = p + b
      BY <2>2, <3>1
    <3> HIDE DEF p, n, c, b
    <3>3. p >= n
      BY <2>1, <2>2, <3>2
    <3> QED BY <3>1, <3>3 DEF p
  <2>5. x \in Int /\ x >= target /\ x >= first /\ (x - first) % step = 0
    <3>1. x - first = step * c
      BY <2>4
    <3>2. (x - first) % step = 0
      <4> HIDE DEF c, x
      <4> QED BY <2>2, <2>4, <3>1, Multiple
    <3> QED BY <2>1, <2>4, <3>2
  <2>6. ASSUME NEW y \in Int, y >= target, y >= first, (y - first) % step = 0 PROVE x <= y
    <3>1. PICK q \in Int : y - first = step * q
      BY <2>6, Multiple
    <3>2. ASSUME q < c PROVE FALSE
      <4> DEFINE p == step * c
                 s == step * q
      <4>1. s + step <= p /\ s \in Int /\ p \in Int
        BY <2>2, <3>2, Step
      <4>2. n + step - 1 = p + b /\ s >= n
        BY <2>2, <2>6, <3>1
      <4> HIDE DEF p, s, n, c, b
      <4> QED BY <2>1, <2>2, <4>1, <4>2
    <3>3. step * c <= step * q
      <4> HIDE DEF c
      <4> QED BY <2>2, <3>2, Step
    <3> DEFINE p == step * c
               s == step * q
    <3>4. p \in Int /\ s \in Int /\ p <= s /\ y = first + s
      BY <2>4, <3>1, <3>3
    <3> HIDE DEF p, s
    <3>5. first + p <= y
      BY <3>4
    <3> QED BY <3>5 DEF p
  <2> HIDE DEF x
  <2> QED BY <2>3, <2>5, <2>6
<1> QED BY <1>1, <1>2

-------------------------------------------------------------------------------
(* The calendar *)

(* The index of the day after the calendar.                                *)
Last == Len(FirstOf)

(* Months follow each other and fill the calendar.                         *)
LEMMA Calendars ==
    /\ Last \in Nat /\ Last > 1 /\ Months = 1 .. Last - 1 /\ 1 \in Months
    /\ Beyond \in Nat /\ FirstOf[1] = 1 /\ FirstOf[Last] = Beyond
    /\ \A m \in 1 .. Last : FirstOf[m] \in Nat /\ 1 <= FirstOf[m] /\ FirstOf[m] <= Beyond
    /\ \A m, n \in 1 .. Last : m < n => FirstOf[m] < FirstOf[n]
    /\ \A m \in Months : m \in Nat /\ m + 1 \in 1 .. Last /\ m \in 1 .. Last
<1>1. Last \in Nat /\ Last > 1 /\ FirstOf[1] = 1 /\ Months = 1 .. Last - 1
      /\ \A m \in 1 .. Last : FirstOf[m] \in Nat
  BY RecurrenceAssumption DEF Last, Months
<1>2. \A m, n \in 1 .. Last : m < n => FirstOf[m] < FirstOf[n]
  BY RecurrenceAssumption DEF Last
<1>3. \A m \in 1 .. Last : 1 <= FirstOf[m] /\ FirstOf[m] <= FirstOf[Last]
  BY <1>1, <1>2
<1> QED BY <1>1, <1>2, <1>3 DEF Beyond, Last

(* The month of a date is the one it lies in.                              *)
LEMMA MonthIs ==
    ASSUME NEW d \in Calendar
    PROVE  /\ Month(d) \in Months /\ FirstOf[Month(d)] <= d /\ d < FirstOf[Month(d) + 1]
           /\ d \in Nat /\ 1 <= d /\ d < Beyond
<1> DEFINE S == {m \in Months : FirstOf[m] <= d}
<1>1. d \in Nat /\ 1 <= d /\ d < Beyond
  BY Calendars DEF Calendar
<1>2. S \in SUBSET (0 .. Last) /\ 1 \in S /\ Last \in Nat
  BY <1>1, Calendars
<1> HIDE DEF S
<1>3. PICK m \in S : \A i \in S : i <= m
  BY <1>2, Largest
<1>4. m \in Months /\ FirstOf[m] <= d /\ (m + 1 \in Months => ~ (FirstOf[m + 1] <= d))
  <2>1. m \in Months /\ FirstOf[m] <= d /\ m \in Nat
    BY Calendars DEF S
  <2>2. m + 1 \notin S
    BY <1>3, <2>1
  <2> QED BY <2>1, <2>2 DEF S
<1>5. d < FirstOf[m + 1]
  <2>1. CASE m + 1 \in Months
    BY <1>1, <1>4, <2>1, Calendars
  <2>2. CASE m + 1 \notin Months
    <3>1. m + 1 = Last
      BY <1>4, <2>2, Calendars
    <3> QED BY <1>1, <3>1, Calendars
  <2> QED BY <2>1, <2>2
<1>6. \E i \in Months : FirstOf[i] <= d /\ d < FirstOf[i + 1]
  BY <1>4, <1>5
<1> QED BY <1>1, <1>6, Zenon DEF Month

(* Later months have later dates.                                          *)
LEMMA MonthsInOrder ==
    ASSUME NEW m \in Months, NEW n \in Months, m < n
    PROVE  FirstOf[m + 1] <= FirstOf[n]
<1>1. m + 1 = n \/ m + 1 < n
  BY Calendars
<1>2. m + 1 \in 1 .. Last /\ n \in 1 .. Last
  BY Calendars
<1> QED BY <1>1, <1>2, Calendars

(* So dates are in the order of their months.                             *)
LEMMA DatesInOrder ==
    ASSUME NEW d \in Calendar, NEW e \in Calendar
    PROVE  Month(d) < Month(e) => d < e
<1> SUFFICES ASSUME Month(d) < Month(e) PROVE d < e
  OBVIOUS
<1> DEFINE m == Month(d)
           n == Month(e)
<1>1. /\ m \in Months /\ n \in Months /\ d \in Nat /\ e \in Nat
      /\ d < FirstOf[m + 1] /\ FirstOf[n] <= e
  BY MonthIs
<1>2. m < n
  OBVIOUS
<1> HIDE DEF m, n
<1>3. FirstOf[m + 1] <= FirstOf[n] /\ FirstOf[m + 1] \in Nat /\ FirstOf[n] \in Nat
  BY <1>1, <1>2, MonthsInOrder, Calendars
<1> QED BY <1>1, <1>3

(* A date lies in one month.                                               *)
LEMMA OneMonth ==
    ASSUME NEW d \in Calendar, NEW m \in Months, FirstOf[m] <= d, d <= LastOf(m)
    PROVE  Month(d) = m
<1> DEFINE n == Month(d)
<1>1. /\ n \in Months /\ d \in Nat /\ FirstOf[n] <= d /\ d < FirstOf[n + 1]
  BY MonthIs
<1> HIDE DEF n
<1>2. d < FirstOf[m + 1] /\ FirstOf[m + 1] \in Nat /\ FirstOf[m] \in Nat
      /\ FirstOf[n + 1] \in Nat /\ FirstOf[n] \in Nat /\ m \in Nat /\ n \in Nat
  <2>1. \A i \in Months : FirstOf[i] \in Nat /\ FirstOf[i + 1] \in Nat /\ i \in Nat
    BY Calendars
  <2> QED BY <1>1, <2>1 DEF LastOf
<1>3. ~ (m < n)
  BY <1>1, <1>2, MonthsInOrder
<1>4. ~ (n < m)
  BY <1>1, <1>2, MonthsInOrder
<1>5. n = m
  BY <1>2, <1>3, <1>4
<1> QED BY <1>5 DEF n

(* The date of a month is in it, and the last if the month is too short.   *)
LEMMA ClampedIs ==
    ASSUME NEW m \in Months, NEW day \in Nat \ {0}
    PROVE  /\ ClampedDate(m, day) \in Calendar /\ Month(ClampedDate(m, day)) = m
           /\ \A d \in Calendar : Month(d) = m =>
                (d = ClampedDate(m, day) <=>
                   d - FirstOf[m] + 1 = day \/ (d = LastOf(m) /\ d - FirstOf[m] + 1 < day))
<1> DEFINE c == ClampedDate(m, day)
           f == FirstOf[m]
           l == LastOf(m)
<1>1. f \in Nat /\ l \in Nat /\ f <= l /\ 1 <= f /\ l < Beyond /\ Beyond \in Nat
  <2>1. FirstOf[m + 1] \in Nat /\ FirstOf[m] < FirstOf[m + 1] /\ FirstOf[m + 1] <= Beyond
    BY Calendars
  <2> QED BY <2>1, Calendars DEF LastOf
<1>2. c = IF f + day - 1 > l THEN l ELSE f + day - 1
  BY DEF ClampedDate
<1>3. \A d \in Calendar : Month(d) = m => d \in Nat /\ f <= d /\ d <= l
  BY MonthIs, Calendars DEF LastOf
<1> HIDE DEF c, f, l
<1>4. c \in Nat /\ f <= c /\ c <= l
  BY <1>1, <1>2
<1>5. c \in Calendar
  BY <1>1, <1>4 DEF Calendar
<1>6. Month(c) = m
  BY <1>4, <1>5, OneMonth DEF f, l
<1>7. \A d \in Nat : f <= d /\ d <= l => (d = c <=> d - f + 1 = day \/ (d = l /\ d - f + 1 < day))
  BY <1>1, <1>2
<1> QED BY <1>3, <1>5, <1>6, <1>7 DEF c, f, l

-------------------------------------------------------------------------------
(* The next date of a rule *)

(* What a rule is after it is completed.                                   *)
Complete(r) ==
    /\ r.frequency \in {"daily", "weekly", "monthly"}
    /\ r.interval \in Nat \ {0} /\ r.start \in Calendar /\ r.end \in {0} \cup Calendar
    /\ r.frequency = "weekly" => r.dayOfWeek \in 1 .. 7
    /\ r.frequency = "monthly" => r.dayOfMonth \in Nat \ {0}

(* x is the first date from target on that matches the rule, or a day      *)
(* after the calendar if none in it does.                                  *)
IsNext(r, target, x) ==
    /\ x \in Int /\ x >= target
    /\ x \in Calendar => Matches(r, x)
    /\ \A d \in Calendar : d >= target /\ Matches(r, d) => x <= d

(* The next date of a daily rule.                                         *)
LEMMA NextDay ==
    ASSUME NEW r, Complete(r), r.frequency = "daily", NEW target \in Calendar, target >= r.start
    PROVE  IsNext(r, target, Leap(r.start, target, r.interval))
<1>1. r.start \in Int /\ target \in Int /\ r.interval \in Nat \ {0} /\ \A d \in Calendar : d \in Int
  BY MonthIs DEF Complete
<1> DEFINE x == Leap(r.start, target, r.interval)
<1>2. /\ x \in Int /\ x >= target /\ x >= r.start /\ (x - r.start) % r.interval = 0
      /\ \A y \in Int : y >= target /\ y >= r.start /\ (y - r.start) % r.interval = 0 => x <= y
  BY <1>1, LeapIs
<1>3. \A d : Matches(r, d) <=> (d - r.start) % r.interval = 0
  BY DEF Matches
<1> HIDE DEF x
<1>4. \A d \in Calendar : d >= target => d >= r.start
  BY <1>1
<1> QED BY <1>1, <1>2, <1>3, <1>4 DEF IsNext, x

(* The weekday of a rule comes once in each week since its start.          *)
LEMMA Weeks ==
    ASSUME NEW r, Complete(r), r.frequency = "weekly", NEW d \in Calendar, d >= r.start
    PROVE  LET first == r.start + ((r.dayOfWeek - Weekday(r.start) + 7) % 7) IN
             /\ first \in Int /\ first >= r.start
             /\ Matches(r, d) <=> d >= first /\ (d - first) % (7 * r.interval) = 0
<1> DEFINE s == r.start
           w == r.dayOfWeek
           k == r.interval
           shift == (w - Weekday(s) + 7) % 7
           first == s + shift
           a == (d - s) \div 7
<1>1. s \in Int /\ d \in Int /\ w \in 1 .. 7 /\ k \in Nat \ {0} /\ FirstWeekday \in 1 .. 7 /\ d >= s
  BY MonthIs, RecurrenceAssumption DEF Complete
<1>2. Matches(r, d) <=> Weekday(d) = w /\ a % k = 0
  BY DEF Matches
<1> HIDE DEF s, w, k
<1>3. shift \in 0 .. 6 /\ first \in Int /\ first >= s /\ a \in Int
  BY <1>1 DEF Weekday
<1>4. Weekday(d) = w <=> d - s = 7 * a + shift
  BY <1>1 DEF Weekday
<1> HIDE DEF shift, a
<1>5. ASSUME Weekday(d) = w, a % k = 0
      PROVE  d >= first /\ (d - first) % (7 * k) = 0
  <2>1. d - s = 7 * a + shift
    BY <1>4, <1>5
  <2>2. a >= 0 /\ d - first = 7 * a /\ d >= first
    BY <1>1, <1>3, <2>1
  <2>3. PICK q \in Int : a = k * q
    BY <1>1, <1>3, <1>5, Multiple
  <2>4. 7 * (k * q) = (7 * k) * q /\ 7 * k \in Nat \ {0}
    BY <1>1
  <2>5. d - first = (7 * k) * q /\ d - first \in Int
    BY <1>1, <1>3, <2>2, <2>3, <2>4
  <2> HIDE DEF first
  <2>6. (d - first) % (7 * k) = 0
    BY <2>4, <2>5, Multiple
  <2> QED BY <2>2, <2>6
<1>6. ASSUME d >= first, (d - first) % (7 * k) = 0
      PROVE  Weekday(d) = w /\ a % k = 0
  <2>1. 7 * k \in Nat \ {0} /\ d - first \in Int
    BY <1>1, <1>3
  <2>2. PICK q \in Int : d - first = (7 * k) * q
    <3> HIDE DEF first
    <3> QED BY <1>6, <2>1, Multiple
  <2> DEFINE b == k * q
  <2>3. b \in Int /\ (7 * k) * q = 7 * b
    BY <1>1
  <2>4. b % k = 0
    BY <1>1, <2>3, Multiple
  <2> HIDE DEF b
  <2>5. d - s = 7 * b + shift
    BY <1>1, <1>3, <2>2, <2>3
  <2>6. a = b
    BY <1>1, <1>3, <2>3, <2>5 DEF a
  <2> QED BY <1>4, <2>4, <2>5, <2>6
<1>7. (Weekday(d) = w /\ a % k = 0) <=> (d >= first /\ (d - first) % (7 * k) = 0)
  BY <1>5, <1>6
<1> QED BY <1>2, <1>3, <1>7 DEF s, w, k, shift, a

(* The next date of a weekly rule.                                        *)
LEMMA NextWeekday ==
    ASSUME NEW r, Complete(r), r.frequency = "weekly", NEW target \in Calendar, target >= r.start
    PROVE  IsNext(r, target, Leap(r.start + ((r.dayOfWeek - Weekday(r.start) + 7) % 7), target,
                                  7 * r.interval))
<1> DEFINE first == r.start + ((r.dayOfWeek - Weekday(r.start) + 7) % 7)
           step == 7 * r.interval
           x == Leap(first, target, step)
<1>1. /\ first \in Int /\ target \in Int /\ step \in Nat \ {0} /\ first >= r.start /\ r.start \in Int
      /\ \A d \in Calendar : d \in Int
  BY Weeks, MonthIs DEF Complete
<1>2. \A d \in Calendar : d >= r.start =>
        (Matches(r, d) <=> d >= first /\ (d - first) % step = 0)
  BY Weeks
<1> HIDE DEF first, step
<1>3. /\ x \in Int /\ x >= target /\ x >= first /\ (x - first) % step = 0
      /\ \A y \in Int : y >= target /\ y >= first /\ (y - first) % step = 0 => x <= y
  BY <1>1, LeapIs
<1> HIDE DEF x
<1>4. \A d \in Calendar : d >= target => d >= r.start
  BY <1>1
<1>5. IsNext(r, target, x)
  BY <1>1, <1>2, <1>3, <1>4 DEF IsNext
<1> QED BY <1>5 DEF x, first, step

(* A date matches a monthly rule when its month does and it is the date of *)
(* that month.                                                             *)
LEMMA MatchesMonth ==
    ASSUME NEW r, Complete(r), r.frequency = "monthly", NEW d \in Calendar
    PROVE  Matches(r, d) <=> /\ (Month(d) - Month(r.start)) % r.interval = 0
                             /\ d = ClampedDate(Month(d), r.dayOfMonth)
<1>1. Month(d) \in Months /\ r.dayOfMonth \in Nat \ {0}
  BY MonthIs DEF Complete
<1>2. d = ClampedDate(Month(d), r.dayOfMonth) <=>
        d - FirstOf[Month(d)] + 1 = r.dayOfMonth
        \/ (d = LastOf(Month(d)) /\ d - FirstOf[Month(d)] + 1 < r.dayOfMonth)
  BY <1>1, ClampedIs
<1> QED BY <1>2 DEF Matches

(* The months of a rule are those a multiple of its interval after its     *)
(* first month, which is the one of its start unless its day was before.   *)
LEMMA MonthsOfRule ==
    ASSUME NEW r, Complete(r), r.frequency = "monthly"
    PROVE  LET first == FirstMonth(r)
               day   == r.dayOfMonth
               k     == r.interval
           IN  /\ first \in Nat \ {0} /\ k \in Nat \ {0}
               /\ \A q \in Int : first + k * q \in Months =>
                    Matches(r, ClampedDate(first + k * q, day))
               /\ \A d \in Calendar : d >= r.start /\ Matches(r, d) =>
                    \E q \in Nat : Month(d) = first + k * q
<1> DEFINE m == Month(r.start)
           first == FirstMonth(r)
           day   == r.dayOfMonth
           k     == r.interval
<1>1. /\ m \in Months /\ m \in Nat \ {0} /\ k \in Nat \ {0} /\ day \in Nat \ {0}
      /\ r.start \in Calendar
      /\ \A n \in Months : n \in Nat
  BY MonthIs, Calendars DEF Complete
<1>2. first = IF ClampedDate(m, day) < r.start THEN m + k ELSE m
  BY DEF FirstMonth
<1>3. \A d \in Calendar : Matches(r, d) <=> (Month(d) - m) % k = 0 /\ d = ClampedDate(Month(d), day)
  BY MatchesMonth
<1> HIDE DEF m, first, day, k
<1>4. PICK p \in {0, 1} : first = m + k * p /\ (p = 1 <=> ClampedDate(m, day) < r.start)
  <2>1. k * 0 = 0 /\ k * 1 = k
    BY <1>1
  <2> QED BY <1>1, <1>2, <2>1
<1>5. first \in Nat \ {0}
  BY <1>1, <1>4
<1>6. ASSUME NEW q \in Int, first + k * q \in Months
      PROVE  Matches(r, ClampedDate(first + k * q, day))
  <2> DEFINE n == first + k * q
             d == ClampedDate(n, day)
  <2>1. d \in Calendar /\ Month(d) = n
    BY <1>1, <1>6, ClampedIs
  <2>2. n - m = k * (p + q)
    BY <1>1, <1>4
  <2>3. n - m \in Int /\ p + q \in Int
    BY <1>1, <1>4, <1>6
  <2> HIDE DEF n
  <2>4. (n - m) % k = 0
    BY <1>1, <2>2, <2>3, Multiple
  <2>5. Matches(r, d)
    BY <1>3, <2>1, <2>4
  <2> QED BY <2>5 DEF n
<1>7. ASSUME NEW d \in Calendar, d >= r.start, Matches(r, d)
      PROVE  \E q \in Nat : Month(d) = first + k * q
  <2> DEFINE n == Month(d)
  <2>1. n \in Months /\ d = ClampedDate(n, day) /\ (n - m) % k = 0 /\ d \in Nat /\ r.start \in Nat
    BY <1>1, <1>3, <1>7, MonthIs
  <2>2. ~ (n < m)
    BY <1>1, <1>7, <2>1, DatesInOrder DEF m
  <2> HIDE DEF n
  <2>3. n \in Nat /\ n - m \in Int
    BY <1>1, <2>1
  <2>4. PICK j \in Int : n - m = k * j
    BY <1>1, <2>1, <2>3, Multiple
  <2>5. ~ (j < 0)
    <3>1. j < 0 => k * j + k <= k * 0
      BY <1>1, Step
    <3> QED BY <1>1, <2>2, <2>3, <2>4, <3>1
  <2>6. j >= p
    <3>1. CASE p = 1
      <4>1. n # m
        BY <1>4, <1>7, <2>1, <3>1
      <4>2. j = 0 => n = m
        BY <1>1, <2>3, <2>4
      <4> QED BY <2>5, <3>1, <4>1, <4>2
    <3>2. CASE p = 0
      BY <2>5, <3>2
    <3> QED BY <3>1, <3>2
  <2>7. j - p \in Nat /\ n = first + k * (j - p)
    <3>1. k * (j - p) = k * j - k * p
      BY <1>1
    <3> QED BY <1>1, <1>4, <2>3, <2>4, <2>6, <3>1
  <2> QED BY <2>7 DEF n
<1> QED BY <1>1, <1>5, <1>6, <1>7 DEF first, day, k

(* A month of the rule has its next date, if none of an earlier month is   *)
(* left.                                                                   *)
LEMMA NextOfMonth ==
    ASSUME NEW r, Complete(r), r.frequency = "monthly",
           NEW target \in Calendar, target >= r.start, NEW q \in Nat,
           target <= ClampedDate(FirstMonth(r) + r.interval * q, r.dayOfMonth),
           \A d \in Calendar : \A j \in Nat :
             d >= target /\ Matches(r, d) /\ Month(d) = FirstMonth(r) + r.interval * j => q <= j
    PROVE  IsNext(r, target, ClampedDate(FirstMonth(r) + r.interval * q, r.dayOfMonth))
<1> DEFINE first == FirstMonth(r)
           day   == r.dayOfMonth
           k     == r.interval
           n     == first + k * q
           x     == ClampedDate(n, day)
<1>1. /\ first \in Nat \ {0} /\ k \in Nat \ {0} /\ day \in Nat \ {0}
      /\ \A i \in Int : first + k * i \in Months => Matches(r, ClampedDate(first + k * i, day))
      /\ \A d \in Calendar : d >= r.start /\ Matches(r, d) =>
           \E i \in Nat : Month(d) = first + k * i
  BY MonthsOfRule DEF Complete
<1>2. n \in Nat \ {0} /\ k * q \in Nat
  <2>1. k * q \in Nat
    BY <1>1
  <2> HIDE DEF k, first
  <2> QED BY <1>1, <2>1
<1>3. target \in Nat /\ r.start \in Nat /\ target < Beyond /\ Beyond \in Nat
  BY MonthIs, Calendars DEF Complete
<1>4. \A d \in Calendar : Matches(r, d) => d = ClampedDate(Month(d), day)
  BY MatchesMonth
<1>5. \A d \in Calendar : d >= target /\ Matches(r, d) => n <= Month(d) /\ d \in Nat
  <2> SUFFICES ASSUME NEW d \in Calendar, d >= target, Matches(r, d)
               PROVE  n <= Month(d) /\ d \in Nat
    OBVIOUS
  <2>1. d \in Nat
    BY MonthIs
  <2>2. PICK i \in Nat : Month(d) = first + k * i
    BY <1>1, <1>3, <2>1
  <2>3. q <= i
    BY <2>2
  <2>4. k * q <= k * i /\ k * i \in Int /\ k * q \in Int
    BY <1>1, <2>3, Step
  <2> HIDE DEF first, k
  <2> QED BY <1>1, <2>1, <2>2, <2>4
<1>6. target <= x
  OBVIOUS
<1>7. n \in Months => Matches(r, x)
  BY <1>1
<1>8. CASE n \in Months
  <2> HIDE DEF n
  <2>1. x \in Calendar /\ Month(x) = n /\ x \in Nat
    BY <1>1, <1>8, ClampedIs, MonthIs
  <2>2. ASSUME NEW d \in Calendar, d >= target, Matches(r, d) PROVE x <= d
    <3>1. n <= Month(d) /\ d \in Nat /\ Month(d) \in Nat /\ d = ClampedDate(Month(d), day)
      BY <1>4, <1>5, <2>2, MonthIs, Calendars
    <3>2. n < Month(d) => x < d
      BY <2>1, DatesInOrder
    <3> QED BY <1>2, <2>1, <3>1, <3>2
  <2> HIDE DEF x
  <2>3. IsNext(r, target, x)
    BY <1>3, <1>6, <1>7, <1>8, <2>1, <2>2 DEF IsNext
  <2> QED BY <2>3 DEF x, n
<1>9. CASE n \notin Months
  <2> HIDE DEF n
  <2>1. x = Beyond /\ x \notin Calendar
    BY <1>3, <1>9 DEF ClampedDate, Calendar
  <2>2. ASSUME NEW d \in Calendar, d >= target, Matches(r, d) PROVE FALSE
    <3>1. n <= Month(d) /\ Month(d) \in Months
      BY <1>5, <2>2, MonthIs
    <3> QED BY <1>2, <1>9, <3>1, Calendars
  <2> HIDE DEF x
  <2>3. IsNext(r, target, x)
    BY <1>3, <1>6, <2>1, <2>2 DEF IsNext
  <2> QED BY <2>3 DEF x, n
<1> QED BY <1>8, <1>9

(* The next date of a monthly rule: in the last month of the rule that is  *)
(* not after the target's, or one interval later.                          *)
LEMMA NextMonth ==
    ASSUME NEW r, Complete(r), r.frequency = "monthly", NEW target \in Calendar, target >= r.start
    PROVE  IsNext(r, target, Monthly(r, target))
<1> DEFINE first == FirstMonth(r)
           day   == r.dayOfMonth
           k     == r.interval
           m     == Month(target)
           steps == (m - first) \div k
<1>1. /\ first \in Nat \ {0} /\ k \in Nat \ {0} /\ day \in Nat \ {0}
      /\ m \in Months /\ m \in Nat /\ target \in Nat /\ target < Beyond /\ Beyond \in Nat
  BY MonthsOfRule, MonthIs, Calendars DEF Complete
<1>2. Monthly(r, target) =
        IF first \notin Months \/ target <= ClampedDate(first, day) THEN ClampedDate(first, day)
        ELSE IF ClampedDate(first + steps * k, day) < target
             THEN ClampedDate(first + steps * k + k, day)
             ELSE ClampedDate(first + steps * k, day)
  BY DEF Monthly
<1>3. \A d \in Calendar : Matches(r, d) => d = ClampedDate(Month(d), day)
  BY MatchesMonth
<1>4. CASE first \notin Months \/ target <= ClampedDate(first, day)
  <2>1. target <= ClampedDate(first, day)
    BY <1>1, <1>4 DEF ClampedDate
  <2>2. first + k * 0 = first
    BY <1>1
  <2>3. IsNext(r, target, ClampedDate(first + k * 0, day))
    BY <2>1, <2>2, NextOfMonth
  <2> QED BY <1>2, <1>4, <2>2, <2>3
<1>5. CASE first \in Months /\ ~ (target <= ClampedDate(first, day))
  <2>1. m >= first
    <3>1. ClampedDate(first, day) \in Calendar /\ Month(ClampedDate(first, day)) = first
      BY <1>1, <1>5, ClampedIs
    <3>2. m < first => target < ClampedDate(first, day)
      BY <3>1, DatesInOrder
    <3>3. ClampedDate(first, day) \in Nat
      BY <3>1, MonthIs
    <3> HIDE DEF m, first
    <3> QED BY <1>1, <1>5, <3>2, <3>3
  <2> DEFINE p == k * steps
             month == first + p
  <2>2. /\ steps \in Nat /\ p \in Nat /\ month \in Nat
        /\ month <= m /\ m < month + k
        /\ steps * k = p /\ k * (steps + 1) = p + k
    <3> DEFINE a == m - first
               b == a % k
    <3>0. a \in Int /\ steps = a \div k
      BY <1>1
    <3>1. steps \in Int /\ b \in 0 .. k - 1 /\ a = p + b
      <4> HIDE DEF a, k, steps
      <4> QED BY <1>1, <3>0, Division
    <3> HIDE DEF steps, b
    <3>2. p \in Int /\ steps * k = p /\ k * (steps + 1) = p + k
      BY <1>1, <3>1
    <3>3. ~ (steps < 0)
      <4>1. steps < 0 => p + k <= k * 0
        BY <1>1, <3>1, Step
      <4>2. k * 0 = 0 /\ b \in Nat /\ b < k
        BY <1>1, <3>1
      <4> HIDE DEF p, m, first, k
      <4> QED BY <1>1, <2>1, <3>1, <3>2, <4>1, <4>2
    <3>4. p \in Nat
      BY <1>1, <3>1, <3>3
    <3>5. m - first = p + b /\ b \in Nat /\ b < k
      BY <1>1, <3>1
    <3> HIDE DEF p, m, first, k
    <3> QED BY <1>1, <3>1, <3>2, <3>3, <3>4, <3>5
  <2>3. \A d \in Calendar : \A j \in Nat :
          d >= target /\ Month(d) = first + k * j => steps <= j
    <3> SUFFICES ASSUME NEW d \in Calendar, NEW j \in Nat, d >= target,
                        Month(d) = first + k * j, j < steps
                 PROVE  FALSE
      BY <2>2
    <3>1. k * j + k <= p /\ k * j \in Int
      BY <1>1, <2>2, Step
    <3>2. d \in Nat
      BY MonthIs
    <3>3. ~ (Month(d) < m)
      BY <1>1, <3>2, DatesInOrder
    <3> DEFINE s == k * j
    <3>4. s + k <= p /\ s \in Int /\ Month(d) = first + s
      BY <3>1
    <3> HIDE DEF p, m, first, k, s
    <3> QED BY <1>1, <2>2, <3>3, <3>4
  <2>4. month \in Months
    <3>1. 1 <= month
      <4> HIDE DEF p, first
      <4> QED BY <1>1, <2>2
    <3> HIDE DEF month, m
    <3> QED BY <1>1, <2>2, <3>1, Calendars
  <2>5. ClampedDate(month, day) \in Calendar /\ Month(ClampedDate(month, day)) = month
        /\ ClampedDate(month, day) \in Nat
    <3> HIDE DEF month
    <3> QED BY <1>1, <2>4, ClampedIs, MonthIs
  <2>6. CASE ~ (ClampedDate(month, day) < target)
    <3>1. Monthly(r, target) = ClampedDate(first + k * steps, day)
      BY <1>2, <1>5, <2>2, <2>6
    <3>2. target <= ClampedDate(first + k * steps, day)
      BY <1>1, <2>5, <2>6
    <3> QED BY <2>2, <2>3, <3>1, <3>2, NextOfMonth
  <2>7. CASE ClampedDate(month, day) < target
    <3>1. Monthly(r, target) = ClampedDate(month + k, day)
      BY <1>2, <1>5, <2>2, <2>7
    <3>2. month + k = first + k * (steps + 1) /\ month + k \in Nat
      BY <1>1, <2>2
    <3>3. target <= ClampedDate(month + k, day)
      <4> DEFINE n == month + k
      <4>0. n \in Nat /\ m < n
        BY <2>2, <3>2
      <4> HIDE DEF n
      <4>1. CASE n \in Months
        <5>1. ClampedDate(n, day) \in Calendar /\ Month(ClampedDate(n, day)) = n
              /\ ClampedDate(n, day) \in Nat
          BY <1>1, <4>1, ClampedIs, MonthIs
        <5>2. target < ClampedDate(n, day)
          BY <4>0, <5>1, DatesInOrder
        <5> QED BY <1>1, <5>1, <5>2 DEF n
      <4>2. CASE n \notin Months
        BY <1>1, <4>2 DEF ClampedDate, n
      <4> QED BY <4>1, <4>2
    <3>4. ASSUME NEW d \in Calendar, NEW j \in Nat,
                 d >= target, Matches(r, d), Month(d) = first + k * j
          PROVE  steps + 1 <= j
      <4>1. steps <= j
        BY <2>3, <3>4
      <4>2. j = steps => d = ClampedDate(month, day)
        BY <1>3, <3>4
      <4>3. d \in Nat
        BY MonthIs
      <4> HIDE DEF steps, month
      <4> QED BY <1>1, <2>2, <2>5, <2>7, <3>4, <4>1, <4>2, <4>3
    <3>5. steps + 1 \in Nat
      BY <2>2
    <3>6. IsNext(r, target, ClampedDate(first + k * (steps + 1), day))
      <4>1. target <= ClampedDate(first + k * (steps + 1), day)
        BY <3>2, <3>3
      <4> HIDE DEF steps
      <4> QED BY <3>4, <3>5, <4>1, NextOfMonth
    <3> QED BY <3>1, <3>2, <3>6
  <2> QED BY <2>6, <2>7
<1> QED BY <1>4, <1>5

(* NextOnOrAfter finds the next date of the rule, or what is beyond.       *)
LEMMA NextIs ==
    ASSUME NEW r, Complete(r), NEW target \in Nat, target >= r.start, target <= Beyond
    PROVE  LET x == NextOnOrAfter(r, target) IN
             /\ x \in Nat /\ x >= target /\ x <= Beyond
             /\ x \in Calendar => Matches(r, x)
             /\ \A d \in Calendar : d >= target /\ Matches(r, d) => x <= d
<1> DEFINE x == NextOnOrAfter(r, target)
           next == CASE r.frequency = "daily"   -> Leap(r.start, target, r.interval)
                     [] r.frequency = "weekly"  ->
                          Leap(r.start + ((r.dayOfWeek - Weekday(r.start) + 7) % 7), target,
                               7 * r.interval)
                     [] r.frequency = "monthly" -> Monthly(r, target)
<1>1. /\ Beyond \in Nat /\ r.start \in Nat /\ 1 <= r.start
      /\ \A d \in Calendar : d \in Nat /\ d < Beyond
  BY Calendars, MonthIs DEF Complete
<1>2. x = IF target >= Beyond THEN Beyond ELSE IF next > Beyond THEN Beyond ELSE next
  BY DEF NextOnOrAfter
<1> HIDE DEF x
<1>3. CASE target >= Beyond
  <2>1. x = Beyond /\ target = Beyond
    BY <1>1, <1>2, <1>3
  <2>2. Beyond \notin Calendar
    BY <1>1
  <2>3. /\ x \in Nat /\ x >= target /\ x <= Beyond
        /\ x \in Calendar => Matches(r, x)
        /\ \A d \in Calendar : d >= target /\ Matches(r, d) => x <= d
    BY <1>1, <2>1, <2>2
  <2> QED BY <2>3 DEF x
<1>4. CASE ~ (target >= Beyond)
  <2>1. target \in Calendar
    BY <1>1, <1>4 DEF Calendar
  <2>2. IsNext(r, target, next)
    <3>1. CASE r.frequency = "daily"
      BY <2>1, <3>1, NextDay
    <3>2. CASE r.frequency = "weekly"
      BY <2>1, <3>2, NextWeekday
    <3>3. CASE r.frequency = "monthly"
      BY <2>1, <3>3, NextMonth
    <3> QED BY <3>1, <3>2, <3>3 DEF Complete
  <2> HIDE DEF next
  <2>3. /\ next \in Int /\ next >= target
        /\ next \in Calendar => Matches(r, next)
        /\ \A d \in Calendar : d >= target /\ Matches(r, d) => next <= d
    BY <2>2 DEF IsNext
  <2>4. x = IF next > Beyond THEN Beyond ELSE next
    BY <1>2, <1>4
  <2>5. x \in Nat /\ x >= target /\ x <= Beyond /\ x <= next
    BY <1>1, <1>4, <2>3, <2>4
  <2>6. x \in Calendar => Matches(r, x)
    BY <1>1, <2>3, <2>4
  <2>7. ASSUME NEW d \in Calendar, d >= target, Matches(r, d) PROVE x <= d
    BY <1>1, <2>3, <2>5, <2>7
  <2> QED BY <2>5, <2>6, <2>7 DEF x
<1> QED BY <1>3, <1>4

-------------------------------------------------------------------------------
(* The dates of a window *)

(* The dates of a rule from a day on up to an end.                         *)
DatesFrom(r, first, last) == {d \in Calendar : first <= d /\ d <= last /\ Matches(r, d)}

(* A leap passes over none of them.                                        *)
LEMMA LeapOver ==
    ASSUME NEW r, Complete(r), NEW target \in Nat, target >= r.start, target <= Beyond,
           NEW last \in Calendar
    PROVE  LET x == NextOnOrAfter(r, target) IN
             DatesFrom(r, target, last) =
               IF x > last THEN {} ELSE {x} \cup DatesFrom(r, x + 1, last)
<1> DEFINE x == NextOnOrAfter(r, target)
<1>1. /\ x \in Nat /\ x >= target /\ x <= Beyond
      /\ x \in Calendar => Matches(r, x)
      /\ \A d \in Calendar : d >= target /\ Matches(r, d) => x <= d
  BY NextIs
<1>2. last \in Nat /\ last < Beyond /\ Beyond \in Nat /\ r.start \in Nat /\ 1 <= r.start
      /\ \A d \in Calendar : d \in Nat
  BY Calendars, MonthIs DEF Complete
<1> HIDE DEF x
<1>3. CASE x > last
  <2>1. \A d \in Calendar : ~ (d >= target /\ d <= last /\ Matches(r, d))
    BY <1>1, <1>2, <1>3
  <2>2. DatesFrom(r, target, last) = {}
    BY <1>2, <2>1 DEF DatesFrom
  <2> QED BY <1>3, <2>2 DEF x
<1>4. CASE ~ (x > last)
  <2>1. x \in Calendar
    BY <1>1, <1>2, <1>4 DEF Calendar
  <2>2. ASSUME NEW d PROVE d \in DatesFrom(r, target, last) <=> d \in {x} \cup DatesFrom(r, x + 1, last)
    <3>1. CASE d \notin Calendar
      BY <2>1, <3>1 DEF DatesFrom
    <3>2. CASE d \in Calendar
      <4>1. d \in Nat /\ (Matches(r, d) /\ d >= target => x <= d)
        BY <1>1, <1>2, <3>2
      <4>2. (target <= d /\ d <= last /\ Matches(r, d)) <=>
              (d = x \/ (x + 1 <= d /\ d <= last /\ Matches(r, d)))
        BY <1>1, <1>2, <1>4, <2>1, <4>1
      <4> QED BY <3>2, <4>2 DEF DatesFrom
    <3> QED BY <3>1, <3>2
  <2>3. DatesFrom(r, target, last) = {x} \cup DatesFrom(r, x + 1, last)
    BY <2>2
  <2> QED BY <1>4, <2>3 DEF x
<1> QED BY <1>3, <1>4

(* The loop of Occurrences gathers the dates of the window that fit.       *)
LEMMA OccurrencesAre ==
    ASSUME NEW r, Complete(r), NEW from \in Calendar, NEW through \in Calendar
    PROVE  Occurrences(r, from, through) =
             {d \in Calendar : from <= d /\ d <= through /\ Fits(r, d)}
<1> DEFINE begin == From(r, from)
           end   == Through(r, through)
           Body(g) == [next \in begin .. Beyond |->
                         IF next > end THEN {} ELSE {next} \cup g[NextOnOrAfter(r, next + 1)]]
           Loop  == CHOOSE g : g = Body(g)
           H     == [x \in begin .. Beyond |->
                       IF x > end THEN {} ELSE {x} \cup DatesFrom(r, x + 1, end)]
<1>1. /\ begin \in Calendar /\ begin >= r.start /\ end \in Calendar
      /\ begin \in Nat /\ end \in Nat /\ begin < Beyond /\ end < Beyond /\ Beyond \in Nat
      /\ \A d \in Calendar :
           begin <= d /\ d <= end <=>
             from <= d /\ d <= through /\ d >= r.start /\ (r.end = 0 \/ d <= r.end)
  <2>1. /\ r.start \in Calendar /\ r.end \in {0} \cup Calendar /\ 0 \notin Calendar
        /\ \A d \in Calendar : d \in Nat /\ d < Beyond
    BY Calendars, MonthIs DEF Complete
  <2> QED BY <2>1, Calendars DEF From, Through
<1>2. Occurrences(r, from, through) =
        IF end < begin THEN {} ELSE Loop[NextOnOrAfter(r, begin)]
  BY DEF Occurrences
<1>3. DatesFrom(r, begin, end) = {d \in Calendar : from <= d /\ d <= through /\ Fits(r, d)}
  <2> HIDE DEF begin, end
  <2> QED BY <1>1 DEF DatesFrom, Fits
<1> HIDE DEF begin, end
<1>4. ASSUME NEW y \in Nat, y >= begin, y <= Beyond
      PROVE  LET x == NextOnOrAfter(r, y) IN
               x \in begin .. Beyond /\ x >= y /\ H[x] = DatesFrom(r, y, end)
  <2> DEFINE x == NextOnOrAfter(r, y)
  <2>1. r.start \in Nat
    BY MonthIs DEF Complete
  <2>2. x \in Nat /\ x >= y /\ x <= Beyond
    BY <1>1, <1>4, <2>1, NextIs
  <2>3. DatesFrom(r, y, end) = IF x > end THEN {} ELSE {x} \cup DatesFrom(r, x + 1, end)
    BY <1>1, <1>4, <2>1, LeapOver
  <2> HIDE DEF x
  <2>4. x \in begin .. Beyond
    BY <1>1, <1>4, <2>2
  <2> QED BY <2>2, <2>3, <2>4 DEF x
<1>5. H = Body(H)
  <2>1. ASSUME NEW x \in begin .. Beyond PROVE H[x] = Body(H)[x]
    <3>1. CASE x > end
      BY <3>1
    <3>2. CASE ~ (x > end)
      <4>1. x \in Nat /\ x + 1 \in Nat /\ x + 1 >= begin /\ x + 1 <= Beyond
        BY <1>1, <3>2
      <4>2. H[NextOnOrAfter(r, x + 1)] = DatesFrom(r, x + 1, end)
        BY <1>4, <4>1
      <4> QED BY <3>2, <4>2
    <3> QED BY <3>1, <3>2
  <2> QED BY <2>1
<1>6. Loop = Body(Loop)
  <2>1. \E g : g = Body(g)
    BY <1>5
  <2> HIDE DEF Body
  <2> QED BY <2>1, Zenon
<1> HIDE DEF Loop
<1>7. ASSUME NEW x \in begin .. Beyond PROVE Loop[x] = H[x]
  <2> DEFINE Bad == {y \in begin .. Beyond : Loop[y] # H[y]}
  <2> SUFFICES ASSUME Bad # {} PROVE FALSE
    OBVIOUS
  <2>1. Bad \in SUBSET (0 .. Beyond)
    BY <1>1
  <2> HIDE DEF Bad
  <2>2. PICK m \in Bad : \A y \in Bad : y <= m
    BY <1>1, <2>1, Largest
  <2>3. m \in begin .. Beyond /\ Loop[m] # H[m]
    BY <2>2 DEF Bad
  <2>4. Loop[m] = IF m > end THEN {} ELSE {m} \cup Loop[NextOnOrAfter(r, m + 1)]
    BY <1>6, <2>3
  <2>5. ~ (m > end)
    BY <2>3, <2>4
  <2>6. m \in Nat /\ m + 1 \in Nat /\ m + 1 >= begin /\ m + 1 <= Beyond
    BY <1>1, <2>3, <2>5
  <2> DEFINE n == NextOnOrAfter(r, m + 1)
  <2>7. n \in begin .. Beyond /\ n >= m + 1 /\ H[n] = DatesFrom(r, m + 1, end)
    BY <1>4, <2>6
  <2>8. Loop[m] = {m} \cup Loop[n] /\ H[m] = {m} \cup H[n]
    BY <2>3, <2>4, <2>5, <2>7
  <2> HIDE DEF n
  <2>9. n \notin Bad
    BY <1>1, <2>2, <2>6, <2>7
  <2>10. Loop[n] = H[n]
    BY <2>7, <2>9 DEF Bad
  <2> QED BY <2>3, <2>8, <2>10
<1>8. CASE end < begin
  <2>1. DatesFrom(r, begin, end) = {}
    <3>1. \A d \in Calendar : d \in Nat
      BY MonthIs
    <3>2. \A d \in Calendar : ~ (begin <= d /\ d <= end)
      <4> SUFFICES ASSUME NEW d \in Calendar, begin <= d, d <= end PROVE FALSE
        OBVIOUS
      <4>1. d \in Nat /\ begin \in Nat /\ end \in Nat
        BY <1>1, <3>1
      <4> QED BY <1>8, <4>1
    <3> QED BY <3>2 DEF DatesFrom
  <2> QED BY <1>2, <1>3, <1>8, <2>1
<1>9. CASE ~ (end < begin)
  <2>1. NextOnOrAfter(r, begin) \in begin .. Beyond
        /\ H[NextOnOrAfter(r, begin)] = DatesFrom(r, begin, end)
    BY <1>1, <1>4
  <2>2. Loop[NextOnOrAfter(r, begin)] = H[NextOnOrAfter(r, begin)]
    BY <1>7, <2>1
  <2> QED BY <1>2, <1>3, <1>9, <2>1, <2>2
<1> QED BY <1>8, <1>9

(* What a request asks is completed to a rule.                             *)
LEMMA NormalizeCompletes ==
    ASSUME NEW r \in Asked
    PROVE  Complete(NormalizeScheduleRecurrence(r))
<1> DEFINE c == NormalizeScheduleRecurrence(r)
<1>1. /\ r.frequency \in {"daily", "weekly", "monthly"} /\ r.interval \in Intervals
      /\ r.start \in Starts /\ r.end \in Ends
      /\ r.frequency = "weekly" => r.dayOfWeek \in Weekdays
      /\ r.frequency = "monthly" => r.dayOfMonth \in MonthDays
      /\ r = [frequency |-> r.frequency, interval |-> r.interval, start |-> r.start, end |-> r.end,
              dayOfWeek |-> r.dayOfWeek, dayOfMonth |-> r.dayOfMonth]
  BY DEF Asked
<1>2. /\ c.frequency = r.frequency /\ c.start = r.start /\ c.end = r.end
      /\ c.interval = IF r.interval = 0 THEN 1 ELSE r.interval
      /\ r.frequency = "weekly" =>
           c.dayOfWeek = IF r.dayOfWeek = 0 THEN Weekday(r.start) ELSE r.dayOfWeek
      /\ r.frequency = "monthly" =>
           c.dayOfMonth = IF r.dayOfMonth = 0 THEN r.start - FirstOf[Month(r.start)] + 1
                                              ELSE r.dayOfMonth
  BY <1>1 DEF NormalizeScheduleRecurrence
<1> HIDE DEF c
<1>3. /\ r.start \in Calendar /\ r.end \in {0} \cup Calendar /\ r.interval \in Nat
      /\ r.frequency = "weekly" => r.dayOfWeek \in 0 .. 7
      /\ r.frequency = "monthly" => r.dayOfMonth \in 0 .. 31
  BY <1>1, RecurrenceAssumption
<1>4. Weekday(r.start) \in 1 .. 7
  <2>1. r.start \in Int /\ FirstWeekday \in Int
    BY <1>3, MonthIs, RecurrenceAssumption
  <2> QED BY <2>1 DEF Weekday
<1>5. r.start - FirstOf[Month(r.start)] + 1 \in Nat \ {0}
  <2>1. /\ r.start \in Nat /\ FirstOf[Month(r.start)] <= r.start
        /\ FirstOf[Month(r.start)] \in Nat
    BY <1>3, MonthIs, Calendars
  <2> QED BY <2>1
<1>6. Complete(c)
  BY <1>1, <1>2, <1>3, <1>4, <1>5 DEF Complete
<1> QED BY <1>6 DEF c

-------------------------------------------------------------------------------
(* The theorem *)

(* Until the dates are computed the rule is as it was asked.               *)
RecurrenceInv ==
    /\ window \in Windows
    /\ dates = NotYet => rule \in Asked
    /\ DatesFollowRule

(* For every schedule a request can ask for and every window, the loop of  *)
(* recurrence.Occurrences gives the dates of the window that fit the rule, *)
(* and no other.                                                           *)
THEOREM DatesAreThoseOfRule == RuleSpec => []DatesFollowRule
<1>1. RuleInit => RecurrenceInv
  BY DEF RuleInit, RecurrenceInv, DatesFollowRule
<1>2. RecurrenceInv /\ [RuleNext]_ruleVars => RecurrenceInv'
  <2> SUFFICES ASSUME RecurrenceInv, [RuleNext]_ruleVars PROVE RecurrenceInv'
    OBVIOUS
  <2>1. CASE RuleNext
    <3>1. window' = window /\ window \in Windows /\ rule \in Asked
      BY <2>1 DEF RuleNext, RecurrenceInv
    <3>2. Complete(rule')
      BY <2>1, <3>1, NormalizeCompletes DEF RuleNext
    <3>3. window[1] \in Calendar /\ window[2] \in Calendar
      BY <3>1, RecurrenceAssumption
    <3>4. dates' = {d \in Calendar : window[1] <= d /\ d <= window[2] /\ Fits(rule', d)}
      BY <2>1, <3>2, <3>3, OccurrencesAre DEF RuleNext
    <3>5. DatesFollowRule'
      BY <3>1, <3>4 DEF DatesFollowRule, Fits, Matches
    <3>6. dates' # NotYet
      BY <3>4, Calendars DEF Calendar, NotYet
    <3> QED BY <3>1, <3>5, <3>6 DEF RecurrenceInv
  <2>2. CASE UNCHANGED ruleVars
    BY <2>2 DEF RecurrenceInv, DatesFollowRule, ruleVars, NotYet, Fits, Matches
  <2> QED BY <2>1, <2>2
<1>3. RecurrenceInv => DatesFollowRule
  BY DEF RecurrenceInv
<1> QED BY <1>1, <1>2, <1>3, PTL DEF RuleSpec
===============================================================================
