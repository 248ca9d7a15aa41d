----------------------------- MODULE ServerProofs -----------------------------
(***************************************************************************)
(* Theorems about the parts of a server that share no state: the budget    *)
(* step of the minute run (BudgetAlerts), the cache of answers             *)
(* (ResponseCache), the limit on attempts to log in (AuthRateLimiter) and  *)
(* the life of a replica (ServerLifecycle), for any number of replicas,    *)
(* budgets, readers, clients and migrations and any times.                 *)
(***************************************************************************)
EXTENDS BudgetAlerts, ResponseCache, AuthRateLimiter, ServerLifecycle, TLAPS

(***************************************************************************)
(* Each level once. EachLevelOnce alone is not inductive: a commit adds    *)
(* what a replica has inserted, so the proof needs that this is committed  *)
(* by nobody else (Unseen) and that who has not inserted holds nothing,    *)
(* which the rows of a statement must be compared with (NothingHeld).      *)
(***************************************************************************)

USE BudgetsAssumption

(* What a replica is working on are values for each replica.               *)
RunShapes ==
    /\ candidates = [r \in Replicas |-> candidates[r]]
    /\ inserted = [r \in Replicas |-> inserted[r]]
    /\ queued = [r \in Replicas |-> queued[r]]

(* A row that is inserted and not committed is on record nowhere.          *)
Unseen == \A r \in Replicas : inserted[r] \cap alerts = {}

(* Only a transaction that has inserted holds rows.                        *)
NothingHeld ==
    \A r \in Replicas : pc[r] # "inserted" => inserted[r] = {} /\ DOMAIN queued[r] = {}

(* The inductive invariant.                                                *)
BudgetsInv == TypeOK /\ RunShapes /\ Unseen /\ NothingHeld /\ EachLevelOnce

-------------------------------------------------------------------------------
(* The empty tuple has no element. *)

LEMMA EmptyDomain == DOMAIN <<>> = {}
  OBVIOUS

(* What counts up to a bound stays within it.                              *)
LEMMA CountUp ==
    ASSUME NEW n \in Nat, NEW x \in 0 .. n, NEW y, y = x \/ (x < n /\ y = x + 1)
    PROVE  y \in 0 .. n
  OBVIOUS

(* The inductive invariant holds at the beginning.                         *)
LEMMA BudgetsStart == Init => BudgetsInv
  <1> SUFFICES ASSUME Init PROVE BudgetsInv
    OBVIOUS
  <1> USE EmptyDomain DEF Init
  <1>1. TypeOK
    <2>1. /\ period \in Periods /\ mine \in [Replicas -> Periods]
          /\ changes \in 0 .. MaxChanges
      BY DEF Periods
    <2>2. spent \in [Categories -> [Periods -> 0 .. MaxSpent]]
      BY DEF Periods
    <2>3. /\ muted \in BOOLEAN
          /\ pc \in [Replicas -> {"idle", "begun", "evaluated", "inserted"}]
      OBVIOUS
    <2>4. \A r \in Replicas : DOMAIN queued[r] \subseteq inserted[r]
      OBVIOUS
    <2> QED
      BY <2>1, <2>2, <2>3, <2>4 DEF TypeOK
  <1>2. RunShapes
    BY DEF RunShapes
  <1>3. Unseen /\ NothingHeld /\ EachLevelOnce
    BY DEF Unseen, NothingHeld, EachLevelOnce
  <1> QED
    BY <1>1, <1>2, <1>3 DEF BudgetsInv

(* A request changes neither what is on record nor what replicas hold.     *)
LEMMA RecordsKept ==
    ASSUME BudgetsInv, TypeOK', UNCHANGED <<results, working>>
    PROVE  BudgetsInv'
  <1>1. RunShapes'
    BY DEF BudgetsInv, RunShapes, working
  <1>2. Unseen' /\ NothingHeld' /\ EachLevelOnce'
    BY DEF BudgetsInv, Unseen, NothingHeld, EachLevelOnce, results, working
  <1> QED
    BY <1>1, <1>2 DEF BudgetsInv

(* The requests of users and the end of a period.                          *)
LEMMA RequestInductive ==
    ASSUME BudgetsInv,
           \/ \E b \in Budgets, c \in Categories \cup {""}, a \in Amounts, t \in Thresholds :
                CreateBudget(b, c, a, t) \/ UpdateBudget(b, c, a, t)
           \/ \E b \in Budgets : ArchiveBudget(b)
           \/ \E c \in Categories, amount \in 0 .. MaxSpent : Spend(c, amount)
           \/ SetPreference \/ Tick
    PROVE  BudgetsInv'
  <1> USE DEF CreateBudget, UpdateBudget, Write, ArchiveBudget, SetPreference, Tick
  <1>1. UNCHANGED <<results, working>>
    BY DEF Spend, working
  <1>2. pc' = pc /\ mine' = mine /\ inserted' = inserted /\ queued' = queued
    BY <1>1 DEF working
  <1>3. TypeOK
    BY DEF BudgetsInv
  <1>4. period' \in Periods
    <2>1. period' = period \/ (period < MaxPeriod /\ period' = period + 1)
      BY DEF Spend
    <2>2. period \in Periods
      BY <1>3 DEF TypeOK
    <2> QED
      BY <2>1, <2>2, CountUp DEF Periods
  <1>5. changes' \in 0 .. MaxChanges
    <2>1. changes' = changes \/ (changes < MaxChanges /\ changes' = changes + 1)
      BY DEF Spend, Change
    <2>2. changes \in 0 .. MaxChanges
      BY <1>3 DEF TypeOK
    <2> QED
      BY <2>1, <2>2, CountUp
  <1>6. spent' \in [Categories -> [Periods -> 0 .. MaxSpent]]
    <2>1. spent \in [Categories -> [Periods -> 0 .. MaxSpent]]
      BY <1>3 DEF TypeOK
    <2>2. CASE \E c \in Categories, amount \in 0 .. MaxSpent : Spend(c, amount)
      <3>1. PICK c \in Categories, amount \in 0 .. MaxSpent :
              spent' = [spent EXCEPT ![c][period] = amount]
        BY <2>2 DEF Spend
      <3>2. [spent[c] EXCEPT ![period] = amount] \in [Periods -> 0 .. MaxSpent]
        BY <2>1
      <3>3. spent' = [spent EXCEPT ![c] = [spent[c] EXCEPT ![period] = amount]]
        BY <3>1
      <3> QED
        BY <2>1, <3>2, <3>3
    <2> QED
      BY <2>1, <2>2
  <1>7. muted' \in BOOLEAN
    <2>1. muted' = muted \/ muted' = ~muted
      BY DEF Spend
    <2> QED
      BY <2>1, <1>3, Zenon DEF TypeOK
  <1>8. TypeOK'
    BY <1>2, <1>3, <1>4, <1>5, <1>6, <1>7 DEF TypeOK
  <1> QED
    BY <1>1, <1>8, RecordsKept

-------------------------------------------------------------------------------
(* The steps of a run *)

(* A run takes the date and the snapshot.                                  *)
LEMMA EvaluateInductive ==
    ASSUME BudgetsInv, NEW r \in Replicas, Begin(r) \/ Evaluate(r)
    PROVE  BudgetsInv'
  <1> USE DEF BudgetsInv, Begin, Evaluate, results, tables
  <1>1. TypeOK'
    BY DEF TypeOK
  <1>2. RunShapes'
    BY DEF RunShapes
  <1>3. Unseen' /\ EachLevelOnce'
    BY DEF Unseen, EachLevelOnce
  <1>4. NothingHeld'
    BY DEF NothingHeld, TypeOK
  <1> QED
    BY <1>1, <1>2, <1>3, <1>4

(* A statement inserts what is neither committed nor held by another.      *)
LEMMA InsertInductive ==
    ASSUME BudgetsInv, NEW r \in Replicas, Insert(r)
    PROVE  BudgetsInv'
  <1> USE DEF BudgetsInv, Insert, results, tables
  <1>1. inserted' = [s \in Replicas |-> IF s = r THEN candidates[r] \ alerts ELSE inserted[s]]
    BY DEF RunShapes
  <1>2. TypeOK'
    BY <1>1 DEF TypeOK, NothingHeld
  <1>3. RunShapes'
    BY DEF RunShapes
  <1>4. Unseen'
    BY <1>1 DEF Unseen
  <1>5. NothingHeld'
    BY <1>1 DEF NothingHeld, TypeOK
  <1>6. EachLevelOnce'
    BY <1>1 DEF EachLevelOnce, IsFree
  <1> QED
    BY <1>2, <1>3, <1>4, <1>5, <1>6

(* A notification is queued for a row that is inserted.                    *)
LEMMA QueueInductive ==
    ASSUME BudgetsInv, NEW r \in Replicas, NEW row \in inserted[r], QueueNotification(r, row)
    PROVE  BudgetsInv'
  <1> USE DEF BudgetsInv, QueueNotification, results, tables
  <1>1. /\ DOMAIN queued'[r] = DOMAIN queued[r] \cup {row}
        /\ \A s \in Replicas \ {r} : queued'[s] = queued[s]
    BY DEF RunShapes
  <1>2. TypeOK'
    BY <1>1 DEF TypeOK
  <1>3. RunShapes'
    BY DEF RunShapes
  <1>4. Unseen' /\ EachLevelOnce'
    BY DEF Unseen, EachLevelOnce
  <1>5. NothingHeld'
    BY <1>1 DEF NothingHeld, TypeOK
  <1> QED
    BY <1>2, <1>3, <1>4, <1>5

(* Who has finished holds nothing, and the others what they held.          *)
LEMMA FinishedHolds ==
    ASSUME BudgetsInv, NEW r \in Replicas, Finished(r)
    PROVE  /\ inserted'[r] = {} /\ DOMAIN queued'[r] = {}
           /\ \A s \in Replicas \ {r} : inserted'[s] = inserted[s] /\ queued'[s] = queued[s]
           /\ RunShapes' /\ NothingHeld'
  <1> USE DEF BudgetsInv, Finished
  <1>1. /\ inserted'[r] = {} /\ DOMAIN queued'[r] = {}
        /\ \A s \in Replicas \ {r} : inserted'[s] = inserted[s] /\ queued'[s] = queued[s]
    BY EmptyDomain DEF RunShapes
  <1>2. RunShapes'
    BY DEF RunShapes
  <1>3. NothingHeld'
    BY <1>1 DEF NothingHeld, TypeOK
  <1> QED
    BY <1>1, <1>2, <1>3

(* A commit puts each row it held on one of the two records.               *)
LEMMA CommitInductive ==
    ASSUME BudgetsInv, NEW r \in Replicas, Commit(r)
    PROVE  BudgetsInv'
  <1> DEFINE told == {row \in inserted[r] : queued[r][row]}
             kept == {row \in inserted[r] : ~queued[r][row]}
  <1>1. /\ alerts' = alerts \cup inserted[r]
        /\ outbox' = outbox \cup (told \ outbox)
        /\ hushed' = hushed \cup kept
        /\ Finished(r) /\ UNCHANGED changes
    BY DEF Commit
  <1>2. told \cup kept = inserted[r] /\ told \cap kept = {}
    OBVIOUS
  <1> HIDE DEF told, kept
  <1>3. inserted[r] \cap alerts = {} /\ alerts = outbox \cup hushed /\ outbox \cap hushed = {}
    BY DEF BudgetsInv, Unseen, EachLevelOnce
  <1>4. alerts' = outbox' \cup hushed' /\ outbox' \cap hushed' = {}
    BY <1>1, <1>2, <1>3
  <1>5. /\ inserted'[r] = {} /\ DOMAIN queued'[r] = {}
        /\ \A s \in Replicas \ {r} : inserted'[s] = inserted[s] /\ queued'[s] = queued[s]
        /\ RunShapes' /\ NothingHeld'
    BY <1>1, FinishedHolds
  <1>6. EachLevelOnce'
    BY <1>4, <1>5 DEF BudgetsInv, EachLevelOnce
  <1>7. Unseen'
    BY <1>1, <1>5 DEF BudgetsInv, Unseen, EachLevelOnce
  <1>8. TypeOK'
    BY <1>1, <1>5 DEF BudgetsInv, TypeOK, Finished, tables
  <1> QED
    BY <1>5, <1>6, <1>7, <1>8 DEF BudgetsInv

(* What is rolled back was on no record.                                   *)
LEMMA RollbackInductive ==
    ASSUME BudgetsInv, NEW r \in Replicas, Rollback(r)
    PROVE  BudgetsInv'
  <1>1. Finished(r) /\ UNCHANGED results /\ Change
    BY DEF Rollback
  <1>2. /\ inserted'[r] = {} /\ DOMAIN queued'[r] = {}
        /\ \A s \in Replicas \ {r} : inserted'[s] = inserted[s] /\ queued'[s] = queued[s]
        /\ RunShapes' /\ NothingHeld'
    BY <1>1, FinishedHolds
  <1>3. EachLevelOnce' /\ Unseen'
    BY <1>1, <1>2 DEF BudgetsInv, EachLevelOnce, Unseen, results
  <1>4. TypeOK'
    BY <1>1, <1>2 DEF BudgetsInv, TypeOK, Finished, tables, Change
  <1> QED
    BY <1>2, <1>3, <1>4 DEF BudgetsInv

(* Every step keeps the inductive invariant.                               *)
LEMMA BudgetsInductive == BudgetsInv /\ [Next]_vars => BudgetsInv'
  <1> SUFFICES ASSUME BudgetsInv, [Next]_vars PROVE BudgetsInv'
    OBVIOUS
  <1>1. CASE \E r \in Replicas : Run(r) \/ Rollback(r)
    <2>1. PICK r \in Replicas : Run(r) \/ Rollback(r)
      BY <1>1
    <2>2. CASE \E row \in inserted[r] : QueueNotification(r, row)
      BY <2>2, QueueInductive
    <2> QED
      BY <2>1, <2>2, EvaluateInductive, InsertInductive, CommitInductive, RollbackInductive
         DEF Run
  <1>2. CASE UNCHANGED vars
    <2>1. TypeOK'
      BY <1>2 DEF BudgetsInv, TypeOK, vars, tables, results, working
    <2> QED
      BY <2>1, <1>2, RecordsKept DEF vars
  <1> QED
    BY <1>1, <1>2, RequestInductive DEF Next

-------------------------------------------------------------------------------
(* Theorems *)

(* The variables keep their types, and what a replica has queued for, it   *)
(* has inserted.                                                           *)
THEOREM BudgetsTyped == Spec => []TypeOK
  <1>1. BudgetsInv => TypeOK
    BY DEF BudgetsInv
  <1> QED
    BY <1>1, BudgetsStart, BudgetsInductive, PTL DEF Spec

(* Each level that is reached is told once or kept silent by preference,   *)
(* and no two replicas hold the same row, whatever interleaves or stops.   *)
THEOREM ReportedOnce == Spec => []EachLevelOnce
  <1>1. BudgetsInv => EachLevelOnce
    BY DEF BudgetsInv
  <1> QED
    BY <1>1, BudgetsStart, BudgetsInductive, PTL DEF Spec

HIDE BudgetsAssumption

(***************************************************************************)
(* Answers catch up. What AnswersCatchUp says of an entry is true because  *)
(* of what is true of the reader that stores it: a change its answer lacks *)
(* was committed after it read the trades, which is no longer ago than it  *)
(* computes (ReadRecently), and unless it was overtaken it lacks none      *)
(* (Aware). Clocks of changes stop a tick after Bound.                     *)
(***************************************************************************)

USE ResponseCacheAssumption

(* What a reader may be doing.                                             *)
Jobs == [at : {"idle", "missed", "computed"}, view : Views, version : Nat,
         left : 0 .. ComputeTime, overlap : BOOLEAN]

(* Every variable keeps its type.                                          *)
CacheTypeOK ==
    /\ data \in 0 .. MaxWrites /\ since \in [1 .. MaxWrites -> Nat]
    /\ entry \in [Views -> [version : Nat, left : 0 .. AnswerTTL]]
    /\ job \in [Readers -> Jobs]
    /\ writer \in [Writers -> {"idle", "committed"}]
    /\ excused \subseteq Views

(* Changes a computed answer lacks are as young as the computation, those  *)
(* a cached one lacks as young as both.                                    *)
ReadRecently ==
    /\ \A r \in Readers : job[r].at = "computed" =>
         \A v \in 1 .. data : v > job[r].version => since[v] <= ComputeTime - job[r].left
    /\ \A k \in Views : entry[k].left > 0 =>
         \A v \in 1 .. data : v > entry[k].version =>
            since[v] <= ComputeTime + AnswerTTL - entry[k].left

(* A computed answer lacks a change only if it was overtaken.              *)
Aware ==
    /\ \A r \in Readers : job[r].at = "computed" => job[r].overlap \/ job[r].version = data
    /\ \A k \in Views : entry[k].left > 0 =>
         \/ entry[k].version = data \/ k \in excused
         \/ \E w \in Writers : writer[w] = "committed"

(* The inductive invariant.                                                *)
CacheInv == CacheTypeOK /\ ReadRecently /\ Aware

-------------------------------------------------------------------------------
(* Facts about the values *)

(* A reader that does nothing is a job.                                    *)
LEMMA RestingIsJob ==
    Resting \in Jobs /\ Resting.at = "idle"
<1>1. (CHOOSE k \in Views : TRUE) \in Views
  OBVIOUS
<1>2. QED
  BY <1>1 DEF Resting, Jobs

(* What is absent has no time left.                                        *)
LEMMA AbsentIsEntry ==
    Absent \in [version : Nat, left : 0 .. AnswerTTL] /\ Absent.left = 0
  BY DEF Absent

(* Steps of one reader that change neither tables nor what is cached.      *)
LEMMA ReaderStep ==
    ASSUME CacheInv, NEW r \in Readers, NEW next \in Jobs,
           job' = [job EXCEPT ![r] = next],
           next.at = "computed" =>
              /\ next.overlap \/ next.version = data
              /\ \A v \in 1 .. data : v > next.version => since[v] <= ComputeTime - next.left,
           UNCHANGED <<data, since, entry, writer, excused>>
    PROVE  CacheInv'
<1>1. job'[r] = next /\ \A q \in Readers \ {r} : job'[q] = job[q]
  BY DEF CacheInv, CacheTypeOK
<1>2. CacheTypeOK'
  BY DEF CacheInv, CacheTypeOK
<1>3. ReadRecently'
  BY <1>1 DEF CacheInv, ReadRecently
<1>4. Aware'
  BY <1>1 DEF CacheInv, Aware
<1>5. QED
  BY <1>2, <1>3, <1>4 DEF CacheInv

-------------------------------------------------------------------------------
(* The steps *)

(* A reader begins.                                                        *)
LEMMA LoadInductive ==
    ASSUME CacheInv, NEW r \in Readers, NEW k \in Views, Load(r, k) PROVE CacheInv'
<1> DEFINE next == [Resting EXCEPT !.at = "missed", !.view = k, !.left = ComputeTime]
<1>1. Resting \in Jobs /\ "missed" \in {"idle", "missed", "computed"}
      /\ ComputeTime \in 0 .. ComputeTime
  BY RestingIsJob
<1>2. \A j \in Jobs, n \in 0 .. ComputeTime :
        /\ [j EXCEPT !.at = "missed"] \in Jobs /\ [j EXCEPT !.at = "missed"].at = "missed"
        /\ [j EXCEPT !.view = k] \in Jobs /\ [j EXCEPT !.view = k].at = j.at
        /\ [j EXCEPT !.left = n] \in Jobs /\ [j EXCEPT !.left = n].at = j.at
  BY DEF Jobs
<1>3. next \in Jobs /\ next.at = "missed"
  <2> DEFINE one == [Resting EXCEPT !.at = "missed"]
             two == [one EXCEPT !.view = k]
  <2>1. one \in Jobs /\ one.at = "missed"
    BY <1>1, <1>2
  <2> HIDE DEF one
  <2>2. two \in Jobs /\ two.at = "missed"
    BY <1>1, <1>2, <2>1
  <2>3. next = [two EXCEPT !.left = ComputeTime]
    BY DEF one
  <2> HIDE DEF two
  <2>4. QED
    BY <1>1, <1>2, <2>2, <2>3
<1>4. QED
  BY <1>3, ReaderStep DEF Load

(* What it computes is as new as the trades.                               *)
LEMMA ComputeInductive ==
    ASSUME CacheInv, NEW r \in Readers, Compute(r) PROVE CacheInv'
<1> DEFINE next == [job[r] EXCEPT !.at = "computed", !.version = data]
<1>1. job[r] \in Jobs /\ data \in Nat
  BY DEF CacheInv, CacheTypeOK
<1>2. next \in Jobs /\ next.version = data
  BY <1>1 DEF Jobs
<1>3. job' = [job EXCEPT ![r] = next]
  BY DEF Compute
<1> HIDE DEF next
<1>4. \A v \in 1 .. data : ~(v > next.version)
  BY <1>1, <1>2
<1>5. QED
  BY <1>2, <1>3, <1>4, ReaderStep DEF Compute

(* It may give up.                                                         *)
LEMMA StoreNothingInductive ==
    ASSUME CacheInv, NEW r \in Readers, StoreNothing(r) PROVE CacheInv'
  BY RestingIsJob, ReaderStep DEF StoreNothing

(* What is stored is as true as what was computed.                         *)
LEMMA StoreInductive ==
    ASSUME CacheInv, NEW r \in Readers, Store(r) PROVE CacheInv'
<1> DEFINE k   == job[r].view
           new == [version |-> job[r].version, left |-> AnswerTTL]
<1>1. job[r] \in Jobs /\ k \in Views /\ job[r].version \in Nat /\ job[r].left \in 0 .. ComputeTime
  BY DEF CacheInv, CacheTypeOK, Jobs
<1>2. new \in [version : Nat, left : 0 .. AnswerTTL]
  BY <1>1
<1>3. entry' = [entry EXCEPT ![k] = new] /\ job' = [job EXCEPT ![r] = Resting]
      /\ UNCHANGED <<data, since, writer>> /\ job[r].at = "computed"
  BY DEF Store
<1>4. excused' = IF job[r].overlap THEN excused \cup {k} ELSE excused \ {k}
  BY DEF Store
<1>5. /\ entry'[k].version = job[r].version /\ entry'[k].left = AnswerTTL
      /\ \A other \in Views \ {k} : entry'[other] = entry[other]
  BY <1>1, <1>3 DEF CacheInv, CacheTypeOK
<1>6. job'[r].at = "idle" /\ \A q \in Readers \ {r} : job'[q] = job[q]
  BY <1>3, RestingIsJob DEF CacheInv, CacheTypeOK
<1>7. CacheTypeOK'
  BY <1>1, <1>2, <1>3, <1>4, RestingIsJob DEF CacheInv, CacheTypeOK
<1>8. ReadRecently'
  <2>1. \A q \in Readers : job'[q].at = "computed" =>
          \A v \in 1 .. data' : v > job'[q].version => since'[v] <= ComputeTime - job'[q].left
    BY <1>3, <1>6 DEF CacheInv, ReadRecently
  <2>2. \A v \in 1 .. data : v > job[r].version => since[v] <= ComputeTime - job[r].left
    BY <1>3 DEF CacheInv, ReadRecently
  <2>3. \A v \in 1 .. data : since[v] \in Nat
    BY DEF CacheInv, CacheTypeOK
  <2>4. \A v \in 1 .. data' : v > entry'[k].version =>
          since'[v] <= ComputeTime + AnswerTTL - entry'[k].left
    BY <1>1, <1>3, <1>5, <2>2, <2>3
  <2>5. QED
    BY <1>3, <1>5, <2>1, <2>4 DEF CacheInv, ReadRecently
<1>9. Aware'
  <2>1. \A q \in Readers : job'[q].at = "computed" => job'[q].overlap \/ job'[q].version = data'
    BY <1>3, <1>6 DEF CacheInv, Aware
  <2>2. entry'[k].version = data' \/ k \in excused'
    BY <1>3, <1>4, <1>5 DEF CacheInv, Aware
  <2>3. QED
    BY <1>3, <1>4, <1>5, <2>1, <2>2 DEF CacheInv, Aware
<1>10. QED
  BY <1>7, <1>8, <1>9 DEF CacheInv

(* A change overtakes who has computed.                                    *)
LEMMA TradeInductive ==
    ASSUME CacheInv, NEW w \in Writers, CommitTrade(w) PROVE CacheInv'
<1>1. /\ data \in Nat /\ data' = data + 1 /\ data' \in 0 .. MaxWrites
      /\ since' = [since EXCEPT ![data'] = 0] /\ entry' = entry /\ excused' = excused
  BY DEF CommitTrade, CacheInv, CacheTypeOK
<1>2. since'[data'] = 0 /\ \A v \in 1 .. data : since'[v] = since[v]
  BY <1>1 DEF CacheInv, CacheTypeOK
<1>3. writer'[w] = "committed" /\ writer' \in [Writers -> {"idle", "committed"}]
  BY DEF CommitTrade, CacheInv, CacheTypeOK
<1>4. \A r \in Readers :
        /\ job[r] \in Jobs /\ job'[r] \in Jobs
        /\ job'[r].at = job[r].at /\ job'[r].version = job[r].version
        /\ job'[r].left = job[r].left /\ job[r].left \in 0 .. ComputeTime
        /\ job'[r].at = "computed" => job'[r].overlap
  <2> TAKE r \in Readers
  <2> DEFINE over == job[r].overlap \/ job[r].at = "computed"
  <2>1. job'[r] = [job[r] EXCEPT !.overlap = over]
    BY DEF CommitTrade
  <2>2. job[r] \in Jobs
    BY DEF CacheInv, CacheTypeOK
  <2>3. over \in BOOLEAN /\ (job[r].at = "computed" => over)
    BY <2>2 DEF Jobs
  <2> HIDE DEF over
  <2>4. /\ job'[r] \in Jobs /\ job'[r].at = job[r].at /\ job'[r].version = job[r].version
        /\ job'[r].left = job[r].left /\ job[r].left \in 0 .. ComputeTime
        /\ job'[r].overlap = over
    BY <2>1, <2>2, <2>3 DEF Jobs
  <2>5. QED
    BY <2>2, <2>3, <2>4
<1>5. CacheTypeOK'
  <2>1. job' \in [Readers -> Jobs]
    <3>1. DOMAIN job' = Readers /\ job' = [r \in Readers |-> job'[r]]
      BY DEF CommitTrade
    <3>2. QED
      BY <1>4, <3>1
  <2>2. since' \in [1 .. MaxWrites -> Nat]
    BY <1>1 DEF CacheInv, CacheTypeOK
  <2>3. QED
    BY <1>1, <1>3, <2>1, <2>2 DEF CacheInv, CacheTypeOK
<1>6. ReadRecently'
  <2>1. \A v \in 1 .. data' : v = data' \/ v \in 1 .. data
    BY <1>1
  <2>2. \A r \in Readers : 0 <= ComputeTime - job'[r].left
    BY <1>4
  <2>3. \A k \in Views : 0 <= ComputeTime + AnswerTTL - entry[k].left
    BY DEF CacheInv, CacheTypeOK
  <2>4. QED
    BY <1>1, <1>2, <1>4, <2>1, <2>2, <2>3 DEF CacheInv, ReadRecently
<1>7. Aware'
  BY <1>3, <1>4 DEF Aware
<1>8. QED
  BY <1>5, <1>6, <1>7 DEF CacheInv

(* Its writer removes answers or fails to.                                 *)
LEMMA InvalidateInductive ==
    ASSUME CacheInv, NEW w \in Writers, Invalidate(w) \/ InvalidationFails(w) PROVE CacheInv'
<1>1. /\ writer' = [writer EXCEPT ![w] = "idle"] /\ UNCHANGED <<data, since, job>>
      /\ excused' \subseteq Views /\ entry' \in [Views -> [version : Nat, left : 0 .. AnswerTTL]]
  <2>1. entry \in [Views -> [version : Nat, left : 0 .. AnswerTTL]]
    BY DEF CacheInv, CacheTypeOK
  <2>2. CASE Invalidate(w)
    <3>1. entry' = [k \in Views |-> IF k \in Invalidated THEN Absent ELSE entry[k]]
          /\ excused' = {}
      BY <2>2 DEF Invalidate
    <3>2. entry' \in [Views -> [version : Nat, left : 0 .. AnswerTTL]]
      BY <2>1, <3>1, AbsentIsEntry
    <3> QED BY <2>2, <3>1, <3>2 DEF Invalidate
  <2>3. CASE InvalidationFails(w)
    BY <2>1, <2>3 DEF InvalidationFails
  <2> QED BY <2>2, <2>3
<1>2. \A k \in Views : \/ entry'[k].left = 0
                       \/ entry'[k] = entry[k] /\ k \in excused'
  BY AbsentIsEntry DEF Invalidate, InvalidationFails, Invalidated
<1>3. \A k \in Views : entry'[k].left > 0 => entry'[k].left # 0
  BY <1>1
<1>4. CacheTypeOK'
  BY <1>1 DEF CacheInv, CacheTypeOK
<1>5. ReadRecently'
  BY <1>1, <1>2, <1>3 DEF CacheInv, ReadRecently
<1>6. Aware'
  BY <1>1, <1>2, <1>3 DEF CacheInv, Aware
<1>7. QED
  BY <1>4, <1>5, <1>6 DEF CacheInv

(* Changes and answers grow old together.                                  *)
LEMMA TickInductive ==
    ASSUME CacheInv, CacheTick PROVE CacheInv'
<1>1. data \in 0 .. MaxWrites /\ UNCHANGED <<data, writer, excused>>
  BY DEF CacheTick, CacheInv, CacheTypeOK
<1>2. /\ since' \in [1 .. MaxWrites -> Nat]
      /\ \A v \in 1 .. data : since[v] \in Nat /\ since'[v] \in Nat /\ since'[v] <= since[v] + 1
  BY <1>1 DEF CacheTick, CacheInv, CacheTypeOK
<1>3. \A r \in Readers :
        /\ job[r] \in Jobs /\ job'[r] = [job[r] EXCEPT !.left = Less(job[r].left)]
        /\ job[r].at # "idle" => job[r].left > 0
  BY DEF CacheTick, CacheInv, CacheTypeOK
<1>4. \A n \in 0 .. ComputeTime : Less(n) \in 0 .. ComputeTime /\ (n > 0 => Less(n) = n - 1)
  BY DEF Less
<1>5. \A r \in Readers :
        /\ job'[r] \in Jobs /\ job'[r].at = job[r].at /\ job'[r].overlap = job[r].overlap
        /\ job'[r].version = job[r].version /\ job[r].left \in 0 .. ComputeTime
        /\ job[r].at # "idle" => job'[r].left = job[r].left - 1
  <2> TAKE r \in Readers
  <2>1. job[r] \in Jobs /\ job[r].left \in 0 .. ComputeTime
    BY <1>3 DEF Jobs
  <2>2. Less(job[r].left) \in 0 .. ComputeTime
        /\ (job[r].at # "idle" => Less(job[r].left) = job[r].left - 1)
    BY <1>3, <1>4, <2>1
  <2>3. \A j \in Jobs, n \in 0 .. ComputeTime :
          /\ [j EXCEPT !.left = n] \in Jobs /\ [j EXCEPT !.left = n].left = n
          /\ [j EXCEPT !.left = n].at = j.at /\ [j EXCEPT !.left = n].version = j.version
          /\ [j EXCEPT !.left = n].overlap = j.overlap
    BY DEF Jobs
  <2>4. job'[r] = [job[r] EXCEPT !.left = Less(job[r].left)]
    BY <1>3
  <2>5. QED
    BY <2>1, <2>2, <2>3, <2>4
<1>6. job' \in [Readers -> Jobs]
  <2>1. job' = [r \in Readers |-> job'[r]]
    BY DEF CacheTick
  <2>2. QED
    BY <1>5, <2>1
<1>7. \A k \in Views :
        /\ entry[k] \in [version : Nat, left : 0 .. AnswerTTL]
        /\ entry'[k] = IF entry[k].left <= 1 THEN Absent
                       ELSE [entry[k] EXCEPT !.left = entry[k].left - 1]
  BY DEF CacheTick, CacheInv, CacheTypeOK
<1>8. \A k \in Views :
        /\ entry'[k] \in [version : Nat, left : 0 .. AnswerTTL]
        /\ entry'[k].left > 0 => /\ entry[k].left > 0 /\ entry'[k].left = entry[k].left - 1
                                 /\ entry'[k].version = entry[k].version
  <2> TAKE k \in Views
  <2>1. CASE entry[k].left <= 1
    <3>1. entry'[k] = Absent
      BY <1>7, <2>1
    <3>2. ~(Absent.left > 0)
      BY AbsentIsEntry
    <3>3. QED
      BY <3>1, <3>2, AbsentIsEntry
  <2>2. CASE ~(entry[k].left <= 1)
    <3>1. entry'[k] = [entry[k] EXCEPT !.left = entry[k].left - 1]
      BY <1>7, <2>2
    <3>2. entry[k].left \in 0 .. AnswerTTL /\ entry[k].version \in Nat
      BY <1>7
    <3>3. entry'[k].left = entry[k].left - 1 /\ entry'[k].version = entry[k].version
      BY <1>7, <3>1
    <3>4. entry[k].left - 1 \in 0 .. AnswerTTL
      BY <2>2, <3>2
    <3>5. entry'[k] \in [version : Nat, left : 0 .. AnswerTTL]
      BY <1>7, <3>1, <3>4
    <3>6. QED
      BY <2>2, <3>2, <3>3, <3>5
  <2>3. QED
    BY <2>1, <2>2
<1>9. entry' \in [Views -> [version : Nat, left : 0 .. AnswerTTL]]
  <2>1. entry' = [k \in Views |-> entry'[k]]
    BY DEF CacheTick
  <2>2. QED
    BY <1>8, <2>1
<1>10. CacheTypeOK'
  BY <1>1, <1>2, <1>6, <1>9 DEF CacheInv, CacheTypeOK
<1>11. ReadRecently'
  <2>1. ASSUME NEW r \in Readers, job'[r].at = "computed", NEW v \in 1 .. data, v > job'[r].version
        PROVE  since'[v] <= ComputeTime - job'[r].left
    <3>1. since[v] <= ComputeTime - job[r].left /\ job'[r].left = job[r].left - 1
      BY <1>5, <2>1 DEF CacheInv, ReadRecently
    <3>2. job[r].left \in Int /\ since[v] \in Int /\ since'[v] \in Int /\ since'[v] <= since[v] + 1
      BY <1>2, <1>5
    <3>3. QED
      BY <3>1, <3>2
  <2>2. ASSUME NEW k \in Views, entry'[k].left > 0, NEW v \in 1 .. data, v > entry'[k].version
        PROVE  since'[v] <= ComputeTime + AnswerTTL - entry'[k].left
    <3>1. /\ since[v] <= ComputeTime + AnswerTTL - entry[k].left
          /\ entry'[k].left = entry[k].left - 1
      BY <1>8, <2>2 DEF CacheInv, ReadRecently
    <3>2. entry[k].left \in Int /\ since[v] \in Int /\ since'[v] \in Int /\ since'[v] <= since[v] + 1
      <4>1. entry[k] \in [version : Nat, left : 0 .. AnswerTTL]
        BY <1>7
      <4>2. QED
        BY <1>2, <4>1
    <3>3. QED
      BY <3>1, <3>2
  <2>3. QED
    BY <1>1, <2>1, <2>2 DEF ReadRecently
<1>12. Aware'
  BY <1>1, <1>5, <1>8 DEF CacheInv, Aware
<1>13. QED
  BY <1>10, <1>11, <1>12 DEF CacheInv

(* The invariant holds at the beginning.                                   *)
LEMMA CacheStarts == CacheInit => CacheInv
<1> SUFFICES ASSUME CacheInit PROVE CacheInv
  OBVIOUS
<1>1. CacheTypeOK
  BY RestingIsJob, AbsentIsEntry DEF CacheInit, CacheTypeOK
<1>2. ReadRecently /\ Aware
  BY RestingIsJob, AbsentIsEntry DEF CacheInit, ReadRecently, Aware
<1>3. QED
  BY <1>1, <1>2 DEF CacheInv

(* Every step keeps it.                                                    *)
LEMMA CacheInductive == CacheInv /\ [CacheNext]_cacheVars => CacheInv'
<1> SUFFICES ASSUME CacheInv, [CacheNext]_cacheVars PROVE CacheInv'
  OBVIOUS
<1>1. CASE UNCHANGED cacheVars
  BY <1>1 DEF cacheVars, CacheInv, CacheTypeOK, ReadRecently, Aware
<1>2. QED
  BY <1>1, LoadInductive, ComputeInductive, StoreInductive, StoreNothingInductive,
     TradeInductive, InvalidateInductive, TickInductive DEF CacheNext

-------------------------------------------------------------------------------

(* The variables of the cache keep their types.                            *)
THEOREM CacheTyped == CacheSpec => []CacheTypeOK
<1>1. CacheInv => CacheTypeOK
  BY DEF CacheInv
<1>2. QED
  BY CacheStarts, CacheInductive, <1>1, PTL DEF CacheSpec

(* An answer is served only with every change that was committed longer    *)
(* ago than an answer lives and takes to compute; it lacks a change whose  *)
(* writer has finished only if Redis failed then, or it was stored late.   *)
THEOREM AnswersAreCurrent == CacheSpec => []AnswersCatchUp
<1>1. CacheInv => AnswersCatchUp
  <2> SUFFICES ASSUME CacheInv PROVE AnswersCatchUp
    OBVIOUS
  <2>1. ASSUME NEW k \in Views, entry[k].left > 0, NEW v \in 1 .. data, since[v] > Bound
        PROVE  entry[k].version >= v
    <3>1. entry[k].left \in 0 .. AnswerTTL /\ entry[k].version \in Nat /\ since[v] \in Nat
      BY DEF CacheInv, CacheTypeOK
    <3>2. v > entry[k].version => since[v] <= ComputeTime + AnswerTTL - entry[k].left
      BY <2>1 DEF CacheInv, ReadRecently
    <3>3. v \in Int /\ ~(v > entry[k].version)
      BY <2>1, <3>1, <3>2 DEF Bound
    <3>4. QED
      BY <3>1, <3>3
  <2>2. QED
    BY <2>1 DEF AnswersCatchUp, CacheInv, Aware
<1>2. QED
  BY CacheStarts, CacheInductive, <1>1, PTL DEF CacheSpec

HIDE ResponseCacheAssumption

(***************************************************************************)
(* Attempts are bounded. Whatever is counted under an address (Counted): a *)
(* window that is open counts the attempts that were let through in it,    *)
(* and before its first there are fewer than Limit within a window, since  *)
(* they belong to one that is over. A client is known by its own address   *)
(* and the last proxy's (AddressIsKnown).                                  *)
(***************************************************************************)

(* A client that comes through the proxies is known by its own address, or *)
(* by that of the last of several; one that goes past them by its own.     *)
LEMMA AddressIsKnown ==
    ASSUME proxies \in Chains, NEW c \in Clients, NEW earlier \in Earlier, NEW direct \in BOOLEAN
    PROVE  AddressOf(c, earlier, direct) \in {c} \cup Fallback
<1>1. ~ Trusted(c) /\ c # "unknown"
  BY LimiterAssumption DEF Trusted
<1>2. CASE direct \/ Hops = 0
  BY <1>1, <1>2 DEF AddressOf, ClientIP
<1>3. CASE ~ direct /\ Hops # 0
  <2> DEFINE peer == proxies[Hops]
             rest == SubSeq(proxies, 1, Hops - 1)
             sent == (earlier \o <<c>>) \o rest
  <2>1. proxies \in Seq(Range(proxies)) /\ Hops = Len(proxies) /\ Hops \in Nat \ {0}
    BY <1>3, LimiterAssumption DEF Hops
  <2>2. Trusted(peer) /\ \A i \in 1 .. Hops : proxies[i] \in Range(proxies)
    BY <2>1 DEF Range, Trusted
  <2>3. /\ rest \in Seq(Range(proxies)) /\ Len(rest) = Hops - 1
        /\ \A i \in 1 .. Hops - 1 : rest[i] = proxies[i]
    BY <2>1
  <2> HIDE DEF rest
  <2>4. earlier \in Seq(Range(earlier))
    BY LimiterAssumption
  <2> DEFINE U == Range(earlier) \cup {c} \cup Range(proxies)
  <2>5. /\ earlier \in Seq(U) /\ <<c>> \in Seq(U) /\ rest \in Seq(U)
    BY <2>3, <2>4
  <2>6. /\ sent \in Seq(U) /\ Len(sent) = Len(earlier) + Hops
        /\ sent[Len(earlier) + 1] = c
        /\ \A i \in Len(earlier) + 2 .. Len(sent) : sent[i] = rest[i - Len(earlier) - 1]
    <3> HIDE DEF U
    <3> DEFINE front == earlier \o <<c>>
    <3>1. /\ front \in Seq(U) /\ Len(front) = Len(earlier) + 1 /\ Len(earlier) \in Nat
          /\ front[Len(earlier) + 1] = c
      BY <2>5
    <3> HIDE DEF front
    <3>2. /\ front \o rest \in Seq(U) /\ Len(front \o rest) = Len(front) + Len(rest)
          /\ \A i \in 1 .. Len(front) : (front \o rest)[i] = front[i]
          /\ \A i \in Len(front) + 1 .. Len(front) + Len(rest) :
                (front \o rest)[i] = rest[i - Len(front)]
      BY <2>5, <3>1
    <3>3. \A i \in Len(earlier) + 2 .. Len(earlier) + Hops : i - (Len(earlier) + 1) = i - Len(earlier) - 1
      BY <3>1, <2>1
    <3> DEFINE all == front \o rest
    <3>4. Len(all) = Len(earlier) + Hops /\ all \in Seq(U) /\ all[Len(earlier) + 1] = c
      BY <2>1, <2>3, <3>1, <3>2
    <3>5. \A i \in Len(earlier) + 2 .. Len(earlier) + Hops : all[i] = rest[i - Len(earlier) - 1]
      BY <2>1, <2>3, <3>1, <3>2, <3>3
    <3>6. all = sent
      BY DEF front
    <3> HIDE DEF all, sent
    <3> QED BY <3>4, <3>5, <3>6
  <2>7. \A i \in Len(earlier) + 2 .. Len(sent) : Trusted(sent[i])
    BY <2>1, <2>2, <2>3, <2>6 DEF Trusted
  <2>8. CASE "unknown" \in Range(sent)
    <3>1. Hops = 1 \/ peer \in Fallback
      BY <2>1 DEF Fallback
    <3>2. Len(<<>>) = 0
      OBVIOUS
    <3>3. ClientIP(peer, sent, c) = IF Hops = 1 THEN c ELSE peer
      <4> HIDE DEF sent, peer
      <4> QED BY <1>3, <2>1, <2>2, <2>8, <3>2 DEF ClientIP
    <3> QED BY <1>3, <3>1, <3>3 DEF AddressOf, rest
  <2>9. CASE "unknown" \notin Range(sent)
    <3>1. Index(sent) = Len(earlier) + 1 /\ Len(sent) >= Hops
      <4> HIDE DEF sent
      <4> QED BY <2>1, <2>4, <2>6 DEF Index
    <3>2. ClientIP(peer, sent, c) = c
      <4> HIDE DEF sent, peer
      <4>1. \A i \in Index(sent) + 1 .. Len(sent) : Trusted(sent[i])
        BY <2>4, <2>7, <3>1
      <4> QED BY <1>3, <2>2, <2>6, <2>9, <3>1, <4>1 DEF ClientIP
    <3> QED BY <1>3, <3>2 DEF AddressOf, rest
  <2> QED BY <2>8, <2>9
<1> QED BY <1>2, <1>3

(* Whom an entry may stand for.                                            *)
Addresses == Clients \cup UNION {Range(chain) : chain \in Chains}

(* Every variable keeps its type.                                          *)
LimiterTyped ==
    /\ entries \in [Accounts \X Addresses -> [count : 0 .. Limit, left : 0 .. Window]]
    /\ attempts \in Nat /\ retryAfter \in 0 .. Window
    /\ log \in [Accounts \X Addresses -> [Recent -> 0 .. Window]]
    /\ proxies \in Chains

(* Whom a client has been counted as.                                      *)
KnownAs ==
    /\ known \in [Clients -> SUBSET Addresses]
    /\ \A c \in Clients : known[c] \subseteq {c} \cup Fallback

(* The attempts counted under an address, last first: when the window is   *)
(* open, as many of them as are counted were let through in it, the first  *)
(* of these when it was opened, and before these at most Limit - 1 within  *)
(* a window; when it is over, at most Limit - 1 are.                       *)
Counted ==
    \A c \in Addresses, a \in Accounts :
        LET e == entries[<<a, c>>]
            s == log[<<a, c>>]
        IN  IF e.left = 0 THEN s[Limit] = Window
            ELSE /\ e.count > 0 /\ s[e.count] = Window - e.left
                 /\ s[e.count + Limit] = Window

(* An attempt that was let through earlier is at least as old.             *)
InOrder ==
    \A c \in Addresses, a \in Accounts : \A i, j \in Recent :
        i <= j => log[<<a, c>>][i] <= log[<<a, c>>][j]

(* The inductive invariant.                                                *)
LimiterInv == LimiterTyped /\ KnownAs /\ Counted /\ InOrder

(* Time takes from the windows what it adds to the attempts.               *)
LEMMA TickCounts == ASSUME LimiterInv, LimiterTick PROVE LimiterInv'
<1>1. Window \in Nat /\ Limit \in Nat \ {0}
  BY LimiterAssumption
<1>2. /\ entries' = [key \in Accounts \X Addresses |->
           [entries[key] EXCEPT !.left = IF @ = 0 THEN 0 ELSE @ - 1]]
      /\ log' = [x \in Accounts \X Addresses |->
           [i \in Recent |-> IF log[x][i] < Window THEN log[x][i] + 1 ELSE Window]]
  BY DEF LimiterTick, LimiterInv, LimiterTyped
<1>3. LimiterTyped'
  <2>1. \A key \in Accounts \X Addresses :
          entries'[key] \in [count : 0 .. Limit, left : 0 .. Window]
    BY <1>1, <1>2 DEF LimiterInv, LimiterTyped
  <2>2. \A x \in Accounts \X Addresses : log'[x] \in [Recent -> 0 .. Window]
    BY <1>1, <1>2 DEF LimiterInv, LimiterTyped
  <2> QED BY <1>2, <2>1, <2>2 DEF LimiterTick, LimiterInv, LimiterTyped
<1>4. ASSUME NEW c \in Addresses, NEW a \in Accounts
      PROVE  /\ entries[<<a, c>>] \in [count : 0 .. Limit, left : 0 .. Window]
             /\ log[<<a, c>>] \in [Recent -> 0 .. Window]
             /\ entries'[<<a, c>>].count = entries[<<a, c>>].count
             /\ entries'[<<a, c>>].left =
                  IF entries[<<a, c>>].left = 0 THEN 0 ELSE entries[<<a, c>>].left - 1
             /\ log'[<<a, c>>] =
                   [i \in Recent |-> IF log[<<a, c>>][i] < Window THEN log[<<a, c>>][i] + 1 ELSE Window]
  <2>1. <<a, c>> \in Accounts \X Addresses /\ <<a, c>> \in Accounts \X Addresses
    BY DEF Addresses
  <2>2. /\ entries[<<a, c>>] \in [count : 0 .. Limit, left : 0 .. Window]
        /\ log[<<a, c>>] \in [Recent -> 0 .. Window]
    BY <2>1 DEF LimiterInv, LimiterTyped
  <2>3. entries'[<<a, c>>] = [entries[<<a, c>>] EXCEPT !.left = IF @ = 0 THEN 0 ELSE @ - 1]
    BY <1>2, <2>1
  <2> QED BY <1>2, <2>1, <2>2, <2>3
<1>5. InOrder'
  <2> SUFFICES ASSUME NEW c \in Addresses, NEW a \in Accounts, NEW i \in Recent, NEW j \in Recent,
                      i <= j
               PROVE  log'[<<a, c>>][i] <= log'[<<a, c>>][j]
    BY DEF InOrder
  <2>1. log[<<a, c>>][i] <= log[<<a, c>>][j]
    BY DEF LimiterInv, InOrder
  <2> DEFINE s == log[<<a, c>>]
  <2>2. s \in [Recent -> 0 .. Window]
    BY DEF LimiterInv, LimiterTyped
  <2>3. log'[<<a, c>>] = [k \in Recent |-> IF s[k] < Window THEN s[k] + 1 ELSE Window]
    BY <1>2
  <2>4. s[i] <= s[j]
    BY <2>1
  <2> HIDE DEF s
  <2>5. s[i] \in 0 .. Window /\ s[j] \in 0 .. Window
    BY <2>2
  <2> QED BY <1>1, <2>3, <2>4, <2>5
<1>6. Counted'
  <2> SUFFICES ASSUME NEW c \in Addresses, NEW a \in Accounts
               PROVE  LET e == entries'[<<a, c>>]
                          s == log'[<<a, c>>]
                      IN  IF e.left = 0 THEN s[Limit] = Window
                          ELSE /\ e.count > 0 /\ s[e.count] = Window - e.left
                               /\ s[e.count + Limit] = Window
    BY DEF Counted
  <2> DEFINE e == entries[<<a, c>>]
             s == log[<<a, c>>]
             n == e.count
             l == e.left
  <2>1. /\ n \in 0 .. Limit /\ l \in 0 .. Window
        /\ entries'[<<a, c>>].count = n
        /\ entries'[<<a, c>>].left = IF l = 0 THEN 0 ELSE l - 1
    BY <1>4
  <2>2. /\ \A i \in Recent : log'[<<a, c>>][i] = IF s[i] < Window THEN s[i] + 1 ELSE Window
        /\ \A i \in Recent : s[i] \in 0 .. Window
    <3>1. s \in [Recent -> 0 .. Window]
          /\ log'[<<a, c>>] = [i \in Recent |-> IF s[i] < Window THEN s[i] + 1 ELSE Window]
      BY <1>4
    <3> HIDE DEF s
    <3> QED BY <3>1
  <2>3. IF l = 0 THEN s[Limit] = Window
        ELSE n > 0 /\ s[n] = Window - l /\ s[n + Limit] = Window
    BY DEF LimiterInv, Counted
  <2>4. \A i, j \in Recent : i <= j => s[i] <= s[j]
    BY DEF LimiterInv, InOrder
  <2> HIDE DEF e, s, n, l
  <2>5. Limit \in Recent /\ (n > 0 => n \in Recent /\ n + Limit \in Recent)
    BY <1>1, <2>1 DEF Recent
  <2>6. CASE l = 0
    BY <1>1, <2>1, <2>2, <2>3, <2>5, <2>6
  <2>7. CASE l > 1
    BY <1>1, <2>1, <2>2, <2>3, <2>5, <2>7
  <2>8. CASE l = 1
    <3>1. n \in Recent /\ s[n] = Window - 1 /\ n <= Limit
      BY <2>1, <2>3, <2>5, <2>8
    <3>2. Window - 1 <= s[Limit]
      BY <2>4, <2>5, <3>1
    <3>3. log'[<<a, c>>][Limit] = Window
      BY <1>1, <2>2, <2>5, <3>2
    <3> QED BY <2>1, <2>8, <3>3
  <2> QED BY <2>1, <2>6, <2>7, <2>8
<1>7. KnownAs'
  BY DEF LimiterTick, LimiterInv, KnownAs, Fallback, Hops
<1> QED BY <1>3, <1>5, <1>6, <1>7 DEF LimiterInv

(* An attempt is counted under the address the client is known by.         *)
LEMMA AllowCounts ==
    ASSUME LimiterInv, NEW c \in Clients, NEW account \in Accounts, NEW earlier \in Earlier,
           NEW direct \in BOOLEAN, Allow(c, account, earlier, direct)
    PROVE  LimiterInv'
<1> DEFINE d == AddressOf(c, earlier, direct)
           swept == IF (attempts + 1) % SweepEvery = 0 THEN Swept(entries) ELSE entries
           E == swept[<<account, d>>]
           Let(n, l) ==
             /\ entries' = [swept EXCEPT ![<<account, d>>] = [count |-> n, left |-> l]]
             /\ retryAfter' = 0
             /\ log' = [log EXCEPT ![<<account, d>>] =
                          [i \in Recent |-> IF i = 1 THEN 0 ELSE @[i - 1]]]
<1>0. d \in {c} \cup Fallback /\ d \in Addresses
  <2>1. proxies \in Chains /\ d \in {c} \cup Fallback
    BY AddressIsKnown DEF LimiterInv, LimiterTyped
  <2>2. proxies \in Seq(Range(proxies))
    BY <2>1, LimiterAssumption
  <2>3. Hops > 1 => proxies[Hops] \in Range(proxies)
    BY <2>2 DEF Hops, Range
  <2> QED BY <2>1, <2>3 DEF Addresses, Fallback
<1> HIDE DEF d
<1>1. Window \in Nat /\ Limit \in Nat \ {0} /\ SweepEvery \in Nat \ {0} /\ <<account, d>> \in Accounts \X Addresses
  BY <1>0, LimiterAssumption
<1>2. /\ attempts' = (attempts + 1) % SweepEvery
      /\ \/ Expired(E) /\ Let(1, Window)
         \/ ~ Expired(E) /\ E.count < Limit /\ Let(E.count + 1, E.left)
         \/ /\ ~ Expired(E) /\ E.count >= Limit
            /\ entries' = swept /\ retryAfter' = E.left /\ log' = log
  BY DEF Allow, d
<1>3. /\ swept \in [Accounts \X Addresses -> [count : 0 .. Limit, left : 0 .. Window]]
      /\ \A key \in Accounts \X Addresses :
            /\ swept[key].left = entries[key].left
            /\ swept[key].left # 0 => swept[key].count = entries[key].count
  BY <1>1 DEF Swept, Expired, LimiterInv, LimiterTyped
<1> HIDE DEF swept
<1>4. E \in [count : 0 .. Limit, left : 0 .. Window]
  BY <1>1, <1>3
<1> DEFINE n == E.count
           l == E.left
<1>5. n \in 0 .. Limit /\ l \in 0 .. Window /\ (Expired(E) <=> l = 0)
  BY <1>4 DEF Expired
<1> HIDE DEF E
<1>6. attempts' \in Nat
  BY <1>1, <1>2 DEF LimiterInv, LimiterTyped
<1>6a. KnownAs' /\ proxies' \in Chains
  <2>1. known' = [known EXCEPT ![c] = @ \cup {d}] /\ proxies' = proxies
    BY DEF Allow, d
  <2>2. Fallback' = Fallback
    BY <2>1 DEF Fallback, Hops
  <2> QED BY <1>0, <2>1, <2>2 DEF LimiterInv, LimiterTyped, KnownAs
<1>7. ASSUME NEW b \in Addresses, NEW a \in Accounts
      PROVE  /\ log[<<a, b>>] \in [Recent -> 0 .. Window]
             /\ swept[<<a, b>>].left = 0 => log[<<a, b>>][Limit] = Window
             /\ swept[<<a, b>>].left # 0 =>
                  /\ swept[<<a, b>>].count > 0
                  /\ log[<<a, b>>][swept[<<a, b>>].count] = Window - swept[<<a, b>>].left
                  /\ log[<<a, b>>][swept[<<a, b>>].count + Limit] = Window
             /\ \A i, j \in Recent : i <= j => log[<<a, b>>][i] <= log[<<a, b>>][j]
  <2>1. <<a, b>> \in Accounts \X Addresses /\ <<a, b>> \in Accounts \X Addresses
    BY DEF Addresses
  <2>2. IF entries[<<a, b>>].left = 0 THEN log[<<a, b>>][Limit] = Window
        ELSE /\ entries[<<a, b>>].count > 0
             /\ log[<<a, b>>][entries[<<a, b>>].count] = Window - entries[<<a, b>>].left
             /\ log[<<a, b>>][entries[<<a, b>>].count + Limit] = Window
    BY DEF LimiterInv, Counted
  <2>3. \A i, j \in Recent : i <= j => log[<<a, b>>][i] <= log[<<a, b>>][j]
    BY DEF LimiterInv, InOrder
  <2>4. log[<<a, b>>] \in [Recent -> 0 .. Window]
    BY <2>1 DEF LimiterInv, LimiterTyped
  <2> QED BY <1>3, <2>1, <2>2, <2>3, <2>4
<1>8. ASSUME NEW m \in 1 .. Limit, NEW k \in 0 .. Window, Let(m, k),
             m = 1 => k = Window /\ log[<<account, d>>][Limit] = Window,
             m > 1 => /\ log[<<account, d>>][m - 1] = Window - k
                      /\ log[<<account, d>>][m - 1 + Limit] = Window
      PROVE  LimiterInv'
  <2> DEFINE s == log[<<account, d>>]
             new == [i \in Recent |-> IF i = 1 THEN 0 ELSE s[i - 1]]
  <2>1. s \in [Recent -> 0 .. Window] /\ \A i, j \in Recent : i <= j => s[i] <= s[j]
    BY <1>0, <1>7
  <2>2. /\ entries' = [swept EXCEPT ![<<account, d>>] = [count |-> m, left |-> k]]
        /\ log' = [log EXCEPT ![<<account, d>>] = new]
    BY <1>8
  <2> HIDE DEF s
  <2>3. \A i \in Recent : i > 1 => i - 1 \in Recent
    BY <1>1 DEF Recent
  <2>4. new \in [Recent -> 0 .. Window] /\ \A i, j \in Recent : i <= j => new[i] <= new[j]
    <3>1. \A i \in Recent : new[i] \in 0 .. Window
      <4> SUFFICES ASSUME NEW i \in Recent PROVE new[i] \in 0 .. Window
        OBVIOUS
      <4>1. CASE i = 1
        BY <1>1, <4>1
      <4>2. CASE i # 1
        <5>1. i - 1 \in Recent
          BY <2>3, <4>2 DEF Recent
        <5> QED BY <2>1, <4>2, <5>1
      <4> QED BY <4>1, <4>2
    <3>2. ASSUME NEW i \in Recent, NEW j \in Recent, i <= j PROVE new[i] <= new[j]
      <4>1. CASE i = 1
        BY <1>1, <3>1, <4>1
      <4>2. CASE i > 1
        <5>1. i - 1 \in Recent /\ j - 1 \in Recent /\ i - 1 <= j - 1 /\ j > 1
          BY <2>3, <3>2, <4>2 DEF Recent
        <5> QED BY <2>1, <4>2, <5>1
      <4> QED BY <4>1, <4>2 DEF Recent
    <3> QED BY <3>1, <3>2
  <2>5. IF k = 0 THEN new[Limit] = Window
        ELSE new[m] = Window - k /\ new[m + Limit] = Window
    <3>1. Limit \in Recent /\ m \in Recent /\ m + Limit \in Recent
      BY <1>1 DEF Recent
    <3>2. CASE m = 1
      <4>1. new[1] = 0 /\ new[1 + Limit] = s[Limit] /\ s[Limit] = Window /\ k = Window
        BY <1>1, <1>8, <3>1, <3>2 DEF s
      <4>2. k = 0 => new[Limit] = Window
        <5>1. new[Limit] \in 0 .. Window
          BY <2>4, <3>1
        <5> QED BY <4>1, <5>1
      <4> QED BY <1>1, <3>2, <4>1, <4>2
    <3>3. CASE m > 1
      <4>1. new[m] = s[m - 1] /\ new[m + Limit] = s[m + Limit - 1]
        BY <1>1, <3>1, <3>3
      <4>2. s[m - 1] = Window - k /\ s[m - 1 + Limit] = Window /\ m - 1 + Limit = m + Limit - 1
        BY <1>1, <1>8, <3>3 DEF s
      <4>3. k = 0 => new[Limit] = Window
        <5>1. new[m] <= new[Limit] /\ new[Limit] \in 0 .. Window
          BY <1>1, <2>4, <3>1
        <5> QED BY <1>1, <4>1, <4>2, <5>1
      <4> QED BY <4>1, <4>2, <4>3
    <3> QED BY <3>2, <3>3
  <2> HIDE DEF new
  <2>6. LimiterTyped'
    <3>1. [count |-> m, left |-> k] \in [count : 0 .. Limit, left : 0 .. Window]
      BY <1>1
    <3>2. entries' \in [Accounts \X Addresses -> [count : 0 .. Limit, left : 0 .. Window]]
      BY <1>1, <1>3, <2>2, <3>1
    <3>3. log' \in [Accounts \X Addresses -> [Recent -> 0 .. Window]]
      BY <1>1, <2>2, <2>4 DEF LimiterInv, LimiterTyped
    <3>4. retryAfter' \in 0 .. Window
      BY <1>1, <1>8
    <3> QED BY <1>6, <1>6a, <3>2, <3>3, <3>4 DEF LimiterTyped
  <2>7. \A b \in Addresses, a \in Accounts :
          IF b = d /\ a = account
          THEN entries'[<<a, b>>] = [count |-> m, left |-> k] /\ log'[<<a, b>>] = new
          ELSE entries'[<<a, b>>] = swept[<<a, b>>] /\ log'[<<a, b>>] = log[<<a, b>>]
    BY <1>1, <1>3, <2>2 DEF LimiterInv, LimiterTyped, Addresses
  <2>8. Counted'
    <3> SUFFICES ASSUME NEW b \in Addresses, NEW a \in Accounts
                 PROVE  IF entries'[<<a, b>>].left = 0 THEN log'[<<a, b>>][Limit] = Window
                        ELSE /\ entries'[<<a, b>>].count > 0
                             /\ log'[<<a, b>>][entries'[<<a, b>>].count]
                                  = Window - entries'[<<a, b>>].left
                             /\ log'[<<a, b>>][entries'[<<a, b>>].count + Limit] = Window
      BY DEF Counted
    <3>1. CASE b = d /\ a = account
      BY <2>5, <2>7, <3>1
    <3>2. CASE ~ (b = d /\ a = account)
      BY <1>7, <2>7, <3>2
    <3> QED BY <3>1, <3>2
  <2>9. InOrder'
    <3> SUFFICES ASSUME NEW b \in Addresses, NEW a \in Accounts,
                        NEW i \in Recent, NEW j \in Recent, i <= j
                 PROVE  log'[<<a, b>>][i] <= log'[<<a, b>>][j]
      BY Zenon DEF InOrder
    <3>1. CASE b = d /\ a = account
      <4>1. log'[<<a, b>>] = new
        BY <2>7, <3>1, Zenon
      <4> QED BY <2>4, <4>1
    <3>2. CASE ~ (b = d /\ a = account)
      <4>1. log'[<<a, b>>] = log[<<a, b>>]
        BY <2>7, <3>2, Zenon
      <4>2. log[<<a, b>>][i] <= log[<<a, b>>][j]
        BY <1>7, Zenon
      <4> QED BY <4>1, <4>2
    <3> QED BY <3>1, <3>2
  <2> QED BY <1>6a, <2>6, <2>8, <2>9 DEF LimiterInv
<1>9. CASE Expired(E) /\ Let(1, Window)
  <2>1. log[<<account, d>>][Limit] = Window
    BY <1>0, <1>5, <1>7, <1>9 DEF E
  <2>2. 1 \in 1 .. Limit /\ Window \in 0 .. Window /\ Let(1, Window)
    BY <1>1, <1>9
  <2> HIDE DEF Let
  <2> QED BY <1>8, <2>1, <2>2
<1>10. CASE ~ Expired(E) /\ E.count < Limit /\ Let(E.count + 1, E.left)
  <2>1. /\ n > 0 /\ log[<<account, d>>][n] = Window - l
        /\ log[<<account, d>>][n + Limit] = Window
    BY <1>0, <1>5, <1>7, <1>10 DEF E
  <2>2. n + 1 \in 1 .. Limit /\ n + 1 > 1 /\ (n + 1) - 1 = n /\ Let(n + 1, l)
    BY <1>1, <1>5, <1>10, <2>1
  <2> HIDE DEF n, l, Let
  <2>3. LimiterInv'
    BY <1>5, <1>8, <2>1, <2>2
  <2> QED BY <2>3
<1>11. CASE ~ Expired(E) /\ E.count >= Limit /\ entries' = swept /\ retryAfter' = E.left /\ log' = log
  <2>1. LimiterTyped'
    BY <1>3, <1>5, <1>6, <1>11, <1>6a DEF LimiterInv, LimiterTyped
  <2>2. Counted'
    BY <1>7, <1>11 DEF Counted
  <2>3. InOrder'
    BY <1>11 DEF LimiterInv, InOrder
  <2> QED BY <1>6a, <2>1, <2>2, <2>3 DEF LimiterInv
<1> QED BY <1>2, <1>9, <1>10, <1>11

(* In no window is as much let through under an address as two full ones,  *)
(* and a client has one address, or shares a second one, as clientIP has   *)
(* it.                                                                     *)
THEOREM AttemptsAreBounded == LimiterSpec => []AttemptsBounded
<1>1. ASSUME LimiterInit PROVE LimiterInv
  <2>1. Window \in Nat /\ Limit \in Nat \ {0} /\ LimiterKeys = Accounts \X Addresses
    BY LimiterAssumption DEF LimiterKeys, Addresses
  <2>2. LimiterTyped
    BY <1>1, <2>1 DEF LimiterInit, LimiterTyped
  <2>3. KnownAs
    BY <1>1 DEF LimiterInit, KnownAs
  <2>4. Counted /\ InOrder
    <3>1. \A c \in Addresses, a \in Accounts :
            entries[<<a, c>>].left = 0 /\ log[<<a, c>>] = [i \in Recent |-> Window]
      BY <1>1, <2>1 DEF LimiterInit
    <3>2. Limit \in Recent
      BY <2>1 DEF Recent
    <3> QED BY <2>1, <3>1, <3>2 DEF Counted, InOrder
  <2> QED BY <2>2, <2>3, <2>4 DEF LimiterInv
<1>2. LimiterInv /\ [LimiterNext]_limiterVars => LimiterInv'
  <2> SUFFICES ASSUME LimiterInv, [LimiterNext]_limiterVars PROVE LimiterInv'
    OBVIOUS
  <2>1. CASE UNCHANGED limiterVars
    BY <2>1 DEF limiterVars, LimiterInv, LimiterTyped, KnownAs, Counted, InOrder,
       Fallback, Hops
  <2> QED BY <2>1, AllowCounts, TickCounts DEF LimiterNext
<1>3. LimiterInv => AttemptsBounded
  <2> SUFFICES ASSUME LimiterInv, NEW c \in Addresses, NEW a \in Accounts
               PROVE  log[<<a, c>>][2 * Limit] >= Window
    BY DEF AttemptsBounded, LimiterInv, LimiterTyped, KnownAs, LimiterKeys, Addresses
  <2> DEFINE n == entries[<<a, c>>].count
             s == log[<<a, c>>]
  <2>1. n \in 0 .. Limit /\ \A i \in Recent : s[i] \in 0 .. Window
    BY DEF LimiterInv, LimiterTyped, Addresses
  <2>2. s[Limit] = Window \/ (n > 0 /\ s[n + Limit] = Window)
    BY DEF LimiterInv, Counted
  <2>3. \A i, j \in Recent : i <= j => s[i] <= s[j]
    BY DEF LimiterInv, InOrder
  <2> HIDE DEF n, s
  <2>4. s[2 * Limit] >= Window
    BY <2>1, <2>2, <2>3, LimiterAssumption DEF Recent
  <2> QED BY <2>4 DEF s
<1> QED BY <1>1, <1>2, <1>3, PTL DEF LimiterSpec

(***************************************************************************)
(* A life is orderly. The lock is held by who migrates (Migrating), and    *)
(* the phases of Run order what is open and who works (WorkingAt).         *)
(***************************************************************************)

(* Where Run may be.                                                       *)
Phases ==
    {"down", "opened", "migrating", "applying", "migrated", "serving", "draining", "stopping",
     "closed"}

(* Between the start of the workers and their join.                        *)
Serving == {"serving", "draining", "stopping"}

(* Every variable keeps its type.                                          *)
LifeTyped ==
    /\ schema \in Seq(Nat) /\ lock \in Servers \cup {NoSession}
    /\ phase \in [Servers -> Phases] /\ version \in [Servers -> Nat \ {0}]
    /\ worker \in [Servers -> [Workers -> {"waiting", "running", "late", "returned"}]]
    /\ handlers \in [Servers -> BOOLEAN] /\ cancelled \in [Servers -> BOOLEAN]
    /\ reachable \in [Servers -> BOOLEAN]
    /\ store \in [Servers -> {"open", "closed"}]

(* A worker of r is not joined.                                            *)
Works(r) == \E w \in Workers : worker[r][w] # "returned"

(* The schema is a prefix of the migrations, in order, and the rows of     *)
(* schema_migrations are the same prefix.                                  *)
SchemaInOrder ==
    /\ recorded = 1 .. Len(schema) /\ Len(schema) <= LastVersion
    /\ \A i \in 1 .. Len(schema) : schema[i] = i

(* Who migrates holds the lock, and is at most one migration ahead.        *)
Migrating ==
    \A r \in Servers :
        /\ phase[r] = "opened" => version[r] = 1
        /\ phase[r] \in {"migrating", "applying"} =>
             lock = r /\ version[r] <= Len(schema) + 1
        /\ phase[r] = "applying" => version[r] = Len(schema) + 1 /\ version[r] <= LastVersion
        /\ phase[r] \in Serving \cup {"migrated", "closed"} => Len(schema) = LastVersion

(* Workers run between start and join; connections bring requests, and     *)
(* handlers go on, until the process is gone.                              *)
WorkingAt ==
    \A r \in Servers :
        /\ Works(r) => phase[r] \in Serving
        /\ handlers[r] \/ reachable[r] => phase[r] \in Serving \cup {"closed"}
        /\ phase[r] \in Serving \cup {"opened", "migrating", "applying", "migrated"} =>
             store[r] = "open"

(* The inductive invariant.                                                *)
LifeInv == LifeTyped /\ SchemaInOrder /\ Migrating /\ WorkingAt

(* Every step sets what it sets to what it may be.                         *)
LEMMA LifeStaysTyped == ASSUME LifeInv, [LifeNext]_serverVars PROVE LifeTyped'
<1> USE DEF LifeInv
<1>1. ASSUME NEW r \in Servers, Acquire(r) PROVE LifeTyped'
  BY <1>1, LifeAssumption DEF Acquire, To, NoSession, LifeTyped, Phases, database
<1>2. ASSUME NEW r \in Servers, SkipApplied(r) PROVE LifeTyped'
  BY <1>2, LifeAssumption DEF SkipApplied, LifeTyped, Phases, database
<1>3. ASSUME NEW r \in Servers, BeginMigration(r) PROVE LifeTyped'
  BY <1>3, LifeAssumption DEF BeginMigration, To, LifeTyped, Phases, database
<1>4. ASSUME NEW r \in Servers, CommitMigration(r) PROVE LifeTyped'
  BY <1>4, LifeAssumption DEF CommitMigration, To, LifeTyped, Phases, database
<1>5. ASSUME NEW r \in Servers, Unlock(r) PROVE LifeTyped'
  BY <1>5, LifeAssumption DEF Unlock, To, Released, LifeTyped, Phases, database
<1>6. ASSUME NEW r \in Servers, StartWorkers(r) PROVE LifeTyped'
  BY <1>6, LifeAssumption DEF StartWorkers, To, LifeTyped, Phases, database
<1>7. ASSUME NEW r \in Servers, HandlersEnd(r) PROVE LifeTyped'
  BY <1>7, LifeAssumption DEF HandlersEnd, LifeTyped, Phases, database
<1>8. ASSUME NEW r \in Servers, Drained(r) PROVE LifeTyped'
  BY <1>8, LifeAssumption DEF Drained, To, Stop, LifeTyped, Phases, database
<1>9. ASSUME NEW r \in Servers, Close(r) PROVE LifeTyped'
  BY <1>9, LifeAssumption DEF Close, To, Joined, LifeTyped, Phases, database
<1>10. ASSUME NEW r \in Servers, Exit(r) PROVE LifeTyped'
  BY <1>10, LifeAssumption DEF Exit, To, Exited, Released, LifeTyped, Phases, database
<1>11. ASSUME NEW r \in Servers, Open(r) PROVE LifeTyped'
  BY <1>11, LifeAssumption DEF Open, To, LifeTyped, Phases, database
<1>12. ASSUME NEW r \in Servers, MigrationFails(r) PROVE LifeTyped'
  BY <1>12, LifeAssumption DEF MigrationFails, To, Released, LifeTyped, Phases, database
<1>13. ASSUME NEW r \in Servers, Handle(r) PROVE LifeTyped'
  BY <1>13, LifeAssumption DEF Handle, LifeTyped, Phases, database
<1>14. ASSUME NEW r \in Servers, Signal(r) PROVE LifeTyped'
  BY <1>14, LifeAssumption DEF Signal, To, LifeTyped, Phases, database
<1>15. ASSUME NEW r \in Servers, ListenFails(r) PROVE LifeTyped'
  BY <1>15, LifeAssumption DEF ListenFails, To, Stop, LifeTyped, Phases, database
<1>16. ASSUME NEW r \in Servers, Die(r) PROVE LifeTyped'
  BY <1>16, LifeAssumption DEF Die, To, Exited, Released, LifeTyped, Phases, database
<1>17. ASSUME NEW r \in Servers, NEW w \in Workers, WorkerRuns(r, w) PROVE LifeTyped'
  BY <1>17, LifeAssumption DEF WorkerRuns, LifeTyped, Phases, database
<1>18. ASSUME NEW r \in Servers, NEW w \in Workers, RunEnds(r, w) PROVE LifeTyped'
  BY <1>18, LifeAssumption DEF RunEnds, LifeTyped, Phases, database
<1>19. ASSUME NEW r \in Servers, NEW w \in Workers, WorkerReturns(r, w) PROVE LifeTyped'
  BY <1>19, LifeAssumption DEF WorkerReturns, LifeTyped, Phases, database
<1>20. CASE UNCHANGED serverVars
  BY <1>20 DEF serverVars, database, process, LifeTyped, Phases, database
<1> QED BY <1>1, <1>2, <1>3, <1>4, <1>5, <1>6, <1>7, <1>8, <1>9, <1>10, <1>11, <1>12, <1>13, <1>14, <1>15, <1>16, <1>17, <1>18, <1>19, <1>20 DEF LifeNext, Running

(* Only CommitMigration changes the schema, by the next migration.         *)
LEMMA SchemaStaysInOrder == ASSUME LifeInv, [LifeNext]_serverVars PROVE SchemaInOrder'
<1> USE DEF LifeInv
<1>1. ASSUME NEW r \in Servers, Acquire(r) PROVE SchemaInOrder'
  BY <1>1, LifeAssumption DEF Acquire, To, NoSession, SchemaInOrder, LifeTyped, Migrating,
     database
<1>2. ASSUME NEW r \in Servers, SkipApplied(r) PROVE SchemaInOrder'
  BY <1>2, LifeAssumption DEF SkipApplied, SchemaInOrder, LifeTyped, Migrating, database
<1>3. ASSUME NEW r \in Servers, BeginMigration(r) PROVE SchemaInOrder'
  BY <1>3, LifeAssumption DEF BeginMigration, To, SchemaInOrder, LifeTyped, Migrating, database
<1>4. ASSUME NEW r \in Servers, CommitMigration(r) PROVE SchemaInOrder'
  BY <1>4, LifeAssumption DEF CommitMigration, To, SchemaInOrder, LifeTyped, Migrating, database
<1>5. ASSUME NEW r \in Servers, Unlock(r) PROVE SchemaInOrder'
  BY <1>5, LifeAssumption DEF Unlock, To, Released, SchemaInOrder, LifeTyped, Migrating, database
<1>6. ASSUME NEW r \in Servers, StartWorkers(r) PROVE SchemaInOrder'
  BY <1>6, LifeAssumption DEF StartWorkers, To, SchemaInOrder, LifeTyped, Migrating, database
<1>7. ASSUME NEW r \in Servers, HandlersEnd(r) PROVE SchemaInOrder'
  BY <1>7, LifeAssumption DEF HandlersEnd, SchemaInOrder, LifeTyped, Migrating, database
<1>8. ASSUME NEW r \in Servers, Drained(r) PROVE SchemaInOrder'
  BY <1>8, LifeAssumption DEF Drained, To, Stop, SchemaInOrder, LifeTyped, Migrating, database
<1>9. ASSUME NEW r \in Servers, Close(r) PROVE SchemaInOrder'
  BY <1>9, LifeAssumption DEF Close, To, Joined, SchemaInOrder, LifeTyped, Migrating, database
<1>10. ASSUME NEW r \in Servers, Exit(r) PROVE SchemaInOrder'
  BY <1>10, LifeAssumption DEF Exit, To, Exited, Released, SchemaInOrder, LifeTyped, Migrating,
     database
<1>11. ASSUME NEW r \in Servers, Open(r) PROVE SchemaInOrder'
  BY <1>11, LifeAssumption DEF Open, To, SchemaInOrder, LifeTyped, Migrating, database
<1>12. ASSUME NEW r \in Servers, MigrationFails(r) PROVE SchemaInOrder'
  BY <1>12, LifeAssumption DEF MigrationFails, To, Released, SchemaInOrder, LifeTyped,
     Migrating, database
<1>13. ASSUME NEW r \in Servers, Handle(r) PROVE SchemaInOrder'
  BY <1>13, LifeAssumption DEF Handle, SchemaInOrder, LifeTyped, Migrating, database
<1>14. ASSUME NEW r \in Servers, Signal(r) PROVE SchemaInOrder'
  BY <1>14, LifeAssumption DEF Signal, To, SchemaInOrder, LifeTyped, Migrating, database
<1>15. ASSUME NEW r \in Servers, ListenFails(r) PROVE SchemaInOrder'
  BY <1>15, LifeAssumption DEF ListenFails, To, Stop, SchemaInOrder, LifeTyped, Migrating,
     database
<1>16. ASSUME NEW r \in Servers, Die(r) PROVE SchemaInOrder'
  BY <1>16, LifeAssumption DEF Die, To, Exited, Released, SchemaInOrder, LifeTyped, Migrating,
     database
<1>17. ASSUME NEW r \in Servers, NEW w \in Workers, WorkerRuns(r, w) PROVE SchemaInOrder'
  BY <1>17, LifeAssumption DEF WorkerRuns, SchemaInOrder, LifeTyped, Migrating, database
<1>18. ASSUME NEW r \in Servers, NEW w \in Workers, RunEnds(r, w) PROVE SchemaInOrder'
  BY <1>18, LifeAssumption DEF RunEnds, SchemaInOrder, LifeTyped, Migrating, database
<1>19. ASSUME NEW r \in Servers, NEW w \in Workers, WorkerReturns(r, w) PROVE SchemaInOrder'
  BY <1>19, LifeAssumption DEF WorkerReturns, SchemaInOrder, LifeTyped, Migrating, database
<1>20. CASE UNCHANGED serverVars
  BY <1>20 DEF serverVars, database, process, SchemaInOrder, LifeTyped, Migrating, database
<1> QED BY <1>1, <1>2, <1>3, <1>4, <1>5, <1>6, <1>7, <1>8, <1>9, <1>10, <1>11, <1>12, <1>13, <1>14, <1>15, <1>16, <1>17, <1>18, <1>19, <1>20 DEF LifeNext, Running

(* The lock keeps others from migrating, and the session that dies loses   *)
(* lock and transaction together.                                          *)
LEMMA MigratingStays == ASSUME LifeInv, [LifeNext]_serverVars PROVE Migrating'
<1> USE DEF LifeInv
<1>1. ASSUME NEW r \in Servers, Acquire(r) PROVE Migrating'
  BY <1>1, LifeAssumption DEF Acquire, To, NoSession, LifeTyped, SchemaInOrder, Migrating,
     Serving, database
<1>2. ASSUME NEW r \in Servers, SkipApplied(r) PROVE Migrating'
  BY <1>2, LifeAssumption DEF SkipApplied, LifeTyped, SchemaInOrder, Migrating, Serving, database
<1>3. ASSUME NEW r \in Servers, BeginMigration(r) PROVE Migrating'
  BY <1>3, LifeAssumption DEF BeginMigration, To, LifeTyped, SchemaInOrder, Migrating, Serving,
     database
<1>4. ASSUME NEW r \in Servers, CommitMigration(r) PROVE Migrating'
  BY <1>4, LifeAssumption DEF CommitMigration, To, LifeTyped, SchemaInOrder, Migrating, Serving,
     database
<1>5. ASSUME NEW r \in Servers, Unlock(r) PROVE Migrating'
  BY <1>5, LifeAssumption DEF Unlock, To, Released, LifeTyped, SchemaInOrder, Migrating,
     Serving, database
<1>6. ASSUME NEW r \in Servers, StartWorkers(r) PROVE Migrating'
  BY <1>6, LifeAssumption DEF StartWorkers, To, LifeTyped, SchemaInOrder, Migrating, Serving,
     database
<1>7. ASSUME NEW r \in Servers, HandlersEnd(r) PROVE Migrating'
  BY <1>7, LifeAssumption DEF HandlersEnd, LifeTyped, SchemaInOrder, Migrating, Serving, database
<1>8. ASSUME NEW r \in Servers, Drained(r) PROVE Migrating'
  BY <1>8, LifeAssumption DEF Drained, To, Stop, LifeTyped, SchemaInOrder, Migrating, Serving,
     database
<1>9. ASSUME NEW r \in Servers, Close(r) PROVE Migrating'
  BY <1>9, LifeAssumption DEF Close, To, Joined, LifeTyped, SchemaInOrder, Migrating, Serving,
     database
<1>10. ASSUME NEW r \in Servers, Exit(r) PROVE Migrating'
  BY <1>10, LifeAssumption DEF Exit, To, Exited, Released, LifeTyped, SchemaInOrder, Migrating,
     Serving, database
<1>11. ASSUME NEW r \in Servers, Open(r) PROVE Migrating'
  BY <1>11, LifeAssumption DEF Open, To, LifeTyped, SchemaInOrder, Migrating, Serving, database
<1>12. ASSUME NEW r \in Servers, MigrationFails(r) PROVE Migrating'
  BY <1>12, LifeAssumption DEF MigrationFails, To, Released, LifeTyped, SchemaInOrder,
     Migrating, Serving, database
<1>13. ASSUME NEW r \in Servers, Handle(r) PROVE Migrating'
  BY <1>13, LifeAssumption DEF Handle, LifeTyped, SchemaInOrder, Migrating, Serving, database
<1>14. ASSUME NEW r \in Servers, Signal(r) PROVE Migrating'
  BY <1>14, LifeAssumption DEF Signal, To, LifeTyped, SchemaInOrder, Migrating, Serving, database
<1>15. ASSUME NEW r \in Servers, ListenFails(r) PROVE Migrating'
  BY <1>15, LifeAssumption DEF ListenFails, To, Stop, LifeTyped, SchemaInOrder, Migrating,
     Serving, database
<1>16. ASSUME NEW r \in Servers, Die(r) PROVE Migrating'
  BY <1>16, LifeAssumption DEF Die, To, Exited, Released, LifeTyped, SchemaInOrder, Migrating,
     Serving, database
<1>17. ASSUME NEW r \in Servers, NEW w \in Workers, WorkerRuns(r, w) PROVE Migrating'
  BY <1>17, LifeAssumption DEF WorkerRuns, LifeTyped, SchemaInOrder, Migrating, Serving, database
<1>18. ASSUME NEW r \in Servers, NEW w \in Workers, RunEnds(r, w) PROVE Migrating'
  BY <1>18, LifeAssumption DEF RunEnds, LifeTyped, SchemaInOrder, Migrating, Serving, database
<1>19. ASSUME NEW r \in Servers, NEW w \in Workers, WorkerReturns(r, w) PROVE Migrating'
  BY <1>19, LifeAssumption DEF WorkerReturns, LifeTyped, SchemaInOrder, Migrating, Serving,
     database
<1>20. CASE UNCHANGED serverVars
  BY <1>20 DEF serverVars, database, process, LifeTyped, SchemaInOrder, Migrating, Serving,
     database
<1> QED BY <1>1, <1>2, <1>3, <1>4, <1>5, <1>6, <1>7, <1>8, <1>9, <1>10, <1>11, <1>12, <1>13, <1>14, <1>15, <1>16, <1>17, <1>18, <1>19, <1>20 DEF LifeNext, Running

(* The store is closed after the join or with the process.                 *)
LEMMA WorkingStays == ASSUME LifeInv, [LifeNext]_serverVars PROVE WorkingAt'
<1> USE DEF LifeInv
<1>1. ASSUME NEW r \in Servers, Acquire(r) PROVE WorkingAt'
  BY <1>1, LifeAssumption DEF Acquire, To, NoSession, LifeTyped, WorkingAt, Works, Serving,
     database
<1>2. ASSUME NEW r \in Servers, SkipApplied(r) PROVE WorkingAt'
  BY <1>2, LifeAssumption DEF SkipApplied, LifeTyped, WorkingAt, Works, Serving, database
<1>3. ASSUME NEW r \in Servers, BeginMigration(r) PROVE WorkingAt'
  BY <1>3, LifeAssumption DEF BeginMigration, To, LifeTyped, WorkingAt, Works, Serving, database
<1>4. ASSUME NEW r \in Servers, CommitMigration(r) PROVE WorkingAt'
  BY <1>4, LifeAssumption DEF CommitMigration, To, LifeTyped, WorkingAt, Works, Serving, database
<1>5. ASSUME NEW r \in Servers, Unlock(r) PROVE WorkingAt'
  BY <1>5, LifeAssumption DEF Unlock, To, Released, LifeTyped, WorkingAt, Works, Serving, database
<1>6. ASSUME NEW r \in Servers, StartWorkers(r) PROVE WorkingAt'
  BY <1>6, LifeAssumption DEF StartWorkers, To, LifeTyped, WorkingAt, Works, Serving, database
<1>7. ASSUME NEW r \in Servers, HandlersEnd(r) PROVE WorkingAt'
  BY <1>7, LifeAssumption DEF HandlersEnd, LifeTyped, WorkingAt, Works, Serving, database
<1>8. ASSUME NEW r \in Servers, Drained(r) PROVE WorkingAt'
  BY <1>8, LifeAssumption DEF Drained, To, Stop, LifeTyped, WorkingAt, Works, Serving, database
<1>9. ASSUME NEW r \in Servers, Close(r) PROVE WorkingAt'
  BY <1>9, LifeAssumption DEF Close, To, Joined, LifeTyped, WorkingAt, Works, Serving, database
<1>10. ASSUME NEW r \in Servers, Exit(r) PROVE WorkingAt'
  BY <1>10, LifeAssumption DEF Exit, To, Exited, Released, LifeTyped, WorkingAt, Works, Serving,
     database
<1>11. ASSUME NEW r \in Servers, Open(r) PROVE WorkingAt'
  BY <1>11, LifeAssumption DEF Open, To, LifeTyped, WorkingAt, Works, Serving, database
<1>12. ASSUME NEW r \in Servers, MigrationFails(r) PROVE WorkingAt'
  BY <1>12, LifeAssumption DEF MigrationFails, To, Released, LifeTyped, WorkingAt, Works,
     Serving, database
<1>13. ASSUME NEW r \in Servers, Handle(r) PROVE WorkingAt'
  BY <1>13, LifeAssumption DEF Handle, LifeTyped, WorkingAt, Works, Serving, database
<1>14. ASSUME NEW r \in Servers, Signal(r) PROVE WorkingAt'
  BY <1>14, LifeAssumption DEF Signal, To, LifeTyped, WorkingAt, Works, Serving, database
<1>15. ASSUME NEW r \in Servers, ListenFails(r) PROVE WorkingAt'
  BY <1>15, LifeAssumption DEF ListenFails, To, Stop, LifeTyped, WorkingAt, Works, Serving,
     database
<1>16. ASSUME NEW r \in Servers, Die(r) PROVE WorkingAt'
  BY <1>16, LifeAssumption DEF Die, To, Exited, Released, LifeTyped, WorkingAt, Works, Serving,
     database
<1>17. ASSUME NEW r \in Servers, NEW w \in Workers, WorkerRuns(r, w) PROVE WorkingAt'
  BY <1>17, LifeAssumption DEF WorkerRuns, LifeTyped, WorkingAt, Works, Serving, database
<1>18. ASSUME NEW r \in Servers, NEW w \in Workers, RunEnds(r, w) PROVE WorkingAt'
  BY <1>18, LifeAssumption DEF RunEnds, LifeTyped, WorkingAt, Works, Serving, database
<1>19. ASSUME NEW r \in Servers, NEW w \in Workers, WorkerReturns(r, w) PROVE WorkingAt'
  BY <1>19, LifeAssumption DEF WorkerReturns, LifeTyped, WorkingAt, Works, Serving, database
<1>20. CASE UNCHANGED serverVars
  BY <1>20 DEF serverVars, database, process, LifeTyped, WorkingAt, Works, Serving, database
<1> QED BY <1>1, <1>2, <1>3, <1>4, <1>5, <1>6, <1>7, <1>8, <1>9, <1>10, <1>11, <1>12, <1>13, <1>14, <1>15, <1>16, <1>17, <1>18, <1>19, <1>20 DEF LifeNext, Running

(* Each migration takes effect once and in order, and workers and handlers *)
(* work on the whole schema and on a store that is open.                   *)
THEOREM LifeIsOrderly == LifeSpec => []OrderlyLife
<1>1. LifeInit => LifeInv
  BY LifeAssumption DEF LifeInit, LifeInv, LifeTyped, SchemaInOrder, Migrating, WorkingAt, Works,
     Phases, Serving, NoSession
<1>2. LifeInv /\ [LifeNext]_serverVars => LifeInv'
  BY LifeStaysTyped, SchemaStaysInOrder, MigratingStays, WorkingStays DEF LifeInv
<1>3. LifeInv => OrderlyLife
  <2> SUFFICES ASSUME LifeInv PROVE OrderlyLife
    OBVIOUS
  <2>1. schema = [i \in 1 .. Len(schema) |-> i]
    BY DEF LifeInv, LifeTyped, SchemaInOrder
  <2>2. recorded = Range(schema)
    <3>1. recorded = 1 .. Len(schema) /\ DOMAIN schema = 1 .. Len(schema)
          /\ \A i \in 1 .. Len(schema) : schema[i] = i
      BY DEF LifeInv, LifeTyped, SchemaInOrder
    <3> QED BY <3>1 DEF Range
  <2>3. \A r \in Servers :
          /\ Works(r) \/ handlers[r] => Len(schema) = LastVersion
          /\ Works(r) => store[r] = "open"
          /\ handlers[r] => store[r] = "open" \/ phase[r] = "closed"
    BY DEF LifeInv, Migrating, WorkingAt, Serving
  <2> QED BY <2>1, <2>2, <2>3 DEF OrderlyLife, Works
<1> QED BY <1>1, <1>2, <1>3, PTL DEF LifeSpec
===============================================================================
