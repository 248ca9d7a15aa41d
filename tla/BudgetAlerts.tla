----------------------------- MODULE BudgetAlerts ------------------------------
(***************************************************************************)
(* Budgets and the part of the minute run that reports how far they are    *)
(* spent. A run is one transaction for all budgets: one statement takes a  *)
(* snapshot of spending and inserts a row of budget_alerts for each level  *)
(* reached, waiting for rows other replicas have inserted and not yet      *)
(* committed; then each row it inserted gets its notification. Budgets are *)
(* those of one user and of one kind of period.                            *)
(***************************************************************************)
EXTENDS Integers, FiniteSets, FiniteSetsExt

CONSTANTS
    Replicas,       \* replicas that evaluate budgets
    Budgets,        \* ids of rows of budgets
    Categories,     \* categories of expenses; "" is a budget of all of them
    Amounts, Thresholds,    \* what a request may ask for, thresholds in percent
    MaxSpent,       \* bound: booked expenses of a category in a period
    MaxPeriod,      \* bound: the last period
    MaxChanges      \* bound: requests of the user and faults

ASSUME BudgetsAssumption ==
    MaxSpent \in Nat /\ MaxPeriod \in Nat /\ MaxChanges \in Nat

VARIABLES
    period,         \* the period of today
    spent,          \* booked, not excluded expenses of a category and a period
    budget,         \* rows of budgets
    muted,          \* notification_preferences.budget_alerts is off
    alerts,         \* committed rows of budget_alerts
    outbox,         \* committed notifications, by event key
    hushed,         \* history: rows inserted while the preference was off
    pc, mine,       \* where a replica is, and the period of its date
    candidates,     \* rows its statement has still to insert
    inserted,       \* rows it has inserted and the others do not see
    queued,         \* the part of these with a notification, or without one
    changes         \* how many requests and faults there were

tables  == <<period, spent, budget, muted>>
results == <<alerts, outbox, hushed>>
working == <<pc, mine, candidates, inserted, queued>>
vars    == <<tables, results, working, changes>>

Periods == 0 .. MaxPeriod
NoBudget == [status |-> "none", category |-> "", amount |-> 1, threshold |-> 100]

Change == changes < MaxChanges /\ changes' = changes + 1

-------------------------------------------------------------------------------
(* Requests: each is one statement *)

(* budgets_active_scope_idx: one active budget of a category.              *)
ScopeIsFree(b, category) ==
    \A other \in Budgets \ {b} :
        budget[other].status = "active" => budget[other].category # category

Write(b, category, amount, threshold) ==
    /\ ScopeIsFree(b, category) /\ Change
    /\ budget' = [budget EXCEPT ![b] = [status |-> "active", category |-> category,
                                        amount |-> amount, threshold |-> threshold]]
    /\ UNCHANGED <<period, spent, muted, results, working>>

CreateBudget(b, c, a, t) == budget[b].status = "none" /\ Write(b, c, a, t)

(* What was reported stays reported, whatever the budget is now.           *)
UpdateBudget(b, c, a, t) == budget[b].status = "active" /\ Write(b, c, a, t)

ArchiveBudget(b) ==
    /\ budget[b].status = "active" /\ Change
    /\ budget' = [budget EXCEPT ![b].status = "archived"]
    /\ UNCHANGED <<period, spent, muted, results, working>>

(* An expense is booked, corrected, excluded or deleted.                   *)
Spend(c, amount) ==
    /\ amount # spent[c][period] /\ Change
    /\ spent' = [spent EXCEPT ![c][period] = amount]
    /\ UNCHANGED <<period, budget, muted, results, working>>

SetPreference ==
    /\ muted' = ~muted /\ Change
    /\ UNCHANGED <<period, spent, budget, results, working>>

-------------------------------------------------------------------------------
(* QueueBudgetAlerts in a replica r *)

Spent(b, p) ==
    MapThenSumSet(LAMBDA c : spent[c][p],
                  {c \in Categories : budget[b].category \in {"", c}})

MutantLevels(b, p) ==
    {l \in {budget[b].threshold, 100} : Spent(b, p) * 100 > budget[b].amount * l}

(* The warning threshold and 100, once if they are the same.               *)
Levels(b, p) ==
    {l \in {budget[b].threshold, 100} : Spent(b, p) * 100 >= budget[b].amount * l}

Active == {b \in Budgets : budget[b].status = "active"}

Reached(p) == UNION {{<<b, p, l>> : l \in Levels(b, p)} : b \in Active}

(* The date of a run is that of its beginning, and its snapshot that of    *)
(* the statement.                                                          *)
Begin(r) ==
    /\ pc[r] = "idle"
    /\ pc' = [pc EXCEPT ![r] = "begun"]
    /\ mine' = [mine EXCEPT ![r] = period]
    /\ UNCHANGED <<tables, results, candidates, inserted, queued, changes>>

Evaluate(r) ==
    /\ pc[r] = "begun"
    /\ pc' = [pc EXCEPT ![r] = "evaluated"]
    /\ candidates' = [candidates EXCEPT ![r] = Reached(mine[r])]
    /\ UNCHANGED <<tables, results, mine, inserted, queued, changes>>

MutantIsFree(r, row) == row \notin alerts

(* A row of another transaction that is not over makes the insert wait.    *)
IsFree(r, row) == \A other \in Replicas \ {r} : row \notin inserted[other]

(* ON CONFLICT DO NOTHING looks at what is committed by then. Rows are     *)
(* inserted one by one, so two replicas may wait for each other; then one  *)
(* of them is rolled back.                                                 *)
Insert(r) ==
    /\ pc[r] = "evaluated" /\ \A row \in candidates[r] : IsFree(r, row)
    /\ pc' = [pc EXCEPT ![r] = "inserted"]
    /\ candidates' = [candidates EXCEPT ![r] = {}]
    /\ inserted' = [inserted EXCEPT ![r] = candidates[r] \ alerts]
    /\ UNCHANGED <<tables, results, mine, queued, changes>>

(* The preference is looked at for each row.                               *)
QueueNotification(r, row) ==
    /\ pc[r] = "inserted"
    /\ row \in inserted[r] /\ row \notin DOMAIN queued[r]
    /\ queued' = [queued EXCEPT ![r] =
         [x \in DOMAIN @ \cup {row} |-> IF x = row THEN ~muted ELSE @[x]]]
    /\ UNCHANGED <<tables, results, pc, mine, candidates, inserted, changes>>

Finished(r) ==
    /\ pc' = [pc EXCEPT ![r] = "idle"]
    /\ candidates' = [candidates EXCEPT ![r] = {}]
    /\ inserted' = [inserted EXCEPT ![r] = {}]
    /\ queued' = [queued EXCEPT ![r] = <<>>]
    /\ UNCHANGED <<tables, mine>>

(* ON CONFLICT(event_key) DO NOTHING: a key is never queued twice.         *)
Commit(r) ==
    /\ pc[r] = "inserted" /\ DOMAIN queued[r] = inserted[r]
    /\ LET new == {row \in inserted[r] : queued[r][row]} \ outbox IN
         /\ alerts' = alerts \cup inserted[r]
         /\ outbox' = outbox \cup new
         /\ hushed' = hushed \cup {row \in inserted[r] : ~queued[r][row]}
    /\ Finished(r)
    /\ UNCHANGED changes

(* An error, the timeout of the run or a crash: nothing of it remains.     *)
Rollback(r) ==
    /\ pc[r] # "idle" /\ Change
    /\ Finished(r)
    /\ UNCHANGED results

Tick ==
    /\ period < MaxPeriod
    /\ period' = period + 1
    /\ UNCHANGED <<spent, budget, muted, results, working, changes>>

Init ==
    /\ period = 0 /\ spent = [c \in Categories |-> [p \in Periods |-> 0]]
    /\ budget = [b \in Budgets |-> NoBudget] /\ muted = FALSE
    /\ alerts = {} /\ outbox = {} /\ hushed = {}
    /\ pc = [r \in Replicas |-> "idle"] /\ mine = [r \in Replicas |-> 0]
    /\ candidates = [r \in Replicas |-> {}] /\ inserted = [r \in Replicas |-> {}]
    /\ queued = [r \in Replicas |-> <<>>]
    /\ changes = 0

Run(r) ==
    \/ Begin(r) \/ Evaluate(r) \/ Insert(r) \/ Commit(r)
    \/ \E row \in inserted[r] : QueueNotification(r, row)

Next ==
    \/ \E r \in Replicas : Run(r) \/ Rollback(r)
    \/ \E b \in Budgets, c \in Categories \cup {""}, a \in Amounts, t \in Thresholds :
         CreateBudget(b, c, a, t) \/ UpdateBudget(b, c, a, t)
    \/ \E b \in Budgets : ArchiveBudget(b)
    \/ \E c \in Categories, amount \in 0 .. MaxSpent : Spend(c, amount)
    \/ SetPreference \/ Tick

Spec == Init /\ [][Next]_vars

-------------------------------------------------------------------------------
(* Properties *)

(* Every variable keeps its type; what QueueBudgetAlerts has a notification *)
(* for, it has inserted.                                                   *)
TypeOK ==
    /\ period \in Periods /\ mine \in [Replicas -> Periods]
    /\ spent \in [Categories -> [Periods -> 0 .. MaxSpent]]
    /\ muted \in BOOLEAN /\ changes \in 0 .. MaxChanges
    /\ pc \in [Replicas -> {"idle", "begun", "evaluated", "inserted"}]
    /\ \A r \in Replicas : DOMAIN queued[r] \subseteq inserted[r]

(* A level of a budget is on record if and only if its notification was    *)
(* queued or the user wanted none then, and never both: replicas that      *)
(* evaluate at once, around the end of a period or while the user changes  *)
(* the budget, the spending and the preference, and runs that stop half-   *)
(* way, neither forget an alert for good nor give one twice.               *)
EachLevelOnce ==
    /\ alerts = outbox \cup hushed /\ outbox \cap hushed = {}
    /\ \A r, s \in Replicas : r # s => inserted[r] \cap inserted[s] = {}

(* Spending that has come to a level of an active budget, warning or       *)
(* limit, is reported in its period, unless it is corrected or the budget  *)
(* changed or archived before a run has seen it.                           *)
CrossedIsReported ==
    \A b \in Budgets, p \in Periods, t \in Thresholds \cup {100} :
        LET crossed == /\ b \in Active /\ period = p /\ t \in {budget[b].threshold, 100}
                       /\ Spent(b, p) * 100 >= budget[b].amount * t
        IN  crossed ~> (<<b, p, t>> \in alerts \/ ~crossed)
===============================================================================
