---------------------------- MODULE ScheduledMoney ----------------------------
(***************************************************************************)
(* Recurring income and expense: the schedules users create, edit, pause,  *)
(* resume and archive (service/schedules.go, repository/schedules.go) and  *)
(* the maintenance run that every replica starts once a minute             *)
(* (RunScheduledTransactionMaintenance): list the active schedules,        *)
(* materialise occurrences up to the horizon, post the due ones as         *)
(* transactions, queue reminders for the ones the user posts by hand.      *)
(*                                                                         *)
(* One action is one database transaction or one statement outside of any, *)
(* but for posting and archiving, whose statements others come between.    *)
(* Between two actions a process keeps only what it read before, so the    *)
(* snapshot a worker or a request works from may be stale.                 *)
(***************************************************************************)
EXTENDS Integers, FiniteSets

CONSTANTS
    Workers,        \* maintenance workers, one per replica of the server
    Clients,        \* API requests that may be in flight at the same time
    Schedules,      \* row ids of transaction_schedules
    Definitions,    \* what a request may ask a schedule to be
    Horizon,        \* SCHEDULE_HORIZON_DAYS
    PostLimit,      \* schedulePostingBatchSize, for PostDue
    RemindLimit,    \* schedulePostingBatchSize, for QueueReminders
    MaxDay,         \* bound: last day of the clock
    MaxRequests,    \* bound: API requests that change a schedule
    MaxFaults,      \* bound: runs or requests that stop half-way
    NoDef           \* the definition of a row that does not exist

Procs == Workers \cup Clients
Dates == 1 .. (MaxDay + 1 + Horizon)
Null  == -1                                \* materialized_through IS NULL

(* The parts of a schedule that decide which occurrences it has. zone is   *)
(* how many days its time zone is ahead of the server's UTC date.          *)
Definition == [start : Dates, dates : SUBSET Dates, auto : BOOLEAN, zone : 0 .. 1]

ASSUME ScheduledMoneyAssumption ==
    /\ Horizon \in Nat \ {0} /\ MaxDay \in Nat \ {0}
    /\ PostLimit \in Nat \ {0} /\ RemindLimit \in Nat \ {0}
    /\ MaxRequests \in Nat /\ MaxFaults \in Nat
    /\ Workers \cap Clients = {}
    /\ Definitions \subseteq Definition
    /\ NoDef \notin Definitions

(* recurrence.Occurrences begins at the start.                             *)
ASSUME StartsFirst == \A d \in Definitions : \A date \in d.dates : d.start <= date

VARIABLES
    day,        \* the UTC date
    wanted,     \* notification_preferences.scheduled_money of the user
    sched,      \* transaction_schedules
    occ,        \* transaction_schedule_occurrences, at most one row a date
    txns,       \* txns[s][d]: transactions ever inserted for date d of s
    pc,         \* where each worker run or request is
    now,        \* the date it read from the clock
    todo,       \* schedule snapshots it has still to materialise
    stored,     \* the one of them whose occurrences are inserted, not marked
    locked,     \* occurrence rows its open transaction holds FOR UPDATE
    archiving,  \* schedules a transaction has archived and not committed yet
    seen,       \* seen[s]: the planned dates in the snapshot that skips rows of s
    held,       \* held[s]: those of them it has come to, and holds till it commits
    edited,     \* history: the schedules whose definition was ever edited
    requests,   \* requests made so far
    faults      \* faults so far

archiveVars == <<archiving, seen, held>>
vars == <<day, wanted, sched, occ, txns, pc, now, todo, stored, locked,
          archiving, seen, held, edited, requests, faults>>

-------------------------------------------------------------------------------
(* Rows *)

NoSchedule == [status |-> "none", def |-> NoDef, mt |-> Null]
NoRow == [status |-> "none", def |-> NoDef, txn |-> "none", events |-> {}]
PlannedRow(d) == [status |-> "planned", def |-> d, txn |-> "none", events |-> {}]

ScheduleRow ==
    [status : {"none", "active", "paused", "archived"},
     def : Definitions \cup {NoDef}, mt : {Null} \cup 0 .. (MaxDay + 1 + Horizon)]

OccurrenceRow ==
    [status : {"none", "planned", "posted", "skipped"},
     def : Definitions \cup {NoDef},
     txn : {"none", "booked", "deleted"},       \* the transaction of this row
     events : SUBSET {"due", "posted"}]         \* outbox event keys of this row

(* What a process remembers of a schedule row it has read.                 *)
Item == [id : Schedules, def : Definitions,
         mt : {Null} \cup 0 .. (MaxDay + 1 + Horizon)]
Snapshot(s) == [id |-> s, def |-> sched[s].def, mt |-> sched[s].mt]

LocalDate(d, at) == at + d.zone

-------------------------------------------------------------------------------
(* Materialisation: the window of dates and its two statements *)

MutantThroughOff(today) == today + Horizon + 1
Through(today) == today + Horizon

From(item, today) ==
    LET next == IF item.mt = Null THEN item.def.start ELSE item.mt + 1
    IN  IF next < today THEN today ELSE next

DatesToInsert(item, today) ==
    {d \in item.def.dates : From(item, today) <= d /\ d <= Through(today)}

(* GREATEST(COALESCE(materialized_through, through), through)              *)
MutantAdvanceOnce(mt, through) == IF mt = Null THEN through ELSE mt
Advance(mt, through) == IF mt < through THEN through ELSE mt

(* A worker goes on to post, a request is over.                            *)
AfterMaterialize(p, rest) ==
    IF rest # {} THEN "materialize" ELSE IF p \in Workers THEN "post" ELSE "idle"

(* The locals of a run that is over are gone.                              *)
ForgetNow(p) == now' = IF pc'[p] = "idle" THEN [now EXCEPT ![p] = 1] ELSE now

Skip(p, item) ==
    LET today == LocalDate(item.def, now[p]) IN
    /\ pc[p] = "materialize" /\ item \in todo[p] /\ stored[p] = {}
    /\ From(item, today) > Through(today)
    /\ todo' = [todo EXCEPT ![p] = @ \ {item}]
    /\ pc' = [pc EXCEPT ![p] = AfterMaterialize(p, todo[p] \ {item})]
    /\ ForgetNow(p)
    /\ UNCHANGED <<day, wanted, sched, occ, txns, stored, locked, archiveVars, edited, requests, faults>>

InsertOrKeep(row, d) == IF row.status = "none" THEN PlannedRow(d) ELSE row

(* UpsertTransactionScheduleOccurrences: one transaction, existing dates   *)
(* are kept, and the schedule row is not looked at again.                  *)
Upsert(p, item) ==
    LET today == LocalDate(item.def, now[p]) IN
    /\ pc[p] = "materialize" /\ item \in todo[p] /\ stored[p] = {}
    /\ From(item, today) <= Through(today)
    /\ occ' = [occ EXCEPT ![item.id] = [d \in Dates |->
                 IF d \in DatesToInsert(item, today)
                 THEN InsertOrKeep(@[d], item.def) ELSE @[d]]]
    /\ stored' = [stored EXCEPT ![p] = {item}]
    /\ UNCHANGED <<day, wanted, sched, txns, pc, now, todo, locked, archiveVars, edited, requests, faults>>

MutantReadyToMark(p, item) == item \in todo[p]
ReadyToMark(p, item) == item \in stored[p]

(* MarkTransactionScheduleMaterializedThrough: only an active schedule;    *)
(* for any other the run goes on with the next schedule. The update waits  *)
(* for an open archive of the row, as those of requests do.                *)
Mark(p, item) ==
    LET through == Through(LocalDate(item.def, now[p]))
        s == item.id IN
    /\ pc[p] = "materialize" /\ item \in todo[p] /\ ReadyToMark(p, item)
    /\ s \notin archiving
    /\ sched' = IF sched[s].status = "active"
                THEN [sched EXCEPT ![s].mt = Advance(@, through)] ELSE sched
    /\ stored' = [stored EXCEPT ![p] = {}]
    /\ todo' = [todo EXCEPT ![p] = @ \ {item}]
    /\ pc' = [pc EXCEPT ![p] = AfterMaterialize(p, todo[p] \ {item})]
    /\ ForgetNow(p)
    /\ UNCHANGED <<day, wanted, occ, txns, locked, archiveVars, edited, requests, faults>>

-------------------------------------------------------------------------------
(* The worker's run *)

ListActive(w) ==
    LET active == {s \in Schedules : sched[s].status = "active"} IN
    /\ pc[w] = "idle"
    /\ now' = [now EXCEPT ![w] = day]
    /\ todo' = [todo EXCEPT ![w] = {Snapshot(s) : s \in active}]
    /\ pc' = [pc EXCEPT ![w] = AfterMaterialize(w, {Snapshot(s) : s \in active})]
    /\ UNCHANGED <<day, wanted, sched, occ, txns, stored, locked, archiveVars, edited, requests, faults>>

MutantOnTheDay(date, today) == date = today
IsDue(date, today) == date <= today

Due(auto, at) ==
    {r \in Schedules \X Dates :
        /\ occ[r[1]][r[2]].status = "planned"
        /\ occ[r[1]][r[2]].def.auto = auto
        /\ sched[r[1]].status = "active"
        /\ IsDue(r[2], LocalDate(sched[r[1]].def, at))}

(* ORDER BY scheduled_for LIMIT n; which of two rows of the same date has  *)
(* the lower id is left open.                                              *)
Oldest(rows, n) ==
    {batch \in SUBSET rows :
        /\ Cardinality(batch) = IF Cardinality(rows) < n THEN Cardinality(rows) ELSE n
        /\ \A r \in batch, q \in rows \ batch : r[2] <= q[2]}

MutantFree(rows) == rows
(* FOR UPDATE OF o SKIP LOCKED                                             *)
Free(rows) ==
    {r \in rows : r[2] \notin held[r[1]] /\ \A w \in Workers : r \notin locked[w]}

(* PostDue begins its transaction: it selects and locks a batch.           *)
PostSelect(w) ==
    /\ pc[w] = "post"
    /\ \E batch \in Oldest(Free(Due(TRUE, now[w])), PostLimit) :
         locked' = [locked EXCEPT ![w] = batch]
    /\ pc' = [pc EXCEPT ![w] = "posting"]
    /\ UNCHANGED <<day, wanted, sched, occ, txns, now, todo, stored, archiveVars, edited, requests, faults>>

(* ON CONFLICT(schedule_occurrence_id): a row that has its transaction     *)
(* keeps it.                                                               *)
Inserts(row) == row.txn # "booked"

Posted(row) ==
    [row EXCEPT !.status = "posted", !.txn = "booked",
                !.events = IF wanted THEN @ \cup {"posted"} ELSE @]

(* ... inserts the transactions and outbox events, and commits.            *)
PostCommit(w) ==
    /\ pc[w] = "posting"
    /\ txns' = [s \in Schedules |-> [d \in Dates |->
                  IF <<s, d>> \in locked[w] /\ Inserts(occ[s][d])
                  THEN txns[s][d] + 1 ELSE txns[s][d]]]
    /\ occ' = [s \in Schedules |-> [d \in Dates |->
                  IF <<s, d>> \in locked[w] THEN Posted(occ[s][d]) ELSE occ[s][d]]]
    /\ locked' = [locked EXCEPT ![w] = {}]
    /\ pc' = [pc EXCEPT ![w] = "remind"]
    /\ UNCHANGED <<day, wanted, sched, now, todo, stored, archiveVars, edited, requests, faults>>

(* QueueDueTransactionScheduleReminders: the batch is cut before the rows  *)
(* that already have their event are left out (ON CONFLICT DO NOTHING).    *)
QueueReminders(w) ==
    /\ pc[w] = "remind"
    /\ \E batch \in Oldest(Due(FALSE, now[w]), RemindLimit) :
         occ' = [s \in Schedules |-> [d \in Dates |->
                   IF wanted /\ <<s, d>> \in batch
                   THEN [occ[s][d] EXCEPT !.events = @ \cup {"due"}] ELSE occ[s][d]]]
    /\ pc' = [pc EXCEPT ![w] = "idle"]
    /\ ForgetNow(w)
    /\ UNCHANGED <<day, wanted, sched, txns, todo, stored, locked, archiveVars, edited, requests, faults>>

-------------------------------------------------------------------------------
(* API requests *)

MoreRequests == requests < MaxRequests
MayRequest(c) == pc[c] = "idle" /\ MoreRequests

(* validateTransactionSchedule: no start in the past, unless it is the     *)
(* start the schedule already has.                                         *)
ValidStart(d, old) == d.start >= LocalDate(d, day) \/ d.start = old

Create(c, s, d) ==
    /\ MayRequest(c) /\ sched[s].status = "none" /\ ValidStart(d, Null)
    /\ sched' = [sched EXCEPT ![s] = [status |-> "active", def |-> d, mt |-> Null]]
    /\ todo' = [todo EXCEPT ![c] = {[id |-> s, def |-> d, mt |-> Null]}]
    /\ now' = [now EXCEPT ![c] = day]
    /\ pc' = [pc EXCEPT ![c] = "materialize"]
    /\ requests' = requests + 1
    /\ UNCHANGED <<day, wanted, occ, txns, stored, locked, archiveVars, edited, faults>>

(* UpdateTransactionSchedule reads the schedule and the clock ...          *)
BeginUpdate(c, s, d) ==
    /\ MayRequest(c) /\ sched[s].status \in {"active", "paused"}
    /\ ValidStart(d, sched[s].def.start)
    /\ todo' = [todo EXCEPT ![c] = {[id |-> s, def |-> d,
                                     mt |-> LocalDate(d, day) - 1]}]
    /\ now' = [now EXCEPT ![c] = day]
    /\ pc' = [pc EXCEPT ![c] = "update"]
    /\ requests' = requests + 1
    /\ UNCHANGED <<day, wanted, sched, occ, txns, stored, locked, archiveVars, edited, faults>>

Finish(c) ==
    /\ pc' = [pc EXCEPT ![c] = "idle"]
    /\ todo' = [todo EXCEPT ![c] = {}]

MutantReplaceable(row, d, today) == row.status # "none" /\ d >= today
Replaceable(row, d, today) == row.status = "planned" /\ d >= today

(* ... and in one transaction rewrites it, takes the watermark back to     *)
(* yesterday and deletes the planned rows from today on, waiting for the   *)
(* ones a posting batch has locked.                                        *)
CommitUpdate(c) ==
    /\ pc[c] = "update"
    /\ \E item \in todo[c] :
         LET s == item.id
             today == LocalDate(item.def, now[c])
             gone == {d \in Dates : Replaceable(occ[s][d], d, today)} IN
         /\ sched[s].status # "archived" /\ s \notin archiving
         /\ \A w \in Workers, d \in gone : <<s, d>> \notin locked[w]
         /\ sched' = [sched EXCEPT ![s] = [@ EXCEPT !.def = item.def, !.mt = item.mt]]
         /\ occ' = [occ EXCEPT ![s] = [d \in Dates |->
                      IF d \in gone THEN NoRow ELSE @[d]]]
         /\ edited' = edited \cup {s}
         /\ IF sched[s].status = "active"
            THEN pc' = [pc EXCEPT ![c] = "materialize"] /\ UNCHANGED todo
            ELSE Finish(c)
    /\ ForgetNow(c)
    /\ UNCHANGED <<day, wanted, txns, stored, locked, archiveVars, requests, faults>>

(* setTransactionSchedulePaused reads the schedule ...                     *)
BeginSetStatus(c, s, target) ==
    /\ MayRequest(c) /\ sched[s].status \in {"active", "paused"}
    /\ todo' = [todo EXCEPT ![c] = {Snapshot(s)}]
    /\ pc' = [pc EXCEPT ![c] = target]
    /\ requests' = requests + 1
    /\ UNCHANGED <<day, wanted, sched, occ, txns, now, stored, locked, archiveVars, edited, faults>>

(* ... then sets the status; a resume goes on to materialise from the row  *)
(* it read before.                                                         *)
CommitPause(c) ==
    /\ pc[c] = "pause"
    /\ \E item \in todo[c] :
         /\ sched[item.id].status # "archived" /\ item.id \notin archiving
         /\ sched' = [sched EXCEPT ![item.id].status = "paused"]
    /\ Finish(c)
    /\ ForgetNow(c)
    /\ UNCHANGED <<day, wanted, occ, txns, stored, locked, archiveVars, edited, requests, faults>>

CommitResume(c) ==
    /\ pc[c] = "resume"
    /\ \E item \in todo[c] :
         /\ sched[item.id].status # "archived" /\ item.id \notin archiving
         /\ sched' = [sched EXCEPT ![item.id].status = "active"]
    /\ now' = [now EXCEPT ![c] = day]
    /\ pc' = [pc EXCEPT ![c] = "materialize"]
    /\ UNCHANGED <<day, wanted, occ, txns, todo, stored, locked, archiveVars, edited, requests, faults>>

(* The schedule was archived between the read and the write: not found.    *)
NotFound(c) ==
    /\ pc[c] \in {"update", "pause", "resume"}
    /\ \E item \in todo[c] : sched[item.id].status = "archived"
    /\ Finish(c)
    /\ ForgetNow(c)
    /\ UNCHANGED <<day, wanted, sched, occ, txns, stored, locked, archiveVars, edited, requests, faults>>

(* ArchiveTransactionSchedule, at any time, also between the two steps of  *)
(* an edit. Its transaction has the row of the schedule from the first     *)
(* statement on, but until it commits others read the old status; the      *)
(* second statement skips the rows that are planned in its snapshot, not   *)
(* those inserted afterwards.                                              *)
ArchiveBegin(s) ==
    /\ MoreRequests /\ sched[s].status \in {"active", "paused"} /\ s \notin archiving
    /\ archiving' = archiving \cup {s}
    /\ seen' = [seen EXCEPT ![s] = {d \in Dates : occ[s][d].status = "planned"}]
    /\ requests' = requests + 1
    /\ UNCHANGED <<day, wanted, sched, occ, txns, pc, now, todo, stored, locked, held, edited, faults>>

(* It comes to one row after the other, once no posting batch has it.      *)
ArchiveSkip(s) ==
    /\ s \in archiving
    /\ \E d \in seen[s] \ held[s] :
         /\ occ[s][d].status = "planned" /\ \A w \in Workers : <<s, d>> \notin locked[w]
         /\ held' = [held EXCEPT ![s] = @ \cup {d}]
    /\ UNCHANGED <<day, wanted, sched, occ, txns, pc, now, todo, stored, locked,
                   archiving, seen, edited, requests, faults>>

(* A row that was posted while the statement waited for it stays posted.   *)
MutantSettled(s) ==
    \A d \in seen[s] \ held[s] :
        occ[s][d].status = "planned" => \E w \in Workers : <<s, d>> \in locked[w]
Settled(s) == \A d \in seen[s] \ held[s] : occ[s][d].status # "planned"

ArchiveCommit(s) ==
    /\ s \in archiving /\ Settled(s)
    /\ sched' = [sched EXCEPT ![s].status = "archived"]
    /\ occ' = [occ EXCEPT ![s] = [d \in Dates |->
                 IF d \in held[s] THEN [@[d] EXCEPT !.status = "skipped"] ELSE @[d]]]
    /\ archiving' = archiving \ {s}
    /\ held' = [held EXCEPT ![s] = {}]
    /\ UNCHANGED <<day, wanted, txns, pc, now, todo, stored, locked, seen, edited, requests, faults>>

(* A statement fails or the request's context ends: nothing was archived.  *)
ArchiveFails(s) ==
    /\ s \in archiving /\ faults < MaxFaults
    /\ faults' = faults + 1
    /\ archiving' = archiving \ {s}
    /\ seen' = [seen EXCEPT ![s] = {}]
    /\ held' = [held EXCEPT ![s] = {}]
    /\ UNCHANGED <<day, wanted, sched, occ, txns, pc, now, todo, stored, locked, edited, requests>>

(* DeleteTransaction of a scheduled transaction: the occurrence stays      *)
(* posted, its transaction_id becomes NULL.                                *)
DeleteTransaction(c, s, d) ==
    /\ MayRequest(c) /\ occ[s][d].txn = "booked"
    /\ occ' = [occ EXCEPT ![s][d].txn = "deleted"]
    /\ requests' = requests + 1
    /\ UNCHANGED <<day, wanted, sched, txns, pc, now, todo, stored, locked, archiveVars, edited, faults>>

SetPreference(c) ==
    /\ MayRequest(c)
    /\ wanted' = ~wanted
    /\ requests' = requests + 1
    /\ UNCHANGED <<day, sched, occ, txns, pc, now, todo, stored, locked, archiveVars, edited, faults>>

-------------------------------------------------------------------------------
(* Environment *)

Tick ==
    /\ day < MaxDay
    /\ day' = day + 1
    /\ UNCHANGED <<wanted, sched, occ, txns, pc, now, todo, stored, locked, archiveVars, edited, requests, faults>>

(* A statement fails, the run's 45 s are over, or the process dies: the    *)
(* open transaction is rolled back and the rest of the run is not done.    *)
Fail(p) ==
    /\ pc[p] # "idle" /\ faults < MaxFaults
    /\ faults' = faults + 1
    /\ pc' = [pc EXCEPT ![p] = "idle"]
    /\ todo' = [todo EXCEPT ![p] = {}]
    /\ stored' = [stored EXCEPT ![p] = {}]
    /\ locked' = [locked EXCEPT ![p] = {}]
    /\ ForgetNow(p)
    /\ UNCHANGED <<day, wanted, sched, occ, txns, archiveVars, edited, requests>>

-------------------------------------------------------------------------------
Init ==
    /\ day = 1
    /\ wanted = TRUE
    /\ sched = [s \in Schedules |-> NoSchedule]
    /\ occ = [s \in Schedules |-> [d \in Dates |-> NoRow]]
    /\ txns = [s \in Schedules |-> [d \in Dates |-> 0]]
    /\ pc = [p \in Procs |-> "idle"]
    /\ now = [p \in Procs |-> 1]
    /\ todo = [p \in Procs |-> {}]
    /\ stored = [p \in Procs |-> {}]
    /\ locked = [p \in Procs |-> {}]
    /\ archiving = {}
    /\ seen = [s \in Schedules |-> {}]
    /\ held = [s \in Schedules |-> {}]
    /\ edited = {}
    /\ requests = 0
    /\ faults = 0

Materialize(p) == \E item \in todo[p] : Skip(p, item) \/ Upsert(p, item) \/ Mark(p, item)

WorkerStep(w) ==
    \/ ListActive(w)
    \/ Materialize(w)
    \/ PostSelect(w)
    \/ PostCommit(w)
    \/ QueueReminders(w)

Request(c) ==
    \/ \E s \in Schedules, d \in Definitions : Create(c, s, d) \/ BeginUpdate(c, s, d)
    \/ \E s \in Schedules, target \in {"pause", "resume"} : BeginSetStatus(c, s, target)
    \/ \E s \in Schedules, d \in Dates : DeleteTransaction(c, s, d)
    \/ SetPreference(c)

RequestStep(c) ==
    \/ CommitUpdate(c)
    \/ CommitPause(c)
    \/ CommitResume(c)
    \/ NotFound(c)
    \/ Materialize(c)

ArchiveStep(s) == ArchiveSkip(s) \/ ArchiveCommit(s)

Next ==
    \/ \E w \in Workers : WorkerStep(w)
    \/ \E c \in Clients : Request(c) \/ RequestStep(c)
    \/ \E s \in Schedules : ArchiveBegin(s) \/ ArchiveStep(s) \/ ArchiveFails(s)
    \/ \E p \in Procs : Fail(p)
    \/ Tick

Spec == Init /\ [][Next]_vars

(* Each replica restarts its run on a ticker, and a transaction that       *)
(* archives goes on while it can; users and the clock owe nothing.         *)
FairSpec ==
    /\ Spec
    /\ \A w \in Workers : WF_vars(WorkerStep(w))
    /\ \A s \in Schedules : WF_vars(ArchiveStep(s))

-------------------------------------------------------------------------------
(* Properties *)

TypeOK ==
    /\ day \in 1 .. MaxDay /\ wanted \in BOOLEAN
    /\ sched \in [Schedules -> ScheduleRow]
    /\ occ \in [Schedules -> [Dates -> OccurrenceRow]]
    /\ txns \in [Schedules -> [Dates -> Nat]]
    /\ pc \in [Procs -> {"idle", "materialize", "post", "posting", "remind",
                         "update", "pause", "resume"}]
    /\ now \in [Procs -> 1 .. MaxDay]
    /\ todo \in [Procs -> SUBSET Item] /\ stored \in [Procs -> SUBSET Item]
    /\ locked \in [Procs -> SUBSET (Schedules \X Dates)]
    /\ archiving \subseteq Schedules
    /\ seen \in [Schedules -> SUBSET Dates] /\ held \in [Schedules -> SUBSET Dates]
    /\ edited \subseteq Schedules
    /\ requests \in 0 .. MaxRequests /\ faults \in 0 .. MaxFaults

(* A date of a schedule has had exactly one transaction if its occurrence  *)
(* is posted and none if it is not, whatever replicas, edits that delete   *)
(* and re-create rows, deleted transactions and faults come in between.    *)
PostedExactlyOnce ==
    \A s \in Schedules, d \in Dates :
        txns[s][d] = IF occ[s][d].status = "posted" THEN 1 ELSE 0

(* A scheduled transaction the user deleted is never inserted again, also  *)
(* not by a replica that selected its occurrence before the deletion.      *)
DeletedStaysDeleted ==
    [][\A s \in Schedules, d \in Dates :
         occ[s][d].txn = "deleted" => occ'[s][d].txn = "deleted"]_vars

NoHole(s) ==
    sched[s].status = "active" =>
        \A d \in sched[s].def.dates :
            LocalDate(sched[s].def, day) <= d /\ d <= sched[s].mt =>
                occ[s][d].status # "none"

(* Every recurrence date of an active schedule nobody has edited has its   *)
(* row, from today to the watermark: a run that stops half-way never       *)
(* leaves a hole behind a watermark, which no later run would fill.        *)
NoDateLost == \A s \in Schedules \ edited : NoHole(s)

(* The same of a schedule the user has edited, once the edit is over.      *)
(* README.md:9 promises daily, weekly and monthly schedules with           *)
(* occurrence tracking; an edit that stops between its two transactions    *)
(* while a replica materialises from the row it read before loses dates    *)
(* for good.                                                               *)
NoDateLostByEdit ==
    \A s \in edited :
        (\A p \in Procs : \A item \in todo[p] : item.id # s) => NoHole(s)

DueRow(s, d, auto) ==
    /\ sched[s].status = "active" /\ occ[s][d].status = "planned"
    /\ occ[s][d].def.auto = auto
    /\ d <= LocalDate(sched[s].def, day)

(* The backlog of due automatic occurrences is cleared again and again,    *)
(* however many fall due at once, whatever fails and however long the      *)
(* replicas were down.                                                     *)
DueIsPosted == []<>(\A s \in Schedules, d \in Dates : ~DueRow(s, d, TRUE))

(* So is the backlog of due occurrences the user posts by hand and has not *)
(* been reminded of, while reminders are wanted.                           *)
DueIsReminded ==
    []<>(wanted => \A s \in Schedules, d \in Dates :
                     DueRow(s, d, FALSE) => "due" \in occ[s][d].events)

(* An active schedule is materialised up to the horizon again after every  *)
(* change of the date, so the user sees what is coming.                    *)
HorizonKept ==
    []<>(\A s \in Schedules : sched[s].status = "active" =>
           LET through == Through(LocalDate(sched[s].def, day)) IN
           sched[s].mt >= through \/ sched[s].def.start > through)

(* The replicas and requests implement the ledger the user is promised:    *)
(* what is booked was taken for a batch while its schedule was open, and   *)
(* what was planned when an archive began is skipped or booked before the  *)
(* archive commits, never after.                                           *)
Standing == [s \in Schedules |->
    CASE sched[s].status = "none" -> "absent"
      [] sched[s].status = "archived" -> "closed"
      [] OTHER -> "open"]
Taken == UNION {locked[w] : w \in Workers}
Struck == [s \in Schedules |-> IF sched[s].status = "archived" THEN seen[s] ELSE {}]
Ledger == INSTANCE PostingLedger
            WITH booked <- txns, standing <- Standing, taken <- Taken, struck <- Struck
LedgerRefined == Ledger!LedgerSpec

==============================================================================
