-------------------------- MODULE InvestmentSchedules --------------------------
(***************************************************************************)
(* Scheduled purchases: the last two parts of the minute run of every      *)
(* replica. Occurrences are stored up to today, the due ones are listed,   *)
(* priced one by one, and each is bought in a transaction that locks the   *)
(* occurrence first and the position of the ledger then. All schedules     *)
(* buy of the one position of InvestmentLedger, whose requests go on       *)
(* meanwhile.                                                              *)
(***************************************************************************)
EXTENDS InvestmentLedger

CONSTANTS
    Workers,        \* maintenance runs, one per replica
    Schedules,      \* ids of rows of investment_schedules
    Definitions,    \* what a request may ask a schedule to be
    BatchSize       \* scheduledInvestmentPostingBatchSize

ASSUME SchedulesAssumption ==
    /\ Schedules \subseteq Nat /\ BatchSize \in Nat \ {0}
    /\ Definitions \subseteq [start : Days, dates : SUBSET Days]
    /\ Workers \cap Clients = {} /\ "none" \notin Workers \cup Clients

VARIABLES
    status, def,    \* of a schedule
    through,        \* materialized_through, Null if it has none
    occ,            \* status of the occurrence of a schedule and a day
    dark,           \* schedules whose asset has no price at present
    at, today,      \* where a run is, and its date
    seen, batch,    \* the schedules and the occurrences it has read
    bought,         \* history: purchases ever made for an occurrence
    edited          \* history: schedules that were edited

Null == -1

tables == <<status, def, through, occ>>
runs   == <<at, today, seen, batch>>
notes  == <<bought, edited>>
vars   == <<day, ledger, requests, events, tables, dark, runs, notes>>

DatesOf(d) == {x \in d.dates : x >= d.start}

-------------------------------------------------------------------------------
(* Requests on schedules, one statement each *)

(* Nothing may be planned in the past.                                     *)
Create(s, d) ==
    /\ status[s] = "none" /\ d.start >= day /\ Event
    /\ status' = [status EXCEPT ![s] = "active"]
    /\ def' = [def EXCEPT ![s] = d]
    /\ UNCHANGED <<day, ledger, requests, through, occ, dark, runs, notes>>

(* Occurrences that are planned, and how far it was materialised, stay.    *)
Edit(s, d) ==
    /\ status[s] \in {"active", "paused"} /\ d # def[s] /\ Event
    /\ d.start >= day \/ d.start = def[s].start
    /\ def' = [def EXCEPT ![s] = d]
    /\ edited' = edited \cup {s}
    /\ UNCHANGED <<day, ledger, requests, status, through, occ, dark, runs, bought>>

SetStatus(s, new) ==
    /\ status[s] \in {"active", "paused"} /\ status[s] # new /\ Event
    /\ status' = [status EXCEPT ![s] = new]
    /\ UNCHANGED <<day, ledger, requests, def, through, occ, dark, runs, notes>>

-------------------------------------------------------------------------------
(* materializeDueInvestmentSchedules in a run w *)

MutantFrom(d, x) == IF x = Null THEN d.start + 1 ELSE x + 1

(* The first day that is not materialised.                                 *)
From(d, x) == IF x = Null THEN d.start ELSE x + 1

(* Schedules that have nothing to materialise yet are passed over.         *)
ListActive(w) ==
    /\ at[w] = "idle"
    /\ today' = [today EXCEPT ![w] = day]
    /\ seen' = [seen EXCEPT ![w] =
         {[id |-> s, from |-> From(def[s], through[s]), dates |-> DatesOf(def[s])] :
            s \in {r \in Schedules : status[r] = "active"
                                       /\ From(def[r], through[r]) <= day}}]
    /\ at' = [at EXCEPT ![w] = "storing"]
    /\ UNCHANGED <<day, ledger, requests, events, tables, dark, batch, notes>>

Upcoming(X) == CHOOSE x \in X : \A y \in X : x.id <= y.id

(* ON CONFLICT(schedule_id, scheduled_for) DO NOTHING.                     *)
Stored(row, x, last) ==
    [d \in Days |->
       IF row[d] = "none" /\ d \in x.dates /\ d \in x.from .. last THEN "planned"
       ELSE row[d]]

Store(w) ==
    /\ at[w] = "storing" /\ seen[w] # {}
    /\ LET x == Upcoming(seen[w]) IN occ' = [occ EXCEPT ![x.id] = Stored(@, x, today[w])]
    /\ at' = [at EXCEPT ![w] = "marking"]
    /\ UNCHANGED <<day, ledger, requests, events, status, def, through, dark, today, seen,
                   batch, notes>>

(* A schedule that is no longer active is passed over.                     *)
Mark(w) ==
    /\ at[w] = "marking"
    /\ LET s == Upcoming(seen[w]).id IN
         through' = IF status[s] = "active" THEN [through EXCEPT ![s] = today[w]] ELSE through
    /\ seen' = [seen EXCEPT ![w] = @ \ {Upcoming(seen[w])}]
    /\ at' = [at EXCEPT ![w] = "storing"]
    /\ UNCHANGED <<day, ledger, requests, events, status, def, occ, dark, today, batch,
                   notes>>

-------------------------------------------------------------------------------
(* postDueInvestmentScheduleOccurrences *)

MutantDue(x, now) == occ[x[1]][x[2]] = "planned" /\ status[x[1]] = "active" /\ x[2] = now

Due(x, now) == occ[x[1]][x[2]] = "planned" /\ status[x[1]] = "active" /\ x[2] <= now

(* ORDER BY scheduled_for, id.                                             *)
Before(x, y) == x[2] < y[2] \/ (x[2] = y[2] /\ x[1] <= y[1])

First(X) == CHOOSE x \in X : \A y \in X : Before(x, y)

(* The run goes on with the batch B, or is over. Its date is of no use now.*)
Continue(w, B) ==
    /\ batch' = [batch EXCEPT ![w] = B]
    /\ at' = [at EXCEPT ![w] = IF B = {} THEN "idle" ELSE "pricing"]
    /\ today' = [today EXCEPT ![w] = 0]

ListDue(w) ==
    /\ at[w] = "storing" /\ seen[w] = {}
    /\ LET D == {x \in Schedules \X Days : Due(x, today[w])} IN
         Continue(w, {x \in D : Cardinality({y \in D : Before(y, x)}) <= BatchSize})
    /\ UNCHANGED <<day, ledger, requests, events, tables, dark, seen, notes>>

Current(w) == First(batch[w])

Drop(w) == Continue(w, batch[w] \ {Current(w)})

(* No price, or its hour has not come: the others are bought all the same. *)
NoQuote(w) ==
    /\ at[w] = "pricing" /\ Current(w)[1] \in dark
    /\ Drop(w)
    /\ UNCHANGED <<day, ledger, requests, events, tables, dark, seen, notes>>

Locks(w, x) == at[w] = "posting" /\ Current(w) = x

MutantPostable(x) == status[x[1]] = "active"

Postable(x) == occ[x[1]][x[2]] = "planned" /\ status[x[1]] = "active"

Waiting(w) ==
    /\ at[w] = "pricing" /\ Current(w)[1] \notin dark
    /\ \A v \in Workers : ~Locks(v, Current(w))

(* It has a price. SELECT ... FOR UPDATE OF occurrence waits for whoever   *)
(* has the row and looks at what it is then; after that the run waits for  *)
(* the position.                                                           *)
Begin(w) ==
    /\ Waiting(w) /\ Postable(Current(w)) /\ Free
    /\ holder' = w
    /\ at' = [at EXCEPT ![w] = "posting"]
    /\ UNCHANGED <<day, trades, nextId, requests, events, tables, dark, today, seen, batch, notes>>

Gone(w) ==
    /\ Waiting(w) /\ ~Postable(Current(w))
    /\ Drop(w)
    /\ UNCHANGED <<day, ledger, requests, events, tables, dark, seen, notes>>

MutantRelease(w) == holder' = holder

Release(w) == holder' = IF holder = w THEN "none" ELSE holder

(* The purchase has the moment of its day, however late it is made. That   *)
(* an occurrence has at most one trade is a unique index too.              *)
Post(w) ==
    /\ at[w] = "posting"
    /\ LET x == Current(w) IN
         /\ \A t \in trades : t.of # x
         /\ \E q \in Quantities : trades' = trades \cup {Row(nextId, x[2], q, x)}
         /\ occ' = [occ EXCEPT ![x[1]][x[2]] = "posted"]
         /\ bought' = [bought EXCEPT ![x[1]][x[2]] = @ + 1]
    /\ nextId' = nextId + 1
    /\ Release(w) /\ Drop(w)
    /\ UNCHANGED <<day, requests, events, status, def, through, dark, seen, edited>>

(* A transaction of the run fails. Posting goes on with the next one, the  *)
(* other parts end the run.                                                *)
PostFails(w) ==
    /\ at[w] = "posting" /\ Event
    /\ Release(w) /\ Drop(w)
    /\ UNCHANGED <<day, trades, nextId, requests, tables, dark, seen, notes>>

Idle(w) ==
    /\ at' = [at EXCEPT ![w] = "idle"]
    /\ today' = [today EXCEPT ![w] = 0]
    /\ seen' = [seen EXCEPT ![w] = {}]
    /\ batch' = [batch EXCEPT ![w] = {}]
    /\ Release(w)

(* An error, the timeout of the run, or the replica stops.                 *)
Stop(w) ==
    /\ at[w] # "idle" /\ Event
    /\ Idle(w)
    /\ UNCHANGED <<day, trades, nextId, requests, tables, dark, notes>>

-------------------------------------------------------------------------------
Tick ==
    /\ day < MaxDay
    /\ day' = day + 1
    /\ UNCHANGED <<ledger, requests, events, tables, dark, runs, notes>>

PriceGoes(s) ==
    /\ s \notin dark /\ Event
    /\ dark' = dark \cup {s}
    /\ UNCHANGED <<day, ledger, requests, tables, runs, notes>>

PriceComes(s) ==
    /\ s \in dark
    /\ dark' = dark \ {s}
    /\ UNCHANGED <<day, ledger, requests, events, tables, runs, notes>>

Init ==
    /\ LedgerInit
    /\ status = [s \in Schedules |-> "none"]
    /\ def = [s \in Schedules |-> [start |-> 0, dates |-> {}]]
    /\ through = [s \in Schedules |-> Null]
    /\ occ = [s \in Schedules |-> [d \in Days |-> "none"]]
    /\ dark = {}
    /\ at = [w \in Workers |-> "idle"] /\ today = [w \in Workers |-> 0]
    /\ seen = [w \in Workers |-> {}] /\ batch = [w \in Workers |-> {}]
    /\ bought = [s \in Schedules |-> [d \in Days |-> 0]]
    /\ edited = {}

Run(w) ==
    \/ ListActive(w) \/ Store(w) \/ Mark(w)
    \/ ListDue(w) \/ NoQuote(w)
    \/ Begin(w) \/ Gone(w) \/ Post(w)

Next ==
    \/ UserStep /\ UNCHANGED <<tables, dark, runs, notes>>
    \/ \E w \in Workers : Run(w) \/ PostFails(w) \/ Stop(w)
    \/ \E s \in Schedules :
         \/ \E d \in Definitions : Create(s, d) \/ Edit(s, d)
         \/ \E new \in {"active", "paused", "archived"} : SetStatus(s, new)
         \/ PriceGoes(s) \/ PriceComes(s)
    \/ Tick

Spec == Init /\ [][Next]_vars

(* Runs come every minute, handlers go on, and an asset has a price again. *)
FairSpec ==
    /\ Spec
    /\ \A w \in Workers : WF_vars(Run(w))
    /\ \A c \in Clients : WF_vars(Handle(c) /\ UNCHANGED <<tables, dark, runs, notes>>)
    /\ \A s \in Schedules : WF_vars(PriceComes(s))

-------------------------------------------------------------------------------
(* Properties *)

TypeOK ==
    /\ LedgerTypeOK
    /\ holder \in Clients \cup Workers \cup {"none"}
    /\ status \in [Schedules -> {"none", "active", "paused", "archived"}]
    /\ through \in [Schedules -> Days \cup {Null}]
    /\ occ \in [Schedules -> [Days -> {"none", "planned", "posted"}]]
    /\ dark \subseteq Schedules /\ edited \subseteq Schedules
    /\ at \in [Workers -> {"idle", "storing", "marking", "pricing", "posting"}]
    /\ today \in [Workers -> Days]
    /\ \A w \in Workers :
         /\ batch[w] \subseteq Schedules \X Days
         /\ at[w] \in {"pricing", "posting"} <=> batch[w] # {}
         /\ at[w] = "posting" <=> holder = w
    /\ bought \in [Schedules -> [Days -> Nat]]

(* Each occurrence is bought once: by one of the replicas that priced it   *)
(* at the same time, and not again after the user deleted the trade.       *)
BoughtOnce ==
    \A s \in Schedules, d \in Days :
        bought[s][d] = IF occ[s][d] = "posted" THEN 1 ELSE 0

(* Behind the watermark every date of a schedule has its occurrence, so    *)
(* that none is passed over for good: runs that stop anywhere, that list   *)
(* at the same time or before midnight, and pauses make no hole. An edit   *)
(* that meets a run between its list and its mark may make one.            *)
NoDateLost ==
    \A s \in Schedules \ edited :
        \A d \in DatesOf(def[s]) : d <= through[s] => occ[s][d] # "none"

(* A date that has come is bought, the ones missed in a pause too, unless  *)
(* the schedule is paused, archived or edited: runs that fail, prices that *)
(* are missing for a while and a full batch only delay it.                 *)
DueIsBought ==
    \A s \in Schedules, d \in Days :
        (status[s] = "active" /\ s \notin edited /\ d \in DatesOf(def[s]) /\ d <= day)
          ~> (occ[s][d] = "posted" \/ status[s] # "active" \/ s \in edited)
===============================================================================
