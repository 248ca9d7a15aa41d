----------------------------- MODULE ResponseCache -----------------------------
(***************************************************************************)
(* The answers about a user's investments that all replicas keep in Redis: *)
(* a reader that finds none computes one from the database and stores it   *)
(* for a while; who changed a trade removes them after the commit. Redis   *)
(* may fail at any call, and nothing orders a store after a removal.       *)
(***************************************************************************)
EXTENDS Integers, FiniteSets

CONSTANTS
    Readers, Writers,   \* requests, on any replica
    Views,              \* the portfolio and the ranges of its history
    AnswerTTL,          \* investmentResponseCacheTTL, in ticks
    ComputeTime,        \* what computing an answer takes at most
    MaxWrites           \* bound: changes of the trades

(* What is cached is cached for some time, and there is something to cache.*)
ASSUME ResponseCacheAssumption ==
    /\ AnswerTTL \in Nat \ {0} /\ ComputeTime \in Nat /\ MaxWrites \in Nat
    /\ Views # {}

VARIABLES
    data,               \* how many changes are committed
    since,              \* ticks since each of them
    entry,              \* per view: the changes an answer knows, ticks it has left
    job,                \* what a reader does
    writer,             \* where a writer is
    excused             \* history: views whose removal failed or was overtaken

cacheVars == <<data, since, entry, job, writer, excused>>

Bound  == AnswerTTL + ComputeTime
Absent == [version |-> 0, left |-> 0]
Resting == [at |-> "idle", view |-> CHOOSE k \in Views : TRUE,
            version |-> 0, left |-> 0, overlap |-> FALSE]

-------------------------------------------------------------------------------
(* InvestmentPortfolio and InvestmentPortfolioHistory in a reader r *)

(* An answer that is there, or a Redis that fails, decides what follows.   *)
Load(r, k) ==
    /\ job[r].at = "idle"
    /\ job' = [job EXCEPT ![r] = [Resting EXCEPT !.at = "missed", !.view = k,
                                                 !.left = ComputeTime]]
    /\ UNCHANGED <<data, since, entry, writer, excused>>

(* The trades are read once, and prices for a while after that.            *)
Compute(r) ==
    /\ job[r].at = "missed"
    /\ job' = [job EXCEPT ![r].at = "computed", ![r].version = data]
    /\ UNCHANGED <<data, since, entry, writer, excused>>

Store(r) ==
    /\ job[r].at = "computed"
    /\ entry' = [entry EXCEPT ![job[r].view] =
                    [version |-> job[r].version, left |-> AnswerTTL]]
    /\ excused' = IF job[r].overlap THEN excused \cup {job[r].view}
                                    ELSE excused \ {job[r].view}
    /\ job' = [job EXCEPT ![r] = Resting]
    /\ UNCHANGED <<data, since, writer>>

(* An error of the computation or of Redis, or a replica that dies.        *)
StoreNothing(r) ==
    /\ job[r].at # "idle"
    /\ job' = [job EXCEPT ![r] = Resting]
    /\ UNCHANGED <<data, since, entry, writer, excused>>

-------------------------------------------------------------------------------
(* CreateInvestmentTrade, DeleteInvestmentTrade and the posting of a       *)
(* scheduled investment in a writer w                                      *)

CommitTrade(w) ==
    /\ writer[w] = "idle" /\ data < MaxWrites
    /\ data' = data + 1
    /\ since' = [since EXCEPT ![data + 1] = 0]
    /\ writer' = [writer EXCEPT ![w] = "committed"]
    /\ job' = [r \in Readers |-> [job[r] EXCEPT !.overlap = @ \/ job[r].at = "computed"]]
    /\ UNCHANGED <<entry, excused>>

MutantInvalidated == {CHOOSE k \in Views : TRUE}

(* InvalidateUser names the portfolio and the six ranges.                  *)
Invalidated == Views

Invalidate(w) ==
    /\ writer[w] = "committed"
    /\ entry' = [k \in Views |-> IF k \in Invalidated THEN Absent ELSE entry[k]]
    /\ excused' = {}
    /\ writer' = [writer EXCEPT ![w] = "idle"]
    /\ UNCHANGED <<data, since, job>>

(* Redis does not answer in time, or the replica dies: nobody repeats it.  *)
InvalidationFails(w) ==
    /\ writer[w] = "committed"
    /\ excused' = Views
    /\ writer' = [writer EXCEPT ![w] = "idle"]
    /\ UNCHANGED <<data, since, entry, job>>

-------------------------------------------------------------------------------
Less(n) == IF n = 0 THEN 0 ELSE n - 1

(* Every call a reader makes has a timeout.                                *)
CacheTick ==
    /\ \A r \in Readers : job[r].at # "idle" => job[r].left > 0
    /\ since' = [v \in DOMAIN since |->
         IF v <= data /\ since[v] <= Bound THEN since[v] + 1 ELSE since[v]]
    /\ entry' = [k \in Views |->
         IF entry[k].left <= 1 THEN Absent ELSE [entry[k] EXCEPT !.left = @ - 1]]
    /\ job' = [r \in Readers |-> [job[r] EXCEPT !.left = Less(@)]]
    /\ UNCHANGED <<data, writer, excused>>

CacheInit ==
    /\ data = 0 /\ since = [v \in 1 .. MaxWrites |-> 0]
    /\ entry = [k \in Views |-> Absent]
    /\ job = [r \in Readers |-> Resting]
    /\ writer = [w \in Writers |-> "idle"] /\ excused = {}

CacheNext ==
    \/ \E r \in Readers, k \in Views : Load(r, k)
    \/ \E r \in Readers : Compute(r) \/ Store(r) \/ StoreNothing(r)
    \/ \E w \in Writers : CommitTrade(w) \/ Invalidate(w) \/ InvalidationFails(w)
    \/ CacheTick

CacheSpec == CacheInit /\ [][CacheNext]_cacheVars

-------------------------------------------------------------------------------
(* Properties *)

(* An answer is served only with every change that was committed longer    *)
(* ago than an answer lives and takes to compute, whatever failed. It      *)
(* lacks a change whose writer has finished only if Redis failed then, or  *)
(* the answer was computed before and stored after it.                     *)
AnswersCatchUp ==
    \A k \in Views : entry[k].left > 0 =>
        /\ \A v \in 1 .. data : since[v] > Bound => entry[k].version >= v
        /\ \/ entry[k].version = data \/ k \in excused
           \/ \E w \in Writers : writer[w] = "committed"
===============================================================================
