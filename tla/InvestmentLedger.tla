--------------------------- MODULE InvestmentLedger ---------------------------
(***************************************************************************)
(* The trades of one position: what a user holds of an asset at a broker.  *)
(* Requests buy, sell and delete trades, in any order of their moments;    *)
(* each is one transaction under the advisory lock of the position, and a  *)
(* sale or a deletion is committed only if the holding is then at no       *)
(* moment negative. Other positions have locks of their own.               *)
(***************************************************************************)
EXTENDS Integers, FiniteSets, FiniteSetsExt

CONSTANTS
    Clients,        \* requests of the user that change trades, at work at once
    Quantities,     \* quantities a trade may have
    MaxDay,         \* bound: the last day
    MaxEvents       \* bound: requests of the user, errors and crashes

ASSUME LedgerAssumption ==
    /\ Quantities \subseteq Nat \ {0}
    /\ MaxDay \in Nat /\ MaxEvents \in Nat

VARIABLES
    day,            \* today
    trades,         \* rows of investment_trades
    nextId,         \* the sequence of their ids
    holder,         \* who has the advisory lock of the position
    step,           \* where a request is
    job,            \* the trade it adds, or deletes
    events          \* how many requests and faults there were

ledger   == <<trades, nextId, holder>>
requests == <<step, job>>

Days == 0 .. MaxDay

(* A buy adds to the holding, a sale takes from it. A trade made by a      *)
(* schedule has the occurrence it is of.                                   *)
Row(id, at, delta, of) == [id |-> id, at |-> at, delta |-> delta, of |-> of]
NoJob == Row(0, 0, 0, <<>>)

(* A request, an error, a lost connection or a crash.                      *)
Event == events < MaxEvents /\ events' = events + 1

-------------------------------------------------------------------------------
(* The window sum(delta) OVER (ORDER BY occurred_at, id) is never negative *)

UpTo(T, t) == {u \in T : u.at < t.at \/ (u.at = t.at /\ u.id <= t.id)}

Held(T) == MapThenSumSet(LAMBDA t : t.delta, T)

Valid(T) == \A t \in T : Held(UpTo(T, t)) >= 0

-------------------------------------------------------------------------------
(* The row a request writes has the next id; so the candidate of the check *)
(* has the last place of its moment, whether it is this id or the largest. *)
Adds(c) == job[c].id = 0

After(c) ==
    IF Adds(c) THEN trades \cup {[job[c] EXCEPT !.id = nextId]}
    ELSE trades \ {job[c]}

Ask(c, j) ==
    /\ step[c] = "idle" /\ Event
    /\ step' = [step EXCEPT ![c] = "waiting"]
    /\ job' = [job EXCEPT ![c] = j]
    /\ UNCHANGED <<day, ledger>>

(* A trade is never in the future, and its price is known by now.          *)
AskBuy(c, at, q) == at <= day /\ Ask(c, Row(0, at, q, <<>>))

(* A sale of more than the holding is refused early, without the lock.     *)
AskSell(c, at, q) ==
    /\ at <= day /\ Held(trades) >= q
    /\ Ask(c, Row(0, at, -q, <<>>))

(* The deletion reads the row before it has the lock.                      *)
AskDelete(c, t) == t \in trades /\ Ask(c, t)

MutantFree == TRUE

(* pg_advisory_xact_lock: whoever adds or deletes a trade waits for it.    *)
Free == holder = "none"

(* Buys are not checked: they can make no holding smaller.                 *)
Acceptable(c) ==
    IF Adds(c) THEN job[c].delta > 0 \/ Valid(After(c))
    ELSE job[c] \in trades /\ Valid(After(c))

(* pg_advisory_xact_lock, and the check with what is committed by then.    *)
Check(c) ==
    /\ step[c] = "waiting" /\ Free /\ Acceptable(c)
    /\ holder' = c
    /\ step' = [step EXCEPT ![c] = "checked"]
    /\ UNCHANGED <<day, trades, nextId, job, events>>

Over(c) ==
    /\ step' = [step EXCEPT ![c] = "idle"]
    /\ job' = [job EXCEPT ![c] = NoJob]
    /\ holder' = IF holder = c THEN "none" ELSE holder
    /\ UNCHANGED day

(* ErrConflict or ErrNotFound, and the rollback.                           *)
Refuse(c) ==
    /\ step[c] = "waiting" /\ Free /\ ~Acceptable(c)
    /\ Over(c)
    /\ UNCHANGED <<trades, nextId, events>>

Commit(c) ==
    /\ step[c] = "checked"
    /\ trades' = After(c)
    /\ nextId' = IF Adds(c) THEN nextId + 1 ELSE nextId
    /\ Over(c)
    /\ UNCHANGED events

(* The transaction is rolled back. (A commit whose answer is lost is one.) *)
Abort(c) ==
    /\ step[c] # "idle" /\ Event
    /\ Over(c)
    /\ UNCHANGED <<trades, nextId>>

Handle(c) == Check(c) \/ Refuse(c) \/ Commit(c)

UserStep ==
    \E c \in Clients :
        \/ Handle(c) \/ Abort(c)
        \/ \E t \in trades : AskDelete(c, t)
        \/ \E at \in Days, q \in Quantities : AskBuy(c, at, q) \/ AskSell(c, at, q)

LedgerInit ==
    /\ day = 0 /\ trades = {} /\ nextId = 1 /\ holder = "none"
    /\ step = [c \in Clients |-> "idle"] /\ job = [c \in Clients |-> NoJob]
    /\ events = 0

-------------------------------------------------------------------------------
(* Properties *)

LedgerTypeOK ==
    /\ day \in Days /\ nextId \in Nat \ {0}
    /\ IsFiniteSet(trades)
    /\ \A t \in trades : t.id \in 1 .. (nextId - 1) /\ t.at \in Days /\ t.delta # 0
    /\ \A t, u \in trades : t.id = u.id => t = u
    /\ step \in [Clients -> {"idle", "waiting", "checked"}]
    /\ \A c \in Clients : job[c].at \in Days /\ job[c].id \in 0 .. (nextId - 1)
    /\ events \in 0 .. MaxEvents

(* "This trade cannot be deleted because a later sale depends on it", and  *)
(* "sell amount cannot exceed the holding available at that time": however *)
(* sales, back-dated ones too, deletions and scheduled purchases overlap,  *)
(* at no moment has more been sold than was held.                          *)
NeverOversold == Valid(trades)
===============================================================================
