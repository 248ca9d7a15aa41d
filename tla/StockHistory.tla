------------------------------ MODULE StockHistory -----------------------------
(***************************************************************************)
(* The daily closes of one stock, kept in investment_market_history for    *)
(* the charts of all users: cachedStockDailyHistory reads what is stored,  *)
(* and when its beginning or its end seems to be missing it asks the       *)
(* provider, stores what comes and merges it. Requests run on any replica. *)
(***************************************************************************)
EXTENDS Integers, FiniteSetsExt

CONSTANTS
    Requests,           \* requests for a chart
    Firsts,             \* days of the first trade of users
    Ranges,             \* days a chart looks back; 0 is "max"
    Overlap,            \* 7: tolerance at the beginning, and overlap of a refresh
    StaleAfter,         \* 4
    Markets,            \* sets of days that may have a close
    LastDay             \* bound: the last day

ASSUME HistoryAssumption ==
    /\ Overlap \in Nat /\ StaleAfter \in Nat /\ LastDay \in Nat
    /\ Firsts \subseteq 0 .. LastDay /\ Ranges \subseteq Nat
    /\ Markets \subseteq SUBSET (0 .. LastDay)

VARIABLES
    today,
    market,             \* the days that have a close
    rows,               \* days in investment_market_history
    chart,              \* what a request has: the rows it read, then its answer
    skipped             \* history: days between the stored and a later backfill

historyVars == <<today, market, rows, chart, skipped>>

Days == 0 .. LastDay
NoChart == [at |-> "idle", since |-> 0, asked |-> 0, days |-> {}]

-------------------------------------------------------------------------------
(* The day before the first of the chart, so that it has a price.          *)
Since(first, range) ==
    (IF range = 0 THEN first ELSE Max({first, today - range})) - 1

MutantNeedsBackfill(cached, since) == cached = {}

NeedsBackfill(cached, since) == cached = {} \/ Min(cached) > since + Overlap

NeedsRefresh(cached) == cached = {} \/ Max(cached) < today - StaleAfter

(* ListInvestmentMarketHistory. A chart whose beginning and end are there  *)
(* is answered without the provider.                                       *)
List(r, first, range) ==
    LET since  == Since(first, range)
        cached == {d \in rows : d >= since}
    IN  /\ chart[r].at = "idle" /\ first <= today
        /\ chart' = [chart EXCEPT ![r] =
             [at |-> IF NeedsBackfill(cached, since) \/ NeedsRefresh(cached)
                     THEN "listed" ELSE "answered",
              since |-> since, asked |-> today, days |-> cached]]
        /\ UNCHANGED <<today, market, rows, skipped>>

FetchSince(c) ==
    IF NeedsBackfill(c.days, c.since) THEN c.since ELSE Max(c.days) - Overlap

(* MarketstackClient.DailyHistory: the closes of the pages, placeholders   *)
(* left out, each once; the close of today may not be there yet.           *)
Closes(from, published) == {d \in market : from <= d /\ d <= published}

(* UpsertInvestmentMarketHistory and mergeInvestmentHistory.               *)
Upsert(r, published) ==
    LET c       == chart[r]
        fetched == Closes(FetchSince(c), published)
    IN  /\ c.at = "listed" /\ fetched # {}
        /\ rows' = rows \cup fetched
        /\ skipped' = skipped \cup
             {d \in Days : rows # {} /\ d < FetchSince(c) /\ \A stored \in rows : stored < d}
        /\ chart' = [chart EXCEPT ![r].at = "answered",
                                  ![r].days = {d \in @ \cup fetched : d >= c.since}]
        /\ UNCHANGED <<today, market>>

(* The provider fails or has no close: what is stored must do.             *)
FetchFails(r) ==
    /\ chart[r].at = "listed"
    /\ chart' = [chart EXCEPT ![r].at = IF chart[r].days = {} THEN "failed" ELSE "degraded"]
    /\ UNCHANGED <<today, market, rows, skipped>>

UpsertFails(r) ==
    /\ chart[r].at = "listed"
    /\ chart' = [chart EXCEPT ![r].at = "failed", ![r].days = {}]
    /\ UNCHANGED <<today, market, rows, skipped>>

Return(r) ==
    /\ chart[r].at \in {"answered", "degraded", "failed"}
    /\ chart' = [chart EXCEPT ![r] = NoChart]
    /\ UNCHANGED <<today, market, rows, skipped>>

(* Requests take seconds: one may see one midnight.                        *)
HistoryTick ==
    /\ today < LastDay /\ \A r \in Requests : chart[r].at = "idle" \/ chart[r].asked = today
    /\ today' = today + 1
    /\ UNCHANGED <<market, rows, chart, skipped>>

HistoryInit ==
    /\ today = 0 /\ market \in Markets /\ rows = {}
    /\ chart = [r \in Requests |-> NoChart] /\ skipped = {}

HistoryNext ==
    \/ \E r \in Requests, first \in Firsts, range \in Ranges : List(r, first, range)
    \/ \E r \in Requests : \E published \in {today - 1, today} : Upsert(r, published)
    \/ \E r \in Requests : FetchFails(r) \/ UpsertFails(r) \/ Return(r)
    \/ HistoryTick

HistorySpec == HistoryInit /\ [][HistoryNext]_historyVars

-------------------------------------------------------------------------------
(* Properties *)

(* Whichever charts, of whichever users, filled the table, a chart that is *)
(* answered while the provider works lacks closes at most within the       *)
(* tolerances at its ends and on the days which a shorter chart passed     *)
(* over after nobody had asked for a while, and it has none that the       *)
(* market had not.                                                         *)
ChartComplete ==
    \A r \in Requests : chart[r].at = "answered" =>
        /\ chart[r].days \subseteq market
        /\ {d \in market : chart[r].since <= d /\ d < chart[r].asked} \ chart[r].days
             \subseteq (chart[r].since .. chart[r].since + Overlap - 1)
                       \cup (chart[r].asked - StaleAfter + 1 .. chart[r].asked) \cup skipped
===============================================================================
