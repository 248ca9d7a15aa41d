--------------------------- MODULE MarketDataProofs ---------------------------
(***************************************************************************)
(* Theorems about market data: requests to the provider (MarketRequests),  *)
(* the closes of a stock that are stored of what it answered               *)
(* (StockHistory), and what trades are worth by them, now and on the days  *)
(* of a chart (InvestmentPortfolio); for any number of calls, keys,        *)
(* requests, days and trades.                                              *)
(***************************************************************************)
EXTENDS StockHistory, MarketRequests, InvestmentPortfolio, WellFoundedInduction,
        FiniteSetTheorems, TLAPS

(***************************************************************************)
(* Charts are complete for any trades and ranges, any days on which the    *)
(* market is closed and any tolerances. The table is shared and filled by  *)
(* whatever charts were asked for, so the proof is about the table first:  *)
(* between two stored days nothing is missing but what was skipped         *)
(* (Continuous), because every fetch goes on to the present. A request     *)
(* works from rows it read before others stored theirs, so the same holds  *)
(* of what it has read (Listed).                                           *)
(***************************************************************************)

USE HistoryAssumption

(* What a request may have.                                                *)
Charts == [at : {"idle", "listed", "answered", "degraded", "failed"}, since : Int,
           asked : Days, days : SUBSET Days]

(* Every variable keeps its type, and only what the market had is stored.  *)
HistoryTypeOK ==
    /\ today \in Days /\ market \in SUBSET Days /\ skipped \in SUBSET Days
    /\ rows \in SUBSET market /\ \A d \in rows : d <= today
    /\ chart \in [Requests -> Charts]

(* d lies between two days of S.                                           *)
Within(d, S) == (\E a \in S : a <= d) /\ (\E b \in S : d <= b)

(* The table has no holes but those it was given up on.                    *)
Continuous == \A d \in market : Within(d, rows) => d \in rows \/ d \in skipped

(* Nor have the rows a request has read.                                   *)
Listed ==
    \A r \in Requests :
        /\ chart[r].at # "idle" => chart[r].asked <= today /\ today <= chart[r].asked + 1
        /\ chart[r].at = "listed" =>
             /\ chart[r].days \subseteq rows
             /\ \A d \in market : chart[r].since <= d /\ Within(d, chart[r].days) =>
                  d \in chart[r].days \/ d \in skipped

(* The inductive invariant.                                                *)
HInv == HistoryTypeOK /\ Continuous /\ Listed /\ ChartComplete

-------------------------------------------------------------------------------
(* Facts about the operators *)

(* The order of the numbers has no infinite descent.                       *)
Earlier == {p \in Nat \X Nat : p[1] < p[2]}

LEMMA EarlierIsWellFounded == IsWellFoundedOn(Earlier, Nat)
<1>1. Earlier \cap (Nat \X Nat) \subseteq OpToRel(<, Nat)
  BY Zenon DEF Earlier, OpToRel
<1> QED BY <1>1, NatLessThanWellFounded, IsWellFoundedOnSubrelation

(* Some days have a first.                                                 *)
LEMMA FirstDay ==
    ASSUME NEW T \in SUBSET Nat, T # {}
    PROVE  \E m \in T : \A n \in T : m <= n
<1>1. PICK m \in T : \A n \in T : ~ (<<n, m>> \in Earlier)
  BY EarlierIsWellFounded, WFMin
<1>2. ASSUME NEW n \in T PROVE m <= n
  <2>1. <<n, m>>[1] = n /\ <<n, m>>[2] = m /\ <<n, m>> \in Nat \X Nat
    OBVIOUS
  <2>2. ~ (n < m)
    BY <2>1, <1>1 DEF Earlier
  <2> QED BY <2>2
<1> QED BY <1>2

(* Min and Max of stored days are among them and bound them.               *)
LEMMA MinIs ==
    ASSUME NEW S \in SUBSET Days, S # {}
    PROVE  Min(S) \in S /\ \A d \in S : Min(S) <= d
<1>1. S \in SUBSET Nat
  BY DEF Days
<1>2. \E m \in S : \A d \in S : m <= d
  BY <1>1, FirstDay
<1> QED BY <1>2, Zenon DEF Min

LEMMA MaxIs ==
    ASSUME NEW S \in SUBSET Days, S # {}
    PROVE  Max(S) \in S /\ \A d \in S : d <= Max(S)
<1> DEFINE T == {LastDay - d : d \in S}
<1>0. \A d \in S : d \in Int /\ LastDay - d \in Nat
  BY DEF Days
<1>1. T \in SUBSET Nat /\ T # {}
  BY <1>0
<1>2. PICK m \in T : \A n \in T : m <= n
  BY <1>1, FirstDay
<1>3. PICK x \in S : m = LastDay - x
  OBVIOUS
<1>4. \A d \in S : x >= d
  <2>1. \A d \in S : LastDay - x <= LastDay - d
    BY <1>2, <1>3
  <2> QED BY <2>1, <1>0
<1>5. Max(S) \in S /\ \A d \in S : Max(S) >= d
  BY <1>3, <1>4, Zenon DEF Max
<1> QED BY <1>5, <1>0

(* A chart begins on some day, before the first that there is or not.      *)
LEMMA SinceIsDay ==
    ASSUME NEW first \in Firsts, NEW span \in Ranges, today \in Days
    PROVE  Since(first, span) \in Int
<1>1. first \in Int /\ span \in Int /\ today \in Int
  BY DEF Days
<1> DEFINE x == today - span
<1>2. x \in Int
  BY <1>1
<1> HIDE DEF x
<1>3. Max({first, x}) \in {first, x}
  <2>1. \E m \in {first, x} : \A n \in {first, x} : m >= n
    BY <1>1, <1>2
  <2> QED BY <2>1, Zenon DEF Max
<1>4. Max({first, x}) \in Int
  BY <1>1, <1>2, <1>3
<1>5. Since(first, span) = (IF span = 0 THEN first ELSE Max({first, x})) - 1
  BY DEF Since, x
<1> QED BY <1>1, <1>4, <1>5

(* Between days of a smaller set is between days of a larger one.          *)
LEMMA WithinMore ==
    ASSUME NEW S, NEW T, S \subseteq T, NEW d, Within(d, S)
    PROVE  Within(d, T)
BY DEF Within

(* Where a day lies that a set of days lacks.                              *)
LEMMA BeforeWithinAfter ==
    ASSUME NEW S \in SUBSET Days, S # {}, NEW d \in Days
    PROVE  d < Min(S) \/ d > Max(S) \/ Within(d, S)
<1>1. Min(S) \in S /\ Max(S) \in S
  BY MinIs, MaxIs
<1>2. \A x \in Days : x \in Int
  BY DEF Days
<1>3. Min(S) \in Int /\ Max(S) \in Int /\ d \in Int
  BY <1>1, <1>2
<1> QED BY <1>1, <1>3 DEF Within

(* What the types say of the numbers.                                      *)
LEMMA Numbers ==
    ASSUME HistoryTypeOK
    PROVE  /\ \A d \in Days : d \in Int /\ 0 <= d
           /\ today \in Int /\ Overlap \in Int /\ StaleAfter \in Int
           /\ rows \in SUBSET Days
           /\ \A r \in Requests :
                /\ chart[r] \in Charts /\ chart[r].since \in Int /\ chart[r].asked \in Int
                /\ chart[r].days \in SUBSET Days
<1>1. \A r \in Requests : chart[r] \in Charts
  BY DEF HistoryTypeOK
<1> QED BY <1>1 DEF HistoryTypeOK, Charts, Days

(* Where the fetch of a request begins.                                    *)
LEMMA FetchSinceIsDay ==
    ASSUME NEW c \in Charts
    PROVE  FetchSince(c) \in Int
<1>1. c.days \in SUBSET Days /\ c.since \in Int
  BY DEF Charts
<1>2. CASE c.days = {}
  BY <1>1, <1>2 DEF FetchSince, NeedsBackfill
<1>3. CASE c.days # {}
  <2>1. Max(c.days) \in Days
    BY <1>1, <1>3, MaxIs
  <2>2. Max(c.days) \in Int
    BY <2>1 DEF Days
  <2> QED BY <1>1, <2>2 DEF FetchSince
<1> QED BY <1>2, <1>3

-------------------------------------------------------------------------------
(* The steps keep the types *)

LEMMA TypeInit == HistoryInit => HistoryTypeOK
BY DEF HistoryInit, HistoryTypeOK, Charts, NoChart, Days

LEMMA TypeList ==
    ASSUME HistoryTypeOK, NEW r \in Requests, NEW first \in Firsts, NEW span \in Ranges,
           List(r, first, span)
    PROVE  HistoryTypeOK'
<1> DEFINE since == Since(first, span)
<1>1. since \in Int
  BY SinceIsDay DEF HistoryTypeOK
<1> DEFINE cached == {d \in rows : d >= since}
<1>2. cached \in SUBSET Days /\ today \in Days
  BY DEF HistoryTypeOK
<1> DEFINE spot == IF NeedsBackfill(cached, since) \/ NeedsRefresh(cached)
                    THEN "listed" ELSE "answered"
<1>3. spot \in {"listed", "answered"}
  OBVIOUS
<1>4. chart' = [chart EXCEPT ![r] = [at |-> spot, since |-> since, asked |-> today,
                                     days |-> cached]]
  BY DEF List
<1> HIDE DEF since, cached, spot
<1>5. [at |-> spot, since |-> since, asked |-> today, days |-> cached] \in Charts
  BY <1>1, <1>2, <1>3 DEF Charts
<1>6. chart' \in [Requests -> Charts]
  BY <1>4, <1>5 DEF HistoryTypeOK
<1> QED BY <1>6 DEF List, HistoryTypeOK

LEMMA TypeUpsert ==
    ASSUME HistoryTypeOK, NEW r \in Requests, NEW published \in {today - 1, today},
           Upsert(r, published)
    PROVE  HistoryTypeOK'
<1> DEFINE fetched == Closes(FetchSince(chart[r]), published)
<1>1. fetched \in SUBSET market /\ \A d \in fetched : d <= published
  BY DEF Closes
<1>2. \A d \in fetched : d <= today
  BY <1>1, Numbers DEF HistoryTypeOK
<1>3. rows' = rows \cup fetched /\ market' = market /\ today' = today
  BY DEF Upsert
<1>4. skipped' \in SUBSET Days
  BY DEF Upsert, HistoryTypeOK
<1> DEFINE kept == {d \in chart[r].days \cup fetched : d >= chart[r].since}
<1>5. kept \in SUBSET Days
  BY <1>1, Numbers DEF HistoryTypeOK
<1>6. chart' = [chart EXCEPT ![r].at = "answered", ![r].days = kept]
  BY DEF Upsert
<1> HIDE DEF fetched, kept
<1>7. chart' \in [Requests -> Charts]
  BY <1>5, <1>6 DEF HistoryTypeOK, Charts
<1> QED BY <1>1, <1>2, <1>3, <1>4, <1>7 DEF HistoryTypeOK

LEMMA TypeOthers ==
    ASSUME HistoryTypeOK,
           (\E r \in Requests : FetchFails(r) \/ UpsertFails(r) \/ Return(r))
             \/ HistoryTick \/ UNCHANGED historyVars
    PROVE  HistoryTypeOK'
<1>1. ASSUME NEW r \in Requests, FetchFails(r) PROVE HistoryTypeOK'
  <2>1. chart' \in [Requests -> Charts]
    BY <1>1 DEF FetchFails, HistoryTypeOK, Charts
  <2> QED BY <1>1, <2>1 DEF FetchFails, HistoryTypeOK
<1>2. ASSUME NEW r \in Requests, UpsertFails(r) PROVE HistoryTypeOK'
  <2>1. chart' \in [Requests -> Charts]
    BY <1>2 DEF UpsertFails, HistoryTypeOK, Charts
  <2> QED BY <1>2, <2>1 DEF UpsertFails, HistoryTypeOK
<1>3. ASSUME NEW r \in Requests, Return(r) PROVE HistoryTypeOK'
  <2>1. chart' \in [Requests -> Charts]
    BY <1>3 DEF Return, NoChart, HistoryTypeOK, Charts, Days
  <2> QED BY <1>3, <2>1 DEF Return, HistoryTypeOK
<1>4. CASE HistoryTick
  <2>1. today' \in Days /\ today <= today'
    BY <1>4 DEF HistoryTick, HistoryTypeOK, Days
  <2>2. \A d \in rows : d <= today'
    BY <2>1, Numbers DEF HistoryTypeOK, Days
  <2> QED BY <1>4, <2>1, <2>2 DEF HistoryTick, HistoryTypeOK
<1>5. CASE UNCHANGED historyVars
  BY <1>5 DEF historyVars, HistoryTypeOK
<1> QED BY <1>1, <1>2, <1>3, <1>4, <1>5

(* Every step keeps the types.                                             *)
LEMMA TypeStep == HistoryTypeOK /\ [HistoryNext]_historyVars => HistoryTypeOK'
BY TypeList, TypeUpsert, TypeOthers DEF HistoryNext

(* Charts and the stored days have their types in every state.             *)
THEOREM HistoryTyped == HistorySpec => []HistoryTypeOK
BY TypeInit, TypeStep, PTL DEF HistorySpec

-------------------------------------------------------------------------------
(* The steps keep the table continuous and the charts complete *)

LEMMA InvInit == HistoryInit => HInv
<1> SUFFICES ASSUME HistoryInit PROVE HInv
  OBVIOUS
<1>1. \A r \in Requests : chart[r].at = "idle"
  BY DEF HistoryInit, NoChart
<1>2. Continuous
  BY DEF HistoryInit, Continuous, Within
<1> QED BY <1>1, <1>2, TypeInit DEF HInv, Listed, ChartComplete

(* A request that lists the rows finds no holes between them; one that is  *)
(* answered from them lacks closes only before the first or after the last.*)
LEMMA InvList ==
    ASSUME HInv, NEW r \in Requests, NEW first \in Firsts, NEW span \in Ranges,
           List(r, first, span)
    PROVE  Continuous' /\ Listed' /\ ChartComplete'
<1> DEFINE since == Since(first, span)
           cached == {d \in rows : d >= since}
           spot == IF NeedsBackfill(cached, since) \/ NeedsRefresh(cached)
                    THEN "listed" ELSE "answered"
<1>1. since \in Int
  BY SinceIsDay DEF HInv, HistoryTypeOK
<1>2. chart' = [chart EXCEPT ![r] = [at |-> spot, since |-> since, asked |-> today,
                                     days |-> cached]]
  BY DEF List
<1>3. UNCHANGED <<today, market, rows, skipped>>
  BY DEF List
<1>4. chart'[r] = [at |-> spot, since |-> since, asked |-> today, days |-> cached]
      /\ \A q \in Requests : q # r => chart'[q] = chart[q]
  BY <1>2 DEF HInv, HistoryTypeOK
<1>5. cached \in SUBSET Days /\ cached \subseteq rows /\ cached \subseteq market
  BY DEF HInv, HistoryTypeOK
<1>6. \A d \in market : since <= d /\ Within(d, cached) => d \in cached \/ d \in skipped
  <2>1. SUFFICES ASSUME NEW d \in market, since <= d, Within(d, cached), d \notin skipped
                 PROVE  d \in cached
    OBVIOUS
  <2>2. Within(d, rows)
    BY <2>1, <1>5, WithinMore
  <2>3. d \in rows
    BY <2>1, <2>2 DEF HInv, Continuous
  <2>4. d \in Int
    BY Numbers DEF HInv, HistoryTypeOK
  <2> QED BY <2>1, <2>3, <2>4, <1>1
<1>7. ASSUME spot = "answered", NEW d \in market, since <= d, d < today, d \notin cached
      PROVE  d \in (since .. since + Overlap - 1) \cup (today - StaleAfter + 1 .. today)
                   \cup skipped
  <2>1. ~ NeedsBackfill(cached, since) /\ ~ NeedsRefresh(cached)
    BY <1>7
  <2>2. cached # {} /\ ~ (Min(cached) > since + Overlap)
        /\ ~ (Max(cached) < today - StaleAfter)
    BY <2>1, Zenon DEF NeedsBackfill, NeedsRefresh
  <2>3. d \in Days
    BY DEF HInv, HistoryTypeOK
  <2>4. d \in Int /\ today \in Int /\ Min(cached) \in Int /\ Max(cached) \in Int
        /\ Overlap \in Int /\ StaleAfter \in Int
    BY <2>2, <2>3, <1>5, MinIs, MaxIs, Numbers DEF HInv
  <2>5. d < Min(cached) \/ d > Max(cached) \/ Within(d, cached)
    BY <2>2, <2>3, <1>5, BeforeWithinAfter
  <2> HIDE DEF since, cached
  <2>6. CASE d < Min(cached)
    BY <2>2, <2>4, <2>6, <1>1, <1>7
  <2>7. CASE d > Max(cached)
    BY <2>2, <2>4, <2>7, <1>7
  <2>8. CASE Within(d, cached)
    BY <2>8, <1>6, <1>7
  <2> QED BY <2>5, <2>6, <2>7, <2>8
<1>8. today \in Int
  BY Numbers DEF HInv
<1> HIDE DEF since, cached, spot
<1>9. Continuous'
  BY <1>3 DEF HInv, Continuous, Within
<1>10. Listed'
  <2>1. ASSUME NEW q \in Requests, q # r
        PROVE  /\ chart'[q].at # "idle" =>
                    chart'[q].asked <= today' /\ today' <= chart'[q].asked + 1
               /\ chart'[q].at = "listed" =>
                    /\ chart'[q].days \subseteq rows'
                    /\ \A d \in market' :
                         chart'[q].since <= d /\ Within(d, chart'[q].days) =>
                           d \in chart'[q].days \/ d \in skipped'
    BY <2>1, <1>3, <1>4 DEF HInv, Listed
  <2>2. chart'[r].asked <= today' /\ today' <= chart'[r].asked + 1
    BY <1>3, <1>4, <1>8
  <2>3. /\ chart'[r].days \subseteq rows'
        /\ \A d \in market' : chart'[r].since <= d /\ Within(d, chart'[r].days) =>
             d \in chart'[r].days \/ d \in skipped'
    BY <1>3, <1>4, <1>5, <1>6
  <2> QED BY <2>1, <2>2, <2>3 DEF Listed
<1>11. ChartComplete'
  <2>1. ASSUME NEW q \in Requests, q # r, chart'[q].at = "answered"
        PROVE  /\ chart'[q].days \subseteq market'
               /\ {d \in market' : chart'[q].since <= d /\ d < chart'[q].asked} \ chart'[q].days
                    \subseteq (chart'[q].since .. chart'[q].since + Overlap - 1)
                       \cup (chart'[q].asked - StaleAfter + 1 .. chart'[q].asked) \cup skipped'
    BY <2>1, <1>3, <1>4 DEF HInv, ChartComplete
  <2>2. ASSUME chart'[r].at = "answered"
        PROVE  /\ chart'[r].days \subseteq market'
               /\ {d \in market' : chart'[r].since <= d /\ d < chart'[r].asked} \ chart'[r].days
                    \subseteq (chart'[r].since .. chart'[r].since + Overlap - 1)
                       \cup (chart'[r].asked - StaleAfter + 1 .. chart'[r].asked) \cup skipped'
    BY <2>2, <1>3, <1>4, <1>5, <1>7
  <2> QED BY <2>1, <2>2 DEF ChartComplete
<1> QED BY <1>9, <1>10, <1>11

(* A fetch goes on to the present, so what it stores joins what is there,  *)
(* or the days between are skipped. The chart then lacks closes only       *)
(* before the first it had read, when that is within the tolerance.        *)
LEMMA InvUpsert ==
    ASSUME HInv, NEW r \in Requests, NEW published \in {today - 1, today},
           Upsert(r, published)
    PROVE  Continuous' /\ Listed' /\ ChartComplete'
<1> DEFINE from == FetchSince(chart[r])
           fetched == Closes(from, published)
           days == {d \in chart[r].days \cup fetched : d >= chart[r].since}
<1>1. from \in Int /\ published \in Int /\ today \in Int /\ today - 1 <= published
  BY FetchSinceIsDay, Numbers DEF HInv
<1>2. \A d \in market : d \in Int /\ d \in Days
  BY Numbers DEF HInv, HistoryTypeOK
<1>3. /\ chart[r].at = "listed" /\ rows' = rows \cup fetched
      /\ today' = today /\ market' = market
      /\ skipped' = skipped \cup
           {d \in Days : rows # {} /\ d < from /\ \A stored \in rows : stored < d}
      /\ chart' = [chart EXCEPT ![r].at = "answered", ![r].days = days]
  BY DEF Upsert
<1>4. /\ chart'[r].at = "answered" /\ chart'[r].days = days
      /\ chart'[r].since = chart[r].since /\ chart'[r].asked = chart[r].asked
      /\ \A q \in Requests : q # r => chart'[q] = chart[q]
  BY <1>3 DEF HInv, HistoryTypeOK, Charts
<1>5. /\ fetched \subseteq market
      /\ \A d \in market : d \in fetched <=> from <= d /\ d <= published
  BY DEF Closes
<1>6. rows \subseteq market /\ \A d \in rows : d <= today /\ d \in Int
  BY <1>2 DEF HInv, HistoryTypeOK
<1>7. Continuous'
  <2>1. SUFFICES ASSUME NEW d \in market, Within(d, rows'), d \notin rows'
                 PROVE  d \in skipped'
    BY <1>3 DEF Continuous, Within
  <2>2. PICK a \in rows', b \in rows' : a <= d /\ d <= b
    BY <2>1 DEF Within
  <2>3. d \in Int /\ a \in Int /\ b \in Int /\ d \notin rows /\ d \notin fetched
    BY <2>1, <1>2, <1>3, <1>5, <1>6
  <2> HIDE DEF from, fetched, days
  <2>4. d <= published
    BY <2>2, <2>3, <2>1, <1>1, <1>2, <1>3, <1>5, <1>6
  <2>5. d < from
    BY <2>3, <2>4, <1>1, <1>5
  <2>6. a \in rows
    BY <2>2, <2>3, <2>5, <1>1, <1>3, <1>5
  <2>7. CASE \E stored \in rows : d <= stored
    <3>1. Within(d, rows)
      BY <2>2, <2>6, <2>7 DEF Within
    <3> QED BY <3>1, <2>3, <1>3 DEF HInv, Continuous
  <2>8. CASE \A stored \in rows : stored < d
    BY <2>5, <2>6, <2>8, <1>2, <1>3
  <2> QED BY <2>3, <2>7, <2>8, <1>6
<1>8. Listed'
  <2>1. rows \subseteq rows' /\ skipped \subseteq skipped'
    BY <1>3
  <2>2. chart'[r].asked <= today' /\ today' <= chart'[r].asked + 1
    BY <1>3, <1>4 DEF HInv, Listed
  <2>3. ASSUME NEW q \in Requests, q # r
        PROVE  /\ chart'[q].at # "idle" =>
                    chart'[q].asked <= today' /\ today' <= chart'[q].asked + 1
               /\ chart'[q].at = "listed" =>
                    /\ chart'[q].days \subseteq rows'
                    /\ \A d \in market' :
                         chart'[q].since <= d /\ Within(d, chart'[q].days) =>
                           d \in chart'[q].days \/ d \in skipped'
    <3>1. chart'[q] = chart[q]
      BY <2>3, <1>4
    <3> HIDE DEF from, fetched, days
    <3> QED BY <3>1, <2>1, <1>3 DEF HInv, Listed
  <2>4. chart'[r].at # "listed"
    BY <1>4
  <2> HIDE DEF from, fetched, days
  <2> QED BY <2>2, <2>3, <2>4 DEF Listed
<1>9. ASSUME NEW d \in market, chart[r].since <= d, d < chart[r].asked, d \notin days
      PROVE  d \in (chart[r].since .. chart[r].since + Overlap - 1) \cup skipped
  <2>1. /\ chart[r] \in Charts /\ chart[r].since \in Int /\ chart[r].asked \in Int
        /\ chart[r].days \in SUBSET Days /\ Overlap \in Int
    BY Numbers DEF HInv
  <2>2. d \in Int /\ d \in Days
    BY <1>2
  <2>3. d \notin chart[r].days /\ d \notin fetched
    BY <1>9, <2>1, <2>2
  <2>4. chart[r].asked <= today
    BY <1>3 DEF HInv, Listed
  <2> HIDE DEF fetched, days
  <2>5. d <= published
    BY <2>1, <2>2, <2>4, <1>1, <1>9
  <2>6. d < from
    BY <2>2, <2>3, <2>5, <1>1, <1>5
  <2>7. ~ NeedsBackfill(chart[r].days, chart[r].since)
    BY <2>1, <2>2, <2>6, <1>9 DEF FetchSince
  <2> HIDE DEF from
  <2>8. chart[r].days # {} /\ ~ (Min(chart[r].days) > chart[r].since + Overlap)
    BY <2>7, Zenon DEF NeedsBackfill
  <2>9. Min(chart[r].days) \in Int /\ Max(chart[r].days) \in Int
    BY <2>1, <2>8, MinIs, MaxIs, Numbers DEF HInv
  <2>10. from = Max(chart[r].days) - Overlap
    BY <2>7 DEF from, FetchSince
  <2>11. d < Max(chart[r].days)
    <3>1. Overlap >= 0
      OBVIOUS
    <3> QED BY <3>1, <2>1, <2>2, <2>6, <2>9, <2>10
  <2>12. d < Min(chart[r].days) \/ Within(d, chart[r].days)
    BY <2>1, <2>2, <2>8, <2>9, <2>11, BeforeWithinAfter
  <2>13. CASE d < Min(chart[r].days)
    BY <2>13, <2>1, <2>2, <2>8, <2>9, <1>9
  <2>14. CASE Within(d, chart[r].days)
    BY <2>14, <2>3, <1>3, <1>9 DEF HInv, Listed
  <2> QED BY <2>12, <2>13, <2>14
<1>10. ChartComplete'
  <2>1. skipped \subseteq skipped'
    BY <1>3
  <2>2. ASSUME NEW q \in Requests, q # r, chart'[q].at = "answered"
        PROVE  /\ chart'[q].days \subseteq market'
               /\ {d \in market' : chart'[q].since <= d /\ d < chart'[q].asked} \ chart'[q].days
                    \subseteq (chart'[q].since .. chart'[q].since + Overlap - 1)
                       \cup (chart'[q].asked - StaleAfter + 1 .. chart'[q].asked) \cup skipped'
    <3>1. chart'[q] = chart[q]
      BY <2>2, <1>4
    <3> HIDE DEF from, fetched, days
    <3> QED BY <3>1, <2>1, <2>2, <1>3 DEF HInv, ChartComplete
  <2>3. days \subseteq market
    <3>1. chart[r].days \subseteq rows
      BY <1>3 DEF HInv, Listed
    <3> QED BY <3>1, <1>5, <1>6
  <2> HIDE DEF from, fetched, days
  <2>4. /\ chart'[r].days \subseteq market'
        /\ {d \in market' : chart'[r].since <= d /\ d < chart'[r].asked} \ chart'[r].days
             \subseteq (chart'[r].since .. chart'[r].since + Overlap - 1)
                \cup (chart'[r].asked - StaleAfter + 1 .. chart'[r].asked) \cup skipped'
    BY <2>1, <2>3, <1>3, <1>4, <1>9
  <2> QED BY <2>2, <2>4 DEF ChartComplete
<1> QED BY <1>7, <1>8, <1>10

(* A request that fails or ends has no answer to be complete, and at       *)
(* midnight no request is from the day before.                             *)
LEMMA InvOthers ==
    ASSUME HInv,
           (\E r \in Requests : FetchFails(r) \/ UpsertFails(r) \/ Return(r))
             \/ HistoryTick \/ UNCHANGED historyVars
    PROVE  Continuous' /\ Listed' /\ ChartComplete'
<1>1. ASSUME NEW r \in Requests, FetchFails(r) \/ UpsertFails(r) \/ Return(r)
      PROVE  Continuous' /\ Listed' /\ ChartComplete'
  <2>1. UNCHANGED <<today, market, rows, skipped>>
    BY <1>1 DEF FetchFails, UpsertFails, Return
  <2>2. /\ chart'[r].at \notin {"listed", "answered"}
        /\ chart'[r].at # "idle" => chart[r].at # "idle" /\ chart'[r].asked = chart[r].asked
        /\ \A q \in Requests : q # r => chart'[q] = chart[q]
    BY <1>1 DEF FetchFails, UpsertFails, Return, NoChart, HInv, HistoryTypeOK, Charts
  <2>3. Continuous'
    BY <2>1 DEF HInv, Continuous, Within
  <2>4. Listed'
    <3>1. ASSUME NEW q \in Requests
          PROVE  /\ chart'[q].at # "idle" =>
                      chart'[q].asked <= today' /\ today' <= chart'[q].asked + 1
                 /\ chart'[q].at = "listed" =>
                      /\ chart'[q].days \subseteq rows'
                      /\ \A d \in market' :
                           chart'[q].since <= d /\ Within(d, chart'[q].days) =>
                             d \in chart'[q].days \/ d \in skipped'
      BY <2>1, <2>2 DEF HInv, Listed
    <3> QED BY <3>1 DEF Listed
  <2>5. ChartComplete'
    BY <2>1, <2>2 DEF HInv, ChartComplete
  <2> QED BY <2>3, <2>4, <2>5
<1>2. CASE HistoryTick
  <2>1. UNCHANGED <<market, rows, chart, skipped>> /\ today' = today + 1
        /\ \A r \in Requests : chart[r].at = "idle" \/ chart[r].asked = today
    BY <1>2 DEF HistoryTick
  <2>2. Continuous'
    BY <2>1 DEF HInv, Continuous, Within
  <2>3. Listed'
    BY <2>1, Numbers DEF HInv, Listed, Within
  <2>4. ChartComplete'
    BY <2>1 DEF HInv, ChartComplete
  <2> QED BY <2>2, <2>3, <2>4
<1>3. CASE UNCHANGED historyVars
  <2>1. UNCHANGED <<today, market, rows, skipped>> /\ chart' = chart
    BY <1>3 DEF historyVars
  <2>2. Continuous'
    BY <2>1 DEF HInv, Continuous, Within
  <2>3. Listed'
    BY <2>1 DEF HInv, Listed, Within
  <2>4. ChartComplete'
    BY <2>1 DEF HInv, ChartComplete
  <2> QED BY <2>2, <2>3, <2>4
<1> QED BY <1>1, <1>2, <1>3

(* Every step keeps the invariant.                                         *)
LEMMA InvStep == HInv /\ [HistoryNext]_historyVars => HInv'
<1> SUFFICES ASSUME HInv, [HistoryNext]_historyVars PROVE HInv'
  OBVIOUS
<1>1. HistoryTypeOK'
  BY TypeStep DEF HInv
<1>2. Continuous' /\ Listed' /\ ChartComplete'
  BY InvList, InvUpsert, InvOthers DEF HistoryNext
<1> QED BY <1>1, <1>2 DEF HInv

(* Whichever requests filled the table, in whatever order their fetches    *)
(* and upserts went, cachedStockDailyHistory answers a chart without holes *)
(* but at its tolerated ends and on the days that were skipped.            *)
THEOREM ChartsAreComplete == HistorySpec => []ChartComplete
<1>1. HInv => ChartComplete
  BY DEF HInv
<1> QED BY InvInit, InvStep, <1>1, PTL DEF HistorySpec

(***************************************************************************)
(* A request waits no longer than those before it that were admitted       *)
(* account for (NoSlotWasted): whoever is with the worker or further in    *)
(* front was there when it came (InLine), and a request is queued once and *)
(* until it is told (QueuedOnce), so that time passes for it only while    *)
(* the worker sits an interval out. Quotes are fresh since one call at a   *)
(* time fetches a key (OneFetch) and who has joined it is answered before  *)
(* time goes on (QuotesFresh).                                             *)
(***************************************************************************)

HIDE HistoryAssumption

(* Where a call may be.                                                    *)
Places ==
    {"idle", "joined", "starting", "waiting", "sending", "answered", "failed"}

(* The range of a clock.                                                   *)
UpTo(n) == 0 .. n

(* Every variable keeps its type.                                          *)
MarketTyped ==
    /\ place \in [Calls -> Places] /\ left \in [Calls -> UpTo(Timeout)]
    /\ starter \in [Calls -> Calls \cup {None}] /\ inflight \in [Keys -> Calls \cup {None}]
    /\ fresh \in [Keys -> UpTo(TTL)] /\ age \in [Calls \cup Keys -> UpTo(Old)]
    /\ queue \in Seq(Calls) /\ serving \in Calls \cup {None}
    /\ granted \in [Calls -> {None, "yes", "error"}]
    /\ paused \in UpTo(Interval)
    /\ ahead \in [Calls -> SUBSET Calls] /\ waited \in [Calls -> Nat]

(* c is in the channel of the limiter.                                     *)
Queued(c) == \E i \in 1 .. Len(queue) : queue[i] = c

(* A request is in the queue or with the worker, once, from when it is put *)
(* there until it is told.                                                 *)
QueuedOnce ==
    /\ \A i, j \in 1 .. Len(queue) : queue[i] = queue[j] => i = j
    /\ ~ Queued(serving)
    /\ \A c \in Calls :
         /\ place[c] \in {"idle", "joined", "starting"} =>
              ~ Queued(c) /\ serving # c /\ waited[c] = 0 /\ granted[c] = None
         /\ Queued(c) \/ serving = c => granted[c] = None
         /\ place[c] = "waiting" /\ granted[c] = None => Queued(c) \/ serving = c

(* Who is in front of a request that waits was there when it came.         *)
InFront(i) ==
    /\ serving # None => serving \in ahead[queue[i]]
    /\ \A j \in 1 .. i - 1 : queue[j] \in ahead[queue[i]]
InLine ==
    /\ \A i \in 1 .. Len(queue) : place[queue[i]] = "waiting" => InFront(i)
    /\ \A c \in Calls : IsFiniteSet(Admitted(c))

(* inflight names the one call that fetches a key.                         *)
OneFetch ==
    /\ \A k \in Keys : inflight[k] # None =>
         Fetches(inflight[k]) /\ KeyOf[inflight[k]] = k
    /\ \A c \in Calls : Fetches(c) => inflight[KeyOf[c]] = c

(* A cached quote is within the TTL; who has joined a fetch is joined to   *)
(* one that goes on or has ended just now.                                 *)
QuotesFresh ==
    /\ \A k \in Keys : fresh[k] > 0 => age[k] + fresh[k] <= TTL
    /\ \A c \in Calls : place[c] = "joined" =>
         /\ starter[c] \in Calls
         /\ \/ Fetches(starter[c]) \/ place[starter[c]] = "failed"
            \/ place[starter[c]] = "answered" /\ age[starter[c]] = 0

(* The inductive invariant.                                                *)
MarketInv == MarketTyped /\ QueuedOnce /\ InLine /\ NoSlotWasted /\ OneFetch /\ QuotesFresh

-------------------------------------------------------------------------------
(* Each step keeps the invariant *)

(* What is known of the constants.                                         *)
LEMMA MarketBounds ==
    /\ Timeout \in Nat /\ TTL \in Nat /\ Interval \in Nat /\ Old \in Nat
    /\ \A n \in Nat : 0 \in UpTo(n) /\ n \in UpTo(n)
    /\ \A c \in Calls : KeyOf[c] \in Keys /\ c # None /\ c \notin Keys
BY MarketAssumption DEF UpTo, Old, None

(* A tick counts within the bounds, a call brings what it is asked for.    *)
LEMMA MarketStaysTyped == ASSUME MarketInv, [MarketNext]_marketVars PROVE MarketTyped'
<1> USE MarketBounds DEF MarketInv
<1>1. ASSUME NEW c \in Calls, Hit(c) PROVE MarketTyped'
  BY <1>1 DEF Hit, Go, MarketTyped, Places, calls, cache, limiter, notes
<1>2. ASSUME NEW c \in Calls, Join(c) PROVE MarketTyped'
  BY <1>2 DEF Join, Enter, Go, MarketTyped, Places, calls, cache, limiter, notes
<1>3. ASSUME NEW c \in Calls, Start(c) PROVE MarketTyped'
  BY <1>3 DEF Start, Enter, Go, MarketTyped, Places, calls, cache, limiter, notes
<1>4. ASSUME NEW c \in Calls, Share(c) PROVE MarketTyped'
  <2>1. starter[c] \in Calls
    BY <1>4 DEF Share, QuotesFresh
  <2> QED BY <1>4, <2>1 DEF Share, End, Go, MarketTyped, Places, cache, limiter, notes
<1>5. ASSUME NEW c \in Calls, LeaveJoined(c) PROVE MarketTyped'
  BY <1>5 DEF LeaveJoined, End, Go, MarketTyped, Places, calls, cache, limiter, notes
<1>6. ASSUME NEW c \in Calls, Enqueue(c) PROVE MarketTyped'
  <2>1. {queue[i] : i \in DOMAIN queue} \cup ({serving} \ {None}) \in SUBSET Calls
    BY DEF MarketTyped
  <2> QED BY <1>6, <2>1 DEF Enqueue, Go, MarketTyped, Places, calls, cache, limiter, notes
<1>7. ASSUME NEW c \in Calls, TurnAway(c) PROVE MarketTyped'
  BY <1>7 DEF TurnAway, Fail, Forget, End, Go, MarketTyped, Places, calls, cache, limiter, notes
<1>8. ASSUME NEW c \in Calls, LeaveQueue(c) PROVE MarketTyped'
  BY <1>8 DEF LeaveQueue, Fail, Forget, End, Go, MarketTyped, Places, calls, cache, limiter, notes
<1>9. ASSUME NEW c \in Calls, Send(c) PROVE MarketTyped'
  BY <1>9 DEF Send, Go, MarketTyped, Places, calls, cache, limiter, notes
<1>10. ASSUME NEW c \in Calls, Answer(c) PROVE MarketTyped'
  BY <1>10 DEF Answer, Succeed, Forget, End, Go, MarketTyped, Places, calls, cache, limiter, notes
<1>11. ASSUME NEW c \in Calls, ProviderFails(c) PROVE MarketTyped'
  BY <1>11 DEF ProviderFails, Fail, Forget, End, Go, MarketTyped, Places, calls, cache, limiter,
     notes
<1>12. ASSUME NEW c \in Calls, Cancel(c) PROVE MarketTyped'
  BY <1>12 DEF Cancel, MarketTyped, Places, calls, cache, limiter, notes
<1>13. CASE Take
  BY <1>13 DEF Take, MarketTyped, Places, calls, cache, limiter, notes
<1>14. CASE Skip
  BY <1>14 DEF Skip, Told, Skipped, MarketTyped, Places, calls, cache, limiter, notes
<1>15. CASE Admit
  <2>1. 0 \in UpTo(Interval) /\ paused \in Nat
    BY DEF MarketTyped, UpTo
  <2> QED BY <1>15, <2>1 DEF Admit, Told, MarketTyped, calls, cache, notes
<1>16. CASE MarketTick
  <2>1. paused' \in UpTo(Interval)
    BY <1>16 DEF MarketTick, Capped, MarketTyped, UpTo
  <2>2. left' \in [Calls -> UpTo(Timeout)]
    BY SMTT(30), <1>16 DEF MarketTick, MarketTyped, UpTo
  <2>3. fresh' \in [Keys -> UpTo(TTL)]
    BY SMTT(30), <1>16 DEF MarketTick, MarketTyped, UpTo
  <2>4. age' \in [Calls \cup Keys -> UpTo(Old)]
    <3>1. \A n \in UpTo(Old) : Capped(n + 1, Old) \in UpTo(Old)
      BY DEF Capped, UpTo
    <3> QED BY <1>16, <3>1 DEF MarketTick, MarketTyped
  <2>5. waited' \in [Calls -> Nat] /\ ahead' \in [Calls -> SUBSET Calls]
    BY <1>16 DEF MarketTick, MarketTyped
  <2> QED BY <1>16, <2>1, <2>2, <2>3, <2>4, <2>5 DEF MarketTick, MarketTyped
<1>17. CASE UNCHANGED marketVars
  BY <1>17 DEF marketVars, MarketTyped, Places, calls, cache, limiter, notes
<1> QED BY <1>1, <1>2, <1>3, <1>4, <1>5, <1>6, <1>7, <1>8, <1>9, <1>10, <1>11, <1>12, <1>13, <1>14, <1>15, <1>16, <1>17 DEF MarketNext, Ask, Proceed, Worker

(* Only Enqueue puts a request into the queue, one that was in no queue    *)
(* before; who takes it out tells it.                                      *)
LEMMA QueuedStaysOnce == ASSUME MarketInv, [MarketNext]_marketVars PROVE QueuedOnce'
<1> USE MarketBounds DEF MarketInv
<1>1. ASSUME NEW c \in Calls, Hit(c) PROVE QueuedOnce'
  BY <1>1 DEF Hit, Go, MarketTyped, QueuedOnce, Queued, calls, cache, limiter, notes
<1>2. ASSUME NEW c \in Calls, Join(c) PROVE QueuedOnce'
  BY <1>2 DEF Join, Enter, Go, MarketTyped, QueuedOnce, Queued, calls, cache, limiter, notes
<1>3. ASSUME NEW c \in Calls, Start(c) PROVE QueuedOnce'
  BY <1>3 DEF Start, Enter, Go, MarketTyped, QueuedOnce, Queued, calls, cache, limiter, notes
<1>4. ASSUME NEW c \in Calls, Share(c) PROVE QueuedOnce'
  BY <1>4 DEF Share, End, Go, MarketTyped, QueuedOnce, Queued, calls, cache, limiter, notes
<1>5. ASSUME NEW c \in Calls, LeaveJoined(c) PROVE QueuedOnce'
  BY <1>5 DEF LeaveJoined, End, Go, MarketTyped, QueuedOnce, Queued, calls, cache, limiter, notes
<1>6. ASSUME NEW c \in Calls, Enqueue(c) PROVE QueuedOnce'
  <2>1. /\ Len(queue') = Len(queue) + 1 /\ Len(queue) \in Nat
        /\ queue'[Len(queue) + 1] = c /\ \A i \in 1 .. Len(queue) : queue'[i] = queue[i]
    BY <1>6 DEF Enqueue, MarketTyped
  <2>2. /\ serving' = serving /\ granted' = granted /\ waited' = waited
        /\ \A d \in Calls : d # c => place'[d] = place[d]
        /\ place[c] = "starting" /\ place'[c] = "waiting"
    BY <1>6 DEF Enqueue, Go, MarketTyped
  <2> QED BY <2>1, <2>2 DEF QueuedOnce, Queued
<1>7. ASSUME NEW c \in Calls, TurnAway(c) PROVE QueuedOnce'
  BY <1>7 DEF TurnAway, Fail, Forget, End, Go, MarketTyped, QueuedOnce, Queued, calls, cache,
     limiter, notes
<1>8. ASSUME NEW c \in Calls, LeaveQueue(c) PROVE QueuedOnce'
  BY <1>8 DEF LeaveQueue, Fail, Forget, End, Go, MarketTyped, QueuedOnce, Queued, calls, cache,
     limiter, notes
<1>9. ASSUME NEW c \in Calls, Send(c) PROVE QueuedOnce'
  BY <1>9 DEF Send, Go, MarketTyped, QueuedOnce, Queued, calls, cache, limiter, notes
<1>10. ASSUME NEW c \in Calls, Answer(c) PROVE QueuedOnce'
  BY SMTT(30), <1>10 DEF Answer, Succeed, Forget, End, Go, MarketTyped, QueuedOnce, Queued, calls, cache,
     limiter, notes
<1>11. ASSUME NEW c \in Calls, ProviderFails(c) PROVE QueuedOnce'
  BY <1>11 DEF ProviderFails, Fail, Forget, End, Go, MarketTyped, QueuedOnce, Queued, calls,
     cache, limiter, notes
<1>12. ASSUME NEW c \in Calls, Cancel(c) PROVE QueuedOnce'
  BY <1>12 DEF Cancel, MarketTyped, QueuedOnce, Queued, calls, cache, limiter, notes
<1>13. CASE Take
  <2>1. /\ Len(queue) \in Nat /\ Len(queue) >= 1 /\ queue[1] = serving' /\ serving = None
        /\ Len(queue') = Len(queue) - 1 /\ \A i \in 1 .. Len(queue') : queue'[i] = queue[i + 1]
    BY <1>13 DEF Take, MarketTyped
  <2>2. place' = place /\ granted' = granted /\ waited' = waited
    BY <1>13 DEF Take, calls, notes
  <2>3. \A c \in Calls : Queued(c) => Queued(c)' \/ serving' = c
    <3> SUFFICES ASSUME NEW c \in Calls, NEW i \in 1 .. Len(queue), queue[i] = c
                 PROVE  Queued(c)' \/ serving' = c
      BY DEF Queued
    <3>1. CASE i = 1
      BY <2>1, <3>1
    <3>2. CASE i # 1
      <4>1. i - 1 \in 1 .. Len(queue') /\ queue'[i - 1] = c
        BY <2>1, <3>2
      <4> QED BY <4>1 DEF Queued
    <3> QED BY <3>1, <3>2
  <2>4. \A x : Queued(x)' => Queued(x) /\ x # serving'
    BY <2>1 DEF Queued, QueuedOnce
  <2>5. \A i, j \in 1 .. Len(queue') : queue'[i] = queue'[j] => i = j
    BY <2>1 DEF QueuedOnce
  <2>6. Queued(serving')
    BY <2>1 DEF Queued
  <2> QED BY <2>1, <2>2, <2>3, <2>4, <2>5, <2>6 DEF QueuedOnce
<1>14. CASE Skip
  <2>1. /\ queue' = queue /\ serving' = None /\ serving \in Calls /\ place' = place
        /\ waited' = waited /\ granted'[serving] = "error"
        /\ \A c \in Calls : c # serving => granted'[c] = granted[c]
    BY <1>14 DEF Skip, Told, calls, notes, MarketTyped
  <2>2. ~ Queued(None)
    BY DEF Queued, MarketTyped
  <2> QED BY <2>1, <2>2 DEF QueuedOnce, Queued, None
<1>15. CASE Admit
  <2>1. /\ queue' = queue /\ serving' = None /\ serving \in Calls /\ place' = place
        /\ waited' = waited /\ granted'[serving] = "yes"
        /\ \A c \in Calls : c # serving => granted'[c] = granted[c]
    BY <1>15 DEF Admit, Told, calls, notes, MarketTyped
  <2>2. ~ Queued(None)
    BY DEF Queued, MarketTyped
  <2> QED BY <2>1, <2>2 DEF QueuedOnce, Queued, None
<1>16. CASE MarketTick
  BY <1>16 DEF MarketTick, Idle, Timer, Capped, Old, MarketTyped, QueuedOnce, Queued, calls,
     cache, limiter, notes
<1>17. CASE UNCHANGED marketVars
  BY <1>17 DEF marketVars, MarketTyped, QueuedOnce, Queued, calls, cache, limiter, notes
<1> QED BY <1>1, <1>2, <1>3, <1>4, <1>5, <1>6, <1>7, <1>8, <1>9, <1>10, <1>11, <1>12, <1>13, <1>14, <1>15, <1>16, <1>17 DEF MarketNext, Ask, Proceed, Worker

(* Steps that leave the queue and what is told alone.                      *)
LEMMA OthersStayInLine ==
    ASSUME MarketInv, \A c \in Calls : place'[c] = "waiting" => place[c] = "waiting",
           UNCHANGED <<queue, serving, granted, paused, notes>>
    PROVE  InLine' /\ NoSlotWasted'
<1>1. \A i \in 1 .. Len(queue) : queue[i] \in Calls
  BY DEF MarketInv, MarketTyped
<1>2. \A c \in Calls : Admitted(c)' = Admitted(c)
  BY DEF Admitted, notes
<1> QED BY <1>1, <1>2 DEF MarketInv, InLine, InFront, NoSlotWasted, notes

(* The calls that neither enter the queue nor leave the worker.            *)
LEMMA CallerSteps ==
    ASSUME MarketInv, NEW c \in Calls,
           \/ Ask(c) \/ Share(c) \/ LeaveJoined(c) \/ TurnAway(c) \/ LeaveQueue(c) \/ Send(c)
           \/ Answer(c) \/ ProviderFails(c) \/ Cancel(c)
    PROVE  InLine' /\ NoSlotWasted'
<1>1. UNCHANGED <<queue, serving, granted, paused, notes>>
  BY DEF Ask, Hit, Join, Start, Share, LeaveJoined, TurnAway, LeaveQueue, Send, Answer,
     ProviderFails, Cancel, limiter
<1>2. \A d \in Calls : place'[d] = "waiting" => place[d] = "waiting"
  <2>1. place \in [Calls -> Places]
    BY DEF MarketInv, MarketTyped
  <2> QED BY <2>1 DEF Ask, Hit, Join, Start, Share, LeaveJoined, TurnAway, LeaveQueue,
             Send, Answer, ProviderFails, Cancel, Enter, End, Go, Succeed, Fail
<1> QED BY <1>1, <1>2, OthersStayInLine

(* A request is put behind all there are, and nobody there is admitted.    *)
LEMMA EnqueueKeeps ==
    ASSUME MarketInv, NEW c \in Calls, Enqueue(c)
    PROVE  InLine' /\ NoSlotWasted'
<1> USE DEF MarketInv
<1> DEFINE there == {queue[i] : i \in DOMAIN queue} \cup ({serving} \ {None})
<1>1. /\ Len(queue') = Len(queue) + 1 /\ Len(queue) \in Nat
      /\ queue'[Len(queue) + 1] = c
      /\ \A i \in 1 .. Len(queue) : queue'[i] = queue[i] /\ queue[i] \in there
  BY DEF Enqueue, MarketTyped
<1>2. /\ UNCHANGED <<serving, granted, paused, waited>> /\ place[c] = "starting"
      /\ \A d \in Calls : d # c => place'[d] = place[d]
      /\ serving # None => serving \in there
  BY DEF Enqueue, Go, MarketTyped
<1>3. \A d \in there : granted[d] = None
  <2> SUFFICES ASSUME NEW d \in there PROVE granted[d] = None
    OBVIOUS
  <2>1. d \in Calls /\ (Queued(d) \/ serving = d)
    BY DEF Queued, MarketTyped
  <2> QED BY <2>1 DEF QueuedOnce
<1> HIDE DEF there
<1>4. ahead'[c] = there /\ \A d \in Calls : d # c => ahead'[d] = ahead[d]
  BY Zenon DEF Enqueue, MarketTyped, there
<1>5. \A i \in 1 .. Len(queue) : queue[i] \in Calls /\ queue[i] # c
  BY <1>2 DEF MarketTyped, QueuedOnce, Queued
<1>6. ASSUME NEW i \in 1 .. Len(queue'), place'[queue'[i]] = "waiting"
      PROVE  InFront(i)'
  <2>1. CASE i = Len(queue) + 1
    <3>1. 1 .. i - 1 = 1 .. Len(queue) /\ queue'[i] = c
      BY <1>1, <2>1
    <3> QED BY <1>1, <1>2, <1>4, <3>1 DEF InFront
  <2>2. CASE i # Len(queue) + 1
    <3>1. i \in 1 .. Len(queue) /\ \A j \in 1 .. i - 1 : j \in 1 .. Len(queue)
      BY <1>1, <2>2
    <3>2. InFront(i)
      BY <1>1, <1>2, <1>5, <1>6, <3>1 DEF InLine
    <3> QED BY <1>1, <1>2, <1>4, <1>5, <3>1, <3>2 DEF InFront
  <2> QED BY <2>1, <2>2
<1>7. Admitted(c)' = {} /\ \A d \in Calls : d # c => Admitted(d)' = Admitted(d)
  BY <1>2, <1>3, <1>4, MarketBounds DEF Admitted, None
<1>8. InLine'
  BY <1>6, <1>7, FS_EmptySet DEF InLine
<1>9. NoSlotWasted'
  <2>1. waited[c] = 0 /\ paused >= 0
    BY <1>2 DEF QueuedOnce, MarketTyped, UpTo
  <2>2. Cardinality({}) = 0 /\ Interval * 0 = 0
    BY FS_EmptySet, MarketBounds
  <2>3. waited[c] <= Interval * Cardinality(Admitted(c)') + paused
    BY <1>7, <2>1, <2>2, MarketBounds DEF MarketTyped, UpTo
  <2> QED BY <1>2, <1>7, <2>3 DEF NoSlotWasted
<1> QED BY <1>8, <1>9

(* The worker takes the first.                                             *)
LEMMA TakeKeeps ==
    ASSUME MarketInv, Take
    PROVE  InLine' /\ NoSlotWasted'
<1> USE DEF MarketInv
<1>1. /\ Len(queue) \in Nat /\ queue[1] = serving'
      /\ UNCHANGED <<place, granted, paused, ahead, waited>>
      /\ Len(queue') = Len(queue) - 1
      /\ \A i \in 1 .. Len(queue') : queue'[i] = queue[i + 1]
  BY DEF Take, MarketTyped, notes, calls
<1>2. \A c : Admitted(c)' = Admitted(c)
  BY <1>1 DEF Admitted
<1>3. ASSUME NEW i \in 1 .. Len(queue'), place[queue'[i]] = "waiting"
      PROVE  InFront(i)'
  <2>1. i + 1 \in 1 .. Len(queue) /\ queue'[i] = queue[i + 1] /\ 1 \in 1 .. i + 1 - 1
    BY <1>1
  <2>2. InFront(i + 1)
    BY <1>3, <2>1 DEF InLine
  <2>3. \A j \in 1 .. i - 1 : queue'[j] = queue[j + 1] /\ j + 1 \in 1 .. i + 1 - 1
    BY <1>1
  <2> QED BY <1>1, <2>1, <2>2, <2>3 DEF InFront
<1> QED BY <1>1, <1>2, <1>3 DEF InLine, NoSlotWasted

(* Who is skipped takes no slot.                                           *)
LEMMA SkipKeeps ==
    ASSUME MarketInv, Skip
    PROVE  InLine' /\ NoSlotWasted'
<1> USE DEF MarketInv
<1>1. /\ UNCHANGED <<place, queue, paused, ahead, waited>> /\ serving' = None
      /\ serving \in Calls
      /\ \A c \in Calls : granted'[c] = IF c = serving THEN "error" ELSE granted[c]
  BY DEF Skip, Told, Skipped, notes, calls, MarketTyped
<1>2. granted[serving] = None
  BY <1>1 DEF QueuedOnce
<1>3. \A c \in Calls : ahead[c] \subseteq Calls
  BY DEF MarketTyped
<1>4. \A c \in Calls : Admitted(c)' = Admitted(c)
  BY <1>1, <1>2, <1>3 DEF Admitted, None
<1>5. \A i : InFront(i) => InFront(i)'
  BY <1>1 DEF InFront
<1> QED BY <1>1, <1>4, <1>5 DEF InLine, NoSlotWasted, None

(* Who is admitted was before all that wait: they have waited for one slot *)
(* more and begin a new interval.                                          *)
LEMMA AdmitKeeps ==
    ASSUME MarketInv, Admit
    PROVE  InLine' /\ NoSlotWasted'
<1> USE DEF MarketInv
<1>1. /\ UNCHANGED <<place, queue, ahead, waited>> /\ serving' = None /\ paused' = 0
      /\ serving \in Calls /\ serving # None
      /\ \A c \in Calls : granted'[c] = IF c = serving THEN "yes" ELSE granted[c]
  BY DEF Admit, Told, notes, calls, MarketTyped
<1>2. granted[serving] = None
  BY <1>1 DEF QueuedOnce
<1>3. \A c \in Calls : ahead[c] \subseteq Calls /\ IsFiniteSet(Admitted(c))
  BY DEF MarketTyped, InLine
<1>4. \A c \in Calls : /\ serving \in ahead[c] => Admitted(c)' = Admitted(c) \cup {serving}
                       /\ serving \notin ahead[c] => Admitted(c)' = Admitted(c)
                       /\ serving \notin Admitted(c)
  BY <1>1, <1>2, <1>3 DEF Admitted, None
<1>5. InLine'
  <2>1. \A i : InFront(i) => InFront(i)'
    BY <1>1 DEF InFront
  <2>2. \A c \in Calls : IsFiniteSet(Admitted(c)')
    BY <1>3, <1>4, FS_AddElement
  <2> QED BY <1>1, <2>1, <2>2 DEF InLine
<1>6. NoSlotWasted'
  <2> SUFFICES ASSUME NEW c \in Calls, place[c] = "waiting", granted'[c] = None
               PROVE  waited[c] <= Interval * Cardinality(Admitted(c)') + 0
    BY <1>1 DEF NoSlotWasted
  <2>1. c # serving /\ granted[c] = None
    BY <1>1 DEF None
  <2>2. Queued(c)
    BY <2>1 DEF QueuedOnce
  <2>3. serving \in ahead[c]
    BY <1>1, <2>2 DEF Queued, InLine, InFront
  <2> DEFINE n == Cardinality(Admitted(c))
  <2>4. Cardinality(Admitted(c)') = n + 1 /\ n \in Nat
    BY <1>3, <1>4, <2>3, FS_AddElement, FS_CardinalityType
  <2>5. waited[c] <= Interval * n + paused /\ waited[c] \in Nat
    BY <2>1 DEF NoSlotWasted, MarketTyped
  <2>6. paused \in Nat /\ paused <= Interval /\ Interval \in Nat
    BY MarketBounds DEF MarketTyped, UpTo
  <2> HIDE DEF n
  <2>7. Interval * (n + 1) = Interval * n + Interval /\ Interval * n \in Nat
    BY <2>4, <2>6
  <2>8. waited[c] <= Interval * (n + 1) + 0
    BY <2>5, <2>6, <2>7
  <2> QED BY <2>4, <2>8
<1> QED BY <1>5, <1>6

(* Time passes for a request only while the worker sits an interval out.   *)
LEMMA TickKeeps ==
    ASSUME MarketInv, MarketTick
    PROVE  InLine' /\ NoSlotWasted'
<1> USE DEF MarketInv
<1>1. /\ UNCHANGED <<place, queue, serving, granted>>
      /\ \A c \in Calls :
           /\ place[c] = "waiting" /\ granted[c] = None => waited'[c] = waited[c] + 1
           /\ ahead'[c] = IF place[c] = "waiting" THEN ahead[c] ELSE {}
  BY DEF MarketTick
<1>2. \A c \in Calls : /\ place[c] = "waiting" => Admitted(c)' = Admitted(c)
                       /\ place[c] # "waiting" => Admitted(c)' = {}
  BY <1>1 DEF Admitted
<1>3. \A i \in 1 .. Len(queue) : queue[i] \in Calls
  BY DEF MarketTyped
<1>4. InLine'
  <2>1. \A c \in Calls : IsFiniteSet(Admitted(c)')
    BY <1>2, FS_EmptySet DEF InLine
  <2>2. \A i \in 1 .. Len(queue) : place[queue[i]] = "waiting" => InFront(i)'
    BY <1>1, <1>3 DEF InLine, InFront
  <2> QED BY <1>1, <2>1, <2>2 DEF InLine
<1>5. NoSlotWasted'
  <2> SUFFICES ASSUME NEW c \in Calls, place[c] = "waiting", granted[c] = None
               PROVE  waited'[c] <= Interval * Cardinality(Admitted(c)') + paused'
    BY <1>1 DEF NoSlotWasted
  <2>1. serving # None
    <3>1. Queued(c) \/ serving = c
      BY DEF QueuedOnce
    <3>2. queue # <<>> \/ serving = c
      BY <3>1 DEF Queued
    <3> QED BY <3>2, MarketBounds DEF MarketTick, Idle
  <2>2. ~ Timer
    BY <2>1 DEF MarketTick, Idle
  <2>3. paused' = paused + 1 /\ paused \in Nat
    BY <2>2, MarketBounds DEF MarketTick, Timer, Capped, MarketTyped, UpTo
  <2> DEFINE due == Interval * Cardinality(Admitted(c))
  <2>4. waited[c] <= due + paused /\ waited[c] \in Nat
    BY DEF NoSlotWasted, MarketTyped
  <2>5. due \in Nat
    <3>1. Cardinality(Admitted(c)) \in Nat
      BY FS_CardinalityType DEF InLine
    <3> QED BY <3>1, MarketBounds
  <2>6. waited'[c] = waited[c] + 1 /\ Admitted(c)' = Admitted(c)
    BY <1>1, <1>2
  <2> HIDE DEF due
  <2>7. waited'[c] <= due + paused'
    BY <2>3, <2>4, <2>5, <2>6
  <2> QED BY <2>6, <2>7 DEF due
<1> QED BY <1>4, <1>5

(* Each step keeps the order and wastes no slot.                           *)
LEMMA LineMoves == ASSUME MarketInv, [MarketNext]_marketVars PROVE InLine' /\ NoSlotWasted'
<1>1. CASE UNCHANGED marketVars
  BY <1>1, OthersStayInLine DEF marketVars, calls, limiter
<1> QED BY <1>1, CallerSteps, EnqueueKeeps, TakeKeeps, SkipKeeps, AdmitKeeps, TickKeeps
        DEF MarketNext, Proceed, Worker

(* A fetch begins with its entry and ends with the removal of the entry.   *)
LEMMA OneFetchStays == ASSUME MarketInv, [MarketNext]_marketVars PROVE OneFetch'
<1> USE MarketBounds DEF MarketInv
<1>1. ASSUME NEW c \in Calls, Hit(c) PROVE OneFetch'
  BY <1>1 DEF Hit, Go, MarketTyped, OneFetch, Fetches, calls, cache, limiter, notes
<1>2. ASSUME NEW c \in Calls, Join(c) PROVE OneFetch'
  BY <1>2 DEF Join, Enter, Go, MarketTyped, OneFetch, Fetches, calls, cache, limiter, notes
<1>3. ASSUME NEW c \in Calls, Start(c) PROVE OneFetch'
  BY <1>3 DEF Start, Enter, Go, MarketTyped, OneFetch, Fetches, calls, cache, limiter, notes
<1>4. ASSUME NEW c \in Calls, Share(c) PROVE OneFetch'
  BY SMTT(30), <1>4 DEF Share, End, Go, MarketTyped, OneFetch, Fetches, calls, cache, limiter, notes
<1>5. ASSUME NEW c \in Calls, LeaveJoined(c) PROVE OneFetch'
  BY <1>5 DEF LeaveJoined, End, Go, MarketTyped, OneFetch, Fetches, calls, cache, limiter, notes
<1>6. ASSUME NEW c \in Calls, Enqueue(c) PROVE OneFetch'
  BY <1>6 DEF Enqueue, Go, MarketTyped, OneFetch, Fetches, calls, cache, limiter, notes
<1>7. ASSUME NEW c \in Calls, TurnAway(c) PROVE OneFetch'
  BY SMTT(30), <1>7 DEF TurnAway, Fail, Forget, End, Go, MarketTyped, OneFetch, Fetches, calls, cache,
     limiter, notes
<1>8. ASSUME NEW c \in Calls, LeaveQueue(c) PROVE OneFetch'
  BY SMTT(30), <1>8 DEF LeaveQueue, Fail, Forget, End, Go, MarketTyped, OneFetch, Fetches, calls, cache,
     limiter, notes
<1>9. ASSUME NEW c \in Calls, Send(c) PROVE OneFetch'
  BY <1>9 DEF Send, Go, MarketTyped, OneFetch, Fetches, calls, cache, limiter, notes
<1>10. ASSUME NEW c \in Calls, Answer(c) PROVE OneFetch'
  BY <1>10 DEF Answer, Succeed, Forget, End, Go, MarketTyped, OneFetch, Fetches, calls, cache,
     limiter, notes
<1>11. ASSUME NEW c \in Calls, ProviderFails(c) PROVE OneFetch'
  BY SMTT(30), <1>11 DEF ProviderFails, Fail, Forget, End, Go, MarketTyped, OneFetch, Fetches, calls,
     cache, limiter, notes
<1>12. ASSUME NEW c \in Calls, Cancel(c) PROVE OneFetch'
  BY <1>12 DEF Cancel, MarketTyped, OneFetch, Fetches, calls, cache, limiter, notes
<1>13. CASE Take
  BY <1>13 DEF Take, MarketTyped, OneFetch, Fetches, calls, cache, limiter, notes
<1>14. CASE Skip
  BY <1>14 DEF Skip, Told, Skipped, MarketTyped, OneFetch, Fetches, calls, cache, limiter, notes
<1>15. CASE Admit
  BY <1>15 DEF Admit, Told, Timer, MarketTyped, OneFetch, Fetches, calls, cache, limiter, notes
<1>16. CASE MarketTick
  BY <1>16 DEF MarketTick, Idle, Timer, Capped, Old, MarketTyped, OneFetch, Fetches, calls,
     cache, limiter, notes
<1>17. CASE UNCHANGED marketVars
  BY <1>17 DEF marketVars, MarketTyped, OneFetch, Fetches, calls, cache, limiter, notes
<1> QED BY <1>1, <1>2, <1>3, <1>4, <1>5, <1>6, <1>7, <1>8, <1>9, <1>10, <1>11, <1>12, <1>13, <1>14, <1>15, <1>16, <1>17 DEF MarketNext, Ask, Proceed, Worker

(* Between the end of a fetch and the answer to those who joined it no     *)
(* tick passes, and nobody joins it any more.                              *)
LEMMA QuotesStayFresh == ASSUME MarketInv, [MarketNext]_marketVars PROVE QuotesFresh'
<1> USE MarketBounds DEF MarketInv
<1>1. ASSUME NEW c \in Calls, Hit(c) PROVE QuotesFresh'
  BY SMTT(30), <1>1 DEF Hit, Go, MarketTyped, OneFetch, QuotesFresh, Fetches, calls, cache, limiter, notes
<1>2. ASSUME NEW c \in Calls, Join(c) PROVE QuotesFresh'
  BY SMTT(30), <1>2 DEF Join, Enter, Go, MarketTyped, OneFetch, QuotesFresh, Fetches, calls, cache,
     limiter, notes
<1>3. ASSUME NEW c \in Calls, Start(c) PROVE QuotesFresh'
  BY <1>3 DEF Start, Enter, Go, MarketTyped, OneFetch, QuotesFresh, Fetches, calls, cache,
     limiter, notes
<1>4. ASSUME NEW c \in Calls, Share(c) PROVE QuotesFresh'
  BY <1>4 DEF Share, End, Go, MarketTyped, OneFetch, QuotesFresh, Fetches, calls, cache,
     limiter, notes
<1>5. ASSUME NEW c \in Calls, LeaveJoined(c) PROVE QuotesFresh'
  BY <1>5 DEF LeaveJoined, End, Go, MarketTyped, OneFetch, QuotesFresh, Fetches, calls, cache,
     limiter, notes
<1>6. ASSUME NEW c \in Calls, Enqueue(c) PROVE QuotesFresh'
  BY <1>6 DEF Enqueue, Go, MarketTyped, OneFetch, QuotesFresh, Fetches, calls, cache, limiter,
     notes
<1>7. ASSUME NEW c \in Calls, TurnAway(c) PROVE QuotesFresh'
  BY <1>7 DEF TurnAway, Fail, Forget, End, Go, MarketTyped, OneFetch, QuotesFresh, Fetches,
     calls, cache, limiter, notes
<1>8. ASSUME NEW c \in Calls, LeaveQueue(c) PROVE QuotesFresh'
  BY <1>8 DEF LeaveQueue, Fail, Forget, End, Go, MarketTyped, OneFetch, QuotesFresh, Fetches,
     calls, cache, limiter, notes
<1>9. ASSUME NEW c \in Calls, Send(c) PROVE QuotesFresh'
  BY <1>9 DEF Send, Go, MarketTyped, OneFetch, QuotesFresh, Fetches, calls, cache, limiter, notes
<1>10. ASSUME NEW c \in Calls, Answer(c) PROVE QuotesFresh'
  <2>1. /\ age'[c] = 0 /\ age'[KeyOf[c]] = 0 /\ fresh'[KeyOf[c]] = TTL
        /\ \A x \in Calls \cup Keys : x \notin {c, KeyOf[c]} => age'[x] = age[x]
        /\ \A k \in Keys : k # KeyOf[c] => fresh'[k] = fresh[k]
    BY <1>10 DEF Answer, Succeed, MarketTyped
  <2>2. /\ place'[c] = "answered" /\ place[c] = "sending" /\ starter' = starter
        /\ \A d \in Calls : d # c => place'[d] = place[d]
    BY <1>10 DEF Answer, Succeed, End, Go, MarketTyped
  <2>3. \A k \in Keys : fresh'[k] > 0 => age'[k] + fresh'[k] <= TTL
    BY <2>1 DEF QuotesFresh
  <2> QED BY <2>1, <2>2, <2>3 DEF QuotesFresh, Fetches
<1>11. ASSUME NEW c \in Calls, ProviderFails(c) PROVE QuotesFresh'
  BY <1>11 DEF ProviderFails, Fail, Forget, End, Go, MarketTyped, OneFetch, QuotesFresh,
     Fetches, calls, cache, limiter, notes
<1>12. ASSUME NEW c \in Calls, Cancel(c) PROVE QuotesFresh'
  BY <1>12 DEF Cancel, MarketTyped, OneFetch, QuotesFresh, Fetches, calls, cache, limiter, notes
<1>13. CASE Take
  BY <1>13 DEF Take, MarketTyped, OneFetch, QuotesFresh, Fetches, calls, cache, limiter, notes
<1>14. CASE Skip
  BY <1>14 DEF Skip, Told, Skipped, MarketTyped, OneFetch, QuotesFresh, Fetches, calls, cache,
     limiter, notes
<1>15. CASE Admit
  BY <1>15 DEF Admit, Told, Timer, MarketTyped, OneFetch, QuotesFresh, Fetches, calls, cache,
     limiter, notes
<1>16. CASE MarketTick
  <2>1. /\ fresh' = [k \in Keys |-> IF fresh[k] = 0 THEN 0 ELSE fresh[k] - 1]
        /\ \A k \in Keys : age'[k] = Capped(age[k] + 1, Old)
    BY <1>16 DEF MarketTick
  <2>2. \A k \in Keys : fresh'[k] > 0 => age'[k] + fresh'[k] <= TTL
    <3> SUFFICES ASSUME NEW k \in Keys, fresh'[k] > 0 PROVE age'[k] + fresh'[k] <= TTL
      OBVIOUS
    <3>1. fresh[k] \in Nat /\ age[k] \in Nat
      BY DEF MarketTyped, UpTo
    <3>2. fresh'[k] = fresh[k] - 1 /\ fresh[k] > 0
      BY <2>1, <3>1
    <3>3. age'[k] \in Nat /\ age'[k] <= age[k] + 1
      BY <2>1, <3>1 DEF Capped
    <3>4. age[k] + fresh[k] <= TTL
      BY <3>2 DEF QuotesFresh
    <3> QED BY <3>1, <3>2, <3>3, <3>4
  <2>3. \A c \in Calls : place[c] = "joined" => place[starter[c]] \notin {"answered", "failed"}
    BY <1>16 DEF MarketTick, Idle
  <2>4. place' = place /\ starter' = starter
    BY <1>16 DEF MarketTick
  <2> QED BY <2>2, <2>3, <2>4 DEF QuotesFresh, Fetches
<1>17. CASE UNCHANGED marketVars
  BY <1>17 DEF marketVars, MarketTyped, OneFetch, QuotesFresh, Fetches, calls, cache, limiter,
     notes
<1> QED BY <1>1, <1>2, <1>3, <1>4, <1>5, <1>6, <1>7, <1>8, <1>9, <1>10, <1>11, <1>12, <1>13, <1>14, <1>15, <1>16, <1>17 DEF MarketNext, Ask, Proceed, Worker

(* What a call gets or comes upon is fresh, by what is true before.        *)
LEMMA StepFindsFresh ==
    ASSUME MarketInv, [MarketNext]_marketVars
    PROVE  \A b \in Calls : FindsFresh(b)
<1> USE MarketBounds DEF MarketInv
<1>1. ASSUME NEW c \in Calls, Hit(c) PROVE \A b \in Calls : FindsFresh(b)
  <2>1. /\ place[c] = "idle" /\ place'[c] = "answered" /\ age'[c] = age[KeyOf[c]]
        /\ \A d \in Calls : d # c => place'[d] = place[d]
    BY <1>1 DEF Hit, Go, MarketTyped
  <2>2. age[KeyOf[c]] < TTL
    <3>1. fresh[KeyOf[c]] > 0 /\ fresh[KeyOf[c]] \in Nat /\ age[KeyOf[c]] \in Nat
      BY <1>1 DEF Hit, MarketTyped, UpTo
    <3> QED BY <3>1 DEF QuotesFresh
  <2> QED BY <2>1, <2>2 DEF FindsFresh
<1>2. ASSUME NEW c \in Calls, Join(c) PROVE \A b \in Calls : FindsFresh(b)
  BY <1>2 DEF Join, Enter, Go, MarketTyped, OneFetch, QuotesFresh, Fetches, FindsFresh, calls,
     cache, limiter, notes
<1>3. ASSUME NEW c \in Calls, Start(c) PROVE \A b \in Calls : FindsFresh(b)
  BY <1>3 DEF Start, Enter, Go, MarketTyped, OneFetch, QuotesFresh, Fetches, FindsFresh, calls,
     cache, limiter, notes
<1>4. ASSUME NEW c \in Calls, Share(c) PROVE \A b \in Calls : FindsFresh(b)
  <2>1. /\ place[c] = "joined" /\ age'[c] = age[starter[c]]
        /\ place'[c] = place[starter[c]] /\ place[starter[c]] \in {"answered", "failed"}
        /\ \A d \in Calls : d # c => place'[d] = place[d]
    BY <1>4 DEF Share, End, Go, MarketTyped
  <2>2. place'[c] = "answered" => age'[c] = 0
    BY <2>1 DEF QuotesFresh, Fetches
  <2>3. 0 <= Timeout - left[c]
    BY DEF MarketTyped, UpTo
  <2> QED BY <2>1, <2>2, <2>3 DEF FindsFresh
<1>5. ASSUME NEW c \in Calls, LeaveJoined(c) PROVE \A b \in Calls : FindsFresh(b)
  BY <1>5 DEF LeaveJoined, End, Go, MarketTyped, OneFetch, QuotesFresh, Fetches, FindsFresh,
     calls, cache, limiter, notes
<1>6. ASSUME NEW c \in Calls, Enqueue(c) PROVE \A b \in Calls : FindsFresh(b)
  BY <1>6 DEF Enqueue, Go, MarketTyped, OneFetch, QuotesFresh, Fetches, FindsFresh, calls,
     cache, limiter, notes
<1>7. ASSUME NEW c \in Calls, TurnAway(c) PROVE \A b \in Calls : FindsFresh(b)
  BY <1>7 DEF TurnAway, Fail, Forget, End, Go, MarketTyped, OneFetch, QuotesFresh, Fetches,
     FindsFresh, calls, cache, limiter, notes
<1>8. ASSUME NEW c \in Calls, LeaveQueue(c) PROVE \A b \in Calls : FindsFresh(b)
  BY <1>8 DEF LeaveQueue, Fail, Forget, End, Go, MarketTyped, OneFetch, QuotesFresh, Fetches,
     FindsFresh, calls, cache, limiter, notes
<1>9. ASSUME NEW c \in Calls, Send(c) PROVE \A b \in Calls : FindsFresh(b)
  BY <1>9 DEF Send, Go, MarketTyped, OneFetch, QuotesFresh, Fetches, FindsFresh, calls, cache,
     limiter, notes
<1>10. ASSUME NEW c \in Calls, Answer(c) PROVE \A b \in Calls : FindsFresh(b)
  <2>1. /\ place[c] = "sending" /\ age'[c] = 0
        /\ \A d \in Calls : d # c => place'[d] = place[d]
        /\ place'[c] = "answered"
    BY <1>10 DEF Answer, Succeed, End, Go, MarketTyped
  <2>2. 0 <= Timeout - left[c]
    BY DEF MarketTyped, UpTo
  <2> QED BY <2>1, <2>2 DEF FindsFresh
<1>11. ASSUME NEW c \in Calls, ProviderFails(c) PROVE \A b \in Calls : FindsFresh(b)
  BY <1>11 DEF ProviderFails, Fail, Forget, End, Go, MarketTyped, OneFetch, QuotesFresh,
     Fetches, FindsFresh, calls, cache, limiter, notes
<1>12. ASSUME NEW c \in Calls, Cancel(c) PROVE \A b \in Calls : FindsFresh(b)
  BY <1>12 DEF Cancel, MarketTyped, OneFetch, QuotesFresh, Fetches, FindsFresh, calls, cache,
     limiter, notes
<1>13. CASE Take
  BY <1>13 DEF Take, MarketTyped, OneFetch, QuotesFresh, Fetches, FindsFresh, calls, cache,
     limiter, notes
<1>14. CASE Skip
  BY <1>14 DEF Skip, Told, Skipped, MarketTyped, OneFetch, QuotesFresh, Fetches, FindsFresh,
     calls, cache, limiter, notes
<1>15. CASE Admit
  BY <1>15 DEF Admit, Told, Timer, MarketTyped, OneFetch, QuotesFresh, Fetches, FindsFresh,
     calls, cache, limiter, notes
<1>16. CASE MarketTick
  BY <1>16 DEF MarketTick, Idle, Timer, Capped, Old, MarketTyped, OneFetch, QuotesFresh,
     Fetches, FindsFresh, calls, cache, limiter, notes
<1>17. CASE UNCHANGED marketVars
  BY <1>17 DEF marketVars, MarketTyped, OneFetch, QuotesFresh, Fetches, FindsFresh, calls,
     cache, limiter, notes
<1> QED BY <1>1, <1>2, <1>3, <1>4, <1>5, <1>6, <1>7, <1>8, <1>9, <1>10, <1>11, <1>12, <1>13, <1>14, <1>15, <1>16, <1>17 DEF MarketNext, Ask, Proceed, Worker

(* The invariant holds in the beginning.                                   *)
LEMMA MarketInvStarts == MarketInit => MarketInv
<1> SUFFICES ASSUME MarketInit PROVE MarketInv
  OBVIOUS
<1> USE DEF MarketInit
<1>1. MarketTyped
  BY MarketBounds DEF MarketTyped, Places
<1>2. QueuedOnce
  BY MarketBounds DEF QueuedOnce, Queued
<1>3. InLine /\ NoSlotWasted
  <2>1. \A c \in Calls : Admitted(c) = {}
    BY DEF Admitted
  <2>2. Cardinality({}) = 0 /\ Interval * 0 = 0 /\ Len(queue) = 0
    BY FS_EmptySet, MarketBounds
  <2>3. InLine
    <3>1. \A c \in Calls : IsFiniteSet(Admitted(c))
      BY <2>1, FS_EmptySet
    <3>2. 1 .. Len(queue) = {}
      BY <2>2
    <3> QED BY <3>1, <3>2, Zenon DEF InLine
  <2>4. NoSlotWasted
    <3>1. \A c \in Calls : place[c] # "waiting"
      OBVIOUS
    <3> QED BY <3>1, Zenon DEF NoSlotWasted
  <2> QED BY <2>3, <2>4
<1>4. OneFetch /\ QuotesFresh
  BY MarketBounds DEF OneFetch, QuotesFresh, Fetches
<1> QED BY <1>1, <1>2, <1>3, <1>4 DEF MarketInv

(* And after every step.                                                   *)
LEMMA MarketInvStays == MarketInv /\ [MarketNext]_marketVars => MarketInv'
BY MarketStaysTyped, QueuedStaysOnce, LineMoves, OneFetchStays, QuotesStayFresh
DEF MarketInv

(* A request that waits has waited for an interval for each before it that *)
(* was admitted and for what has passed of the present one, whoever gives  *)
(* up before it.                                                           *)
THEOREM NoSlotIsWasted == MarketSpec => []NoSlotWasted
<1>1. MarketInv => NoSlotWasted
  BY DEF MarketInv
<1> QED BY <1>1, MarketInvStarts, MarketInvStays, PTL DEF MarketSpec

(* A quote is served within its time, a key is fetched by one call, and    *)
(* nobody joins a fetch that is over.                                      *)
THEOREM QuotesAreFresh == MarketSpec => ServedFresh
<1>1. MarketInv /\ [MarketNext]_marketVars => [\A c \in Calls : FindsFresh(c)]_marketVars
  BY StepFindsFresh
<1> QED BY <1>1, MarketInvStarts, MarketInvStays, PTL DEF MarketSpec, ServedFresh

-------------------------------------------------------------------------------
(***************************************************************************)
(* Portfolio and chart, for any trades, prices and ranges. Both loops over *)
(* the sorted trades are replays of sets: what is replayed of a set is the *)
(* last trade of it, applied to what is replayed of the others. From that  *)
(* follows by induction over the parts of the set that the quantity of a   *)
(* position is the sum of its trades, that the money of a replay is what   *)
(* was paid, and, as no sale ever is larger than its holding, that neither *)
(* loop ends with an error. The ledger of the chart is at each step what   *)
(* the portfolio's is for the trades the chart has come past.              *)
(***************************************************************************)

(* Among subsets of a finite set there is one of which no proper part is   *)
(* among them.                                                             *)
LEMMA Smallest ==
    ASSUME NEW S, IsFiniteSet(S), NEW B \in SUBSET SUBSET S, B # {}
    PROVE  \E b \in B : \A a \in B : a \subseteq b => a = b
<1>1. B \subseteq FiniteSubsetsOf(S)
  BY FS_Subset DEF FiniteSubsetsOf
<1>2. PICK b \in B : \A a \in B : ~ (<<a, b>> \in StrictSubsetOrdering(S))
  BY <1>1, FS_StrictSubsetOrderingWellFounded, WFMin
<1>3. ASSUME NEW a \in B, a \subseteq b, a # b PROVE FALSE
  BY <1>2, <1>3 DEF StrictSubsetOrdering
<1> QED BY <1>3

-------------------------------------------------------------------------------
(* Sums over finite sets *)

(* How a set is summed: one element after the other.                       *)
Pick(s) == CHOOSE x \in s : TRUE
Sums(g, f, S) == g = [s \in SUBSET S |-> IF s = {} THEN 0 ELSE f[Pick(s)] + g[s \ {Pick(s)}]]

(* The fold the model sums with is the function that sums the parts.       *)
LEMMA SumSums == ASSUME NEW f, NEW S PROVE Sum(f, S) = (CHOOSE g : Sums(g, f, S))[S]
  BY DEF Sum, MapThenSumSet, MapThenFoldSet, Sums, Pick

(* There is one such function.                                             *)
LEMMA SumsUnique ==
    ASSUME NEW f, NEW S, IsFiniteSet(S), NEW g, NEW h, Sums(g, f, S), Sums(h, f, S)
    PROVE  g = h
<1> DEFINE B == {s \in SUBSET S : g[s] # h[s]}
<1>1. SUFFICES B = {}
  BY DEF Sums
<1>2. SUFFICES ASSUME B # {} PROVE FALSE
  OBVIOUS
<1>3. PICK b \in B : \A a \in B : a \subseteq b => a = b
  <2>1. B \in SUBSET SUBSET S
    OBVIOUS
  <2> HIDE DEF B
  <2> QED BY <1>2, <2>1, Smallest
<1>4. b # {} /\ Pick(b) \in b
  BY <1>3 DEF Sums, Pick
<1>5. g[b \ {Pick(b)}] = h[b \ {Pick(b)}]
  BY <1>3, <1>4
<1>6. g[b] = h[b]
  BY <1>3, <1>4, <1>5 DEF Sums
<1> QED BY <1>3, <1>6

(* A part of a set is summed alike, alone or as a part.                    *)
LEMMA SumsOfPart ==
    ASSUME NEW f, NEW S, IsFiniteSet(S), NEW g, Sums(g, f, S), NEW r \in SUBSET S
    PROVE  Sum(f, r) = g[r]
<1> DEFINE h == [s \in SUBSET r |-> g[s]]
<1>1. Sums(h, f, r)
  BY DEF Sums
<1>2. IsFiniteSet(r)
  BY FS_Subset
<1>3. \A k : Sums(k, f, r) => k = h
  BY <1>1, <1>2, SumsUnique
<1>4. (CHOOSE k : Sums(k, f, r)) = h
  BY <1>1, <1>3
<1> QED BY <1>4, SumSums

(* There is such a function.                                               *)
LEMMA SumsExist ==
    ASSUME NEW f, NEW S, IsFiniteSet(S)
    PROVE  \E g : Sums(g, f, S)
<1> DEFINE B == {s \in SUBSET S : ~ \E g : Sums(g, f, s)}
<1>1. SUFFICES ASSUME B # {} PROVE FALSE
  OBVIOUS
<1>2. PICK b \in B : \A a \in B : a \subseteq b => a = b
  <2>1. B \in SUBSET SUBSET S
    OBVIOUS
  <2> HIDE DEF B
  <2> QED BY <1>1, <2>1, Smallest
<1> DEFINE G == [r \in SUBSET b |-> IF r = {} THEN 0 ELSE f[Pick(r)] + Sum(f, r \ {Pick(r)})]
<1>3. ASSUME NEW q \in SUBSET b, q # b PROVE G[q] = Sum(f, q)
  <2>1. PICK h : Sums(h, f, q)
    BY <1>2, <1>3
  <2>2. IsFiniteSet(q)
    BY <1>2, FS_Subset
  <2>3. Sum(f, q) = h[q]
    BY <2>1, <2>2, SumsOfPart
  <2>4. q # {} => Sum(f, q \ {Pick(q)}) = h[q \ {Pick(q)}]
    BY <2>1, <2>2, SumsOfPart
  <2>5. h[q] = IF q = {} THEN 0 ELSE f[Pick(q)] + h[q \ {Pick(q)}]
    BY <2>1 DEF Sums
  <2> QED BY <2>3, <2>4, <2>5
<1>4. \A r \in SUBSET b : r # {} => r \ {Pick(r)} # b /\ r \ {Pick(r)} \in SUBSET b
  BY DEF Pick
<1>5. Sums(G, f, b)
  <2>1. \A r \in SUBSET b : G[r] = IF r = {} THEN 0 ELSE f[Pick(r)] + G[r \ {Pick(r)}]
    BY <1>3, <1>4
  <2> QED BY <2>1 DEF Sums
<1> QED BY <1>2, <1>5

(* A sum is the element that is taken first and the sum of the others.     *)
LEMMA SumStep ==
    ASSUME NEW f, NEW S, IsFiniteSet(S)
    PROVE  Sum(f, S) = IF S = {} THEN 0 ELSE f[Pick(S)] + Sum(f, S \ {Pick(S)})
<1>1. PICK g : Sums(g, f, S)
  BY SumsExist
<1>2. \A r \in SUBSET S : Sum(f, r) = g[r]
  BY <1>1, SumsOfPart
<1>3. S \ {Pick(S)} \in SUBSET S
  OBVIOUS
<1> QED BY <1>1, <1>2, <1>3 DEF Sums

(* A sum of numbers is a number.                                           *)
LEMMA SumIsNumber ==
    ASSUME NEW f, NEW S, IsFiniteSet(S), \A s \in S : f[s] \in Int
    PROVE  Sum(f, S) \in Int
<1> DEFINE B == {s \in SUBSET S : Sum(f, s) \notin Int}
<1>1. SUFFICES ASSUME B # {} PROVE FALSE
  OBVIOUS
<1>2. PICK b \in B : \A a \in B : a \subseteq b => a = b
  <2>1. B \in SUBSET SUBSET S
    OBVIOUS
  <2> HIDE DEF B
  <2> QED BY <1>1, <2>1, Smallest
<1>3. Sum(f, b) = IF b = {} THEN 0 ELSE f[Pick(b)] + Sum(f, b \ {Pick(b)})
  BY <1>2, FS_Subset, SumStep
<1>4. b # {} => Pick(b) \in b
  BY DEF Pick
<1>5. b # {} => Sum(f, b \ {Pick(b)}) \in Int
  BY <1>2, <1>4
<1> QED BY <1>2, <1>3, <1>4, <1>5

(* A sum is any of its elements and the sum of the others.                 *)
LEMMA SumWithout ==
    ASSUME NEW f, NEW S, IsFiniteSet(S), \A s \in S : f[s] \in Int, NEW y \in S
    PROVE  Sum(f, S) = f[y] + Sum(f, S \ {y})
<1> DEFINE B == {s \in SUBSET S : \E z \in s : Sum(f, s) # f[z] + Sum(f, s \ {z})}
<1>1. SUFFICES ASSUME B # {} PROVE FALSE
  OBVIOUS
<1>2. PICK b \in B : \A a \in B : a \subseteq b => a = b
  <2>1. B \in SUBSET SUBSET S
    OBVIOUS
  <2> HIDE DEF B
  <2> QED BY <1>1, <2>1, Smallest
<1>3. PICK z \in b : Sum(f, b) # f[z] + Sum(f, b \ {z})
  BY <1>2
<1> DEFINE x == Pick(b)
<1>4. x \in b
  BY <1>3 DEF Pick
<1>5. IsFiniteSet(b)
  BY <1>2, FS_Subset
<1>6. Sum(f, b) = f[x] + Sum(f, b \ {x})
  BY <1>3, <1>5, SumStep
<1>7. x # z
  BY <1>3, <1>6
<1> HIDE DEF x
<1>8. \A u, v \in b : u # v => Sum(f, b \ {u}) = f[v] + Sum(f, (b \ {u}) \ {v})
  <2> SUFFICES ASSUME NEW u \in b, NEW v \in b, u # v
               PROVE  Sum(f, b \ {u}) = f[v] + Sum(f, (b \ {u}) \ {v})
    OBVIOUS
  <2>1. b \ {u} \in SUBSET S /\ b \ {u} \subseteq b /\ b \ {u} # b /\ v \in b \ {u}
    BY <1>2
  <2>2. b \ {u} \notin B
    BY <1>2, <2>1
  <2> QED BY <2>1, <2>2
<1>9. /\ Sum(f, b \ {x}) = f[z] + Sum(f, (b \ {x}) \ {z})
      /\ Sum(f, b \ {z}) = f[x] + Sum(f, (b \ {z}) \ {x})
  BY <1>3, <1>4, <1>7, <1>8
<1>10. (b \ {x}) \ {z} = (b \ {z}) \ {x}
  OBVIOUS
<1>11. Sum(f, (b \ {z}) \ {x}) \in Int
  <2>1. IsFiniteSet((b \ {z}) \ {x}) /\ \A s \in (b \ {z}) \ {x} : f[s] \in Int
    BY <1>2, <1>5, FS_Subset
  <2> QED BY <2>1, SumIsNumber
<1>12. f[x] \in Int /\ f[z] \in Int
  BY <1>2, <1>3, <1>4
<1>13. Sum(f, b) = f[z] + Sum(f, b \ {z})
  <2> DEFINE p == f[x]
             q == f[z]
             r == Sum(f, (b \ {z}) \ {x})
             hp == Sum(f, b \ {x})
             hq == Sum(f, b \ {z})
  <2>1. p \in Int /\ q \in Int /\ r \in Int
    BY <1>11, <1>12
  <2>2. Sum(f, b) = p + hp /\ hp = q + r /\ hq = p + r
    BY <1>6, <1>9, <1>10
  <2> HIDE DEF p, q, r, hp, hq
  <2>3. Sum(f, b) = q + hq
    BY <2>1, <2>2
  <2> QED BY <2>3 DEF q, hq
<1> QED BY <1>3, <1>13

(* Functions with the same values have the same sum.                       *)
LEMMA SumSame ==
    ASSUME NEW f, NEW g, NEW S, IsFiniteSet(S), \A s \in S : f[s] = g[s]
    PROVE  Sum(f, S) = Sum(g, S)
<1> DEFINE B == {s \in SUBSET S : Sum(f, s) # Sum(g, s)}
<1>1. SUFFICES ASSUME B # {} PROVE FALSE
  OBVIOUS
<1>2. PICK b \in B : \A a \in B : a \subseteq b => a = b
  <2>1. B \in SUBSET SUBSET S
    OBVIOUS
  <2> HIDE DEF B
  <2> QED BY <1>1, <2>1, Smallest
<1>3. /\ Sum(f, b) = IF b = {} THEN 0 ELSE f[Pick(b)] + Sum(f, b \ {Pick(b)})
      /\ Sum(g, b) = IF b = {} THEN 0 ELSE g[Pick(b)] + Sum(g, b \ {Pick(b)})
  BY <1>2, FS_Subset, SumStep
<1>4. b # {} => Pick(b) \in b
  BY DEF Pick
<1>5. b # {} => Sum(f, b \ {Pick(b)}) = Sum(g, b \ {Pick(b)}) /\ f[Pick(b)] = g[Pick(b)]
  BY <1>2, <1>4
<1> QED BY <1>2, <1>3, <1>5

(* A sum of two disjoint sets is the sum of both.                          *)
LEMMA SumOfBoth ==
    ASSUME NEW f, NEW S, IsFiniteSet(S), \A s \in S : f[s] \in Int, NEW T \in SUBSET S
    PROVE  Sum(f, S) = Sum(f, T) + Sum(f, S \ T)
<1> DEFINE B == {s \in SUBSET T : Sum(f, S) # Sum(f, s) + Sum(f, S \ s)}
<1>0. IsFiniteSet(T)
  BY FS_Subset
<1>1. SUFFICES ASSUME B # {} PROVE FALSE
  OBVIOUS
<1>2. PICK b \in B : \A a \in B : a \subseteq b => a = b
  <2>1. B \in SUBSET SUBSET T
    OBVIOUS
  <2> HIDE DEF B
  <2> QED BY <1>0, <1>1, <2>1, Smallest
<1>3. b # {}
  <2>1. Sum(f, {}) = 0
    BY FS_EmptySet, SumStep
  <2>2. Sum(f, S) \in Int /\ S \ {} = S
    BY SumIsNumber
  <2>3. b = {} => Sum(f, S) # Sum(f, {}) + Sum(f, S)
    BY <1>2, <2>2
  <2> QED BY <2>1, <2>2, <2>3
<1>4. PICK x \in b : TRUE
  BY <1>3
<1>5. Sum(f, S) = Sum(f, b \ {x}) + Sum(f, S \ (b \ {x}))
  BY <1>2, <1>4
<1>6. IsFiniteSet(b) /\ IsFiniteSet(b \ {x}) /\ IsFiniteSet(S \ (b \ {x})) /\ IsFiniteSet(S \ b)
  BY <1>2, FS_Subset
<1>7. Sum(f, b) = f[x] + Sum(f, b \ {x})
  BY <1>2, <1>4, <1>6, SumWithout
<1>8. Sum(f, S \ (b \ {x})) = f[x] + Sum(f, S \ b)
  <2>1. x \in S \ (b \ {x}) /\ (S \ (b \ {x})) \ {x} = S \ b
    BY <1>2, <1>4
  <2>2. \A s \in S \ (b \ {x}) : f[s] \in Int
    OBVIOUS
  <2> QED BY <1>6, <2>1, <2>2, SumWithout
<1>9. f[x] \in Int /\ Sum(f, b \ {x}) \in Int /\ Sum(f, S \ b) \in Int
  BY <1>2, <1>4, <1>6, SumIsNumber
<1> QED BY <1>2, <1>5, <1>7, <1>8, <1>9

(* Changing a function at one element changes its sum by as much.          *)
LEMMA SumChanged ==
    ASSUME NEW f, NEW g, NEW S, IsFiniteSet(S), NEW y \in S,
           \A s \in S : f[s] \in Int /\ g[s] \in Int,
           \A s \in S : s # y => f[s] = g[s]
    PROVE  Sum(g, S) = (Sum(f, S) - f[y]) + g[y]
<1>1. Sum(f, S) = f[y] + Sum(f, S \ {y}) /\ Sum(g, S) = g[y] + Sum(g, S \ {y})
  BY SumWithout
<1>2. IsFiniteSet(S \ {y})
  BY FS_Subset
<1>3. Sum(f, S \ {y}) = Sum(g, S \ {y}) /\ Sum(f, S \ {y}) \in Int
  BY <1>2, SumSame, SumIsNumber
<1>4. f[y] \in Int /\ g[y] \in Int
  OBVIOUS
<1> QED BY <1>1, <1>3, <1>4

-------------------------------------------------------------------------------
(* Trades in their order *)

(* Rows of the table: finitely many, each with an id of its own.           *)
Rows(S) ==
    /\ S \subseteq Trade /\ IsFiniteSet(S)
    /\ \A t, u \in S : t.id = u.id => t = u

(* What a row holds.                                                       *)
LEMMA RowIs ==
    ASSUME NEW t \in Trade
    PROVE  /\ t.id \in Nat /\ t.position \in Positions /\ t.side \in {"buy", "sell"}
           /\ t.quantity \in Nat \ {0} /\ t.day \in 1 .. Today /\ t.day \in Int
           /\ Signed(t) \in Int
<1>1. /\ t.id \in Nat /\ t.position \in Positions /\ t.side \in {"buy", "sell"}
      /\ t.quantity \in Quantities /\ t.day \in TradeDays
  BY DEF Trade
<1>2. t.quantity \in Nat \ {0} /\ t.day \in 1 .. Today /\ Today \in Nat
  BY <1>1, PortfolioAssumption
<1>3. t.day \in Int
  BY <1>2
<1>4. Signed(t) \in Int
  BY <1>2 DEF Signed
<1> QED BY <1>1, <1>2, <1>3, <1>4

(* A part of the rows are rows.                                            *)
LEMMA RowsOfPart == ASSUME NEW S, Rows(S), NEW T \in SUBSET S PROVE Rows(T)
BY FS_Subset DEF Rows

(* The order is total.                                                     *)
LEMMA OrderIs ==
    ASSUME NEW S, Rows(S)
    PROVE  /\ \A t \in S : ~ Before(t, t)
           /\ \A t, u \in S : t = u \/ Before(t, u) \/ Before(u, t)
           /\ \A t, u \in S : ~ (Before(t, u) /\ Before(u, t))
           /\ \A t, u, v \in S : Before(t, u) /\ Before(u, v) => Before(t, v)
<1>1. \A t \in S : t.id \in Int /\ t.day \in Int
  BY RowIs DEF Rows
<1>2. \A t \in S : ~ Before(t, t)
  BY <1>1 DEF Before
<1>3. \A t, u \in S : t = u \/ Before(t, u) \/ Before(u, t)
  BY <1>1 DEF Before, Rows
<1>4. \A t, u \in S : ~ (Before(t, u) /\ Before(u, t))
  BY <1>1 DEF Before
<1>5. \A t, u, v \in S : Before(t, u) /\ Before(u, v) => Before(t, v)
  BY <1>1 DEF Before
<1> QED BY <1>2, <1>3, <1>4, <1>5

(* Rows have a last one.                                                   *)
LEMMA LatestIs ==
    ASSUME NEW S, Rows(S), S # {}
    PROVE  Latest(S) \in S /\ \A u \in S \ {Latest(S)} : Before(u, Latest(S))
<1> DEFINE Has(s) == \E t \in s : \A u \in s \ {t} : Before(u, t)
           B == {s \in SUBSET S : s # {} /\ ~ Has(s)}
<1>1. SUFFICES B = {}
  <2>1. Has(S)
    BY <1>1
  <2> QED BY <2>1 DEF Latest
<1>2. SUFFICES ASSUME B # {} PROVE FALSE
  OBVIOUS
<1>3. PICK b \in B : \A a \in B : a \subseteq b => a = b
  <2>1. B \in SUBSET SUBSET S
    OBVIOUS
  <2>2. IsFiniteSet(S)
    BY DEF Rows
  <2> HIDE DEF B
  <2> QED BY <1>2, <2>1, <2>2, Smallest
<1>4. PICK x \in b : TRUE
  BY <1>3
<1>5. b \ {x} # {}
  BY <1>3, <1>4
<1>6. PICK y \in b \ {x} : \A u \in (b \ {x}) \ {y} : Before(u, y)
  <2>1. b \ {x} \in SUBSET S /\ b \ {x} \subseteq b /\ b \ {x} # b
    BY <1>3, <1>4
  <2>2. b \ {x} \notin B
    BY <1>3, <2>1
  <2>3. Has(b \ {x})
    BY <1>5, <2>1, <2>2
  <2> QED BY <2>3
<1>7. x \in S /\ y \in S /\ b \subseteq S
  BY <1>3, <1>4, <1>6
<1>8. CASE Before(x, y)
  BY <1>3, <1>4, <1>6, <1>8
<1>9. CASE Before(y, x)
  <2>1. \A u \in b \ {x} : Before(u, x)
    BY <1>6, <1>7, <1>9, OrderIs
  <2> QED BY <1>3, <1>4, <2>1
<1> QED BY <1>6, <1>7, <1>8, <1>9, OrderIs

(* Rows have a first one.                                                  *)
LEMMA EarliestIs ==
    ASSUME NEW S, Rows(S), S # {}
    PROVE  Earliest(S) \in S /\ \A u \in S \ {Earliest(S)} : Before(Earliest(S), u)
<1> DEFINE Has(s) == \E t \in s : \A u \in s \ {t} : Before(t, u)
           B == {s \in SUBSET S : s # {} /\ ~ Has(s)}
<1>1. SUFFICES B = {}
  <2>1. Has(S)
    BY <1>1
  <2> QED BY <2>1 DEF Earliest
<1>2. SUFFICES ASSUME B # {} PROVE FALSE
  OBVIOUS
<1>3. PICK b \in B : \A a \in B : a \subseteq b => a = b
  <2>1. B \in SUBSET SUBSET S
    OBVIOUS
  <2>2. IsFiniteSet(S)
    BY DEF Rows
  <2> HIDE DEF B
  <2> QED BY <1>2, <2>1, <2>2, Smallest
<1>4. PICK x \in b : TRUE
  BY <1>3
<1>5. b \ {x} # {}
  BY <1>3, <1>4
<1>6. PICK y \in b \ {x} : \A u \in (b \ {x}) \ {y} : Before(y, u)
  <2>1. b \ {x} \in SUBSET S /\ b \ {x} \subseteq b /\ b \ {x} # b
    BY <1>3, <1>4
  <2>2. b \ {x} \notin B
    BY <1>3, <2>1
  <2>3. Has(b \ {x})
    BY <1>5, <2>1, <2>2
  <2> QED BY <2>3
<1>7. x \in S /\ y \in S /\ b \subseteq S
  BY <1>3, <1>4, <1>6
<1>8. CASE Before(y, x)
  BY <1>3, <1>4, <1>6, <1>8
<1>9. CASE Before(x, y)
  <2>1. \A u \in b \ {x} : Before(x, u)
    BY <1>6, <1>7, <1>9, OrderIs
  <2> QED BY <1>3, <1>4, <2>1
<1> QED BY <1>6, <1>7, <1>8, <1>9, OrderIs

(* The last of some rows is known by what it is.                           *)
LEMMA LatestIsOne ==
    ASSUME NEW S, Rows(S), NEW t \in S, \A u \in S \ {t} : Before(u, t)
    PROVE  Latest(S) = t
<1>1. Latest(S) \in S /\ \A u \in S \ {Latest(S)} : Before(u, Latest(S))
  BY LatestIs
<1>2. Latest(S) # t => Before(t, Latest(S)) /\ Before(Latest(S), t)
  BY <1>1
<1> QED BY <1>1, <1>2, OrderIs

-------------------------------------------------------------------------------
(* Replays *)

(* How a ledger is made: one trade after the other.                        *)
Plays(g, S) == g = [s \in SUBSET S |-> IF s = {} THEN Empty ELSE Apply(Latest(s), g[s \ {Latest(s)}])]

(* The fold of the model is the function that replays the parts.           *)
LEMMA ReplayPlays == ASSUME NEW S PROVE Replay(S) = (CHOOSE g : Plays(g, S))[S]
  BY DEF Replay, MapThenFoldSet, Plays

(* There is one such function.                                             *)
LEMMA PlaysUnique ==
    ASSUME NEW S, Rows(S), NEW g, NEW h, Plays(g, S), Plays(h, S)
    PROVE  g = h
<1> DEFINE B == {s \in SUBSET S : g[s] # h[s]}
<1>1. SUFFICES B = {}
  BY DEF Plays
<1>2. SUFFICES ASSUME B # {} PROVE FALSE
  OBVIOUS
<1>3. PICK b \in B : \A a \in B : a \subseteq b => a = b
  <2>1. B \in SUBSET SUBSET S
    OBVIOUS
  <2>2. IsFiniteSet(S)
    BY DEF Rows
  <2> HIDE DEF B
  <2> QED BY <1>2, <2>1, <2>2, Smallest
<1>4. b # {} /\ Latest(b) \in b
  BY <1>3, RowsOfPart, LatestIs DEF Plays
<1>5. g[b \ {Latest(b)}] = h[b \ {Latest(b)}]
  BY <1>3, <1>4
<1>6. g[b] = h[b]
  BY <1>3, <1>4, <1>5 DEF Plays
<1> QED BY <1>3, <1>6

(* A part of the rows is replayed alike, alone or as a part.               *)
LEMMA PlaysOfPart ==
    ASSUME NEW S, Rows(S), NEW g, Plays(g, S), NEW r \in SUBSET S
    PROVE  Replay(r) = g[r]
<1> DEFINE h == [s \in SUBSET r |-> g[s]]
<1>1. Plays(h, r)
  <2>1. \A s \in SUBSET r : s # {} => s \ {Latest(s)} \in SUBSET r
    OBVIOUS
  <2> QED BY <2>1 DEF Plays
<1>2. Rows(r)
  BY RowsOfPart
<1>3. \A k : Plays(k, r) => k = h
  BY <1>1, <1>2, PlaysUnique
<1>4. (CHOOSE k : Plays(k, r)) = h
  BY <1>1, <1>3
<1> QED BY <1>4, ReplayPlays

(* There is such a function.                                               *)
LEMMA PlaysExist ==
    ASSUME NEW S, Rows(S)
    PROVE  \E g : Plays(g, S)
<1> DEFINE B == {s \in SUBSET S : ~ \E g : Plays(g, s)}
<1>1. SUFFICES ASSUME B # {} PROVE FALSE
  OBVIOUS
<1>2. PICK b \in B : \A a \in B : a \subseteq b => a = b
  <2>1. B \in SUBSET SUBSET S
    OBVIOUS
  <2>2. IsFiniteSet(S)
    BY DEF Rows
  <2> HIDE DEF B
  <2> QED BY <1>1, <2>1, <2>2, Smallest
<1> DEFINE G == [r \in SUBSET b |-> IF r = {} THEN Empty
                                    ELSE Apply(Latest(r), Replay(r \ {Latest(r)}))]
<1>3. ASSUME NEW q \in SUBSET b, q # b PROVE G[q] = Replay(q)
  <2>1. PICK h : Plays(h, q)
    BY <1>2, <1>3
  <2>2. Rows(q)
    BY <1>2, RowsOfPart
  <2>3. Replay(q) = h[q]
    BY <2>1, <2>2, PlaysOfPart
  <2>4. q # {} => Replay(q \ {Latest(q)}) = h[q \ {Latest(q)}]
    BY <2>1, <2>2, PlaysOfPart
  <2>5. h[q] = IF q = {} THEN Empty ELSE Apply(Latest(q), h[q \ {Latest(q)}])
    BY <2>1 DEF Plays
  <2> QED BY <2>3, <2>4, <2>5
<1>4. \A r \in SUBSET b : r # {} => r \ {Latest(r)} # b /\ r \ {Latest(r)} \in SUBSET b
  BY <1>2, RowsOfPart, LatestIs
<1>5. Plays(G, b)
  <2>1. \A r \in SUBSET b : G[r] = IF r = {} THEN Empty
                                   ELSE Apply(Latest(r), G[r \ {Latest(r)}])
    BY <1>3, <1>4
  <2> QED BY <2>1 DEF Plays
<1> QED BY <1>2, <1>5

(* What is replayed of rows is the last of them, applied to the others.    *)
LEMMA ReplayStep ==
    ASSUME NEW S, Rows(S)
    PROVE  Replay(S) = IF S = {} THEN Empty ELSE Apply(Latest(S), Replay(S \ {Latest(S)}))
<1>1. PICK g : Plays(g, S)
  BY PlaysExist
<1>2. \A r \in SUBSET S : Replay(r) = g[r]
  BY <1>1, PlaysOfPart
<1>3. S \ {Latest(S)} \in SUBSET S
  OBVIOUS
<1> QED BY <1>1, <1>2, <1>3 DEF Plays

-------------------------------------------------------------------------------
(* Quantities and money of a replay *)

Ledgers == [Positions -> [quantity : Nat, basis : Int, realized : Int]]

(* The cost removed by a sale is a number; by the last sale it is all.     *)
LEMMA Costs ==
    ASSUME NEW b \in Int, NEW q \in Nat \ {0}, NEW h \in Nat \ {0}
    PROVE  (b * q) \div h \in Int /\ (b * q) \div q = b
<1>1. b * q \in Int
  OBVIOUS
<1>2. \A a \in Int : a \div h \in Int
  OBVIOUS
<1>3. (b * q) \div q = b
  OBVIOUS
<1> QED BY <1>1, <1>2, <1>3

(* What a trade costs or brings.                                           *)
LEMMA PaidIs ==
    ASSUME NEW t \in Trade
    PROVE  Amount(t) \in Int /\ Fees \in Int /\ Paid(t) \in Int
<1>1. UnitPrice[t.day] \in Nat /\ t.quantity \in Nat /\ Fees \in Nat
  BY PortfolioAssumption DEF Trade
<1>2. Amount(t) \in Int
  BY <1>1 DEF Amount
<1> QED BY <1>1, <1>2 DEF Paid

(* A trade that fits changes the holding of its position by what it buys   *)
(* or sells, and what is invested less what is realized by what is paid.   *)
LEMMA ApplyIs ==
    ASSUME NEW t \in Trade, NEW l \in Ledgers
    PROVE  /\ Apply(t, l) \in Ledgers
           /\ \A p \in Positions : p # t.position => Apply(t, l)[p] = l[p]
           /\ ~ Oversells(l, t) =>
                LET old == l[t.position]
                    new == Apply(t, l)[t.position]
                IN  /\ new.quantity = old.quantity + Signed(t)
                    /\ new.basis - new.realized = (old.basis - old.realized) + Paid(t)
<1> DEFINE old == l[t.position]
           cost == CostRemoved(old, t)
           new == Apply(t, l)[t.position]
<1>1. /\ t.position \in Positions /\ t.side \in {"buy", "sell"} /\ t.quantity \in Nat \ {0}
      /\ Amount(t) \in Int /\ Fees \in Int
  BY RowIs, PaidIs
<1>2. /\ old \in [quantity : Nat, basis : Int, realized : Int]
      /\ old.quantity \in Nat /\ old.basis \in Int /\ old.realized \in Int
  BY <1>1 DEF Ledgers
<1>3. CASE Oversells(l, t)
  BY <1>3 DEF Apply
<1>4. CASE t.side = "buy"
  <2>1. ~ Oversells(l, t)
    BY <1>4 DEF Oversells
  <2> DEFINE e == [quantity |-> old.quantity + t.quantity, basis |-> old.basis + (Amount(t) + Fees),
                   realized |-> old.realized]
  <2>2. Apply(t, l) = [l EXCEPT ![t.position] = e]
    BY <1>4, <2>1 DEF Apply
  <2>3. /\ e \in [quantity : Nat, basis : Int, realized : Int]
        /\ e.quantity = old.quantity + t.quantity
        /\ e.basis = old.basis + (Amount(t) + Fees) /\ e.realized = old.realized
    <3>1. /\ old.quantity + t.quantity \in Nat
          /\ old.basis + (Amount(t) + Fees) \in Int
      BY <1>1, <1>2
    <3> HIDE DEF old
    <3> QED BY <1>2, <3>1
  <2>4. Signed(t) = t.quantity /\ Paid(t) = Amount(t) + Fees
    BY <1>4 DEF Signed, Paid
  <2> HIDE DEF e, old
  <2>5. /\ Apply(t, l) \in Ledgers /\ Apply(t, l)[t.position] = e
        /\ \A p \in Positions : p # t.position => Apply(t, l)[p] = l[p]
    BY <1>1, <2>2, <2>3 DEF Ledgers
  <2>6. e.basis - e.realized = (old.basis - old.realized) + Paid(t)
    <3> DEFINE a == Amount(t)  f == Fees  b == old.basis  r == old.realized
    <3>1. a \in Int /\ f \in Int /\ b \in Int /\ r \in Int
      BY <1>1, <1>2
    <3>2. e.basis = b + (a + f) /\ e.realized = r /\ Paid(t) = a + f
      BY <2>3, <2>4
    <3> HIDE DEF a, f, b, r
    <3>3. (b + (a + f)) - r = (b - r) + (a + f)
      BY <3>1
    <3> QED BY <3>2, <3>3 DEF b, r
  <2> QED BY <2>3, <2>4, <2>5, <2>6 DEF old
<1>5. CASE t.side = "sell" /\ ~ Oversells(l, t)
  <2>1. old.quantity \in Nat \ {0} /\ old.quantity - t.quantity \in Nat
    BY <1>1, <1>2, <1>5 DEF Oversells
  <2>2. cost \in Int /\ (old.quantity = t.quantity => cost = old.basis)
    BY <1>1, <1>2, <2>1, Costs DEF CostRemoved
  <2> DEFINE e == [quantity |-> old.quantity - t.quantity,
                   basis    |-> IF old.quantity = t.quantity THEN 0 ELSE old.basis - cost,
                   realized |-> old.realized + ((Amount(t) - Fees) - cost)]
  <2>3. Apply(t, l) = [l EXCEPT ![t.position] = e]
    BY <1>5 DEF Apply
  <2> HIDE DEF cost
  <2>4. /\ e \in [quantity : Nat, basis : Int, realized : Int]
        /\ e.quantity = old.quantity - t.quantity
        /\ e.basis = old.basis - cost
        /\ e.realized = old.realized + ((Amount(t) - Fees) - cost)
    BY <1>1, <1>2, <2>1, <2>2
  <2>5. Signed(t) = -t.quantity /\ Paid(t) = Fees - Amount(t)
    BY <1>5 DEF Signed, Paid
  <2> HIDE DEF e, old
  <2>6. /\ Apply(t, l) \in Ledgers /\ Apply(t, l)[t.position] = e
        /\ \A p \in Positions : p # t.position => Apply(t, l)[p] = l[p]
    BY <1>1, <2>3, <2>4 DEF Ledgers
  <2>7. e.basis - e.realized = (old.basis - old.realized) + Paid(t)
    <3> DEFINE a == Amount(t)  f == Fees  b == old.basis  r == old.realized
    <3>1. a \in Int /\ f \in Int /\ b \in Int /\ r \in Int /\ cost \in Int
      BY <1>1, <1>2, <2>2
    <3>2. e.basis = b - cost /\ e.realized = r + ((a - f) - cost) /\ Paid(t) = f - a
      BY <2>4, <2>5
    <3> HIDE DEF a, f, b, r
    <3>3. (b - cost) - (r + ((a - f) - cost)) = (b - r) + (f - a)
      BY <3>1
    <3> QED BY <3>2, <3>3 DEF b, r
  <2>8. old.quantity - t.quantity = old.quantity + (-t.quantity)
    BY <1>1, <1>2
  <2> QED BY <2>4, <2>5, <2>6, <2>7, <2>8 DEF old
<1> QED BY <1>1, <1>3, <1>4, <1>5

(* A replay is a ledger without negative quantities.                       *)
LEMMA ReplayTyped == ASSUME NEW S, Rows(S) PROVE Replay(S) \in Ledgers
<1> DEFINE B == {s \in SUBSET S : Replay(s) \notin Ledgers}
<1>1. SUFFICES ASSUME B # {} PROVE FALSE
  OBVIOUS
<1>2. PICK b \in B : \A a \in B : a \subseteq b => a = b
  <2>1. B \in SUBSET SUBSET S
    OBVIOUS
  <2>2. IsFiniteSet(S)
    BY DEF Rows
  <2> HIDE DEF B
  <2> QED BY <1>1, <2>1, <2>2, Smallest
<1>3. Rows(b)
  BY <1>2, RowsOfPart
<1>4. Empty \in Ledgers
  BY DEF Empty, Ledgers
<1>5. b # {} /\ Latest(b) \in b
  BY <1>2, <1>3, <1>4, ReplayStep, LatestIs
<1>6. Replay(b) = Apply(Latest(b), Replay(b \ {Latest(b)}))
  BY <1>3, <1>5, ReplayStep
<1>7. Replay(b \ {Latest(b)}) \in Ledgers
  BY <1>2, <1>5
<1>8. Latest(b) \in Trade
  BY <1>3, <1>5 DEF Rows
<1> QED BY <1>2, <1>6, <1>7, <1>8, ApplyIs

(* What is bought less what is sold, with one trade more.                  *)
LEMMA NetIs ==
    ASSUME NEW S, Rows(S)
    PROVE  /\ Net(S) \in Int
           /\ \A t \in S : Net(S) = Net(S \ {t}) + Signed(t)
<1> DEFINE f == [t \in S |-> Signed(t)]
<1>1. IsFiniteSet(S) /\ \A t \in S : f[t] = Signed(t) /\ f[t] \in Int
  BY RowIs DEF Rows
<1> HIDE DEF f
<1>2. Net(S) = Sum(f, S)
  BY DEF Net, f
<1>3. Net(S) \in Int
  BY <1>1, <1>2, SumIsNumber
<1>4. ASSUME NEW t \in S PROVE Net(S) = Net(S \ {t}) + Signed(t)
  <2> DEFINE g == [u \in S \ {t} |-> Signed(u)]
  <2>1. \A u \in S \ {t} : f[u] = g[u]
    BY <1>1
  <2>2. IsFiniteSet(S \ {t})
    BY <1>1, FS_Subset
  <2> HIDE DEF g
  <2>3. Sum(f, S \ {t}) = Sum(g, S \ {t})
    BY <2>1, <2>2, SumSame
  <2>4. Sum(g, S \ {t}) = Net(S \ {t})
    BY DEF Net, g
  <2>5. Sum(f, S) = f[t] + Sum(f, S \ {t}) /\ Sum(f, S \ {t}) \in Int
    BY <1>1, <2>2, SumWithout, SumIsNumber
  <2> QED BY <1>1, <1>2, <2>3, <2>4, <2>5
<1> QED BY <1>3, <1>4

(* What is held of a position, with one trade more.                        *)
LEMMA HeldIs ==
    ASSUME NEW S, Rows(S), NEW p
    PROVE  /\ Net(Of(S, p)) \in Int
           /\ \A t \in S : Net(Of(S, p)) = IF t.position = p THEN Net(Of(S \ {t}, p)) + Signed(t)
                                           ELSE Net(Of(S \ {t}, p))
<1>1. Rows(Of(S, p))
  BY RowsOfPart DEF Of
<1>2. \A t \in S : Of(S \ {t}, p) = IF t.position = p THEN Of(S, p) \ {t} ELSE Of(S, p)
  BY DEF Of
<1>3. \A t \in S : t.position = p => t \in Of(S, p)
  BY DEF Of
<1> QED BY <1>1, <1>2, <1>3, NetIs

(* No sale of any position is larger than what is held then.               *)
AllSound(S) == \A p \in Positions : Sound(Of(S, p))

(* What begins like sound rows is sound.                                   *)
LEMMA SoundBefore ==
    ASSUME NEW S, Rows(S), AllSound(S), NEW D \in SUBSET S,
           \A t \in D, u \in S : Before(u, t) => u \in D
    PROVE  AllSound(D)
<1> SUFFICES ASSUME NEW p \in Positions, NEW t \in Of(D, p)
             PROVE  Net(Prior(Of(D, p), t) \cup {t}) >= 0
  BY DEF AllSound, Sound
<1>1. t \in Of(S, p) /\ Prior(Of(D, p), t) = Prior(Of(S, p), t)
  BY DEF Of, Prior
<1> QED BY <1>1 DEF AllSound, Sound

(* Sound rows without the last are sound; with it, no less than nothing is *)
(* held.                                                                   *)
LEMMA SoundWithoutLatest ==
    ASSUME NEW S, Rows(S), AllSound(S), S # {}
    PROVE  AllSound(S \ {Latest(S)}) /\ Net(Of(S, Latest(S).position)) >= 0
<1> DEFINE t == Latest(S)
<1>1. t \in S /\ \A u \in S \ {t} : Before(u, t)
  BY LatestIs
<1> HIDE DEF t
<1>2. \A u \in S \ {t}, v \in S : Before(v, u) => v \in S \ {t}
  BY <1>1, OrderIs
<1>3. AllSound(S \ {t})
  BY <1>2, SoundBefore
<1>4. Of(S, t.position) = Prior(Of(S, t.position), t) \cup {t}
  BY <1>1 DEF Of, Prior
<1>5. t \in Of(S, t.position) /\ t.position \in Positions
  BY <1>1, RowIs DEF Of, Rows
<1>6. Net(Of(S, t.position)) >= 0
  BY <1>4, <1>5 DEF AllSound, Sound
<1> QED BY <1>3, <1>6 DEF t

(* In a replay of sound rows each quantity is what its trades sum up to.   *)
LEMMA QuantityIsNet ==
    ASSUME NEW S, Rows(S), AllSound(S)
    PROVE  /\ \A p \in Positions : Replay(S)[p].quantity = Net(Of(S, p))
           /\ S # {} => ~ Oversells(Replay(S \ {Latest(S)}), Latest(S))
<1> DEFINE Good(s) == \A p \in Positions : Replay(s)[p].quantity = Net(Of(s, p))
           B == {s \in SUBSET S : AllSound(s) /\ ~ Good(s)}
<1>1. ASSUME NEW s \in SUBSET S, AllSound(s), s # {}, Good(s \ {Latest(s)})
      PROVE  ~ Oversells(Replay(s \ {Latest(s)}), Latest(s)) /\ Good(s)
  <2> DEFINE t == Latest(s)
             r == s \ {t}
             l == Replay(r)
  <2>1. Rows(s) /\ Rows(r)
    BY RowsOfPart
  <2>2. t \in s /\ t \in Trade
    BY <1>1, <2>1, LatestIs DEF Rows
  <2>3. l \in Ledgers /\ Replay(s) = Apply(t, l)
    BY <1>1, <2>1, ReplayTyped, ReplayStep
  <2>4. Net(Of(s, t.position)) >= 0
    BY <1>1, <2>1, SoundWithoutLatest
  <2>5. \A p \in Positions : l[p].quantity = Net(Of(r, p))
    BY <1>1
  <2>6. \A p : Net(Of(s, p)) = IF t.position = p THEN Net(Of(r, p)) + Signed(t) ELSE Net(Of(r, p))
    BY <2>1, <2>2, HeldIs
  <2>7. \A p : Net(Of(r, p)) \in Int
    BY <2>1, HeldIs
  <2>8. t.position \in Positions /\ t.quantity \in Nat \ {0}
    BY <2>2, RowIs
  <2> HIDE DEF t, r, l
  <2>9. ~ Oversells(l, t)
    <3>1. SUFFICES ASSUME t.side = "sell" PROVE ~ (l[t.position].quantity < t.quantity \/ l[t.position].quantity = 0)
      BY DEF Oversells
    <3>2. Net(Of(r, t.position)) + (-t.quantity) >= 0
      BY <2>4, <2>6, <3>1 DEF Signed
    <3> QED BY <2>5, <2>7, <2>8, <3>2
  <2>10. \A p \in Positions : Apply(t, l)[p].quantity = Net(Of(s, p))
    <3>1. Apply(t, l)[t.position].quantity = l[t.position].quantity + Signed(t)
      BY <2>2, <2>3, <2>9, ApplyIs
    <3>2. \A p \in Positions : p # t.position => Apply(t, l)[p] = l[p]
      BY <2>2, <2>3, ApplyIs
    <3> QED BY <2>5, <2>6, <2>8, <3>1, <3>2
  <2> QED BY <2>3, <2>9, <2>10 DEF t, r, l
<1>2. Good({})
  <2>1. Replay({}) = Empty
    BY RowsOfPart, ReplayStep
  <2>2. \A p : Of({}, p) = {} /\ Net({}) = 0
    BY FS_EmptySet, SumStep DEF Of, Net
  <2> QED BY <2>1, <2>2 DEF Empty
<1>3. B = {}
  <2> SUFFICES ASSUME B # {} PROVE FALSE
    OBVIOUS
  <2>1. PICK b \in B : \A a \in B : a \subseteq b => a = b
    <3>1. B \in SUBSET SUBSET S
      OBVIOUS
    <3>2. IsFiniteSet(S)
      BY DEF Rows
    <3> HIDE DEF B
    <3> QED BY <3>1, <3>2, Smallest
  <2>2. b \in SUBSET S /\ AllSound(b) /\ ~ Good(b)
    BY <2>1
  <2>3. b # {}
    BY <1>2, <2>2
  <2>4. Rows(b) /\ Latest(b) \in b
    BY <2>2, <2>3, RowsOfPart, LatestIs
  <2>5. b \ {Latest(b)} \notin B /\ b \ {Latest(b)} \in SUBSET S
    BY <2>1, <2>2, <2>4
  <2>6. AllSound(b \ {Latest(b)})
    BY <2>2, <2>3, <2>4, SoundWithoutLatest
  <2>7. Good(b \ {Latest(b)})
    BY <2>5, <2>6
  <2> HIDE DEF Good
  <2> QED BY <1>1, <2>2, <2>3, <2>7
<1>4. ASSUME NEW s \in SUBSET S, AllSound(s) PROVE Good(s)
  BY <1>3, <1>4
<1>5. S # {} => AllSound(S \ {Latest(S)})
  BY SoundWithoutLatest
<1>6. Good(S) /\ (S # {} => Good(S \ {Latest(S)}))
  <2> HIDE DEF Good
  <2> QED BY <1>4, <1>5
<1>7. S # {} => ~ Oversells(Replay(S \ {Latest(S)}), Latest(S))
  <2> HIDE DEF Good
  <2> QED BY <1>1, <1>6
<1> QED BY <1>6, <1>7

(* The loop over sound rows meets no sale larger than its holding.         *)
LEMMA NeverFails == ASSUME NEW S, Rows(S), AllSound(S) PROVE ~ Fails(S)
<1> SUFFICES ASSUME NEW t \in S PROVE ~ Oversells(Replay(Prior(S, t)), t)
  BY DEF Fails
<1> DEFINE D == Prior(S, t) \cup {t}
<1>1. D \in SUBSET S /\ t \in D /\ D \ {t} = Prior(S, t)
  BY OrderIs DEF Prior
<1>2. \A u \in D \ {t} : Before(u, t)
  BY <1>1 DEF Prior
<1>3. Rows(D)
  BY <1>1, RowsOfPart
<1>4. \A v \in D, u \in S : Before(u, v) => u \in D
  <2> SUFFICES ASSUME NEW v \in D, NEW u \in S, Before(u, v) PROVE Before(u, t)
    BY DEF Prior
  <2>1. v = t \/ Before(v, t)
    BY <1>2
  <2> QED BY <1>1, <2>1, OrderIs
<1> HIDE DEF D
<1>5. AllSound(D)
  BY <1>1, <1>4, SoundBefore
<1>6. Latest(D) = t
  BY <1>1, <1>2, <1>3, LatestIsOne
<1> QED BY <1>1, <1>3, <1>5, <1>6, QuantityIsNet

-------------------------------------------------------------------------------
(* Money is kept *)

(* A sum of nothing but zeros.                                             *)
LEMMA SumOfZeros ==
    ASSUME NEW f, NEW S, IsFiniteSet(S), \A s \in S : f[s] = 0
    PROVE  Sum(f, S) = 0
<1> DEFINE B == {s \in SUBSET S : Sum(f, s) # 0}
<1>1. SUFFICES ASSUME B # {} PROVE FALSE
  OBVIOUS
<1>2. PICK b \in B : \A a \in B : a \subseteq b => a = b
  <2>1. B \in SUBSET SUBSET S
    OBVIOUS
  <2> HIDE DEF B
  <2> QED BY <1>1, <2>1, Smallest
<1>3. Sum(f, b) = IF b = {} THEN 0 ELSE f[Pick(b)] + Sum(f, b \ {Pick(b)})
  BY <1>2, FS_Subset, SumStep
<1>4. b # {} => Pick(b) \in b
  BY DEF Pick
<1>5. b # {} => Sum(f, b \ {Pick(b)}) = 0
  BY <1>2, <1>4
<1> QED BY <1>2, <1>3, <1>4, <1>5

Realized(l) == Sum([p \in Positions |-> l[p].realized], Positions)
Cost(S)     == Sum([t \in S |-> Paid(t)], S)

(* The sums of a ledger are numbers.                                       *)
LEMMA TotalsAre ==
    ASSUME NEW l \in Ledgers
    PROVE  Invested(l) \in Int /\ Realized(l) \in Int
<1>1. IsFiniteSet(Positions)
  BY PortfolioAssumption
<1>2. \A p \in Positions : /\ [q \in Positions |-> l[q].basis][p] \in Int
                           /\ [q \in Positions |-> l[q].realized][p] \in Int
  BY DEF Ledgers
<1>3. Sum([p \in Positions |-> l[p].basis], Positions) \in Int
  BY <1>1, <1>2, SumIsNumber
<1>4. Sum([p \in Positions |-> l[p].realized], Positions) \in Int
  BY <1>1, <1>2, SumIsNumber
<1> QED BY <1>3, <1>4 DEF Invested, Realized

(* A trade that fits changes the totals by what is paid.                   *)
LEMMA TotalsStep ==
    ASSUME NEW t \in Trade, NEW l \in Ledgers, ~ Oversells(l, t)
    PROVE  Invested(Apply(t, l)) - Realized(Apply(t, l)) = (Invested(l) - Realized(l)) + Paid(t)
<1> DEFINE m == Apply(t, l)
           y == t.position
           fb == [p \in Positions |-> l[p].basis]
           gb == [p \in Positions |-> m[p].basis]
           fr == [p \in Positions |-> l[p].realized]
           gr == [p \in Positions |-> m[p].realized]
<1>1. /\ m \in Ledgers /\ \A p \in Positions : p # y => m[p] = l[p]
      /\ m[y].basis - m[y].realized = (l[y].basis - l[y].realized) + Paid(t)
  BY ApplyIs
<1>2. y \in Positions /\ IsFiniteSet(Positions)
  BY RowIs, PortfolioAssumption
<1> HIDE DEF m, y
<1>3. \A p \in Positions : fb[p] \in Int /\ gb[p] \in Int /\ fr[p] \in Int /\ gr[p] \in Int
  BY <1>1 DEF Ledgers
<1>4. \A p \in Positions : p # y => fb[p] = gb[p] /\ fr[p] = gr[p]
  BY <1>1
<1>5. /\ fb[y] = l[y].basis /\ gb[y] = m[y].basis
      /\ fr[y] = l[y].realized /\ gr[y] = m[y].realized
  BY <1>2
<1>6. /\ Invested(l) = Sum(fb, Positions) /\ Invested(m) = Sum(gb, Positions)
      /\ Realized(l) = Sum(fr, Positions) /\ Realized(m) = Sum(gr, Positions)
  BY DEF Invested, Realized
<1> HIDE DEF fb, gb, fr, gr
<1>7. Sum(gb, Positions) = (Sum(fb, Positions) - fb[y]) + gb[y]
  BY <1>2, <1>3, <1>4, SumChanged
<1>8. Sum(gr, Positions) = (Sum(fr, Positions) - fr[y]) + gr[y]
  BY <1>2, <1>3, <1>4, SumChanged
<1>9. Sum(fb, Positions) \in Int /\ Sum(fr, Positions) \in Int
  BY <1>2, <1>3, SumIsNumber
<1>10. Paid(t) \in Int
  BY PaidIs
<1>11. fb[y] \in Int /\ gb[y] \in Int /\ fr[y] \in Int /\ gr[y] \in Int
  BY <1>2, <1>3
<1>12. gb[y] - gr[y] = (fb[y] - fr[y]) + Paid(t)
  BY <1>1, <1>5
<1>13. Invested(m) - Realized(m) = (Invested(l) - Realized(l)) + Paid(t)
  BY <1>6, <1>7, <1>8, <1>9, <1>10, <1>11, <1>12
<1> QED BY <1>13 DEF m

(* What was paid, with one trade more.                                     *)
LEMMA CostIs ==
    ASSUME NEW S, Rows(S)
    PROVE  /\ Cost(S) \in Int
           /\ \A t \in S : Cost(S) = Cost(S \ {t}) + Paid(t)
<1> DEFINE f == [t \in S |-> Paid(t)]
<1>1. IsFiniteSet(S) /\ \A t \in S : f[t] = Paid(t) /\ f[t] \in Int
  BY PaidIs DEF Rows
<1> HIDE DEF f
<1>2. Cost(S) = Sum(f, S)
  BY DEF Cost, f
<1>3. Cost(S) \in Int
  BY <1>1, <1>2, SumIsNumber
<1>4. ASSUME NEW t \in S PROVE Cost(S) = Cost(S \ {t}) + Paid(t)
  <2> DEFINE g == [u \in S \ {t} |-> Paid(u)]
  <2>1. \A u \in S \ {t} : f[u] = g[u]
    BY <1>1
  <2>2. IsFiniteSet(S \ {t})
    BY <1>1, FS_Subset
  <2> HIDE DEF g
  <2>3. Sum(f, S \ {t}) = Sum(g, S \ {t})
    BY <2>1, <2>2, SumSame
  <2>4. Sum(g, S \ {t}) = Cost(S \ {t})
    BY DEF Cost, g
  <2>5. Sum(f, S) = f[t] + Sum(f, S \ {t}) /\ Sum(f, S \ {t}) \in Int
    BY <1>1, <2>2, SumWithout, SumIsNumber
  <2> QED BY <1>1, <1>2, <2>3, <2>4, <2>5
<1> QED BY <1>3, <1>4

(* What is invested less what was realized is what was paid.               *)
LEMMA MoneyOf ==
    ASSUME NEW S, Rows(S), AllSound(S)
    PROVE  Invested(Replay(S)) - Realized(Replay(S)) = Cost(S)
<1> DEFINE Good(s) == Invested(Replay(s)) - Realized(Replay(s)) = Cost(s)
           B == {s \in SUBSET S : AllSound(s) /\ ~ Good(s)}
<1>1. Good({})
  <2>1. Replay({}) = Empty
    BY RowsOfPart, ReplayStep
  <2>2. Cost({}) = 0
    BY FS_EmptySet, SumStep DEF Cost
  <2>3. IsFiniteSet(Positions)
    BY PortfolioAssumption
  <2>4. Invested(Empty) = 0
    <3> DEFINE f == [p \in Positions |-> Empty[p].basis]
    <3>1. \A p \in Positions : f[p] = 0
      BY DEF Empty
    <3> HIDE DEF f
    <3>2. Sum(f, Positions) = 0
      BY <2>3, <3>1, SumOfZeros
    <3> QED BY <3>2 DEF Invested, f
  <2>5. Realized(Empty) = 0
    <3> DEFINE f == [p \in Positions |-> Empty[p].realized]
    <3>1. \A p \in Positions : f[p] = 0
      BY DEF Empty
    <3> HIDE DEF f
    <3>2. Sum(f, Positions) = 0
      BY <2>3, <3>1, SumOfZeros
    <3> QED BY <3>2 DEF Realized, f
  <2> QED BY <2>1, <2>2, <2>4, <2>5
<1>2. ASSUME NEW s \in SUBSET S, AllSound(s), s # {}, Good(s \ {Latest(s)}) PROVE Good(s)
  <2> DEFINE t == Latest(s)
             r == s \ {t}
  <2>1. Rows(s) /\ Rows(r)
    BY RowsOfPart
  <2>2. t \in s /\ t \in Trade
    BY <1>2, <2>1, LatestIs DEF Rows
  <2>3. Replay(r) \in Ledgers /\ Replay(s) = Apply(t, Replay(r)) /\ ~ Oversells(Replay(r), t)
    BY <1>2, <2>1, ReplayTyped, ReplayStep, QuantityIsNet
  <2>4. Cost(s) = Cost(r) + Paid(t)
    BY <2>1, <2>2, CostIs
  <2> HIDE DEF t
  <2>5. Invested(Replay(s)) - Realized(Replay(s)) = (Invested(Replay(r)) - Realized(Replay(r))) + Paid(t)
    BY <2>2, <2>3, TotalsStep
  <2> QED BY <1>2, <2>4, <2>5 DEF t
<1>3. B = {}
  <2> SUFFICES ASSUME B # {} PROVE FALSE
    OBVIOUS
  <2>1. PICK b \in B : \A a \in B : a \subseteq b => a = b
    <3>1. B \in SUBSET SUBSET S
      OBVIOUS
    <3>2. IsFiniteSet(S)
      BY DEF Rows
    <3> HIDE DEF B
    <3> QED BY <3>1, <3>2, Smallest
  <2>2. b \in SUBSET S /\ AllSound(b) /\ ~ Good(b)
    BY <2>1
  <2>3. b # {}
    BY <1>1, <2>2
  <2>4. Rows(b) /\ Latest(b) \in b
    BY <2>2, <2>3, RowsOfPart, LatestIs
  <2>5. b \ {Latest(b)} \notin B /\ b \ {Latest(b)} \in SUBSET S
    BY <2>1, <2>2, <2>4
  <2>6. AllSound(b \ {Latest(b)})
    BY <2>2, <2>3, <2>4, SoundWithoutLatest
  <2>7. Good(b \ {Latest(b)})
    BY <2>5, <2>6
  <2> HIDE DEF Good
  <2> QED BY <1>2, <2>2, <2>3, <2>7
<1> QED BY <1>3

-------------------------------------------------------------------------------
(* Counting positions *)

(* Trades of some instruments: all of a position, or none.                 *)
Whole(K, S) == \A t, u \in S : t.position = u.position /\ t \in K => u \in K

(* They are sound if all are; and each position is owned here or there.    *)
LEMMA WholeIs ==
    ASSUME NEW S, Rows(S), NEW K \in SUBSET S, Whole(K, S)
    PROVE  /\ AllSound(S) => AllSound(K)
           /\ Owned(S) = Owned(K) \cup Owned(S \ K)
           /\ Owned(K) \cap Owned(S \ K) = {}
           /\ Cardinality(Owned(S)) = Cardinality(Owned(K)) + Cardinality(Owned(S \ K))
<1>1. \A p : \/ Of(K, p) = Of(S, p) /\ Of(S \ K, p) = {}
             \/ Of(K, p) = {} /\ Of(S \ K, p) = Of(S, p)
  BY DEF Of, Whole
<1>2. Sound({})
  BY DEF Sound
<1>3. AllSound(S) => AllSound(K)
  BY <1>1, <1>2 DEF AllSound
<1>4. Net({}) = 0
  BY FS_EmptySet, SumStep DEF Net
<1>5. Owned(S) = Owned(K) \cup Owned(S \ K) /\ Owned(K) \cap Owned(S \ K) = {}
  <2>1. ASSUME NEW p \in Positions
        PROVE  /\ p \in Owned(S) <=> p \in Owned(K) \/ p \in Owned(S \ K)
               /\ ~ (p \in Owned(K) /\ p \in Owned(S \ K))
    <3>1. ~ (Net({}) > 0)
      BY <1>4
    <3>2. /\ p \in Owned(S) <=> Net(Of(S, p)) > 0
          /\ p \in Owned(K) <=> Net(Of(K, p)) > 0
          /\ p \in Owned(S \ K) <=> Net(Of(S \ K, p)) > 0
      BY DEF Owned
    <3> QED BY <1>1, <3>1, <3>2
  <2>2. Owned(S) \subseteq Positions /\ Owned(K) \subseteq Positions /\ Owned(S \ K) \subseteq Positions
    BY DEF Owned
  <2> QED BY <2>1, <2>2
<1>6. IsFiniteSet(Owned(K)) /\ IsFiniteSet(Owned(S \ K))
  BY PortfolioAssumption, FS_Subset DEF Owned
<1>7. Cardinality(Owned(S)) = Cardinality(Owned(K)) + Cardinality(Owned(S \ K))
  <2> DEFINE k == Owned(K)
             r == Owned(S \ K)
  <2> HIDE DEF k, r
  <2>1. Cardinality(k \cup r) = Cardinality(k) + Cardinality(r) - Cardinality(k \cap r)
    BY <1>6, FS_Union DEF k, r
  <2>2. Cardinality(k \cap r) = 0
    BY <1>5, FS_EmptySet DEF k, r
  <2>3. Cardinality(k) \in Nat /\ Cardinality(r) \in Nat
    BY <1>6, FS_CardinalityType DEF k, r
  <2>4. Cardinality(k \cup r) = Cardinality(k) + Cardinality(r)
    BY <2>1, <2>2, <2>3
  <2> QED BY <1>5, <2>4 DEF k, r
<1> QED BY <1>3, <1>5, <1>7

(* In a replay of sound rows those positions are open that are owned.      *)
LEMMA OpenIsOwned ==
    ASSUME NEW S, Rows(S), AllSound(S)
    PROVE  Held(Replay(S)) = Owned(S)
BY QuantityIsNet DEF Held, Owned

(* Rows in two parts.                                                      *)
LEMMA NetOfParts ==
    ASSUME NEW S, Rows(S), NEW T \in SUBSET S
    PROVE  Net(S) = Net(T) + Net(S \ T)
<1> DEFINE f == [t \in S |-> Signed(t)]
           g == [t \in T |-> Signed(t)]
           h == [t \in S \ T |-> Signed(t)]
<1>1. IsFiniteSet(S) /\ \A t \in S : f[t] \in Int
  BY RowIs DEF Rows
<1>2. IsFiniteSet(T) /\ IsFiniteSet(S \ T)
  BY <1>1, FS_Subset
<1>3. (\A t \in T : f[t] = g[t]) /\ (\A t \in S \ T : f[t] = h[t])
  OBVIOUS
<1>4. Net(S) = Sum(f, S) /\ Net(T) = Sum(g, T) /\ Net(S \ T) = Sum(h, S \ T)
  BY DEF Net
<1> HIDE DEF f, g, h
<1>5. Sum(f, T) = Sum(g, T) /\ Sum(f, S \ T) = Sum(h, S \ T)
  BY <1>2, <1>3, SumSame
<1>6. Sum(f, S) = Sum(f, T) + Sum(f, S \ T)
  BY <1>1, SumOfBoth
<1> QED BY <1>4, <1>5, <1>6

(* Of some positions together no less than nothing is held.                *)
LEMMA HeldTogether ==
    ASSUME NEW S, Rows(S), AllSound(S), NEW R \in SUBSET Positions
    PROVE  Net({t \in S : t.position \in R}) \in Nat
<1> DEFINE At(r) == {t \in S : t.position \in r}
           B == {r \in SUBSET R : Net(At(r)) \notin Nat}
<1>1. SUFFICES ASSUME B # {} PROVE FALSE
  OBVIOUS
<1>2. PICK b \in B : \A a \in B : a \subseteq b => a = b
  <2>1. B \in SUBSET SUBSET R
    OBVIOUS
  <2>2. IsFiniteSet(R)
    BY PortfolioAssumption, FS_Subset
  <2> HIDE DEF B
  <2> QED BY <1>1, <2>1, <2>2, Smallest
<1>3. b # {}
  <2>1. Net({}) = 0 /\ At({}) = {}
    BY FS_EmptySet, SumStep DEF Net
  <2>2. Net(At({})) \in Nat
    BY <2>1
  <2> QED BY <1>2, <2>2
<1>4. PICK q \in b : TRUE
  BY <1>3
<1>5. Net(At(b \ {q})) \in Nat
  <2>1. b \ {q} \in SUBSET R /\ b \ {q} \subseteq b /\ b \ {q} # b
    BY <1>2, <1>4
  <2>2. b \ {q} \notin B
    BY <1>2, <2>1
  <2> QED BY <2>1, <2>2
<1>6. Net(Of(S, q)) \in Nat
  <2>1. q \in Positions /\ Replay(S)[q].quantity = Net(Of(S, q))
    BY <1>2, <1>4, QuantityIsNet
  <2>2. Replay(S) \in Ledgers
    BY ReplayTyped
  <2> QED BY <2>1, <2>2 DEF Ledgers
<1>7. Of(S, q) \in SUBSET At(b) /\ At(b) \ Of(S, q) = At(b \ {q})
  BY <1>4 DEF Of
<1>8. Rows(At(b))
  BY RowsOfPart
<1> HIDE DEF At
<1>9. Net(At(b)) = Net(Of(S, q)) + Net(At(b \ {q}))
  BY <1>7, <1>8, NetOfParts
<1> QED BY <1>2, <1>5, <1>6, <1>9

(* A quote is asked for the instrument of every position that is open.     *)
LEMMA OpenAssetIs ==
    ASSUME NEW S, Rows(S), AllSound(S), NEW p \in Owned(S)
    PROVE  Instrument(p) \in OpenAssets(S)
<1> DEFINE i == Instrument(p)
           R == {q \in Positions : Instrument(q) = i /\ q # p}
<1>1. p \in Positions /\ Net(Of(S, p)) > 0
  BY DEF Owned
<1>2. Rows(OfAsset(S, i)) /\ Of(S, p) \in SUBSET OfAsset(S, i)
  BY RowsOfPart DEF OfAsset, Of
<1>3. OfAsset(S, i) \ Of(S, p) = {t \in S : t.position \in R}
  BY RowIs DEF OfAsset, Of, Rows
<1>4. Net(OfAsset(S, i) \ Of(S, p)) \in Nat
  BY <1>3, HeldTogether
<1>5. Net(OfAsset(S, i)) = Net(Of(S, p)) + Net(OfAsset(S, i) \ Of(S, p))
  BY <1>2, NetOfParts
<1>6. Net(Of(S, p)) \in Int
  BY HeldIs
<1>7. Net(OfAsset(S, i)) > 0
  BY <1>1, <1>4, <1>5, <1>6
<1> QED BY <1>1, <1>7 DEF OpenAssets

-------------------------------------------------------------------------------
(* Booking *)

(* A buy needs no check: it makes no holding smaller, whenever it was.     *)
LEMMA SoundWithBuy ==
    ASSUME NEW T, NEW b, Rows(T \cup {b}), b \notin T, b.side = "buy", Sound(T)
    PROVE  Sound(T \cup {b})
<1> DEFINE S == T \cup {b}
           Up(t) == Prior(S, t) \cup {t}
<1>1. Rows(T) /\ b \in S /\ Signed(b) \in Nat
  BY RowsOfPart, RowIs DEF Rows, Signed
<1>2. ASSUME NEW t \in T PROVE Net(Up(t)) >= 0
  <2>1. Net(Prior(T, t) \cup {t}) >= 0
    BY DEF Sound
  <2>2. Rows(Up(t)) /\ Rows(Prior(T, t) \cup {t})
    BY RowsOfPart DEF Prior
  <2>3. Up(t) = Prior(T, t) \cup {t} \/ (b \in Up(t) /\ Up(t) \ {b} = Prior(T, t) \cup {t})
    BY DEF Prior
  <2>4. Net(Prior(T, t) \cup {t}) \in Int
    BY <2>2, NetIs
  <2>5. b \in Up(t) => Net(Up(t)) = Net(Up(t) \ {b}) + Signed(b)
    BY <2>2, NetIs
  <2>6. CASE Up(t) = Prior(T, t) \cup {t}
    BY <2>1, <2>6
  <2>7. CASE b \in Up(t) /\ Up(t) \ {b} = Prior(T, t) \cup {t}
    <3> DEFINE old == Net(Prior(T, t) \cup {t})
               new == Net(Up(t))
    <3>1. new = old + Signed(b) /\ old \in Int /\ old >= 0
      BY <2>1, <2>4, <2>5, <2>7
    <3> HIDE DEF old, new
    <3>2. new >= 0
      BY <1>1, <3>1
    <3> QED BY <3>2 DEF new
  <2> QED BY <2>3, <2>6, <2>7
<1>3. Net(Up(b)) >= 0
  <2> DEFINE P == Prior(T, b)
  <2>1. P \in SUBSET T /\ b \notin P /\ Prior(S, b) = P
    <3>1. ~ Before(b, b)
      BY <1>1, OrderIs
    <3> QED BY <3>1 DEF Prior
  <2>2. Rows(P) /\ Rows(P \cup {b})
    BY <2>1, RowsOfPart
  <2>3. Net(P \cup {b}) = Net(P) + Signed(b)
    <3>1. (P \cup {b}) \ {b} = P
      BY <2>1
    <3> HIDE DEF P
    <3> QED BY <2>2, <3>1, NetIs
  <2>4. Net(P) \in Int /\ Net(P) >= 0
    <3>1. CASE P = {}
      <4>1. Net({}) = 0
        BY FS_EmptySet, SumStep DEF Net
      <4> HIDE DEF P
      <4> QED BY <3>1, <4>1
    <3>2. CASE P # {}
      <4> DEFINE l == Latest(P)
      <4>1. l \in P /\ \A u \in P \ {l} : Before(u, l)
        BY <2>2, <3>2, LatestIs
      <4> HIDE DEF l
      <4>2. l \in T /\ Before(l, b)
        BY <4>1 DEF Prior
      <4>3. \A u \in T : Before(u, l) => Before(u, b)
        BY <1>1, <4>2, OrderIs
      <4>4. ~ Before(l, l)
        BY <1>1, <4>2, OrderIs
      <4>5. P = Prior(T, l) \cup {l}
        BY <4>1, <4>2, <4>3, <4>4 DEF Prior
      <4>6. Net(P) >= 0
        BY <4>2, <4>5 DEF Sound
      <4> QED BY <2>2, <4>6, NetIs
    <3> QED BY <3>1, <3>2
  <2>5. Up(b) = P \cup {b}
    BY <2>1
  <2> HIDE DEF P, Up
  <2> QED BY <1>1, <2>3, <2>4, <2>5
<1> QED BY <1>2, <1>3 DEF Sound

-------------------------------------------------------------------------------
(* The ledger of the chart *)

(* What the chart keeps of a ledger.                                       *)
Shadow(l) == [p \in Positions |-> [quantity |-> l[p].quantity, basis |-> l[p].basis]]

(* Both loops do the same to it.                                           *)
LEMMA ShadowStep ==
    ASSUME NEW t \in Trade, NEW l \in Ledgers
    PROVE  /\ Oversells(Shadow(l), t) <=> Oversells(l, t)
           /\ ~ Oversells(l, t) => ApplyHistoryTrade(t, Shadow(l)) = Shadow(Apply(t, l))
<1> DEFINE y == t.position
           s == Shadow(l)
<1>1. y \in Positions /\ t.side \in {"buy", "sell"}
  BY RowIs
<1>2. \A p \in Positions : s[p] = [quantity |-> l[p].quantity, basis |-> l[p].basis]
  BY DEF Shadow
<1>3. s[y].quantity = l[y].quantity /\ s[y].basis = l[y].basis
  <2>1. s[y] = [quantity |-> l[y].quantity, basis |-> l[y].basis]
    BY <1>1, <1>2
  <2> HIDE DEF s
  <2> QED BY <2>1
<1>4. CostRemoved(s[y], t) = CostRemoved(l[y], t)
  BY <1>3 DEF CostRemoved
<1>5. Oversells(s, t) <=> Oversells(l, t)
  BY <1>3 DEF Oversells
<1>6. ASSUME ~ Oversells(l, t) PROVE ApplyHistoryTrade(t, s) = Shadow(Apply(t, l))
  <2> DEFINE n == IF t.side = "buy"
                  THEN [quantity |-> l[y].quantity + t.quantity,
                        basis    |-> l[y].basis + (Amount(t) + Fees)]
                  ELSE [quantity |-> l[y].quantity - t.quantity,
                        basis    |-> IF l[y].quantity = t.quantity THEN 0
                                     ELSE l[y].basis - CostRemoved(l[y], t)]
             e == IF t.side = "buy"
                  THEN [quantity |-> l[y].quantity + t.quantity,
                        basis    |-> l[y].basis + (Amount(t) + Fees), realized |-> l[y].realized]
                  ELSE [quantity |-> l[y].quantity - t.quantity,
                        basis    |-> IF l[y].quantity = t.quantity THEN 0
                                     ELSE l[y].basis - CostRemoved(l[y], t),
                        realized |-> l[y].realized + ((Amount(t) - Fees) - CostRemoved(l[y], t))]
  <2>1. Apply(t, l) = [l EXCEPT ![y] = e]
    BY <1>6 DEF Apply
  <2>2. ApplyHistoryTrade(t, s) = [s EXCEPT ![y] = n]
    <3> HIDE DEF s
    <3> QED BY <1>3, <1>4 DEF ApplyHistoryTrade
  <2>3. e.quantity = n.quantity /\ e.basis = n.basis /\ n = [quantity |-> n.quantity, basis |-> n.basis]
    BY <1>1
  <2>4. l = [p \in Positions |-> l[p]] /\ s = [p \in Positions |-> s[p]]
    BY DEF Ledgers, Shadow
  <2> HIDE DEF e, n, s, y
  <2>5. \A p \in Positions : Shadow(Apply(t, l))[p] = [s EXCEPT ![y] = n][p]
    <3> SUFFICES ASSUME NEW p \in Positions PROVE Shadow(Apply(t, l))[p] = [s EXCEPT ![y] = n][p]
      OBVIOUS
    <3>1. Shadow(Apply(t, l))[p] = [quantity |-> Apply(t, l)[p].quantity, basis |-> Apply(t, l)[p].basis]
      BY DEF Shadow
    <3>2. CASE p = y
      BY <2>1, <2>3, <2>4, <3>1, <3>2
    <3>3. CASE p # y
      BY <1>2, <2>1, <2>4, <3>1, <3>3
    <3> QED BY <3>2, <3>3
  <2>6. Shadow(Apply(t, l)) = [s EXCEPT ![y] = n]
    <3>1. Shadow(Apply(t, l)) = [p \in Positions |-> Shadow(Apply(t, l))[p]]
      BY DEF Shadow
    <3>2. [s EXCEPT ![y] = n] = [p \in Positions |-> [s EXCEPT ![y] = n][p]]
      BY <2>4
    <3> QED BY <2>5, <3>1, <3>2
  <2> QED BY <2>2, <2>6
<1> QED BY <1>5, <1>6

(* Invested, open and worth are the same in both.                          *)
LEMMA ShadowIs ==
    ASSUME NEW l \in Ledgers
    PROVE  /\ Shadow(l) \in [Positions -> [quantity : Int, basis : Int]]
           /\ Invested(Shadow(l)) = Invested(l)
           /\ Held(Shadow(l)) = Held(l)
           /\ \A S \in SUBSET Positions : \A price : Worth(Shadow(l), S, price) = Worth(l, S, price)
<1>1. \A p \in Positions : /\ Shadow(l)[p].quantity = l[p].quantity
                           /\ Shadow(l)[p].basis = l[p].basis
  BY DEF Shadow
<1>2. Shadow(l) \in [Positions -> [quantity : Int, basis : Int]]
  BY DEF Shadow, Ledgers
<1>3. [p \in Positions |-> Shadow(l)[p].basis] = [p \in Positions |-> l[p].basis]
  BY <1>1
<1>4. Invested(Shadow(l)) = Invested(l)
  BY <1>3 DEF Invested
<1>5. Held(Shadow(l)) = Held(l)
  BY <1>1 DEF Held
<1>6. ASSUME NEW S \in SUBSET Positions, NEW price
      PROVE  Worth(Shadow(l), S, price) = Worth(l, S, price)
  <2>1. [p \in S |-> Shadow(l)[p].quantity * price[Instrument(p)]]
          = [p \in S |-> l[p].quantity * price[Instrument(p)]]
    BY <1>1
  <2> QED BY <2>1 DEF Worth
<1> QED BY <1>2, <1>4, <1>5, <1>6

(* One trade more, the next one, in the ledger of the chart.               *)
LEMMA ChartedNext ==
    ASSUME NEW A, Rows(A), AllSound(A), NEW C \in SUBSET A,
           \A t \in C, u \in A : Before(u, t) => u \in C,
           A \ C # {}
    PROVE  LET next == Earliest(A \ C)
               D    == C \cup {next}
           IN  /\ next \in A \ C /\ D \in SUBSET A
               /\ \A t \in D, u \in A : Before(u, t) => u \in D
               /\ ~ Oversells(Shadow(Replay(C)), next)
               /\ ApplyHistoryTrade(next, Shadow(Replay(C))) = Shadow(Replay(D))
<1> DEFINE next == Earliest(A \ C)
           D    == C \cup {next}
<1>1. next \in A \ C /\ \A u \in (A \ C) \ {next} : Before(next, u)
  BY RowsOfPart, EarliestIs
<1> HIDE DEF next
<1>2. D \in SUBSET A /\ D \ {next} = C /\ D # {}
  BY <1>1
<1>3. \A t \in D, u \in A : Before(u, t) => u \in D
  <2> SUFFICES ASSUME NEW u \in A \ C, u # next, Before(u, next) PROVE FALSE
    OBVIOUS
  <2> QED BY <1>1, OrderIs
<1>4. Rows(D) /\ Rows(C) /\ AllSound(D)
  <2> HIDE DEF D
  <2> QED BY <1>2, <1>3, RowsOfPart, SoundBefore
<1>5. \A u \in D \ {next} : Before(u, next)
  BY <1>1, <1>2, OrderIs
<1>6. Latest(D) = next
  BY <1>4, <1>5, LatestIsOne
<1>7. ~ Oversells(Replay(C), next) /\ Replay(D) = Apply(next, Replay(C))
  BY <1>2, <1>4, <1>6, QuantityIsNet, ReplayStep
<1>8. Replay(C) \in Ledgers /\ next \in Trade
  BY <1>1, <1>4, ReplayTyped DEF Rows
<1>9. /\ ~ Oversells(Shadow(Replay(C)), next)
      /\ ApplyHistoryTrade(next, Shadow(Replay(C))) = Shadow(Replay(D))
  BY <1>7, <1>8, ShadowStep
<1> QED BY <1>1, <1>2, <1>3, <1>9 DEF next

-------------------------------------------------------------------------------
(* Prices, days and points of a chart *)

(* A number of whole parts.                                                *)
LEMMA PartsAre ==
    ASSUME NEW a \in Int, NEW d \in Nat \ {0}, NEW n \in Int, 0 <= a, a < d * n
    PROVE  a \div d \in Nat /\ a \div d < n
<1>1. a = d * (a \div d) + (a % d) /\ a \div d \in Int /\ a % d \in 0 .. d - 1
  OBVIOUS
<1> DEFINE q == a \div d
<1>2. q \in Int /\ d * q <= a /\ a < d * q + d
  BY <1>1
<1> HIDE DEF q
<1>3. q >= 0
  <2>1. ~ (q <= -1)
    <3> SUFFICES ASSUME q <= -1 PROVE FALSE
      OBVIOUS
    <3>1. d * q <= -d
      BY <1>2
    <3> QED BY <1>2, <3>1
  <2> QED BY <1>2, <2>1
<1>4. q < n
  <2> SUFFICES ASSUME q >= n PROVE FALSE
    BY <1>2
  <2>1. d * q >= d * n
    BY <1>2
  <2>2. d * n \in Int /\ d * q \in Int
    BY <1>2
  <2> QED BY <1>2, <2>1, <2>2
<1> QED BY <1>2, <1>3, <1>4 DEF q

(* A chart with too many points keeps its first and its last.              *)
LEMMA SampleKeepsEnds ==
    ASSUME NEW n \in Nat \ {0}, NEW limit \in Nat \ {0, 1}
    PROVE  {1, n} \subseteq SampledIndexes(n, limit) /\ SampledIndexes(n, limit) \subseteq 1 .. n
<1>1. CASE n <= limit
  BY <1>1 DEF SampledIndexes
<1>2. CASE ~ (n <= limit)
  <2> DEFINE k == limit - 1
             m == n - 1
             At(i) == (2 * i * (n - 1) + (limit - 1)) \div (2 * (limit - 1)) + 1
  <2>1. SampledIndexes(n, limit) = {At(i) : i \in 0 .. limit - 2} \cup {n}
    BY <1>2 DEF SampledIndexes
  <2>2. k \in Nat \ {0} /\ m \in Nat /\ 2 * k \in Nat \ {0} /\ limit - 2 = k - 1 /\ n = m + 1
    OBVIOUS
  <2>3. ASSUME NEW i \in 0 .. limit - 2 PROVE At(i) \in 1 .. n
    <3> DEFINE a == 2 * i * m + k
    <3>1. i \in Nat /\ i <= k - 1
      BY <2>2
    <3>2. At(i) = (a \div (2 * k)) + 1
      OBVIOUS
    <3> HIDE DEF k, m, At
    <3>3. i * m \in Nat /\ i * m <= (k - 1) * m
      BY <2>2, <3>1
    <3>4. a = 2 * (i * m) + k
      BY <2>2, <3>1
    <3>5. (k - 1) * m = k * m - m /\ k * m \in Nat /\ (2 * k) * n = 2 * (k * m) + 2 * k
      BY <2>2
    <3> HIDE DEF a
    <3>6. a \in Int /\ 0 <= a /\ a < (2 * k) * n
      BY <2>2, <3>3, <3>4, <3>5
    <3>7. a \div (2 * k) \in Nat /\ a \div (2 * k) < n
      BY <2>2, <3>6, PartsAre
    <3> QED BY <3>2, <3>7
  <2>4. At(0) = 1
    <3>1. At(0) = ((2 * 0 * m + k) \div (2 * k)) + 1
      OBVIOUS
    <3> HIDE DEF k, m, At
    <3>2. 2 * 0 * m + k = k
      BY <2>2
    <3>3. k < (2 * k) * 1 /\ 0 <= k /\ k \in Int
      BY <2>2
    <3>4. k \div (2 * k) \in Nat /\ k \div (2 * k) < 1
      BY <2>2, <3>3, PartsAre
    <3> QED BY <3>1, <3>2, <3>4
  <2>5. 0 \in 0 .. limit - 2
    BY <2>2
  <2> HIDE DEF At
  <2> QED BY <2>1, <2>3, <2>4, <2>5
<1> QED BY <1>1, <1>2

(* A chart begins on the first day of its trades, or later; never after    *)
(* today.                                                                  *)
LEMMA StartIs ==
    ASSUME NEW T, Rows(T), T # {}, NEW days \in Nat
    PROVE  /\ StartOf(T, days) \in 1 .. Today
           /\ Earliest(T) \in T /\ Earliest(T).day <= StartOf(T, days)
<1> DEFINE first == Earliest(T).day
<1>1. Earliest(T) \in T
  BY EarliestIs
<1>2. first \in 1 .. Today
  BY <1>1, RowIs DEF Rows
<1> HIDE DEF first
<1>3. Today \in Nat
  BY PortfolioAssumption
<1>4. StartOf(T, days) = IF days > 0 /\ Today - days > first THEN Today - days ELSE first
  BY DEF StartOf, first
<1>5. StartOf(T, days) \in 1 .. Today /\ first <= StartOf(T, days)
  BY <1>2, <1>3, <1>4
<1> QED BY <1>1, <1>5 DEF first

(* Some days between two have a last.                                      *)
LEMMA LastDayIs ==
    ASSUME NEW a \in Int, NEW b \in Int, NEW D \in SUBSET (a .. b), D # {}
    PROVE  Max(D) \in D
<1> DEFINE N == {b - d : d \in D}
<1>1. \A d \in D : d \in Int /\ b - d \in Nat
  OBVIOUS
<1>2. N \in SUBSET Nat /\ N # {}
  BY <1>1
<1>3. PICK m \in N : \A n \in N : ~ (<<n, m>> \in OpToRel(<, Nat))
  <2> HIDE DEF N
  <2> QED BY <1>2, NatLessThanWellFounded, WFMin
<1>4. \A n \in N : m <= n
  <2> SUFFICES ASSUME NEW n \in N, n < m PROVE FALSE
    BY <1>2
  <2>1. <<n, m>> \in OpToRel(<, Nat)
    BY <1>2, Zenon DEF OpToRel
  <2> QED BY <1>3, <2>1
<1>5. PICK x \in D : m = b - x
  BY <1>3
<1>6. \A d \in D : x >= d
  <2>1. \A d \in D : b - x <= b - d
    BY <1>4, <1>5
  <2> QED BY <1>1, <2>1
<1> QED BY <1>5, <1>6, Zenon DEF Max

(* Prices are numbers.                                                     *)
LEMMA PricesAre ==
    ASSUME PortfolioTypeOK, Chartable(booked) # {}, NEW i \in DOMAIN scenario.closes
    PROVE  /\ \A d \in Int : DayPrices(d)[i] \in Nat
           /\ CurrentPrices[i] \in Nat
<1>1. /\ \A j \in DOMAIN scenario.quote : scenario.quote[j] \in Nat \ {0}
      /\ DOMAIN scenario.closes[i] \subseteq Int
      /\ \A d \in DOMAIN scenario.closes[i] : scenario.closes[i][d] \in Nat \ {0}
  BY PortfolioAssumption DEF PortfolioTypeOK
<1>2. StartOf(Chartable(booked), range) \in Int
  <2>1. Rows(Chartable(booked)) /\ range \in Nat
    BY RowsOfPart DEF Rows, PortfolioTypeOK, Chartable, Supported
  <2> QED BY <2>1, StartIs
<1>3. ASSUME NEW d \in Int PROVE DayPrices(d)[i] \in Nat
  <2>1. DayPrices(d)[i] = IF Seen(i, d) = {} THEN 0 ELSE scenario.closes[i][Max(Seen(i, d))]
    BY DEF DayPrices
  <2>2. Seen(i, d) \in SUBSET ((StartOf(Chartable(booked), range) - 1) .. d)
    BY <1>1, <1>2 DEF Seen
  <2>3. Seen(i, d) # {} => Max(Seen(i, d)) \in Seen(i, d)
    <3>1. StartOf(Chartable(booked), range) - 1 \in Int
      BY <1>2
    <3> QED BY <2>2, <3>1, LastDayIs
  <2>4. Seen(i, d) \subseteq DOMAIN scenario.closes[i]
    BY DEF Seen
  <2> QED BY <1>1, <2>1, <2>3, <2>4
<1>4. CurrentPrices[i] \in Nat
  <2>1. CurrentPrices[i] = IF i \in DOMAIN scenario.quote THEN scenario.quote[i] ELSE DayPrices(Today)[i]
    BY DEF CurrentPrices
  <2>2. Today \in Int
    BY PortfolioAssumption
  <2> QED BY <1>1, <1>3, <2>1, <2>2
<1> QED BY <1>3, <1>4

(* What holdings are worth is a number.                                    *)
LEMMA WorthIs ==
    ASSUME NEW l \in Ledgers, NEW S \in SUBSET Positions, NEW price,
           \A p \in S : price[Instrument(p)] \in Nat
    PROVE  Worth(l, S, price) \in Int
<1> DEFINE f == [p \in S |-> l[p].quantity * price[Instrument(p)]]
<1>1. \A p \in S : f[p] \in Int
  <2> SUFFICES ASSUME NEW p \in S PROVE l[p].quantity * price[Instrument(p)] \in Int
    OBVIOUS
  <2>1. l[p].quantity \in Nat
    BY DEF Ledgers
  <2> QED BY <2>1
<1>2. IsFiniteSet(S)
  BY PortfolioAssumption, FS_Subset
<1> HIDE DEF f
<1>3. Sum(f, S) \in Int
  BY <1>1, <1>2, SumIsNumber
<1> QED BY <1>3 DEF Worth, f

(* Who owns a position has a trade of it.                                  *)
LEMMA OwnedHas == ASSUME NEW S, NEW p \in Owned(S) PROVE p \in Positions /\ \E t \in S : t.position = p
<1>1. Net({}) = 0
  BY FS_EmptySet, SumStep DEF Net
<1>2. p \in Positions /\ Net(Of(S, p)) > 0
  BY DEF Owned
<1>3. Of(S, p) # {}
  BY <1>1, <1>2
<1> QED BY <1>2, <1>3 DEF Of

-------------------------------------------------------------------------------
(* The inductive invariant: what is booked is sound; the trades the chart  *)
(* has come past are the first of those that are available; its ledger is  *)
(* their replay; and there is a point for each day from the first to the   *)
(* one the chart has come to.                                              *)

UpToDay(T, day) == {t \in T : t.day <= day}

(* A point with its place in the chart.                                    *)
PointAt(pt, i, T, start, price) ==
    LET ledger == Replay(UpToDay(T, pt.day)) IN
      /\ pt.day = start + i - 1
      /\ pt.invested = Invested(ledger)
      /\ pt.value = Worth(ledger, Held(ledger), price)

InOrder ==
    /\ charted \subseteq Available(booked)
    /\ \A t \in charted, u \in Available(booked) : Before(u, t) => u \in charted

LedgerOfCharted == stage # "oversold" /\ holdings = Shadow(Replay(charted))

Unasked == stage = "booking" => charted = {} /\ points = <<>>

OnTheWay ==
    stage = "charting" =>
      /\ Available(booked) # {}
      /\ chartDay >= StartOf(Available(booked), range)
      /\ Len(points) = chartDay - StartOf(Available(booked), range)
      /\ \A t \in charted : t.day <= chartDay
      /\ points # <<>> => \A t \in Available(booked) : t.day < chartDay => t \in charted

Arrived ==
    stage = "answered" =>
      /\ charted = Available(booked)
      /\ IF charted = {} THEN points = <<>>
         ELSE /\ points # <<>> /\ points[Len(points)].day = Today
              /\ shown = SampledIndexes(Len(points), SampleLimit)

PointsHold ==
    \A i \in DOMAIN points :
      PointAt(points[i], i, Available(booked), StartOf(Available(booked), range),
              IF stage = "answered" /\ i = Len(points) THEN CurrentPrices
              ELSE DayPrices(points[i].day))

PortfolioInv ==
    /\ PortfolioTypeOK /\ AllSound(booked)
    /\ InOrder /\ LedgerOfCharted /\ Unasked /\ OnTheWay /\ Arrived /\ PointsHold

(* What the invariant says of the trades.                                  *)
LEMMA TradesAre ==
    ASSUME PortfolioInv
    PROVE  /\ Rows(booked) /\ AllSound(booked)
           /\ Supported(booked) \in SUBSET booked /\ Chartable(booked) \in SUBSET booked
           /\ Available(booked) \in SUBSET Chartable(booked)
           /\ Rows(Supported(booked)) /\ AllSound(Supported(booked))
           /\ Whole(Supported(booked), booked) /\ Whole(Chartable(booked), booked)
           /\ Rows(Chartable(booked))
           /\ Rows(Available(booked)) /\ AllSound(Available(booked))
           /\ Whole(Available(booked), Chartable(booked))
<1>1. Rows(booked) /\ AllSound(booked)
  BY DEF PortfolioInv, PortfolioTypeOK, Rows
<1>2. /\ Supported(booked) \in SUBSET booked /\ Chartable(booked) \in SUBSET booked
      /\ Available(booked) \in SUBSET Chartable(booked)
  BY DEF Supported, Chartable, Available
<1>3. /\ Whole(Supported(booked), booked) /\ Whole(Chartable(booked), booked)
      /\ Whole(Available(booked), Chartable(booked))
  BY DEF Whole, Supported, Chartable, Available
<1>4. /\ Rows(Supported(booked)) /\ AllSound(Supported(booked))
      /\ Rows(Chartable(booked)) /\ AllSound(Chartable(booked))
  BY <1>1, <1>2, <1>3, RowsOfPart, WholeIs
<1>5. Rows(Available(booked)) /\ AllSound(Available(booked))
  BY <1>2, <1>3, <1>4, RowsOfPart, WholeIs
<1> QED BY <1>1, <1>2, <1>3, <1>4, <1>5

(* And of those the chart has come past, and of its ledger.                *)
LEMMA ChartedAre ==
    ASSUME PortfolioInv
    PROVE  /\ Rows(charted) /\ AllSound(charted) /\ charted \in SUBSET Available(booked)
           /\ Replay(charted) \in Ledgers /\ holdings = Shadow(Replay(charted))
           /\ Held(holdings) = Owned(charted) /\ Held(Replay(charted)) = Owned(charted)
           /\ \A p \in Held(holdings) : p \in Positions /\ Instrument(p) \in DOMAIN scenario.closes
<1>1. charted \in SUBSET Available(booked)
  BY DEF PortfolioInv, InOrder
<1>2. Rows(charted) /\ AllSound(charted)
  BY <1>1, TradesAre, RowsOfPart, SoundBefore DEF PortfolioInv, InOrder
<1>3. Replay(charted) \in Ledgers /\ holdings = Shadow(Replay(charted))
  BY <1>2, ReplayTyped DEF PortfolioInv, LedgerOfCharted
<1>4. Held(holdings) = Owned(charted) /\ Held(Replay(charted)) = Owned(charted)
  BY <1>2, <1>3, OpenIsOwned, ShadowIs
<1>5. ASSUME NEW p \in Owned(charted)
      PROVE  p \in Positions /\ Instrument(p) \in DOMAIN scenario.closes
  <2>1. PICK t \in charted : t.position = p
    BY OwnedHas
  <2>2. t \in Available(booked)
    BY <1>1
  <2> QED BY <2>1, <2>2, OwnedHas DEF Available
<1> QED BY <1>1, <1>2, <1>3, <1>4, <1>5

(* A point that is made is that of the day.                                *)
LEMMA PointMade ==
    ASSUME PortfolioInv, NEW day \in Int, charted = UpToDay(Available(booked), day),
           NEW price, \A i \in DOMAIN scenario.closes : price[i] \in Nat
    PROVE  /\ Point(day, price) \in [day : Int, invested : Int, value : Int]
           /\ Point(day, price).day = day
           /\ \A i, start : day = start + i - 1 =>
                PointAt(Point(day, price), i, Available(booked), start, price)
<1> DEFINE l == Replay(charted)
           S == Held(holdings)
<1>1. /\ l \in Ledgers /\ holdings = Shadow(l) /\ Held(l) = S
      /\ \A p \in S : p \in Positions /\ price[Instrument(p)] \in Nat
  BY ChartedAre
<1>2. S \in SUBSET Positions
  BY DEF Held
<1> HIDE DEF S, l
<1>3. Invested(holdings) = Invested(l) /\ Worth(holdings, S, price) = Worth(l, S, price)
  BY <1>1, <1>2, ShadowIs
<1>4. Invested(l) \in Int /\ Worth(l, S, price) \in Int
  BY <1>1, <1>2, TotalsAre, WorthIs
<1>5. Point(day, price) = [day |-> day, invested |-> Invested(l), value |-> Worth(l, Held(l), price)]
  BY <1>1, <1>3 DEF Point, S
<1>6. Replay(UpToDay(Available(booked), Point(day, price).day)) = l
  BY <1>5 DEF l
<1> QED BY <1>1, <1>4, <1>5, <1>6 DEF PointAt

(* Prices and trades of a chart stay as they are.                          *)
LEMMA ChartStays ==
    ASSUME UNCHANGED <<booked, scenario, range>>
    PROVE  /\ Chartable(booked)' = Chartable(booked) /\ Available(booked)' = Available(booked)
           /\ \A T : StartOf(T, range)' = StartOf(T, range)
           /\ \A d : DayPrices(d)' = DayPrices(d)
           /\ CurrentPrices' = CurrentPrices
<1>1. Chartable(booked)' = Chartable(booked) /\ Available(booked)' = Available(booked)
  BY DEF Supported, Chartable, Available
<1>2. \A T : StartOf(T, range)' = StartOf(T, range)
  BY DEF StartOf
<1>3. \A i, d : Seen(i, d)' = Seen(i, d)
  BY <1>1, <1>2 DEF Seen
<1>4. \A d : DayPrices(d)' = DayPrices(d)
  BY <1>3 DEF DayPrices
<1>5. CurrentPrices' = CurrentPrices
  BY <1>4 DEF CurrentPrices
<1> QED BY <1>1, <1>2, <1>4, <1>5

-------------------------------------------------------------------------------
(* Each action keeps it. *)

(* It holds at the beginning.                                              *)
LEMMA PortfolioInvStarts == PortfolioInit => PortfolioInv
<1> SUFFICES ASSUME PortfolioInit PROVE PortfolioInv
  OBVIOUS
<1>1. booked = {} /\ charted = {} /\ points = <<>> /\ stage = "booking"
  BY DEF PortfolioInit
<1>2. PortfolioTypeOK
  <2>1. NoHoldings \in [Positions -> [quantity : Int, basis : Int]]
    BY DEF NoHoldings
  <2>2. <<>> \in Seq([day : Int, invested : Int, value : Int])
    OBVIOUS
  <2>3. IsFiniteSet({}) /\ 0 \in 0 .. Today + 1
    BY FS_EmptySet, PortfolioAssumption
  <2> QED BY <2>1, <2>2, <2>3 DEF PortfolioInit, PortfolioTypeOK
<1>3. AllSound(booked)
  BY <1>1 DEF AllSound, Sound, Of
<1>4. LedgerOfCharted
  <2>1. Replay({}) = Empty
    BY FS_EmptySet, ReplayStep DEF Rows
  <2>2. \A p \in Positions : Empty[p].quantity = 0 /\ Empty[p].basis = 0
    BY DEF Empty
  <2>3. Shadow(Empty) = NoHoldings
    BY <2>2 DEF Shadow, NoHoldings
  <2> QED BY <1>1, <2>1, <2>3 DEF LedgerOfCharted, PortfolioInit
<1>5. InOrder /\ Unasked /\ OnTheWay /\ Arrived /\ PointsHold
  BY <1>1 DEF InOrder, Unasked, OnTheWay, Arrived, PointsHold
<1> QED BY <1>2, <1>3, <1>4, <1>5 DEF PortfolioInv

(* While trades are booked nothing is charted.                             *)
LEMMA BookingStays ==
    ASSUME PortfolioInv, stage = "booking", UNCHANGED <<scenario, chartVars>>,
           AllSound(booked)', PortfolioTypeOK'
    PROVE  PortfolioInv'
<1>1. charted' = {} /\ points' = <<>> /\ stage' = "booking"
  BY DEF PortfolioInv, Unasked, chartVars
<1>2. LedgerOfCharted'
  BY DEF PortfolioInv, LedgerOfCharted, chartVars
<1>3. InOrder' /\ Unasked' /\ OnTheWay' /\ Arrived' /\ PointsHold'
  BY <1>1 DEF InOrder, Unasked, OnTheWay, Arrived, PointsHold
<1> QED BY <1>2, <1>3 DEF PortfolioInv

(* CreateInvestmentTrade *)
LEMMA BookKeeps ==
    ASSUME PortfolioInv, NEW p \in Positions, NEW side \in {"buy", "sell"},
           NEW quantity \in Quantities, NEW day \in TradeDays, Book(p, side, quantity, day)
    PROVE  PortfolioInv'
<1> DEFINE trade == [id |-> nextTrade, position |-> p, side |-> side,
                     quantity |-> quantity, day |-> day]
           all == booked \cup {trade}
<1>1. /\ stage = "booking" /\ UNCHANGED <<scenario, chartVars>>
      /\ booked' = all /\ nextTrade' = nextTrade + 1
      /\ side = "sell" => Sound(Of(all, p))
  BY DEF Book
<1>2. /\ trade \in Trade /\ trade.id = nextTrade /\ trade.position = p /\ trade.side = side
      /\ nextTrade \in Nat /\ \A t \in booked : t \in Trade /\ t.id \in Nat /\ t.id < nextTrade
  BY RowIs DEF PortfolioInv, PortfolioTypeOK, Trade
<1>3. trade \notin booked
  BY <1>2
<1>4. Rows(booked) /\ AllSound(booked)
  BY TradesAre
<1> HIDE DEF trade
<1>5. Rows(all)
  <2>1. IsFiniteSet(all)
    BY <1>4, FS_AddElement DEF Rows
  <2>2. \A t, u \in all : t.id = u.id => t = u
    BY <1>2, <1>4 DEF Rows
  <2> QED BY <1>2, <1>4, <2>1, <2>2 DEF Rows
<1>6. AllSound(all)
  <2> SUFFICES ASSUME NEW q \in Positions PROVE Sound(Of(all, q))
    BY DEF AllSound
  <2>1. Sound(Of(booked, q))
    BY <1>4 DEF AllSound
  <2>2. CASE q # p
    <3>1. Of(all, q) = Of(booked, q)
      BY <1>2, <2>2 DEF Of
    <3> QED BY <2>1, <3>1
  <2>3. CASE q = p /\ side = "sell"
    BY <1>1, <2>3
  <2>4. CASE q = p /\ side = "buy"
    <3>1. Of(all, p) = Of(booked, p) \cup {trade} /\ trade \notin Of(booked, p)
      BY <1>2, <1>3 DEF Of
    <3>2. Rows(Of(booked, p) \cup {trade})
      BY <1>5, <3>1, RowsOfPart DEF Of
    <3>3. Sound(Of(booked, p) \cup {trade})
      BY <1>2, <2>1, <2>4, <3>1, <3>2, SoundWithBuy
    <3> QED BY <2>4, <3>1, <3>3
  <2> QED BY <2>2, <2>3, <2>4
<1>7. PortfolioTypeOK'
  <2>1. booked' \subseteq Trade /\ IsFiniteSet(booked') /\ \A t, u \in booked' : t.id = u.id => t = u
    BY <1>1, <1>5 DEF Rows
  <2>2. nextTrade' \in Nat /\ \A t \in booked' : t.id < nextTrade'
    BY <1>1, <1>2
  <2>3. charted' \subseteq booked'
    BY <1>1 DEF PortfolioInv, PortfolioTypeOK, chartVars
  <2> QED BY <1>1, <2>1, <2>2, <2>3 DEF PortfolioInv, PortfolioTypeOK, chartVars
<1>8. AllSound(booked)'
  BY <1>1, <1>6
<1> QED BY <1>1, <1>7, <1>8, BookingStays

(* DeleteInvestmentTrade *)
LEMMA RemoveKeeps ==
    ASSUME PortfolioInv, NEW t \in booked, Remove(t)
    PROVE  PortfolioInv'
<1> DEFINE rest == booked \ {t}
<1>1. /\ stage = "booking" /\ Sound(Of(rest, t.position))
      /\ booked' = rest /\ UNCHANGED <<nextTrade, scenario, chartVars>>
  BY DEF Remove
<1>2. Rows(booked) /\ AllSound(booked)
  BY TradesAre
<1>3. Rows(rest)
  BY <1>2, RowsOfPart
<1>4. AllSound(rest)
  <2> SUFFICES ASSUME NEW q \in Positions PROVE Sound(Of(rest, q))
    BY DEF AllSound
  <2>1. q # t.position => Of(rest, q) = Of(booked, q)
    BY DEF Of
  <2> QED BY <1>1, <1>2, <2>1 DEF AllSound
<1>5. PortfolioTypeOK'
  <2>1. charted' = {}
    BY <1>1 DEF PortfolioInv, Unasked, chartVars
  <2>2. booked' \subseteq Trade /\ IsFiniteSet(booked') /\ \A a, b \in booked' : a.id = b.id => a = b
    BY <1>1, <1>3 DEF Rows
  <2>3. \A a \in booked' : a.id < nextTrade'
    BY <1>1 DEF PortfolioInv, PortfolioTypeOK
  <2> QED BY <1>1, <2>1, <2>2, <2>3 DEF PortfolioInv, PortfolioTypeOK, chartVars
<1>6. AllSound(booked)'
  BY <1>1, <1>4
<1> QED BY <1>1, <1>5, <1>6, BookingStays

(* A chart is asked for.                                                   *)
LEMMA AskChartKeeps ==
    ASSUME PortfolioInv, NEW days \in ChartDays, AskChart(days)
    PROVE  PortfolioInv'
<1> DEFINE A == Available(booked)
<1>1. /\ stage = "booking" /\ range' = days /\ days \in Nat
      /\ UNCHANGED <<booked, nextTrade, scenario, charted, holdings, points, shown>>
      /\ \/ stage' = "incomplete" /\ chartDay' = chartDay
         \/ stage' = "answered" /\ chartDay' = chartDay /\ A = {}
         \/ stage' = "charting" /\ chartDay' = StartOf(A, days) /\ A # {}
  BY PortfolioAssumption DEF AskChart
<1>2. charted = {} /\ points = <<>>
  BY <1>1 DEF PortfolioInv, Unasked
<1>3. Available(booked)' = A
  BY <1>1 DEF Available, Chartable, Supported
<1>4. Rows(A)
  BY TradesAre
<1>5. A # {} => StartOf(A, days) \in 1 .. Today
  BY <1>1, <1>4, StartIs
<1> HIDE DEF A
<1>6. PortfolioTypeOK'
  <2>1. chartDay' \in 0 .. Today + 1
    BY <1>1, <1>5, PortfolioAssumption DEF PortfolioInv, PortfolioTypeOK
  <2>2. stage' \in {"booking", "charting", "answered", "incomplete", "oversold"}
    BY <1>1
  <2> QED BY <1>1, <2>1, <2>2 DEF PortfolioInv, PortfolioTypeOK
<1>7. AllSound(booked)'
  BY <1>1 DEF PortfolioInv
<1>8. InOrder' /\ Unasked' /\ PointsHold'
  BY <1>1, <1>2 DEF InOrder, Unasked, PointsHold
<1>9. LedgerOfCharted'
  BY <1>1 DEF PortfolioInv, LedgerOfCharted
<1>10. Arrived'
  BY <1>1, <1>2, <1>3 DEF Arrived
<1>11. OnTheWay'
  <2> SUFFICES ASSUME stage' = "charting" PROVE OnTheWay'
    BY DEF OnTheWay
  <2>1. chartDay' = StartOf(A, days) /\ A # {} /\ StartOf(A, days) \in Int
    BY <1>1, <1>5
  <2>2. points' = <<>> /\ Len(points') = 0 /\ charted' = {}
    BY <1>1, <1>2
  <2>3. StartOf(Available(booked), range)' = StartOf(A, days)
    BY <1>1, <1>3
  <2>4. chartDay' >= StartOf(A, days) /\ Len(points') = chartDay' - StartOf(A, days)
    BY <2>1, <2>2
  <2> QED BY <1>3, <2>1, <2>2, <2>3, <2>4 DEF OnTheWay
<1> QED BY <1>6, <1>7, <1>8, <1>9, <1>10, <1>11 DEF PortfolioInv

(* Points stay as they are until the chart is answered.                    *)
LEMMA PointsStay ==
    ASSUME PortfolioInv, UNCHANGED <<booked, scenario, range, points>>,
           stage # "answered", stage' # "answered"
    PROVE  PointsHold'
<1>1. ASSUME NEW i \in DOMAIN points
      PROVE  PointAt(points[i], i, Available(booked), StartOf(Available(booked), range),
                     DayPrices(points[i].day))
  BY DEF PortfolioInv, PointsHold
<1>2. /\ Available(booked)' = Available(booked)
      /\ StartOf(Available(booked), range)' = StartOf(Available(booked), range)
      /\ \A d : DayPrices(d)' = DayPrices(d)
      /\ points' = points
  <2>1. StartOf(Available(booked), range)' = StartOf(Available(booked)', range')
    BY DEF StartOf
  <2>2. StartOf(Available(booked)', range') = StartOf(Available(booked), range)
    BY ChartStays
  <2> QED BY <2>1, <2>2, ChartStays
<1> QED BY <1>1, <1>2 DEF PointsHold

(* The next trade is in the ledger of the chart.                           *)
LEMMA ChartTradeKeeps ==
    ASSUME PortfolioInv, ChartTrade
    PROVE  PortfolioInv'
<1> DEFINE A == Available(booked)
           next == Earliest(A \ charted)
           D == charted \cup {next}
<1>1. /\ stage = "charting" /\ A \ charted # {} /\ next.day <= chartDay
      /\ UNCHANGED <<booked, nextTrade, scenario, range, chartDay, points, shown>>
      /\ ~ Oversells(holdings, next) =>
           /\ holdings' = ApplyHistoryTrade(next, holdings)
           /\ charted' = D /\ stage' = stage
  BY DEF ChartTrade, Uncharted, Due
<1>2. /\ Rows(A) /\ AllSound(A) /\ charted \in SUBSET A
      /\ \A t \in charted, u \in A : Before(u, t) => u \in charted
      /\ holdings = Shadow(Replay(charted))
  BY TradesAre, ChartedAre DEF PortfolioInv, InOrder
<1>3. /\ next \in A \ charted /\ D \in SUBSET A
      /\ \A t \in D, u \in A : Before(u, t) => u \in D
      /\ ~ Oversells(holdings, next)
      /\ ApplyHistoryTrade(next, holdings) = Shadow(Replay(D))
  <2> HIDE DEF A
  <2> QED BY <1>1, <1>2, ChartedNext
<1>4. /\ Available(booked)' = A
      /\ StartOf(A, range)' = StartOf(A, range)
  BY <1>1, ChartStays DEF StartOf
<1>5. Rows(D) /\ A \in SUBSET booked
  BY <1>2, <1>3, RowsOfPart, TradesAre
<1> HIDE DEF A, next, D
<1>6. holdings' = Shadow(Replay(D)) /\ charted' = D /\ stage' = "charting"
  BY <1>1, <1>3
<1>7. PortfolioTypeOK'
  <2>1. holdings' \in [Positions -> [quantity : Int, basis : Int]]
    BY <1>5, <1>6, ReplayTyped, ShadowIs
  <2>2. charted' \subseteq booked'
    BY <1>1, <1>3, <1>5, <1>6
  <2> QED BY <1>1, <1>6, <2>1, <2>2 DEF PortfolioInv, PortfolioTypeOK
<1>8. AllSound(booked)'
  BY <1>1 DEF PortfolioInv
<1>9. InOrder'
  BY <1>3, <1>4, <1>6 DEF InOrder
<1>10. LedgerOfCharted' /\ Unasked' /\ Arrived'
  BY <1>6 DEF LedgerOfCharted, Unasked, Arrived
<1>11. OnTheWay'
  <2>1. /\ A # {} /\ chartDay >= StartOf(A, range) /\ Len(points) = chartDay - StartOf(A, range)
        /\ \A t \in charted : t.day <= chartDay
        /\ points # <<>> => \A t \in A : t.day < chartDay => t \in charted
    BY <1>1 DEF PortfolioInv, OnTheWay, A
  <2>2. \A t \in D : t.day <= chartDay
    BY <1>1, <2>1 DEF D
  <2>3. \A t \in charted : t \in D
    BY DEF D
  <2>4. StartOf(Available(booked), range)' = StartOf(A, range)
    BY <1>1, <1>4 DEF StartOf
  <2> QED BY <1>1, <1>4, <1>6, <2>1, <2>2, <2>3, <2>4 DEF OnTheWay
<1>12. PointsHold'
  BY <1>1, <1>6, PointsStay
<1> QED BY <1>7, <1>8, <1>9, <1>10, <1>11, <1>12 DEF PortfolioInv

(* On a day of the chart no trade is due: its trades are those up to it.   *)
LEMMA UpToNow ==
    ASSUME PortfolioInv, stage = "charting", ~ Due
    PROVE  /\ charted = UpToDay(Available(booked), chartDay) /\ charted # {}
           /\ StartOf(Available(booked), range) \in 1 .. Today /\ chartDay \in Int
           /\ Len(points) = chartDay - StartOf(Available(booked), range)
<1> DEFINE A == Available(booked)
<1>1. /\ A # {} /\ chartDay >= StartOf(A, range) /\ Len(points) = chartDay - StartOf(A, range)
      /\ \A t \in charted : t.day <= chartDay
  BY DEF PortfolioInv, OnTheWay
<1>2. Rows(A) /\ charted \in SUBSET A
  BY TradesAre, ChartedAre
<1>3. chartDay \in Int /\ range \in Nat
  BY PortfolioAssumption DEF PortfolioInv, PortfolioTypeOK
<1>4. StartOf(A, range) \in 1 .. Today /\ Earliest(A) \in A /\ Earliest(A).day <= StartOf(A, range)
  BY <1>1, <1>2, <1>3, StartIs
<1>5. ASSUME NEW u \in A, u.day <= chartDay PROVE u \in charted
  <2> SUFFICES ASSUME u \notin charted PROVE FALSE
    OBVIOUS
  <2> DEFINE next == Earliest(A \ charted)
  <2>1. u \in A \ charted /\ next \in A \ charted /\ \A v \in (A \ charted) \ {next} : Before(next, v)
    <3>1. Rows(A \ charted) /\ u \in A \ charted
      BY <1>2, RowsOfPart
    <3> HIDE DEF A
    <3> QED BY <3>1, EarliestIs
  <2>2. ~ (next.day <= chartDay)
    BY <2>1 DEF Due, Uncharted
  <2> HIDE DEF next
  <2>3. next.day \in Int /\ u.day \in Int /\ next.day <= u.day
    <3>1. next.day \in Int /\ u.day \in Int
      BY <1>2, <2>1, RowIs DEF Rows
    <3>2. next = u \/ Before(next, u)
      BY <2>1
    <3> QED BY <3>1, <3>2 DEF Before
  <2> QED BY <1>3, <1>5, <2>2, <2>3
<1>6. charted = UpToDay(A, chartDay)
  BY <1>1, <1>2, <1>5 DEF UpToDay
<1>7. Earliest(A) \in charted
  <2>1. Earliest(A).day \in Int
    BY <1>2, <1>4, RowIs DEF Rows
  <2> HIDE DEF A
  <2>2. Earliest(A).day <= chartDay
    BY <1>1, <1>3, <1>4, <2>1
  <2> QED BY <1>4, <1>5, <2>2
<1> QED BY <1>1, <1>3, <1>4, <1>6, <1>7

(* A chart that cannot be had is given up as it is.                        *)
LEMMA GivingUpKeeps ==
    ASSUME PortfolioInv, stage = "charting", stage' = "incomplete",
           UNCHANGED <<booked, nextTrade, scenario, range, chartDay, charted, holdings, points, shown>>
    PROVE  PortfolioInv'
<1>1. PortfolioTypeOK' /\ AllSound(booked)'
  BY DEF PortfolioInv, PortfolioTypeOK
<1>2. Available(booked)' = Available(booked)
  BY ChartStays
<1>3. InOrder'
  BY <1>2 DEF PortfolioInv, InOrder
<1>4. LedgerOfCharted' /\ Unasked' /\ OnTheWay' /\ Arrived'
  BY DEF PortfolioInv, LedgerOfCharted, Unasked, OnTheWay, Arrived
<1>5. PointsHold'
  BY PointsStay
<1> QED BY <1>1, <1>3, <1>4, <1>5 DEF PortfolioInv

(* The prices of a day, when there is something to price.                  *)
LEMMA ChartPrices ==
    ASSUME PortfolioInv, Available(booked) # {}
    PROVE  \A i \in DOMAIN scenario.closes :
             (\A d \in Int : DayPrices(d)[i] \in Nat) /\ CurrentPrices[i] \in Nat
<1>1. PortfolioTypeOK /\ Chartable(booked) # {}
  BY TradesAre DEF PortfolioInv
<1> QED BY <1>1, PricesAre

(* What is appended comes last.                                            *)
LEMMA AppendIs ==
    ASSUME NEW R, NEW s \in Seq(R), NEW e \in R
    PROVE  /\ Append(s, e) \in Seq(R) /\ Append(s, e) # <<>>
           /\ Len(Append(s, e)) = Len(s) + 1 /\ Append(s, e)[Len(s) + 1] = e
           /\ \A i \in DOMAIN Append(s, e) :
                (i \in DOMAIN s /\ Append(s, e)[i] = s[i]) \/ i = Len(s) + 1
<1>1. Append(s, e) \in Seq(R) /\ Len(Append(s, e)) = Len(s) + 1 /\ Len(s) \in Nat
  OBVIOUS
<1>2. DOMAIN Append(s, e) = 1 .. Len(s) + 1 /\ DOMAIN s = 1 .. Len(s)
  BY <1>1
<1>3. Append(s, e)[Len(s) + 1] = e /\ \A i \in 1 .. Len(s) : Append(s, e)[i] = s[i]
  OBVIOUS
<1>4. Append(s, e) # <<>>
  BY <1>1
<1> QED BY <1>1, <1>2, <1>3, <1>4

(* A day of the chart, with the point of it.                               *)
LEMMA ChartThisDayKeeps ==
    ASSUME PortfolioInv, ChartThisDay
    PROVE  PortfolioInv'
<1> DEFINE A == Available(booked)
           start == StartOf(A, range)
           pt == Point(chartDay, DayPrices(chartDay))
<1>1. /\ stage = "charting" /\ chartDay <= Today /\ ~ Due
      /\ UNCHANGED <<booked, nextTrade, scenario, range, charted, holdings, shown>>
  BY DEF ChartThisDay
<1>2. /\ charted = UpToDay(A, chartDay) /\ charted # {} /\ start \in 1 .. Today
      /\ chartDay \in Int /\ Len(points) = chartDay - start
  BY <1>1, UpToNow
<1>3. \/ stage' = "incomplete" /\ UNCHANGED <<chartDay, points>>
      \/ points' = Append(points, pt) /\ chartDay' = chartDay + 1 /\ stage' = stage
  BY <1>2 DEF ChartThisDay
<1>4. CASE stage' = "incomplete" /\ UNCHANGED <<chartDay, points>>
  BY <1>1, <1>4, GivingUpKeeps
<1>5. CASE points' = Append(points, pt) /\ chartDay' = chartDay + 1 /\ stage' = stage
  <2>1. charted \in SUBSET A /\ A # {} /\ Rows(A)
    BY <1>2, TradesAre, ChartedAre
  <2>2. /\ pt \in [day : Int, invested : Int, value : Int] /\ pt.day = chartDay
        /\ \A i, s : chartDay = s + i - 1 => PointAt(pt, i, A, s, DayPrices(chartDay))
    <3>1. \A i \in DOMAIN scenario.closes : DayPrices(chartDay)[i] \in Nat
      BY <1>2, <2>1, ChartPrices
    <3> QED BY <1>2, <3>1, PointMade
  <2>3. points \in Seq([day : Int, invested : Int, value : Int]) /\ start \in Int
    BY <1>2 DEF PortfolioInv, PortfolioTypeOK
  <2>4. /\ A' = A /\ start' = start /\ \A d : DayPrices(d)' = DayPrices(d)
    <3>1. start' = StartOf(A', range')
      BY DEF StartOf
    <3>2. StartOf(A', range') = start
      BY <1>1, ChartStays
    <3> QED BY <1>1, <3>1, <3>2, ChartStays
  <2>5. \A i \in DOMAIN points : PointAt(points[i], i, A, start, DayPrices(points[i].day))
    BY <1>1 DEF PortfolioInv, PointsHold
  <2> HIDE DEF A, start, pt
  <2>6. /\ points' \in Seq([day : Int, invested : Int, value : Int])
        /\ Len(points') = Len(points) + 1 /\ points' # <<>>
        /\ \A i \in DOMAIN points' :
             \/ i \in DOMAIN points /\ points'[i] = points[i]
             \/ i = Len(points) + 1 /\ points'[i] = pt
    <3> DEFINE R == [day : Int, invested : Int, value : Int]
    <3>1. points \in Seq(R) /\ pt \in R
      BY <2>2, <2>3
    <3> HIDE DEF R
    <3>2. /\ points' \in Seq(R) /\ points' # <<>>
          /\ Len(points') = Len(points) + 1 /\ points'[Len(points) + 1] = pt
          /\ \A i \in DOMAIN points' :
               (i \in DOMAIN points /\ points'[i] = points[i]) \/ i = Len(points) + 1
      BY <1>5, <3>1, AppendIs
    <3> QED BY <3>2 DEF R
  <2>7. PortfolioTypeOK'
    <3>1. chartDay' \in 0 .. Today + 1
      BY <1>1, <1>2, <1>5, PortfolioAssumption DEF PortfolioInv, PortfolioTypeOK
    <3> QED BY <1>1, <1>5, <2>6, <3>1 DEF PortfolioInv, PortfolioTypeOK
  <2>8. AllSound(booked)' /\ LedgerOfCharted' /\ Unasked' /\ Arrived'
    BY <1>1, <1>5 DEF PortfolioInv, LedgerOfCharted, Unasked, Arrived
  <2>9. InOrder'
    BY <1>1, <2>4 DEF PortfolioInv, InOrder, A
  <2>10. OnTheWay'
    <3>1. Len(points') = chartDay' - start /\ chartDay' >= start
      <4>1. Len(points) \in Nat
        BY <2>3
      <4> QED BY <1>2, <1>5, <2>3, <2>6, <4>1
    <3>2. \A t \in A : t.day \in Int
      BY <2>1, RowIs DEF Rows
    <3>3. \A t \in charted : t.day <= chartDay'
      BY <1>2, <1>5, <2>1, <3>2 DEF UpToDay
    <3>4. \A t \in A : t.day < chartDay' => t \in charted
      BY <1>2, <1>5, <3>2 DEF UpToDay
    <3>5. Available(booked)' = A /\ StartOf(Available(booked), range)' = start
      BY <2>4 DEF A, start
    <3> QED BY <1>1, <2>1, <3>1, <3>3, <3>4, <3>5 DEF OnTheWay
  <2>11. PointsHold'
    <3>1. ASSUME NEW i \in DOMAIN points'
          PROVE  PointAt(points'[i], i, A, start, DayPrices(points'[i].day))
      <4>1. CASE i \in DOMAIN points /\ points'[i] = points[i]
        BY <2>5, <4>1
      <4>2. CASE i = Len(points) + 1 /\ points'[i] = pt
        <5>1. chartDay = start + i - 1
          BY <1>2, <2>3, <4>2
        <5> QED BY <2>2, <4>2, <5>1
      <4> QED BY <2>6, <4>1, <4>2
    <3>2. stage' # "answered"
      BY <1>1, <1>5
    <3>3. Available(booked)' = A /\ StartOf(Available(booked), range)' = start
      BY <2>4 DEF A, start
    <3> QED BY <2>4, <3>1, <3>2, <3>3 DEF PointsHold
  <2> QED BY <2>7, <2>8, <2>9, <2>10, <2>11 DEF PortfolioInv
<1> QED BY <1>3, <1>4, <1>5

(* The chart is answered with the prices of now.                           *)
LEMMA AnswerChartKeeps ==
    ASSUME PortfolioInv, AnswerChart
    PROVE  PortfolioInv'
<1> DEFINE A == Available(booked)
           start == StartOf(A, range)
           pt == Point(Today, CurrentPrices)
<1>1. /\ stage = "charting" /\ chartDay > Today
      /\ UNCHANGED <<booked, nextTrade, scenario, range, chartDay, charted, holdings>>
      /\ \/ stage' = "incomplete" /\ UNCHANGED <<points, shown>>
         \/ /\ points' = Append(BeforeToday, pt) /\ stage' = "answered"
            /\ shown' = SampledIndexes(Len(points'), SampleLimit)
  BY DEF AnswerChart
<1>2. CASE stage' = "incomplete" /\ UNCHANGED <<points, shown>>
  BY <1>1, <1>2, GivingUpKeeps
<1>3. CASE /\ points' = Append(BeforeToday, pt) /\ stage' = "answered"
           /\ shown' = SampledIndexes(Len(points'), SampleLimit)
  <2>1. Rows(A) /\ charted \in SUBSET A /\ \A t \in A : t.day \in Int /\ t.day <= Today
    <3>1. Rows(A) /\ charted \in SUBSET A
      BY TradesAre, ChartedAre
    <3> QED BY <3>1, RowIs DEF Rows
  <2>2. A # {} /\ chartDay = Today + 1 /\ start \in 1 .. Today /\ Len(points) = Today + 1 - start
    <3>1. A # {} /\ chartDay >= start /\ Len(points) = chartDay - start
      BY <1>1 DEF PortfolioInv, OnTheWay
    <3>2. chartDay = Today + 1 /\ range \in Nat
      BY <1>1, PortfolioAssumption DEF PortfolioInv, PortfolioTypeOK
    <3>3. start \in 1 .. Today
      <4> HIDE DEF A
      <4> QED BY <2>1, <3>1, <3>2, StartIs
    <3> HIDE DEF A, start
    <3>4. Today \in Int /\ start \in Int
      BY <3>3, PortfolioAssumption
    <3>5. Len(points) = Today + 1 - start
      BY <3>1, <3>2, <3>4
    <3> QED BY <3>1, <3>2, <3>3, <3>5
  <2>3. points \in Seq([day : Int, invested : Int, value : Int]) /\ Today \in Nat
    BY PortfolioAssumption DEF PortfolioInv, PortfolioTypeOK
  <2>4. charted = A /\ charted = UpToDay(A, Today)
    <3>1. points # <<>>
      <4>1. start \in Int /\ start <= Today /\ Len(points) > 0
        BY <2>2, <2>3
      <4> QED BY <4>1
    <3>2. \A t \in A : t.day < chartDay => t \in charted
      BY <1>1, <3>1 DEF PortfolioInv, OnTheWay
    <3>3. \A t \in A : t \in charted
      BY <2>1, <2>2, <2>3, <3>2
    <3> HIDE DEF A
    <3> QED BY <2>1, <3>3 DEF UpToDay
  <2>5. /\ pt \in [day : Int, invested : Int, value : Int] /\ pt.day = Today
        /\ \A i, s : Today = s + i - 1 => PointAt(pt, i, A, s, CurrentPrices)
    <3>1. \A i \in DOMAIN scenario.closes : CurrentPrices[i] \in Nat
      BY <2>2, ChartPrices
    <3>2. Today \in Int
      BY <2>3
    <3>3. charted = UpToDay(Available(booked), Today)
      BY <2>4
    <3> QED BY <3>1, <3>2, <3>3, PointMade
  <2>6. A' = A /\ start' = start /\ (\A d : DayPrices(d)' = DayPrices(d)) /\ CurrentPrices' = CurrentPrices
    <3>1. start' = StartOf(A', range')
      BY DEF StartOf
    <3>2. StartOf(A', range') = start
      BY <1>1, ChartStays
    <3> QED BY <1>1, <3>1, <3>2, ChartStays
  <2>7. \A i \in DOMAIN points : PointAt(points[i], i, A, start, DayPrices(points[i].day))
    BY <1>1 DEF PortfolioInv, PointsHold
  <2> HIDE DEF A, start, pt
  <2> DEFINE n == Len(points)
  <2>8. n \in Nat \ {0} /\ n \in DOMAIN points /\ DOMAIN points = 1 .. n /\ points # <<>>
    <3>1. n \in Nat /\ DOMAIN points = 1 .. n
      BY <2>3
    <3>2. n > 0
      BY <2>2, <2>3
    <3> QED BY <3>1, <3>2
  <2>9. BeforeToday = SubSeq(points, 1, n - 1)
    <3>1. points[n].day = start + n - 1
      BY <2>7, <2>8 DEF PointAt
    <3>2. points[n].day = Today
      BY <2>2, <2>3, <2>8, <3>1
    <3> QED BY <2>8, <3>2 DEF BeforeToday
  <2>10. /\ points' \in Seq([day : Int, invested : Int, value : Int])
         /\ Len(points') = n /\ points' # <<>> /\ points'[n] = pt
         /\ \A i \in DOMAIN points' : i # n => i \in DOMAIN points /\ points'[i] = points[i]
    <3> DEFINE before == SubSeq(points, 1, n - 1)
    <3>1. /\ before \in Seq([day : Int, invested : Int, value : Int]) /\ Len(before) = n - 1
          /\ \A i \in DOMAIN before : i \in DOMAIN points /\ before[i] = points[i]
      <4> DEFINE R == [day : Int, invested : Int, value : Int]
      <4>1. points \in Seq(R)
        BY <2>3
      <4> HIDE DEF R
      <4>2. before \in Seq(R) /\ Len(before) = n - 1
        BY <2>8, <4>1
      <4>3. \A i \in 1 .. n - 1 : before[i] = points[i]
        BY <2>8, <4>1
      <4>4. DOMAIN before = 1 .. n - 1
        BY <4>2
      <4> HIDE DEF before, n
      <4>5. \A i \in 1 .. n - 1 : i \in 1 .. n
        BY <2>8
      <4> QED BY <2>8, <4>2, <4>3, <4>4, <4>5 DEF R
    <3>2. points' = Append(before, pt)
      BY <1>3, <2>9
    <3>3. /\ points' \in Seq([day : Int, invested : Int, value : Int]) /\ points' # <<>>
          /\ Len(points') = Len(before) + 1 /\ points'[Len(before) + 1] = pt
          /\ \A i \in DOMAIN points' :
               (i \in DOMAIN before /\ points'[i] = before[i]) \/ i = Len(before) + 1
      <4> DEFINE R == [day : Int, invested : Int, value : Int]
      <4>1. before \in Seq(R) /\ pt \in R
        BY <2>5, <3>1
      <4> HIDE DEF R, before
      <4>2. /\ points' \in Seq(R) /\ points' # <<>>
            /\ Len(points') = Len(before) + 1 /\ points'[Len(before) + 1] = pt
            /\ \A i \in DOMAIN points' :
                 (i \in DOMAIN before /\ points'[i] = before[i]) \/ i = Len(before) + 1
        BY <3>2, <4>1, AppendIs
      <4> QED BY <4>2 DEF R
    <3> HIDE DEF before, n
    <3>4. Len(before) + 1 = n
      BY <2>8, <3>1
    <3> QED BY <3>1, <3>3, <3>4
  <2>11. PortfolioTypeOK'
    BY <1>1, <1>3, <2>10 DEF PortfolioInv, PortfolioTypeOK
  <2>12. AllSound(booked)' /\ LedgerOfCharted' /\ Unasked' /\ OnTheWay'
    BY <1>1, <1>3 DEF PortfolioInv, LedgerOfCharted, Unasked, OnTheWay
  <2>13. InOrder'
    BY <1>1, <2>6 DEF PortfolioInv, InOrder, A
  <2>14. Arrived'
    <3>1. Available(booked)' = charted' /\ charted' # {}
      BY <1>1, <2>2, <2>4, <2>6 DEF A
    <3>2. points'[Len(points')].day = Today
      BY <2>5, <2>10
    <3> QED BY <1>3, <2>10, <3>1, <3>2 DEF Arrived
  <2>15. PointsHold'
    <3>1. ASSUME NEW i \in DOMAIN points'
          PROVE  PointAt(points'[i], i, A, start,
                         IF i = n THEN CurrentPrices ELSE DayPrices(points'[i].day))
      <4>1. CASE i # n
        BY <2>7, <2>10, <4>1
      <4>2. CASE i = n
        <5>1. Today = start + n - 1
          BY <2>2, <2>3, <2>8
        <5> QED BY <2>5, <2>10, <4>2, <5>1
      <4> QED BY <4>1, <4>2
    <3>2. Available(booked)' = A /\ StartOf(Available(booked), range)' = start
      BY <2>6 DEF A, start
    <3> QED BY <1>3, <2>6, <2>10, <3>1, <3>2 DEF PointsHold
  <2> QED BY <2>11, <2>12, <2>13, <2>14, <2>15 DEF PortfolioInv
<1> QED BY <1>1, <1>2, <1>3

(* Every step keeps it.                                                    *)
LEMMA PortfolioInvStays == PortfolioInv /\ [PortfolioNext]_portfolioVars => PortfolioInv'
<1> SUFFICES ASSUME PortfolioInv, [PortfolioNext]_portfolioVars PROVE PortfolioInv'
  OBVIOUS
<1>1. ASSUME NEW p \in Positions, NEW side \in {"buy", "sell"}, NEW quantity \in Quantities,
             NEW day \in TradeDays, Book(p, side, quantity, day)
      PROVE  PortfolioInv'
  BY <1>1, BookKeeps
<1>2. ASSUME NEW t \in booked, Remove(t) PROVE PortfolioInv'
  BY <1>2, RemoveKeeps
<1>3. ASSUME NEW days \in ChartDays, AskChart(days) PROVE PortfolioInv'
  BY <1>3, AskChartKeeps
<1>4. CASE ChartTrade
  BY <1>4, ChartTradeKeeps
<1>5. CASE ChartThisDay
  BY <1>5, ChartThisDayKeeps
<1>6. CASE AnswerChart
  BY <1>6, AnswerChartKeeps
<1>7. CASE UNCHANGED portfolioVars
  <2>1. UNCHANGED <<booked, nextTrade, scenario, stage, range, chartDay, charted, holdings,
                    points, shown>>
    BY <1>7 DEF portfolioVars, chartVars
  <2>2. PortfolioTypeOK' /\ AllSound(booked)'
    BY <2>1 DEF PortfolioInv, PortfolioTypeOK
  <2>3. /\ Available(booked)' = Available(booked) /\ CurrentPrices' = CurrentPrices
        /\ StartOf(Available(booked), range)' = StartOf(Available(booked), range)
        /\ \A d : DayPrices(d)' = DayPrices(d)
    <3>1. StartOf(Available(booked), range)' = StartOf(Available(booked)', range')
      BY DEF StartOf
    <3>2. StartOf(Available(booked)', range') = StartOf(Available(booked), range)
      BY <2>1, ChartStays
    <3> QED BY <2>1, <3>1, <3>2, ChartStays
  <2>4. InOrder'
    BY <2>1, <2>3 DEF PortfolioInv, InOrder
  <2>5. LedgerOfCharted' /\ Unasked'
    BY <2>1 DEF PortfolioInv, LedgerOfCharted, Unasked
  <2>6. OnTheWay'
    BY <2>1, <2>3 DEF PortfolioInv, OnTheWay
  <2>7. Arrived'
    BY <2>1, <2>3 DEF PortfolioInv, Arrived
  <2>8. PointsHold'
    BY <2>1, <2>3 DEF PortfolioInv, PointsHold
  <2> QED BY <2>2, <2>4, <2>5, <2>6, <2>7, <2>8 DEF PortfolioInv
<1> QED BY <1>1, <1>2, <1>3, <1>4, <1>5, <1>6, <1>7 DEF PortfolioNext

-------------------------------------------------------------------------------
(* What it says of the portfolio and its chart *)

(* The positions of a portfolio that have a price.                         *)
PricedOf(T) == {p \in Held(Replay(Supported(T))) :
                  Instrument(p) \in OpenAssets(Supported(T)) \cap DOMAIN scenario.quote}

(* The parts of a portfolio.                                               *)
LEMMA PortfolioIs ==
    ASSUME NEW T
    PROVE  /\ Portfolio(T).unsupported = Cardinality(OpenHoldings(T \ Supported(T)))
           /\ Portfolio(T).missing = Cardinality(Held(Replay(Supported(T))) \ PricedOf(T))
           /\ Portfolio(T).priced = Cardinality(PricedOf(T))
           /\ Portfolio(T).invested = Invested(Replay(Supported(T)))
           /\ Portfolio(T).realized = Realized(Replay(Supported(T)))
           /\ Portfolio(T).value = Worth(Replay(Supported(T)), PricedOf(T), scenario.quote)
BY DEF Portfolio, PricedOf, Realized

(* Open positions are finite; some of them have a price.                   *)
LEMMA OpenAre ==
    ASSUME NEW T
    PROVE  /\ IsFiniteSet(Owned(T)) /\ IsFiniteSet(Held(Replay(Supported(T))))
           /\ IsFiniteSet(PricedOf(T)) /\ PricedOf(T) \in SUBSET Held(Replay(Supported(T)))
           /\ Cardinality(Held(Replay(Supported(T))))
                = Cardinality(PricedOf(T)) + Cardinality(Held(Replay(Supported(T))) \ PricedOf(T))
<1> DEFINE O == Held(Replay(Supported(T)))
           P == PricedOf(T)
<1>1. O \in SUBSET Positions /\ Owned(T) \in SUBSET Positions /\ P \in SUBSET O
  BY DEF Held, Owned, PricedOf
<1> HIDE DEF O, P
<1>2. IsFiniteSet(Owned(T)) /\ IsFiniteSet(O) /\ IsFiniteSet(P)
  BY <1>1, FS_Subset, PortfolioAssumption
<1>3. O \cap P = P
  BY <1>1
<1>4. Cardinality(O \ P) = Cardinality(O) - Cardinality(P)
  BY <1>2, <1>3, FS_Difference
<1>5. Cardinality(O) \in Nat /\ Cardinality(P) \in Nat
  BY <1>2, FS_CardinalityType
<1>6. Cardinality(O) = Cardinality(P) + Cardinality(O \ P)
  BY <1>4, <1>5
<1> QED BY <1>1, <1>2, <1>6 DEF O, P

(* A holding is open if a position of it is owned.                         *)
LEMMA OpenHoldingsAre ==
    ASSUME NEW S, Rows(S), AllSound(S)
    PROVE  OpenHoldings(S) = KeysOf(Owned(S))
<1>1. OpenHoldings(S) \subseteq KeysOf(Owned(S))
  <2> SUFFICES ASSUME NEW k \in OpenHoldings(S), k \notin KeysOf(Owned(S)) PROVE FALSE
    OBVIOUS
  <2> DEFINE R == {p \in Positions : HoldingKey(p) = k}
             At(r) == {t \in S : t.position \in r}
             B == {r \in SUBSET R : ~ (Net(At(r)) <= 0)}
  <2>1. At(R) = OfKey(S, k) /\ Net(OfKey(S, k)) > 0
    BY RowIs DEF OfKey, Rows, OpenHoldings
  <2>2. Net(At(R)) \in Int
    BY RowsOfPart, NetIs
  <2>3. B # {}
    <3>1. Net(At(R)) > 0
      BY <2>1
    <3>2. ~ (Net(At(R)) <= 0)
      <4> DEFINE n == Net(At(R))
      <4>1. n > 0 /\ n \in Int
        BY <2>2, <3>1
      <4> HIDE DEF n
      <4>2. ~ (n <= 0)
        BY <4>1
      <4> QED BY <4>2 DEF n
    <3> QED BY <3>2
  <2>4. PICK b \in B : \A a \in B : a \subseteq b => a = b
    <3>1. B \in SUBSET SUBSET R
      OBVIOUS
    <3>2. IsFiniteSet(R)
      BY PortfolioAssumption, FS_Subset
    <3> HIDE DEF B, R
    <3> QED BY <2>3, <3>1, <3>2, Smallest
  <2>5. b # {}
    <3>1. Net({}) = 0 /\ At({}) = {}
      BY FS_EmptySet, SumStep DEF Net
    <3>2. Net(At({})) <= 0
      BY <3>1
    <3> QED BY <2>4, <3>2
  <2>6. PICK q \in b : q \in Positions /\ HoldingKey(q) = k
    BY <2>4, <2>5
  <2>7. Net(At(b \ {q})) <= 0
    <3>1. b \ {q} \in SUBSET R /\ b \ {q} \subseteq b /\ b \ {q} # b
      BY <2>4, <2>6
    <3>2. b \ {q} \notin B
      BY <2>4, <3>1
    <3> QED BY <3>1, <3>2
  <2>8. ~ (Net(Of(S, q)) > 0)
    BY <2>6 DEF KeysOf, Owned
  <2>9. Of(S, q) \in SUBSET At(b) /\ At(b) \ Of(S, q) = At(b \ {q})
    BY <2>6 DEF Of
  <2>10. Rows(At(b)) /\ Rows(At(b \ {q})) /\ Rows(Of(S, q))
    BY RowsOfPart DEF Of
  <2>11. ~ (Net(At(b)) <= 0)
    BY <2>4
  <2> HIDE DEF At, R, B
  <2>12. Net(At(b)) = Net(Of(S, q)) + Net(At(b \ {q}))
    BY <2>9, <2>10, NetOfParts
  <2>13. Net(Of(S, q)) \in Int /\ Net(At(b \ {q})) \in Int
    BY <2>10, NetIs
  <2> QED BY <2>7, <2>8, <2>11, <2>12, <2>13
<1>2. ASSUME NEW p \in Owned(S) PROVE HoldingKey(p) \in OpenHoldings(S)
  <2> DEFINE k == HoldingKey(p)
             R == {q \in Positions : HoldingKey(q) = k /\ q # p}
  <2>1. p \in Positions /\ Net(Of(S, p)) > 0
    BY DEF Owned
  <2>2. Rows(OfKey(S, k)) /\ Of(S, p) \in SUBSET OfKey(S, k)
    BY RowsOfPart DEF OfKey, Of
  <2>3. OfKey(S, k) \ Of(S, p) = {t \in S : t.position \in R}
    BY RowIs DEF OfKey, Of, Rows
  <2>4. Net(OfKey(S, k) \ Of(S, p)) \in Nat
    BY <2>3, HeldTogether
  <2> HIDE DEF k
  <2>5. Net(OfKey(S, k)) = Net(Of(S, p)) + Net(OfKey(S, k) \ Of(S, p))
    BY <2>2, NetOfParts
  <2>6. Net(Of(S, p)) \in Int
    BY HeldIs
  <2>7. Net(OfKey(S, k)) > 0
    BY <2>1, <2>4, <2>5, <2>6
  <2> QED BY <2>1, <2>7 DEF OpenHoldings, KeysOf, k
<1> QED BY <1>1, <1>2 DEF KeysOf

(* So it is with what is not supported, of which there is all or nothing.  *)
LEMMA CountedOf ==
    ASSUME PortfolioInv, NEW K \in SUBSET booked, Whole(K, booked)
    PROVE  OpenHoldings(booked \ K) = KeysOf(Owned(booked \ K))
<1>1. Rows(booked) /\ AllSound(booked)
  BY TradesAre
<1>2. (booked \ K) \in SUBSET booked /\ Whole(booked \ K, booked)
  BY DEF Whole
<1>3. Rows(booked \ K) /\ AllSound(booked \ K)
  BY <1>1, <1>2, RowsOfPart, WholeIs
<1> QED BY <1>3, OpenHoldingsAre

(* Every position is counted once.                                         *)
LEMMA CountedAre == ASSUME PortfolioInv PROVE CountedOnce
<1> DEFINE S == Supported(booked)
           C == Chartable(booked)
           A == Available(booked)
           n(T) == Cardinality(Owned(T))
           k(T) == Cardinality(KeysOf(Owned(booked \ T)))
<1>1. \A T : n(T) \in Nat /\ k(T) \in Nat
  <2> SUFFICES ASSUME NEW T PROVE n(T) \in Nat /\ k(T) \in Nat
    OBVIOUS
  <2>1. IsFiniteSet(KeysOf(Owned(booked \ T)))
    <3> DEFINE O == Owned(booked \ T)
               f == [p \in O |-> HoldingKey(p)]
    <3>1. IsFiniteSet(O) /\ f \in Surjection(O, KeysOf(O))
      BY OpenAre DEF KeysOf, Surjection
    <3> HIDE DEF O, f
    <3>2. IsFiniteSet(KeysOf(O))
      BY <3>1, FS_Surjection
    <3> QED BY <3>2 DEF O
  <2> QED BY <2>1, OpenAre, FS_CardinalityType
<1>2. Portfolio(booked).priced + Portfolio(booked).missing + Portfolio(booked).unsupported
        = n(S) + k(S)
  <2>1. Held(Replay(S)) = Owned(S)
    BY TradesAre, OpenIsOwned
  <2>2. n(S) = Portfolio(booked).priced + Portfolio(booked).missing
    BY <2>1, OpenAre, PortfolioIs
  <2>3. Portfolio(booked).unsupported = k(S)
    BY TradesAre, CountedOf, PortfolioIs
  <2> QED BY <2>2, <2>3
<1>3. ASSUME stage = "answered"
      PROVE  Cardinality(Held(holdings)) + LeftOut(booked) = n(C) + k(C)
  <2>1. Cardinality(Held(holdings)) = n(A)
    BY <1>3, ChartedAre DEF PortfolioInv, Arrived
  <2>2. n(C) = n(A) + n(C \ A)
    BY TradesAre, WholeIs
  <2>3. LeftOut(booked) = k(C) + n(C \ A)
    BY TradesAre, CountedOf DEF LeftOut
  <2>4. n(A) \in Nat /\ n(C \ A) \in Nat /\ k(C) \in Nat
    BY <1>1
  <2> DEFINE a == n(A)
             r == n(C \ A)
             u == k(C)
  <2>5. (a + (u + r)) = ((a + r) + u)
    <3>1. a \in Nat /\ r \in Nat /\ u \in Nat
      BY <2>4
    <3> HIDE DEF a, r, u
    <3> QED BY <3>1
  <2> QED BY <2>1, <2>2, <2>3, <2>5
<1> QED BY <1>2, <1>3 DEF CountedOnce

(* The trades of a day that is past, and their ledger.                     *)
LEMMA PastIs ==
    ASSUME PortfolioInv, NEW day \in Int
    PROVE  /\ AsOf(day) = UpToDay(Available(booked), day) /\ Supported(AsOf(day)) = AsOf(day)
           /\ Rows(AsOf(day)) /\ Replay(AsOf(day)) \in Ledgers
           /\ Held(Replay(AsOf(day))) \in SUBSET Positions
           /\ \A p \in Held(Replay(AsOf(day))) : Instrument(p) \in DOMAIN scenario.closes
<1> DEFINE A == Available(booked)
           D == AsOf(day)
<1>1. D = UpToDay(A, day) /\ Supported(D) = D /\ D \in SUBSET A
  BY DEF AsOf, UpToDay, Available, Chartable, Supported
<1>2. Rows(A) /\ AllSound(A)
  BY TradesAre
<1>3. \A t \in D, u \in A : Before(u, t) => u \in D
  <2>1. \A t \in A : t.day \in Int
    BY <1>2, RowIs DEF Rows
  <2>2. \A t \in A : t \in D <=> t.day <= day
    BY DEF AsOf
  <2> HIDE DEF A, D
  <2> QED BY <1>1, <2>1, <2>2 DEF Before
<1>4. Rows(D) /\ AllSound(D)
  <2> HIDE DEF A, D
  <2> QED BY <1>1, <1>2, <1>3, RowsOfPart, SoundBefore
<1>5. Replay(D) \in Ledgers /\ Held(Replay(D)) = Owned(D)
  BY <1>4, ReplayTyped, OpenIsOwned
<1>6. \A p \in Owned(D) : p \in Positions /\ Instrument(p) \in DOMAIN scenario.closes
  BY <1>1, OwnedHas DEF Available
<1> QED BY <1>1, <1>4, <1>5, <1>6

(* Points are the portfolio of their days.                                 *)
LEMMA PointsAre == ASSUME PortfolioInv PROVE PointsArePast
<1> SUFFICES ASSUME NEW i \in DOMAIN points
             PROVE  LET day    == points[i].day
                        past   == Portfolio(AsOf(day))
                        ledger == Replay(AsOf(day))
                        final  == stage = "answered" /\ i = Len(points)
                    IN  /\ day = StartOf(Available(booked), range) + i - 1
                        /\ points[i].invested = past.invested
                        /\ ~final => points[i].value = Worth(ledger, Held(ledger), DayPrices(day))
                        /\ final  => /\ day = Today
                                     /\ points[i].value = Worth(ledger, Held(ledger), CurrentPrices)
                                     /\ past.missing = 0 => points[i].value = past.value
  BY DEF PointsArePast
<1> DEFINE day    == points[i].day
           ledger == Replay(AsOf(day))
           final  == stage = "answered" /\ i = Len(points)
<1>1. PointAt(points[i], i, Available(booked), StartOf(Available(booked), range),
              IF final THEN CurrentPrices ELSE DayPrices(day))
  BY DEF PortfolioInv, PointsHold
<1>2. day \in Int
  <2>1. points \in Seq([day : Int, invested : Int, value : Int])
    BY DEF PortfolioInv, PortfolioTypeOK
  <2>2. points[i] \in [day : Int, invested : Int, value : Int]
    <3> DEFINE R == [day : Int, invested : Int, value : Int]
    <3>1. points \in Seq(R)
      BY <2>1
    <3> HIDE DEF R
    <3>2. points[i] \in R
      BY <3>1
    <3> QED BY <3>2 DEF R
  <2> QED BY <2>2
<1>3. /\ AsOf(day) = UpToDay(Available(booked), day) /\ Supported(AsOf(day)) = AsOf(day)
      /\ ledger \in Ledgers /\ Held(ledger) \in SUBSET Positions
      /\ \A p \in Held(ledger) : Instrument(p) \in DOMAIN scenario.closes
  BY <1>2, PastIs
<1>4. /\ day = StartOf(Available(booked), range) + i - 1
      /\ points[i].invested = Invested(ledger)
      /\ points[i].value = Worth(ledger, Held(ledger), IF final THEN CurrentPrices ELSE DayPrices(day))
  BY <1>1, <1>3 DEF PointAt
<1>5. Portfolio(AsOf(day)).invested = Invested(ledger)
  BY <1>3, PortfolioIs
<1>6. ASSUME final PROVE day = Today
  BY <1>6 DEF PortfolioInv, Arrived
<1>7. ASSUME final, Portfolio(AsOf(day)).missing = 0
      PROVE  points[i].value = Portfolio(AsOf(day)).value
  <2> DEFINE O == Held(ledger)
             P == PricedOf(AsOf(day))
  <2>1. O = Held(Replay(Supported(AsOf(day))))
    BY <1>3
  <2>2. Cardinality(O \ P) = 0 /\ IsFiniteSet(O) /\ P \in SUBSET O
    BY <1>7, <2>1, PortfolioIs, OpenAre
  <2>3. IsFiniteSet(O \ P)
    BY <2>2, FS_Subset
  <2>4. P = O
    <3> HIDE DEF O, P
    <3> QED BY <2>2, <2>3, FS_EmptySet
  <2>5. \A p \in O : Instrument(p) \in DOMAIN scenario.quote
    BY <2>4 DEF PricedOf
  <2>6. \A p \in O : CurrentPrices[Instrument(p)] = scenario.quote[Instrument(p)]
    BY <1>3, <2>5 DEF CurrentPrices
  <2>7. Worth(ledger, O, CurrentPrices) = Worth(ledger, O, scenario.quote)
    <3>1. [p \in O |-> ledger[p].quantity * CurrentPrices[Instrument(p)]]
            = [p \in O |-> ledger[p].quantity * scenario.quote[Instrument(p)]]
      BY <2>6
    <3> QED BY <3>1 DEF Worth
  <2>8. Portfolio(AsOf(day)).value = Worth(ledger, P, scenario.quote)
    BY <1>3, PortfolioIs
  <2> QED BY <1>4, <1>7, <2>4, <2>7, <2>8
<1> HIDE DEF day, ledger, final
<1>8. /\ day = StartOf(Available(booked), range) + i - 1
      /\ points[i].invested = Portfolio(AsOf(day)).invested
      /\ ~final => points[i].value = Worth(ledger, Held(ledger), DayPrices(day))
      /\ final  => /\ day = Today
                   /\ points[i].value = Worth(ledger, Held(ledger), CurrentPrices)
                   /\ Portfolio(AsOf(day)).missing = 0 => points[i].value = Portfolio(AsOf(day)).value
  BY <1>4, <1>5, <1>6, <1>7
<1> QED BY <1>8 DEF day, ledger, final

(* The ends of a chart are shown.                                          *)
LEMMA EndsAre == ASSUME PortfolioInv PROVE EndsShown
<1> SUFFICES ASSUME stage = "answered"
             PROVE  IF Available(booked) = {} THEN points = <<>>
                    ELSE points # <<>> /\ {1, Len(points)} \subseteq shown /\ shown \subseteq DOMAIN points
  BY DEF EndsShown
<1>1. /\ charted = Available(booked)
      /\ IF charted = {} THEN points = <<>>
         ELSE points # <<>> /\ shown = SampledIndexes(Len(points), SampleLimit)
  BY DEF PortfolioInv, Arrived
<1>2. Len(points) \in Nat /\ DOMAIN points = 1 .. Len(points) /\ (points # <<>> => Len(points) # 0)
  BY DEF PortfolioInv, PortfolioTypeOK
<1>3. SampleLimit \in Nat \ {0, 1}
  BY PortfolioAssumption
<1>4. ASSUME points # <<>>
      PROVE  /\ {1, Len(points)} \subseteq SampledIndexes(Len(points), SampleLimit)
             /\ SampledIndexes(Len(points), SampleLimit) \subseteq DOMAIN points
  BY <1>2, <1>3, <1>4, SampleKeepsEnds
<1> QED BY <1>1, <1>4

(* The invariant says all of it.                                           *)
LEMMA PortfolioAgrees == PortfolioInv => LedgersAgree
<1> SUFFICES ASSUME PortfolioInv PROVE LedgersAgree
  OBVIOUS
<1>1. ~ Fails(Supported(booked)) /\ stage # "oversold"
  BY TradesAre, NeverFails DEF PortfolioInv, LedgerOfCharted
<1>2. MoneyKept
  <2>1. Invested(Replay(Supported(booked))) - Realized(Replay(Supported(booked)))
          = Cost(Supported(booked))
    BY TradesAre, MoneyOf
  <2> QED BY <2>1, PortfolioIs DEF MoneyKept, Cost
<1> QED BY <1>1, <1>2, CountedAre, PointsAre, EndsAre DEF LedgersAgree

(* The types of the portfolio's state: what is booked, and the chart, are  *)
(* trades, days and money.                                                 *)
THEOREM PortfolioTyped == PortfolioSpec => []PortfolioTypeOK
<1>1. PortfolioInv => PortfolioTypeOK
  BY DEF PortfolioInv
<1> QED BY <1>1, PortfolioInvStarts, PortfolioInvStays, PTL DEF PortfolioSpec

(* However trades are booked, back-dated and deleted, the loops of         *)
(* calculateInvestmentPortfolio and calculateDailyInvestmentHistory meet   *)
(* no sale larger than its holding, and agree with the trades and with     *)
(* each other: no money is made or lost, each position is counted once,    *)
(* each point is the portfolio of its day, and a chart shows its ends.     *)
THEOREM LedgersAlwaysAgree == PortfolioSpec => []LedgersAgree
BY PortfolioInvStarts, PortfolioInvStays, PortfolioAgrees, PTL DEF PortfolioSpec
===============================================================================
