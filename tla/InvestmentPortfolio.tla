-------------------------- MODULE InvestmentPortfolio --------------------------
(***************************************************************************)
(* What the trades of a user are worth: the portfolio of today and the     *)
(* chart of its past, which the service computes from the same trades with *)
(* two ledgers of their own. Trades are a set; wherever the code sorts     *)
(* them, it is by moment and id. Money is a number.                        *)
(***************************************************************************)
EXTENDS Integers, Sequences, FiniteSets, FiniteSetsExt

CONSTANTS
    Positions,          \* pairs of instrument and broker
    Stocks,             \* instruments that are no crypto currency
    Unlisted,           \* stocks with an unknown exchange
    SymbolOf,           \* asset type and symbol of an instrument: listings of one
                        \* stock at several exchanges are several instruments
    Quantities,         \* quantities a trade may have
    Today,              \* the day of now; trades are never in the future
    TradeDays,          \* days of trades
    UnitPrice, Fees,    \* what a unit costs on a day, and a trade
    ChartDays,          \* days of the ranges of a chart; 0 is "max"
    SampleLimit,        \* points a chart may have
    Scenarios,          \* what the providers know, see scenario
    MaxTrades           \* bound: trades that are booked

ASSUME PortfolioAssumption ==
    /\ IsFiniteSet(Positions)
    /\ Quantities \subseteq Nat \ {0}
    /\ Today \in Nat /\ TradeDays \subseteq 1 .. Today
    /\ UnitPrice \in [TradeDays -> Nat] /\ Fees \in Nat
    /\ ChartDays \subseteq Nat /\ SampleLimit \in Nat \ {0, 1} /\ MaxTrades \in Nat
    /\ \A s \in Scenarios :
         /\ \A i \in DOMAIN s.quote : s.quote[i] \in Nat \ {0}
         /\ \A i \in DOMAIN s.closes :
              /\ DOMAIN s.closes[i] \subseteq Int
              /\ \A d \in DOMAIN s.closes[i] : s.closes[i][d] \in Nat \ {0}

VARIABLES
    booked,             \* rows of investment_trades
    nextTrade,          \* the sequence of their ids
    scenario,           \* quote: current prices of instruments that have one (the
                        \* one call for crypto currencies fails for all or some);
                        \* closes: prices by day, of instruments with a history;
                        \* stocks: there is a client for the history of stocks
    stage,              \* of a chart, which is asked for once
    range,              \* its range
    chartDay,           \* the day it has come to
    charted,            \* the trades it has come past
    holdings,           \* its ledger
    points,             \* its points
    shown               \* indexes of the points that are answered

chartVars     == <<stage, range, chartDay, charted, holdings, points, shown>>
portfolioVars == <<booked, nextTrade, scenario, chartVars>>

Instrument(p) == p[1]

Sum(f, S) == MapThenSumSet(LAMBDA x : f[x], S)

-------------------------------------------------------------------------------
(* Trades *)

Before(s, t)  == s.day < t.day \/ (s.day = t.day /\ s.id < t.id)
Latest(T)     == CHOOSE t \in T : \A u \in T \ {t} : Before(u, t)
Earliest(T)   == CHOOSE t \in T : \A u \in T \ {t} : Before(t, u)
Prior(T, t)   == {u \in T : Before(u, t)}

Amount(t) == t.quantity * UnitPrice[t.day]
Signed(t) == IF t.side = "buy" THEN t.quantity ELSE -t.quantity
Net(T)    == Sum([t \in T |-> Signed(t)], T)

(* What is held of a position, and of an instrument at all brokers.        *)
Of(T, p)         == {t \in T : t.position = p}
OfAsset(T, i)    == {t \in T : Instrument(t.position) = i}
Owned(T)         == {p \in Positions : Net(Of(T, p)) > 0}
OpenAssets(T)    == {i \in {Instrument(p) : p \in Positions} : Net(OfAsset(T, i)) > 0}

(* supportedInvestmentTrades, of the portfolio and of the chart: without a *)
(* client for their history the chart supports no stocks.                  *)
Supported(T) == {t \in T : Instrument(t.position) \notin Unlisted}
Chartable(T) == {t \in Supported(T) : Instrument(t.position) \in Stocks => scenario.stocks}

(* What is not supported is counted by asset type, symbol and broker, for  *)
(* all exchanges together.                                                 *)
HoldingKey(p)   == <<SymbolOf[Instrument(p)], p[2]>>
KeysOf(S)       == {HoldingKey(p) : p \in S}
OfKey(T, k)     == {t \in T : HoldingKey(t.position) = k}
OpenHoldings(T) == {k \in KeysOf(Positions) : Net(OfKey(T, k)) > 0}

(* A stock whose history cannot be had is left out, and counted.           *)
Available(T) == {t \in Chartable(T) : Instrument(t.position) \in DOMAIN scenario.closes}

-------------------------------------------------------------------------------
(* calculateInvestmentPortfolio *)

Empty == [p \in Positions |-> [quantity |-> 0, basis |-> 0, realized |-> 0]]

(* The error of either loop: a sale larger than its holding.               *)
Oversells(ledger, t) ==
    t.side = "sell" /\ (ledger[t.position].quantity < t.quantity \/ ledger[t.position].quantity = 0)

CostRemoved(position, t) == (position.basis * t.quantity) \div position.quantity

MutantApply(t, ledger) ==
    LET p == ledger[t.position] IN
      IF Oversells(ledger, t) THEN ledger
      ELSE [ledger EXCEPT ![t.position] =
        IF t.side = "buy"
        THEN [quantity |-> p.quantity + t.quantity, basis |-> p.basis + (Amount(t) + Fees),
              realized |-> p.realized]
        ELSE [quantity |-> p.quantity - t.quantity,
              basis    |-> IF p.quantity = t.quantity THEN 0 ELSE p.basis - CostRemoved(p, t),
              realized |-> p.realized + (Amount(t) - CostRemoved(p, t))]]

Apply(t, ledger) ==
    LET p == ledger[t.position] IN
      IF Oversells(ledger, t) THEN ledger
      ELSE [ledger EXCEPT ![t.position] =
        IF t.side = "buy"
        THEN [quantity |-> p.quantity + t.quantity, basis |-> p.basis + (Amount(t) + Fees),
              realized |-> p.realized]
        ELSE [quantity |-> p.quantity - t.quantity,
              basis    |-> IF p.quantity = t.quantity THEN 0 ELSE p.basis - CostRemoved(p, t),
              realized |-> p.realized + ((Amount(t) - Fees) - CostRemoved(p, t))]]

(* The trades in their order: the last of them is applied to what the      *)
(* others made.                                                            *)
Replay(T) == MapThenFoldSet(Apply, Empty, LAMBDA t : t, Latest, T)

Fails(T) == \E t \in T : Oversells(Replay(Prior(T, t)), t)

Held(ledger) == {p \in Positions : ledger[p].quantity > 0}

Invested(ledger) == Sum([p \in Positions |-> ledger[p].basis], Positions)

Worth(ledger, S, price) ==
    Sum([p \in S |-> ledger[p].quantity * price[Instrument(p)]], S)

(* Quotes are asked for the instruments that are open at all brokers taken *)
(* together. What is not supported is counted by quantities alone.         *)
Portfolio(T) ==
    LET ledger == Replay(Supported(T))
        priced == {p \in Held(ledger) :
                     Instrument(p) \in OpenAssets(Supported(T)) \cap DOMAIN scenario.quote}
    IN  [unsupported |-> Cardinality(OpenHoldings(T \ Supported(T))),
         missing     |-> Cardinality(Held(ledger) \ priced),
         priced      |-> Cardinality(priced),
         invested    |-> Invested(ledger),
         realized    |-> Sum([p \in Positions |-> ledger[p].realized], Positions),
         value       |-> Worth(ledger, priced, scenario.quote)]

-------------------------------------------------------------------------------
(* investmentPortfolioHistory *)

NoHoldings == [p \in Positions |-> [quantity |-> 0, basis |-> 0]]

ApplyHistoryTrade(t, ledger) ==
    LET p == ledger[t.position] IN
      [ledger EXCEPT ![t.position] =
        IF t.side = "buy"
        THEN [quantity |-> p.quantity + t.quantity, basis |-> p.basis + (Amount(t) + Fees)]
        ELSE [quantity |-> p.quantity - t.quantity,
              basis    |-> IF p.quantity = t.quantity THEN 0 ELSE p.basis - CostRemoved(p, t)]]

(* What a chart is without: holdings that it does not support, and every   *)
(* position of a stock whose history could not be had.                     *)
LeftOut(T) ==
    Cardinality(OpenHoldings(T \ Chartable(T))) + Cardinality(Owned(Chartable(T) \ Available(T)))

StartOf(T, days) ==
    LET first == Earliest(T).day IN
      IF days > 0 /\ Today - days > first THEN Today - days ELSE first

(* The histories begin the day before the first day of all that are asked. *)
Seen(i, day) ==
    {d \in DOMAIN scenario.closes[i] : d >= StartOf(Chartable(booked), range) - 1 /\ d <= day}

(* The latest close so far. There is none: 0.                              *)
DayPrices(day) ==
    [i \in DOMAIN scenario.closes |->
       IF Seen(i, day) = {} THEN 0 ELSE scenario.closes[i][Max(Seen(i, day))]]

CurrentPrices ==
    [i \in DOMAIN scenario.closes |->
       IF i \in DOMAIN scenario.quote THEN scenario.quote[i] ELSE DayPrices(Today)[i]]

Lacks(price) == \E p \in Held(holdings) : price[Instrument(p)] = 0

Point(day, price) ==
    [day |-> day, invested |-> Invested(holdings), value |-> Worth(holdings, Held(holdings), price)]

(* sampleInvestmentHistoryPoints: rounded to the nearest index.            *)
SampledIndexes(n, limit) ==
    IF limit < 2 \/ n <= limit THEN 1 .. n
    ELSE {n} \cup {(2 * i * (n - 1) + (limit - 1)) \div (2 * (limit - 1)) + 1 : i \in 0 .. limit - 2}

(* Without the history of a crypto currency there is no chart. Without     *)
(* trades that can be shown it is empty.                                   *)
AskChart(days) ==
    LET lacking == {Instrument(t.position) : t \in Chartable(booked)} \ DOMAIN scenario.closes
        usable  == Available(booked)
    IN  /\ stage = "booking"
        /\ range' = days
        /\ \/ /\ ~ (lacking \subseteq Stocks)
              /\ stage' = "incomplete" /\ UNCHANGED chartDay
           \/ /\ lacking \subseteq Stocks /\ usable = {}
              /\ stage' = "answered" /\ UNCHANGED chartDay
           \/ /\ lacking \subseteq Stocks /\ usable # {}
              /\ stage' = "charting" /\ chartDay' = StartOf(usable, days)
        /\ UNCHANGED <<booked, nextTrade, scenario, charted, holdings, points, shown>>

Uncharted == Available(booked) \ charted
Due == Uncharted # {} /\ Earliest(Uncharted).day <= chartDay

(* calculateDailyInvestmentHistory: one pass over days, trades and closes. *)
ChartTrade ==
    LET next == Earliest(Uncharted) IN
      /\ stage = "charting" /\ chartDay <= Today /\ Due
      /\ IF Oversells(holdings, next)
         THEN stage' = "oversold" /\ UNCHANGED <<charted, holdings>>
         ELSE /\ holdings' = ApplyHistoryTrade(next, holdings)
              /\ charted' = charted \cup {next}
              /\ UNCHANGED stage
      /\ UNCHANGED <<booked, nextTrade, scenario, range, chartDay, points, shown>>

(* An open holding without a price so far ends it.                         *)
ChartThisDay ==
    /\ stage = "charting" /\ chartDay <= Today /\ ~Due
    /\ IF charted # {} /\ Lacks(DayPrices(chartDay))
       THEN stage' = "incomplete" /\ UNCHANGED <<chartDay, points>>
       ELSE /\ points' = IF charted = {} THEN points
                         ELSE Append(points, Point(chartDay, DayPrices(chartDay)))
            /\ chartDay' = chartDay + 1
            /\ UNCHANGED stage
    /\ UNCHANGED <<booked, nextTrade, scenario, range, charted, holdings, shown>>

(* The point of today is replaced by one with current prices.              *)
BeforeToday ==
    IF points # <<>> /\ points[Len(points)].day = Today
    THEN SubSeq(points, 1, Len(points) - 1) ELSE points

AnswerChart ==
    /\ stage = "charting" /\ chartDay > Today
    /\ IF Lacks(CurrentPrices)
       THEN stage' = "incomplete" /\ UNCHANGED <<points, shown>>
       ELSE /\ points' = Append(BeforeToday, Point(Today, CurrentPrices))
            /\ shown' = SampledIndexes(Len(points'), SampleLimit)
            /\ stage' = "answered"
    /\ UNCHANGED <<booked, nextTrade, scenario, range, chartDay, charted, holdings>>

-------------------------------------------------------------------------------
(* A sale brings more than its fees. It and a deletion are committed only  *)
(* if no sale of the position is larger than what is held then: see        *)
(* InvestmentLedger.                                                       *)
Sound(T) == \A t \in T : Net(Prior(T, t) \cup {t}) >= 0

Book(p, side, quantity, day) ==
    LET trade == [id |-> nextTrade, position |-> p, side |-> side,
                  quantity |-> quantity, day |-> day]
        all   == booked \cup {trade}
    IN  /\ stage = "booking" /\ nextTrade <= MaxTrades
        /\ side = "sell" => Fees < Amount(trade) /\ Sound(Of(all, p))
        /\ booked' = all /\ nextTrade' = nextTrade + 1
        /\ UNCHANGED <<scenario, chartVars>>

Remove(t) ==
    /\ stage = "booking" /\ Sound(Of(booked \ {t}, t.position))
    /\ booked' = booked \ {t}
    /\ UNCHANGED <<nextTrade, scenario, chartVars>>

PortfolioInit ==
    /\ booked = {} /\ nextTrade = 1 /\ scenario \in Scenarios
    /\ stage = "booking" /\ range = 0 /\ chartDay = 0
    /\ charted = {} /\ holdings = NoHoldings /\ points = <<>> /\ shown = {}

PortfolioNext ==
    \/ \E p \in Positions, side \in {"buy", "sell"}, quantity \in Quantities, day \in TradeDays :
         Book(p, side, quantity, day)
    \/ \E t \in booked : Remove(t)
    \/ \E days \in ChartDays : AskChart(days)
    \/ ChartTrade \/ ChartThisDay \/ AnswerChart

PortfolioSpec == PortfolioInit /\ [][PortfolioNext]_portfolioVars

-------------------------------------------------------------------------------
(* Properties *)

Trade == [id : Nat, position : Positions, side : {"buy", "sell"},
          quantity : Quantities, day : TradeDays]

PortfolioTypeOK ==
    /\ booked \subseteq Trade /\ IsFiniteSet(booked) /\ nextTrade \in Nat
    /\ \A t \in booked : t.id < nextTrade
    /\ \A t, u \in booked : t.id = u.id => t = u
    /\ scenario \in Scenarios
    /\ stage \in {"booking", "charting", "answered", "incomplete", "oversold"}
    /\ range \in Nat /\ chartDay \in 0 .. Today + 1
    /\ charted \subseteq booked
    /\ holdings \in [Positions -> [quantity : Int, basis : Int]]
    /\ points \in Seq([day : Int, invested : Int, value : Int])

AsOf(day) == {t \in Available(booked) : t.day <= day}

(* What the trades cost, less what the sales brought.                      *)
Paid(t) == IF t.side = "buy" THEN Amount(t) + Fees ELSE Fees - Amount(t)

(* Money is neither made nor lost between the trades and the portfolio.    *)
MoneyKept ==
    LET known == Supported(booked)
        now   == Portfolio(booked)
    IN  now.invested - now.realized = Sum([t \in known |-> Paid(t)], known)

(* Every open position is counted once: priced or missing a price, in the  *)
(* chart or left out of it. Where it is not supported, it is counted once  *)
(* with the other listings of its symbol at its broker.                    *)
CountedOnce ==
    LET now     == Portfolio(booked)
        once(S) == Cardinality(Owned(S)) + Cardinality(KeysOf(Owned(booked \ S)))
    IN  /\ now.priced + now.missing + now.unsupported = once(Supported(booked))
        /\ stage = "answered" =>
             Cardinality(Held(holdings)) + LeftOut(booked) = once(Chartable(booked))

(* Each point of the chart is the portfolio of that day, with its closes;  *)
(* the last one that of today, with its quotes; none is left out between.  *)
PointsArePast ==
    \A i \in DOMAIN points :
      LET day    == points[i].day
          past   == Portfolio(AsOf(day))
          ledger == Replay(AsOf(day))
          final  == stage = "answered" /\ i = Len(points)
      IN  /\ day = StartOf(Available(booked), range) + i - 1
          /\ points[i].invested = past.invested
          /\ ~final => points[i].value = Worth(ledger, Held(ledger), DayPrices(day))
          /\ final  => /\ day = Today
                       /\ points[i].value = Worth(ledger, Held(ledger), CurrentPrices)
                       /\ past.missing = 0 => points[i].value = past.value

(* A chart is answered unless there is nothing to show; it has its ends.   *)
EndsShown ==
    stage = "answered" =>
      IF Available(booked) = {} THEN points = <<>>
      ELSE points # <<>> /\ {1, Len(points)} \subseteq shown /\ shown \subseteq DOMAIN points

(* However trades are booked, back-dated and deleted, both ledgers can be  *)
(* computed, and agree with the trades and with each other.                *)
LedgersAgree ==
    /\ ~Fails(Supported(booked)) /\ stage # "oversold"
    /\ MoneyKept /\ CountedOnce /\ PointsArePast /\ EndsShown
===============================================================================
