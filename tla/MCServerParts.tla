----------------------------- MODULE MCServerParts -----------------------------
(***************************************************************************)
(* The components that share no state, one of them in each behaviour: part *)
(* is chosen at the beginning and the variables of the others rest.        *)
(***************************************************************************)
EXTENDS BudgetAlerts, ResponseCache, StockHistory, MarketRequests, AuthRateLimiter,
        ServerLifecycle, Recurrence, InvestmentPortfolio

VARIABLES
    part

AskedKey     == [c \in Calls |-> IF c = "c3" THEN "eth" ELSE "btc"]
Behind       == {<<>>, <<"p1">>, <<"p1", "p2">>}
Headers      == {<<>>, <<"c2">>, <<"unknown">>}
MonthStarts  == <<1, 32, 61, 92, 122, 153>>
AskedWindows == {<<1, 60>>, <<31, 152>>, <<61, 91>>}
Holdable     == {<<"btc", "x">>, <<"stock", "x">>, <<"stock", "y">>, <<"twin", "x">>,
                 <<"other", "x">>}
Symbols      == [i \in {"btc", "stock", "twin", "other"} |-> IF i = "btc" THEN "BTC" ELSE "ACME"]
Priced       == [d \in {1, 3} |-> 12 * d]
Providers    ==
    {[stocks |-> TRUE,
      quote  |-> [i \in {"btc", "stock"} |-> 60],
      closes |-> [i \in {"btc", "stock"} |-> IF i = "btc" THEN [d \in {1, 2} |-> 24 * d]
                                                         ELSE [d \in {3} |-> 72]]],
     [stocks |-> TRUE,
      quote  |-> [i \in {"stock"} |-> 60], closes |-> [i \in {"btc", "twin"} |-> [d \in {1} |-> 24]]],
     [stocks |-> TRUE,
      quote  |-> [i \in {"btc"} |-> 60], closes |-> [i \in {"stock"} |-> [d \in {0} |-> 24]]],
     [stocks |-> FALSE,
      quote  |-> [i \in {"btc", "stock"} |-> 60], closes |-> [i \in {"btc"} |-> [d \in {1} |-> 24]]]}

Parts == {"budgets", "market", "cache", "limiter", "life", "history", "rules", "portfolio"}

partsVars     == <<part, vars, marketVars, cacheVars, limiterVars, serverVars, historyVars,
                   ruleVars, portfolioVars>>

PartsInit ==
    /\ part \in Parts
    /\ Init /\ MarketInit /\ CacheInit /\ LimiterInit /\ LifeInit
    /\ HistoryInit
    /\ IF part = "rules" THEN RuleInit
       ELSE /\ rule = [frequency |-> "daily"] /\ window = <<1, 1>> /\ dates = NotYet
    /\ part # "limiter" => proxies = <<>>
    /\ PortfolioInit
    /\ part # "portfolio" => scenario = CHOOSE s \in Scenarios : TRUE

PartsNext ==
    \/ /\ part = "budgets" /\ Next
       /\ UNCHANGED <<part, marketVars, cacheVars, limiterVars, serverVars, historyVars, ruleVars, portfolioVars>>
    \/ /\ part = "market" /\ MarketNext
       /\ UNCHANGED <<part, vars, cacheVars, limiterVars, serverVars, historyVars, ruleVars, portfolioVars>>
    \/ /\ part = "cache" /\ CacheNext
       /\ UNCHANGED <<part, vars, marketVars, limiterVars, serverVars, historyVars, ruleVars, portfolioVars>>
    \/ /\ part = "limiter" /\ LimiterNext
       /\ UNCHANGED <<part, vars, marketVars, cacheVars, serverVars, historyVars, ruleVars, portfolioVars>>
    \/ /\ part = "life" /\ LifeNext
       /\ UNCHANGED <<part, vars, marketVars, cacheVars, limiterVars, historyVars, ruleVars, portfolioVars>>
    \/ /\ part = "history" /\ HistoryNext
       /\ UNCHANGED <<part, vars, marketVars, cacheVars, limiterVars, serverVars, ruleVars, portfolioVars>>
    \/ /\ part = "rules" /\ RuleNext
       /\ UNCHANGED <<part, vars, marketVars, cacheVars, limiterVars, serverVars, historyVars, portfolioVars>>
    \/ /\ part = "portfolio" /\ PortfolioNext
       /\ UNCHANGED <<part, vars, marketVars, cacheVars, limiterVars, serverVars, historyVars, ruleVars>>

(* Each replica evaluates budgets once a minute.                           *)
BudgetsFairness == \A r \in Replicas : WF_vars(part = "budgets" /\ Run(r))

(* Statements, runs and Shutdown end, as each has a timeout.               *)
LifeFairness ==
    \A r \in Servers :
        /\ WF_serverVars(part = "life" /\ Running(r))
        /\ \A w \in Workers :
             WF_serverVars(part = "life" /\ (RunEnds(r, w) \/ WorkerReturns(r, w)))

PartsSpec ==
    PartsInit /\ [][PartsNext]_partsVars /\ BudgetsFairness /\ LifeFairness

(* What has begun ends: crossed levels are reported, replicas that stop    *)
(* are down.                                                               *)
WorkIsDone == CrossedIsReported /\ StopsInTheEnd
===============================================================================
