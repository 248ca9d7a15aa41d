---------------------------- MODULE MarketRequests -----------------------------
(***************************************************************************)
(* Requests to the market data provider: callers of currentQuoteWithCache  *)
(* share one fetch of a key and its answer, and a fetch passes the         *)
(* requestLimiter, whose worker takes requests from a bounded queue and    *)
(* admits one per interval. A caller may give up anywhere; its request     *)
(* stays in the queue until the worker comes to it.                        *)
(***************************************************************************)
EXTENDS Integers, Sequences, FiniteSets

CONSTANTS
    Calls,          \* calls that are made
    Keys,           \* pairs of symbol and currency
    KeyOf,          \* the one a call asks for
    Interval,       \* minimumRequestInterval, in ticks
    TTL,            \* currentQuoteCacheTTL
    Timeout,        \* operationTimeout
    QueueSize       \* maximumQueuedRequests

ASSUME MarketAssumption ==
    /\ KeyOf \in [Calls -> Keys] /\ Calls \cap Keys = {} /\ "none" \notin Calls
    /\ Interval \in Nat /\ TTL \in Nat /\ Timeout \in Nat /\ QueueSize \in Nat

VARIABLES
    place,             \* where a call is
    left,           \* ticks until its context is over
    starter,        \* the call it has joined
    inflight,       \* currentQuoteCalls: the call that fetches a key
    fresh,          \* ticks for which the cached quote of a key is served
    age,            \* of the quote a call has got, of the cached one of a key
    queue,          \* requests in the channel of the limiter
    serving,        \* the request its worker has taken
    granted,        \* what it has told a request
    paused,          \* ticks since the last admission
    ahead,          \* history: the requests before that of a call in the queue
    waited          \* history: ticks it has been there

None == "none"
Old  == TTL + Timeout + 1          \* older than any quote may be

calls      == <<place, left, starter>>
cache      == <<inflight, fresh>>
limiter    == <<queue, serving, granted, paused>>
notes      == <<ahead, waited>>
marketVars == <<calls, cache, age, limiter, notes>>

Capped(x, most) == IF x > most THEN most ELSE x
Gone(c) == left[c] = 0
Fetches(c) == place[c] \in {"starting", "waiting", "sending"}
Go(c, next) == place' = [place EXCEPT ![c] = next]

(* A call that returns cancels its context.                                *)
End(c, next) == Go(c, next) /\ left' = [left EXCEPT ![c] = 0]

-------------------------------------------------------------------------------
(* currentQuoteWithCache: the mutex is held from the look at the cache to  *)
(* the decision, and never while a request is made.                        *)

Enter(c, next) ==
    /\ place[c] = "idle"
    /\ Go(c, next)
    /\ left' = [left EXCEPT ![c] = Timeout]

Hit(c) ==
    /\ place[c] = "idle" /\ fresh[KeyOf[c]] > 0
    /\ Go(c, "answered")
    /\ age' = [age EXCEPT ![c] = age[KeyOf[c]]]
    /\ UNCHANGED <<left, starter, cache, limiter, notes>>

Join(c) ==
    /\ fresh[KeyOf[c]] = 0 /\ inflight[KeyOf[c]] # None
    /\ Enter(c, "joined")
    /\ starter' = [starter EXCEPT ![c] = inflight[KeyOf[c]]]
    /\ UNCHANGED <<cache, age, limiter, notes>>

Start(c) ==
    /\ fresh[KeyOf[c]] = 0 /\ inflight[KeyOf[c]] = None
    /\ Enter(c, "starting")
    /\ inflight' = [inflight EXCEPT ![KeyOf[c]] = c]
    /\ UNCHANGED <<starter, fresh, age, limiter, notes>>

MutantForget(c) == inflight

(* delete(currentQuoteCalls, key) and close(call.done), after any outcome. *)
Forget(c) == [inflight EXCEPT ![KeyOf[c]] = None]

Succeed(c) ==
    /\ End(c, "answered")
    /\ inflight' = Forget(c)
    /\ fresh' = [fresh EXCEPT ![KeyOf[c]] = TTL]
    /\ age' = [age EXCEPT ![c] = 0, ![KeyOf[c]] = 0]

Fail(c) ==
    /\ End(c, "failed")
    /\ inflight' = Forget(c)
    /\ UNCHANGED <<fresh, age>>

(* The answer of the fetch, and its error too, unless the caller has gone. *)
Share(c) ==
    /\ place[c] = "joined" /\ ~Gone(c) /\ place[starter[c]] \in {"answered", "failed"}
    /\ End(c, place[starter[c]])
    /\ age' = [age EXCEPT ![c] = age[starter[c]]]
    /\ UNCHANGED <<starter, cache, limiter, notes>>

LeaveJoined(c) ==
    /\ place[c] = "joined" /\ Gone(c)
    /\ End(c, "failed")
    /\ UNCHANGED <<starter, cache, age, limiter, notes>>

-------------------------------------------------------------------------------
(* requestLimiter.wait *)

(* select picks any case that is ready: a caller that has gone may still   *)
(* get into the queue.                                                     *)
Enqueue(c) ==
    /\ place[c] = "starting" /\ Len(queue) < QueueSize
    /\ Go(c, "waiting")
    /\ queue' = Append(queue, c)
    /\ ahead' = [ahead EXCEPT ![c] = {queue[i] : i \in DOMAIN queue} \cup ({serving} \ {None})]
    /\ UNCHANGED <<left, starter, cache, age, serving, granted, paused, waited>>

(* ErrRequestQueueFull, or the context is over.                            *)
TurnAway(c) ==
    /\ place[c] = "starting" /\ (Gone(c) \/ Len(queue) = QueueSize)
    /\ Fail(c)
    /\ UNCHANGED <<starter, limiter, notes>>

(* Again any case that is ready: a grant may be lost on who has gone.      *)
LeaveQueue(c) ==
    /\ place[c] = "waiting" /\ (Gone(c) \/ granted[c] = "error")
    /\ Fail(c)
    /\ UNCHANGED <<starter, limiter, notes>>

(* get looks at the context once more before it sends.                     *)
Send(c) ==
    /\ place[c] = "waiting" /\ granted[c] = "yes" /\ ~Gone(c)
    /\ Go(c, "sending")
    /\ UNCHANGED <<left, starter, cache, age, limiter, notes>>

(* The provider answers, or refuses, or the context ends the request.      *)
Answer(c) ==
    /\ place[c] = "sending" /\ ~Gone(c)
    /\ Succeed(c)
    /\ UNCHANGED <<starter, limiter, notes>>

ProviderFails(c) ==
    /\ place[c] = "sending"
    /\ Fail(c)
    /\ UNCHANGED <<starter, limiter, notes>>

-------------------------------------------------------------------------------
(* requestLimiter.run *)

Take ==
    /\ serving = None /\ queue # <<>>
    /\ serving' = Head(queue) /\ queue' = Tail(queue)
    /\ UNCHANGED <<calls, cache, age, granted, paused, notes>>

Told(answer) ==
    /\ granted' = [granted EXCEPT ![serving] = answer]
    /\ serving' = None
    /\ UNCHANGED <<calls, cache, age, queue, notes>>

MutantSkipped == paused' = 0
(* Who has gone takes no slot: lastAdmission stays.                        *)
Skipped == UNCHANGED paused

Skip ==
    /\ serving # None /\ Gone(serving)
    /\ Told("error") /\ Skipped

Timer == paused >= Interval

Admit ==
    /\ serving # None /\ ~Gone(serving) /\ Timer
    /\ Told("yes")
    /\ paused' = 0

-------------------------------------------------------------------------------
(* The worker and the callers do at once what they can: a tick is longer.  *)
Idle ==
    /\ IF serving = None THEN queue = <<>> ELSE ~Gone(serving) /\ ~Timer
    /\ \A c \in Calls :
         /\ place[c] # "starting"
         /\ place[c] = "waiting" => granted[c] = None /\ ~Gone(c)
         /\ place[c] = "joined" =>
              place[starter[c]] \notin {"answered", "failed"} /\ ~Gone(c)
         /\ place[c] = "sending" => ~Gone(c)

MarketTick ==
    /\ Idle
    /\ paused' = Capped(paused + 1, Interval)
    /\ left' = [c \in Calls |-> IF left[c] = 0 THEN 0 ELSE left[c] - 1]
    /\ fresh' = [k \in Keys |-> IF fresh[k] = 0 THEN 0 ELSE fresh[k] - 1]
    /\ age' = [x \in Calls \cup Keys |->
         IF x \in Keys \/ \E c \in Calls : starter[c] = x \/ inflight[KeyOf[c]] = x
         THEN Capped(age[x] + 1, Old) ELSE Old]
    /\ waited' = [c \in Calls |->
         IF place[c] = "waiting" /\ granted[c] = None THEN waited[c] + 1 ELSE 0]
    /\ ahead' = [c \in Calls |-> IF place[c] = "waiting" THEN ahead[c] ELSE {}]
    /\ UNCHANGED <<place, starter, inflight, queue, serving, granted>>

(* The caller goes away.                                                   *)
Cancel(c) ==
    /\ place[c] \notin {"idle", "answered", "failed"} /\ ~Gone(c)
    /\ left' = [left EXCEPT ![c] = 0]
    /\ UNCHANGED <<place, starter, cache, age, limiter, notes>>

MarketInit ==
    /\ place = [c \in Calls |-> "idle"]
    /\ left = [c \in Calls |-> 0] /\ starter = [c \in Calls |-> None]
    /\ inflight = [k \in Keys |-> None] /\ fresh = [k \in Keys |-> 0]
    /\ age = [x \in Calls \cup Keys |-> Old]
    /\ queue = <<>> /\ serving = None
    /\ granted = [c \in Calls |-> None]
    /\ paused = Interval
    /\ ahead = [c \in Calls |-> {}] /\ waited = [c \in Calls |-> 0]

Ask(c) == Hit(c) \/ Join(c) \/ Start(c)

Proceed(c) ==
    \/ Share(c) \/ LeaveJoined(c)
    \/ Enqueue(c) \/ TurnAway(c) \/ LeaveQueue(c) \/ Send(c)
    \/ Answer(c) \/ ProviderFails(c)

Worker == Take \/ Skip \/ Admit

MarketNext ==
    \/ \E c \in Calls : Ask(c) \/ Proceed(c) \/ Cancel(c)
    \/ Worker \/ MarketTick

MarketSpec == MarketInit /\ [][MarketNext]_marketVars

-------------------------------------------------------------------------------
(* Properties *)

(* The requests before that of a call that were admitted.                  *)
Admitted(c) == {d \in ahead[c] : granted[d] = "yes"}

(* "requestLimiter admits one request at a time without reserving future   *)
(* slots": a request that waits has waited for one interval for each       *)
(* request before it that was really admitted, and for what has passed of  *)
(* the present one. Those whose callers have gone, in the queue or while   *)
(* the worker waits with them, have taken no slot, and nobody overtakes.   *)
NoSlotWasted ==
    \A c \in Calls : place[c] = "waiting" /\ granted[c] = None =>
        waited[c] <= Interval * Cardinality(Admitted(c)) + paused

(* What a step of a caller comes upon.                                     *)
FindsFresh(c) ==
    /\ place[c] # "answered" /\ place'[c] = "answered" =>
         age'[c] < TTL \/ (place[c] # "idle" /\ age'[c] <= Timeout - left[c])
    /\ place[c] = "idle" /\ place'[c] = "joined" => Fetches(starter'[c])
    /\ place[c] = "idle" /\ place'[c] = "starting" =>
         \A d \in Calls \ {c} : KeyOf[d] = KeyOf[c] => ~Fetches(d)

(* A key is fetched by one call at a time; a quote that is served was      *)
(* fetched within the TTL or after it was asked for, whoever fetched it,   *)
(* and however callers come, join and give up; and nobody joins a fetch    *)
(* that is over, so its error is shared only by who was waiting for it.    *)
ServedFresh == [][\A c \in Calls : FindsFresh(c)]_marketVars
===============================================================================
