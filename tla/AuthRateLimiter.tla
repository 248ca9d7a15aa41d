---------------------------- MODULE AuthRateLimiter ----------------------------
(***************************************************************************)
(* The limit on attempts to log in or register: a window per route,        *)
(* identifier and client, in the memory of one replica. The client is an   *)
(* address taken from the connection or, behind proxies that are trusted,  *)
(* from the headers they complete.                                         *)
(***************************************************************************)
EXTENDS Integers, Sequences, Functions

CONSTANTS
    Clients,            \* addresses of clients
    Chains,             \* what a replica may stand behind: proxies with addresses
                        \* in TrustedProxyCIDRs, the innermost last
    Accounts,           \* pairs of route and normalised identifier
    Earlier,            \* what a header may hold before the first proxy
    Limit, Window,      \* AuthRateLimit, AuthRateWindow in ticks
    SweepEvery          \* 256

ASSUME LimiterAssumption ==
    /\ Limit \in Nat \ {0} /\ Window \in Nat /\ SweepEvery \in Nat \ {0}
    /\ \A chain \in Chains :
         /\ chain \in Seq(Range(chain))
         /\ Clients \cap Range(chain) = {} /\ "unknown" \notin Range(chain)
    /\ "unknown" \notin Clients
    /\ \A e \in Earlier : e \in Seq(Range(e))

VARIABLES
    proxies,            \* the chain this replica is configured for
    entries,            \* per account and address: count, ticks to resetTime
    attempts,           \* calls % SweepEvery
    retryAfter,         \* answer to the last attempt, 0 if it was let through
    log,                \* history: how long ago an attempt was let through, per
                        \* account and address, last one first
    known               \* history: the addresses a client was counted under

limiterVars == <<proxies, entries, attempts, retryAfter, log, known>>

(* Of two windows; Window stands for any longer time.                      *)
Recent == 1 .. 2 * Limit

-------------------------------------------------------------------------------
(* clientIP: remote is the peer, forwarded the list of X-Forwarded-For,    *)
(* where "unknown" is an entry that is no address, and real the address of *)
(* X-Real-IP.                                                              *)

(* TrustedProxyHops is the number of proxies, 0 if there are none.         *)
Hops == Len(proxies)

Trusted(address) == address \in Range(proxies)

MutantIndex(forwarded) == 1

Index(forwarded) == Len(forwarded) - Hops + 1

ClientIP(remote, forwarded, real) ==
    LET parsed == IF "unknown" \in Range(forwarded) THEN <<>> ELSE forwarded
        index  == Index(parsed)
    IN  IF Hops = 0 \/ ~Trusted(remote) THEN remote
        ELSE IF Len(parsed) >= Hops
             THEN IF \A i \in index + 1 .. Len(parsed) : Trusted(parsed[i])
                  THEN parsed[index] ELSE remote
             ELSE IF Hops = 1 THEN real ELSE remote

(* Each proxy appends whom it speaks to, and the last one names the client *)
(* in X-Real-IP; who speaks to the server directly writes both as it likes.*)
AddressOf(c, earlier, direct) ==
    IF direct \/ Hops = 0 THEN ClientIP(c, earlier, c)
    ELSE ClientIP(proxies[Hops], earlier \o <<c>> \o SubSeq(proxies, 1, Hops - 1), c)

-------------------------------------------------------------------------------
(* authRateLimiter.Allow, which holds its mutex from the first line on     *)

Expired(entry) == entry.left = 0

(* An entry that is swept is one that is opened anew: none and an expired  *)
(* one are the same to Allow.                                              *)
Swept(all) ==
    [key \in DOMAIN all |-> IF Expired(all[key]) THEN [count |-> 0, left |-> 0] ELSE all[key]]

Allow(c, account, earlier, direct) ==
    LET address == AddressOf(c, earlier, direct)
        key    == <<account, address>>
        calls  == (attempts + 1) % SweepEvery
        swept  == IF calls = 0 THEN Swept(entries) ELSE entries
        entry  == swept[key]
        Let(count, left) ==
            /\ entries' = [swept EXCEPT ![key] = [count |-> count, left |-> left]]
            /\ retryAfter' = 0
            /\ log' = [log EXCEPT ![key] = [i \in Recent |-> IF i = 1 THEN 0 ELSE @[i - 1]]]
    IN  /\ attempts' = calls
        /\ known' = [known EXCEPT ![c] = @ \cup {address}]
        /\ \/ Expired(entry) /\ Let(1, Window)
           \/ ~Expired(entry) /\ entry.count < Limit /\ Let(entry.count + 1, entry.left)
           \/ /\ ~Expired(entry) /\ entry.count >= Limit
              /\ entries' = swept /\ retryAfter' = entry.left
              /\ UNCHANGED log
        /\ UNCHANGED proxies

LimiterTick ==
    /\ entries' = [key \in DOMAIN entries |->
         [entries[key] EXCEPT !.left = IF @ = 0 THEN 0 ELSE @ - 1]]
    /\ log' = [x \in DOMAIN log |->
         [i \in Recent |-> IF log[x][i] < Window THEN log[x][i] + 1 ELSE Window]]
    /\ UNCHANGED <<proxies, attempts, retryAfter, known>>

LimiterKeys == Accounts \X (Clients \cup UNION {Range(chain) : chain \in Chains})

LimiterInit ==
    /\ proxies \in Chains
    /\ entries = [key \in LimiterKeys |-> [count |-> 0, left |-> 0]]
    /\ attempts = 0 /\ retryAfter = 0
    /\ log = [key \in LimiterKeys |-> [i \in Recent |-> Window]]
    /\ known = [c \in Clients |-> {}]

LimiterNext ==
    \/ \E c \in Clients, account \in Accounts, earlier \in Earlier, direct \in BOOLEAN :
         Allow(c, account, earlier, direct)
    \/ LimiterTick

LimiterSpec == LimiterInit /\ [][LimiterNext]_limiterVars

-------------------------------------------------------------------------------
(* Properties *)

(* What a client is counted under besides its own address. Behind several  *)
(* proxies an entry that is no address makes clientIP fall back on the     *)
(* last of them: a second count, which all clients share.                  *)
Fallback == IF Hops > 1 THEN {proxies[Hops]} ELSE {}

(* In no stretch of time as long as a window are attempts at an account    *)
(* let through under an address as often as two full windows, although     *)
(* windows are opened by the first attempt and swept now and then; no      *)
(* header lets a client be counted as another or as anyone it likes; and   *)
(* who is turned away has a time to come back at, within a window.         *)
AttemptsBounded ==
    /\ \A key \in LimiterKeys : log[key][2 * Limit] >= Window
    /\ \A c \in Clients : known[c] \subseteq {c} \cup Fallback
    /\ retryAfter \in 0 .. Window
===============================================================================
