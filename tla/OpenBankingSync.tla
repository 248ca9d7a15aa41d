---------------------------- MODULE OpenBankingSync ----------------------------
(***************************************************************************)
(* The transactions of a user's bank account and their synchronisation:    *)
(* the background run every replica starts every five minutes              *)
(* (RunOpenBankingSyncMaintenance), the syncs the user asks for, and what  *)
(* the user does meanwhile: correct or delete a transaction, disconnect    *)
(* the bank and link it again, which gives the same bank account a new row *)
(* (StoreOpenBankingConnection).                                           *)
(*                                                                         *)
(* A sync fetches from the provider, then imports in one transaction that  *)
(* keeps the account row locked. Times are relative, so time has no end: an*)
(* account counts the ticks until it may be claimed, an entry those since  *)
(* its date, and of last_synced_at remains which entries are dated before  *)
(* the window of dates that follows from it.                               *)
(***************************************************************************)
EXTENDS Integers, FiniteSets

CONSTANTS
    Workers,        \* background workers, one per replica
    Clients,        \* syncs users may have in flight
    Accounts,       \* open_banking_accounts rows: one per link of the bank account
    Items,          \* expenses at the bank, named by their entry_reference
    Old,            \* those dated more than three days before the first link
    Overlap,        \* three days: what a sync asks for again
    History,        \* ninety days: what a first sync asks for
    Batch,          \* openBankingSyncBatchSize
    Interval,       \* openBankingSyncInterval
    ClaimTTL,       \* openBankingSyncClaimTTL
    RunTime,        \* the timeout of a background run
    ImportTime,     \* bound: from the end of a fetch to the commit of its import
    MaxVersion,     \* bound: changes of an item at the bank
    MaxRequests,    \* bound: what the user does
    MaxFaults       \* bound: provider errors, failed imports, runs that stop

Procs == Workers \cup Clients

(* Four minutes, five minutes and six hours.                               *)
ASSUME SyncAssumption ==
    /\ Workers \cap Clients = {} /\ Old \subseteq Items
    /\ Batch \in Nat \ {0} /\ MaxVersion \in Nat \ {0}
    /\ RunTime \in Nat /\ ImportTime \in Nat /\ ClaimTTL \in Nat /\ Interval \in Nat
    /\ RunTime < ClaimTTL /\ RunTime + ImportTime < Interval
    /\ Overlap \in Nat /\ History \in Nat /\ Overlap + ImportTime < History
    /\ MaxRequests \in Nat /\ MaxFaults \in Nat

VARIABLES
    bank,           \* the version of each item at the bank, 0: not listed yet
    dated,          \* ticks since its date, up to History + 1, or NotYet
    acct,           \* open_banking_accounts with the status of the connection
    row,            \* row[a][i]: the transaction imported for item i from a
    suppressed,     \* open_banking_transaction_suppressions
    events,         \* bank_spending rows of the outbox, by account and item
    passed,         \* history: items a user's sync of other dates left behind
    pc,             \* where a run or request is
    batch,          \* the accounts it has still to sync
    at,             \* the one it is at
    seen,           \* what it fetched: the version of each item, 0: not in it
    age,            \* ticks since it read the clock at the end of its fetch
    initial,        \* whether its import is the first of the account
    checked,        \* suppressions there were when its import began
    spent,          \* ticks since the run began
    since,          \* history: ticks since the account was last claimed
    requests,
    faults

vars == <<bank, dated, acct, row, suppressed, events, passed, pc, batch, at, seen, age, initial,
          checked, spent, since, requests, faults>>

entries == <<bank, dated>>
ledger == <<row, suppressed, events, passed>>
local  == <<pc, batch, at, seen, age, initial, checked, spent>>

AccountRow ==
    [state : {"none", "linked", "ended", "gone"},   \* status of the connection
     wait : 0 .. Interval,                          \* ticks until next_sync_at
     claim : 0 .. ClaimTTL,                         \* until sync_claimed_until
     synced : BOOLEAN,                              \* last_synced_at IS NOT NULL
     behind : SUBSET Items]                         \* dated before its three days
TransactionRow ==
    [status : {"none", "booked", "deleted"}, version : 0 .. MaxVersion,
     category : {"bank", "user"}]

NoAccount == [state |-> "none", wait |-> 0, claim |-> 0, synced |-> FALSE, behind |-> {}]
NoRow     == [status |-> "none", version |-> 0, category |-> "bank"]
Nothing   == [i \in Items |-> 0]

Exists(a) == acct[a].state \in {"linked", "ended"}

(* SELECT ... FOR UPDATE of the account and its connection.                *)
Locked(a) == \E p \in Procs : pc[p] = "commit" /\ at[p] = a

-------------------------------------------------------------------------------
(* One sync: fetch, begin the import, commit it *)

(* The sync of an account is over; a run goes on with the next one.        *)
Done(p, a) ==
    LET rest == batch[p] \ {a} IN
    /\ batch' = [batch EXCEPT ![p] = rest]
    /\ pc' = [pc EXCEPT ![p] = IF rest = {} THEN "idle" ELSE "fetch"]
    /\ spent' = IF rest = {} THEN [spent EXCEPT ![p] = 0] ELSE spent
    /\ at' = [at EXCEPT ![p] = "none"]
    /\ seen' = [seen EXCEPT ![p] = Nothing]
    /\ age' = [age EXCEPT ![p] = 0]
    /\ initial' = [initial EXCEPT ![p] = FALSE]
    /\ checked' = [checked EXCEPT ![p] = {}]

(* ReleaseOpenBankingSyncClaim after a sync that failed; next_sync_at      *)
(* stays. A user's request has no claim to give back.                      *)
Released(p, a) ==
    IF p \in Workers THEN [acct EXCEPT ![a].claim = 0] ELSE acct

(* The items dated between two days, given by how long ago they are.       *)
NotYet == -1
Between(from, through) == {i \in Items : dated[i] \in through .. from}

MutantWindow(a) == Between(IF acct[a].synced THEN Overlap ELSE History, 0)
(* The dates a sync asks for if it is not told any: a first one the last   *)
(* ninety days, a later one from three days before last_synced_at.         *)
DefaultWindow(a) ==
    IF acct[a].synced
    THEN {i \in Items : dated[i] # NotYet} \ acct[a].behind
    ELSE Between(History, 0)

Fetched(p, a, window) ==
    /\ at' = [at EXCEPT ![p] = a]
    /\ seen' = [seen EXCEPT ![p] = [i \in Items |-> IF i \in window THEN bank[i] ELSE 0]]
    /\ age' = [age EXCEPT ![p] = 0]
    /\ pc' = [pc EXCEPT ![p] = "import"]

Fetch(w, a) ==
    /\ pc[w] = "fetch" /\ a \in batch[w] /\ acct[a].state = "linked"
    /\ Fetched(w, a, DefaultWindow(a))
    /\ UNCHANGED <<entries, acct, ledger, batch, initial, checked, spent, since, requests, faults>>

(* The account is gone, or the bank refuses: the consent has ended.        *)
Refused(w, a) ==
    /\ pc[w] = "fetch" /\ a \in batch[w] /\ acct[a].state # "linked"
    /\ acct' = Released(w, a)
    /\ Done(w, a)
    /\ UNCHANGED <<entries, ledger, since, requests, faults>>

(* The import locks the account row. From here on no transaction of the    *)
(* account can be deleted: the suppression refers to the row.              *)
Begin(p) ==
    /\ pc[p] = "import" /\ Exists(at[p]) /\ ~Locked(at[p])
    /\ initial' = [initial EXCEPT ![p] = ~acct[at[p]].synced]
    /\ checked' = [checked EXCEPT ![p] = suppressed]
    /\ pc' = [pc EXCEPT ![p] = "commit"]
    /\ UNCHANGED <<entries, acct, ledger, batch, at, seen, age, spent, since, requests, faults>>

NotFound(p) ==
    /\ pc[p] = "import" /\ ~Exists(at[p])
    /\ Done(p, at[p])
    /\ UNCHANGED <<entries, acct, ledger, since, requests, faults>>

MutantUpserted(old, version) == [status |-> "booked", version |-> version, category |-> "bank"]
(* INSERT ... ON CONFLICT DO NOTHING, then an UPDATE that keeps what the   *)
(* user has corrected.                                                     *)
Upserted(old, version) ==
    [status |-> "booked", version |-> version,
     category |-> IF old.status = "booked" THEN old.category ELSE "bank"]

MutantWait(elapsed) == Interval + elapsed
(* syncedAt + 6 hours                                                      *)
Wait(elapsed) == Interval - elapsed

(* The items dated more than three days before syncedAt.                   *)
Before(elapsed) == {i \in Items : dated[i] > Overlap + elapsed}

(* last_synced_at is syncedAt whichever dates the sync has asked for.      *)
Imported(account, elapsed) ==
    [account EXCEPT !.synced = TRUE, !.wait = Wait(elapsed), !.claim = 0,
                    !.behind = Before(elapsed)]

(* Each item is looked up in the suppressions at some moment after the     *)
(* transaction began.                                                      *)
Commit(p) ==
    LET a == at[p] IN
    /\ pc[p] = "commit"
    /\ \E known \in SUBSET suppressed :
         LET booked == {i \in Items : seen[p][i] > 0 /\ i \notin known} IN
         /\ checked[p] \subseteq known
         /\ row' = [row EXCEPT ![a] = [i \in Items |->
                      IF i \in booked THEN Upserted(@[i], seen[p][i]) ELSE @[i]]]
         /\ events' = IF initial[p] THEN events
                      ELSE events \cup {<<a, i>> : i \in {j \in booked : row[a][j].status # "booked"}}
    /\ acct' = [acct EXCEPT ![a] = Imported(@, age[p])]
    /\ passed' = IF p \in Workers THEN passed
                 ELSE passed \cup {<<a, i>> : i \in {j \in Before(age[p]) :
                                       j \notin acct[a].behind /\ seen[p][j] = 0}}
    /\ Done(p, a)
    /\ UNCHANGED <<entries, suppressed, since, requests, faults>>

(* The provider fails, a statement fails, or PostgreSQL ends a deadlock    *)
(* with a DeleteTransaction that waits for the account row.                *)
SyncFails(p) ==
    /\ pc[p] # "idle" /\ faults < MaxFaults
    /\ faults' = faults + 1
    /\ \E a \in IF pc[p] = "fetch" THEN batch[p] ELSE {at[p]} :
         acct' = Released(p, a) /\ Done(p, a)
    /\ UNCHANGED <<entries, ledger, since, requests>>

-------------------------------------------------------------------------------
(* The background run *)

MutantDue == {a \in Accounts : acct[a].state = "linked" /\ acct[a].claim = 0 /\ ~Locked(a)}
Due == {a \in Accounts :
          /\ acct[a].state = "linked" /\ ~Locked(a)
          /\ acct[a].wait = 0 /\ acct[a].claim = 0}

Claimed(account) == [account EXCEPT !.wait = Interval, !.claim = ClaimTTL]

(* ClaimOpenBankingAccountsForSync. Which of the due accounts come first   *)
(* is left open.                                                           *)
Claim(w) ==
    /\ pc[w] = "idle" /\ Due # {}
    /\ \E claimed \in SUBSET Due :
         /\ Cardinality(claimed) = IF Cardinality(Due) < Batch THEN Cardinality(Due) ELSE Batch
         /\ acct' = [a \in Accounts |-> IF a \in claimed THEN Claimed(acct[a]) ELSE acct[a]]
         /\ since' = [a \in Accounts |-> IF a \in claimed THEN 0 ELSE since[a]]
         /\ batch' = [batch EXCEPT ![w] = claimed]
    /\ pc' = [pc EXCEPT ![w] = "fetch"]
    /\ spent' = [spent EXCEPT ![w] = 0]
    /\ UNCHANGED <<entries, ledger, at, seen, age, initial, checked, requests, faults>>

(* The process dies, or the run's context ends and with it what is left of *)
(* its batch: nothing is released.                                         *)
RunStops(w) ==
    /\ pc[w] # "idle" /\ faults < MaxFaults
    /\ faults' = faults + 1
    /\ batch' = [batch EXCEPT ![w] = {}]
    /\ pc' = [pc EXCEPT ![w] = "idle"]
    /\ spent' = [spent EXCEPT ![w] = 0]
    /\ at' = [at EXCEPT ![w] = "none"]
    /\ seen' = [seen EXCEPT ![w] = Nothing]
    /\ age' = [age EXCEPT ![w] = 0]
    /\ initial' = [initial EXCEPT ![w] = FALSE]
    /\ checked' = [checked EXCEPT ![w] = {}]
    /\ UNCHANGED <<entries, acct, ledger, since, requests>>

-------------------------------------------------------------------------------
(* The user and the bank *)

Request == requests < MaxRequests /\ requests' = requests + 1

(* SyncOpenBankingAccount with the default dates or with any others up to  *)
(* today.                                                                  *)
AskForSync(c, a) ==
    /\ Request /\ pc[c] = "idle" /\ acct[a].state = "linked"
    /\ \/ Fetched(c, a, DefaultWindow(a))
       \/ \E from \in 0 .. History + 1 : \E through \in 0 .. from :
            Fetched(c, a, Between(from, through))
    /\ UNCHANGED <<entries, acct, ledger, batch, initial, checked, spent, since, faults>>

(* StoreOpenBankingConnection inserts new rows, next_sync_at is now.       *)
Link(a) ==
    /\ acct[a].state = "none"
    /\ acct' = [acct EXCEPT ![a].state = "linked"]
    /\ UNCHANGED <<entries, ledger, local, since, requests, faults>>

(* valid_until has passed, or the user's app learned the new status.       *)
ConsentEnds(a) ==
    /\ Request /\ acct[a].state = "linked"
    /\ acct' = [acct EXCEPT ![a].state = "ended"]
    /\ UNCHANGED <<entries, ledger, local, since, faults>>

(* DeleteOpenBankingConnection takes the account rows with it; the         *)
(* transactions stay, their source_account_id is NULL from now on.         *)
Disconnect(a) ==
    /\ Request /\ Exists(a) /\ ~Locked(a)
    /\ acct' = [acct EXCEPT ![a] = [NoAccount EXCEPT !.state = "gone"]]
    /\ UNCHANGED <<entries, ledger, local, since, faults>>

MutantMayDelete(a) == TRUE
(* The foreign key of the suppression waits for whoever has the account    *)
(* row locked.                                                             *)
MayDelete(a) == Exists(a) => ~Locked(a)

DeleteTransaction(a, i) ==
    /\ Request /\ row[a][i].status = "booked" /\ MayDelete(a)
    /\ row' = [row EXCEPT ![a][i] = [NoRow EXCEPT !.status = "deleted"]]
    /\ suppressed' = IF Exists(a) THEN suppressed \cup {i} ELSE suppressed
    /\ UNCHANGED <<entries, acct, events, passed, local, since, faults>>

(* UpdateTransaction with another category or type.                        *)
CorrectTransaction(a, i) ==
    /\ Request /\ row[a][i].status = "booked" /\ row[a][i].category = "bank"
    /\ row' = [row EXCEPT ![a][i].category = "user"]
    /\ UNCHANGED <<entries, acct, suppressed, events, passed, local, since, faults>>

(* The day of an item, also of one the bank will list only later.          *)
DateComes(i) ==
    /\ dated[i] = NotYet
    /\ dated' = [dated EXCEPT ![i] = 0]
    /\ UNCHANGED <<bank, acct, ledger, local, since, requests, faults>>

(* The bank lists an item, or changes one, however old.                    *)
BankChanges(i) ==
    /\ dated[i] # NotYet /\ bank[i] < MaxVersion
    /\ bank' = [bank EXCEPT ![i] = @ + 1]
    /\ UNCHANGED <<dated, acct, ledger, local, since, requests, faults>>

Minus(n) == IF n > 0 THEN n - 1 ELSE 0
Later(account) == [account EXCEPT !.wait = Minus(@), !.claim = Minus(@)]

(* No run outlives its timeout.                                            *)
InTime ==
    /\ \A w \in Workers : pc[w] # "idle" => spent[w] < RunTime
    /\ \A p \in Procs : pc[p] \in {"import", "commit"} => age[p] < ImportTime

Tick ==
    /\ InTime
    /\ dated' = [i \in Items |-> IF dated[i] \in 0 .. History THEN dated[i] + 1 ELSE dated[i]]
    /\ acct' = [a \in Accounts |-> Later(acct[a])]
    /\ since' = [a \in Accounts |-> IF since[a] < Interval THEN since[a] + 1 ELSE since[a]]
    /\ age' = [p \in Procs |-> IF pc[p] \in {"import", "commit"} THEN age[p] + 1 ELSE 0]
    /\ spent' = [p \in Procs |-> IF p \in Workers /\ pc[p] # "idle" THEN spent[p] + 1 ELSE 0]
    /\ UNCHANGED <<bank, ledger, pc, batch, at, seen, initial, checked, requests, faults>>

-------------------------------------------------------------------------------
Init ==
    /\ bank = [i \in Items |-> IF i \in Old THEN 1 ELSE 0]
    /\ dated = [i \in Items |-> IF i \in Old THEN Overlap + 1 ELSE NotYet]
    /\ acct = [a \in Accounts |-> NoAccount]
    /\ row = [a \in Accounts |-> [i \in Items |-> NoRow]]
    /\ suppressed = {}
    /\ events = {}
    /\ passed = {}
    /\ pc = [p \in Procs |-> "idle"]
    /\ batch = [p \in Procs |-> {}]
    /\ at = [p \in Procs |-> "none"]
    /\ seen = [p \in Procs |-> Nothing]
    /\ age = [p \in Procs |-> 0]
    /\ initial = [p \in Procs |-> FALSE]
    /\ checked = [p \in Procs |-> {}]
    /\ spent = [p \in Procs |-> 0]
    /\ since = [a \in Accounts |-> Interval]
    /\ requests = 0
    /\ faults = 0

Import(p) == Begin(p) \/ NotFound(p) \/ Commit(p)

Run(w) ==
    \/ Claim(w)
    \/ \E a \in Accounts : Fetch(w, a) \/ Refused(w, a)
    \/ Import(w)

Next ==
    \/ \E w \in Workers : Run(w) \/ RunStops(w)
    \/ \E c \in Clients : Import(c) \/ \E a \in Accounts : AskForSync(c, a)
    \/ \E p \in Procs : SyncFails(p)
    \/ \E a \in Accounts : Link(a) \/ ConsentEnds(a) \/ Disconnect(a)
    \/ \E a \in Accounts, i \in Items : DeleteTransaction(a, i) \/ CorrectTransaction(a, i)
    \/ \E i \in Items : DateComes(i) \/ BankChanges(i)
    \/ Tick

Spec == Init /\ [][Next]_vars

(* The replicas' tickers go on, an import that has begun is finished, and  *)
(* time passes.                                                            *)
FairSpec ==
    /\ Spec /\ WF_vars(Tick)
    /\ \A w \in Workers : WF_vars(Run(w))
    /\ \A c \in Clients : WF_vars(Import(c))

-------------------------------------------------------------------------------
(* Properties *)

TypeOK ==
    /\ bank \in [Items -> 0 .. MaxVersion] /\ dated \in [Items -> NotYet .. History + 1]
    /\ acct \in [Accounts -> AccountRow]
    /\ row \in [Accounts -> [Items -> TransactionRow]]
    /\ suppressed \subseteq Items
    /\ events \subseteq Accounts \X Items /\ passed \subseteq Accounts \X Items
    /\ pc \in [Procs -> {"idle", "fetch", "import", "commit"}]
    /\ batch \in [Procs -> SUBSET Accounts] /\ at \in [Procs -> Accounts \cup {"none"}]
    /\ \A p \in Procs : pc[p] \in {"import", "commit"} => at[p] \in Accounts
    /\ seen \in [Procs -> [Items -> 0 .. MaxVersion]]
    /\ age \in [Procs -> 0 .. ImportTime] /\ initial \in [Procs -> BOOLEAN]
    /\ checked \in [Procs -> SUBSET Items] /\ spent \in [Procs -> 0 .. RunTime]
    /\ since \in [Accounts -> 0 .. Interval]
    /\ requests \in 0 .. MaxRequests /\ faults \in 0 .. MaxFaults

(* "Claims are stored in PostgreSQL so the two production replicas cannot  *)
(* duplicate the same provider fetch": no two runs have the same account   *)
(* in hand, also when a user's sync of it has cleared the claim.           *)
OneFetcher ==
    \A w, v \in Workers : w # v => batch[w] \cap batch[v] = {}

(* "at most once every six hours": what is claimed was not claimed in the  *)
(* last six hours, less the time an import may take, because the import of *)
(* a user's sync sets next_sync_at from a clock it read before.            *)
Paced ==
    [][\A a \in Accounts :
         since'[a] = 0 /\ since[a] # 0 => since[a] >= Interval - ImportTime]_vars

(* A transaction the user deleted while its bank account was linked is     *)
(* never imported again through that account, whatever syncs are under way *)
(* with data they fetched or checked before.                               *)
DeletedStaysDeleted ==
    [][\A a \in Accounts, i \in Items :
         row[a][i].status = "deleted" => row'[a][i].status = "deleted"]_vars

(* "manual user category corrections are preserved during later syncs",    *)
(* and during the ones that are under way.                                 *)
CorrectionKept ==
    [][\A a \in Accounts, i \in Items :
         row[a][i].category = "user" =>
            row'[a][i].category = "user" \/ row'[a][i].status = "deleted"]_vars

(* The next sync by default dates would bring the current version.         *)
Owed(a, i) ==
    /\ acct[a].state = "linked" /\ bank[i] > 0 /\ i \in DefaultWindow(a)
    /\ \A p \in Procs : pc[p] \in {"import", "commit"} => at[p] # a

(* What excuses it: the user has deleted the transaction or unlinked the   *)
(* bank, has asked for other dates, which moves last_synced_at past the    *)
(* item all the same, or no sync succeeded before it was ninety days old.  *)
Excused(a, i) ==
    \/ i \in suppressed \/ acct[a].state # "linked" \/ <<a, i>> \in passed
    \/ ~acct[a].synced /\ dated[i] > History

(* Whatever is imported out of order or fails, and however long: a version *)
(* that is within the dates of the next sync, when nothing fetched before  *)
(* is still to be imported, gets into the ledger, although every import    *)
(* moves those dates on.                                                   *)
EventuallyFresh ==
    \A a \in Accounts, i \in Items, v \in 1 .. MaxVersion :
        (Owed(a, i) /\ bank[i] = v) ~> (row[a][i].version >= v \/ Excused(a, i))

(* README.md: "Initial history does not produce a burst of old spending    *)
(* alerts."                                                                *)
HistoryIsSilent == \A a \in Accounts, i \in Old : <<a, i>> \notin events

(* README.md: "Imports are idempotent, use the provider's stable           *)
(* entry_reference": an item of the bank is in the user's ledger once.     *)
LedgerOnce ==
    \A a, b \in Accounts, i \in Items :
        row[a][i].status = "booked" /\ row[b][i].status = "booked" => a = b
==============================================================================
