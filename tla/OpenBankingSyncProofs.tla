------------------------ MODULE OpenBankingSyncProofs -------------------------
(***************************************************************************)
(* Theorems about OpenBankingSync, for any number of replicas, requests,   *)
(* accounts and entries, and any RunTime + ImportTime < Interval.          *)
(*                                                                         *)
(* OneFetcher and Paced rest on Spaced and InHand: the wait of an account  *)
(* makes up for the time since its claim and for the age of the run that   *)
(* has it in hand, so nobody claims what another replica still works on.   *)
(* DeletedStaysDeleted rests on Remembered and AtWork: what was deleted is *)
(* suppressed, and an import under way has read all of it. CorrectionKept  *)
(* rests on Corrected, and what is said of an account that was never       *)
(* linked (Unused) is there for Link.                                      *)
(***************************************************************************)
EXTENDS OpenBankingSync, TLAPS

USE SyncAssumption DEF SyncAssumption

(* An account that was never linked has nothing, was never claimed.        *)
Unused ==
    \A a \in Accounts : acct[a].state = "none" =>
        /\ since[a] = Interval
        /\ \A i \in Items : row[a][i].status = "none"

(* The next claim of an account is as far away as the last one allows.     *)
Spaced ==
    \A a \in Accounts : Exists(a) => acct[a].wait + since[a] >= Interval - ImportTime

(* The same of the accounts a run has in hand, by the age of the run.      *)
InHand ==
    \A w \in Workers :
        /\ pc[w] = "idle" => batch[w] = {}
        /\ \A a \in batch[w] :
             /\ acct[a].state # "none"
             /\ Exists(a) => acct[a].wait + spent[w] >= Interval - ImportTime

(* What was deleted while its account was linked is suppressed.            *)
Remembered ==
    \A a \in Accounts, i \in Items :
        Exists(a) /\ row[a][i].status = "deleted" => i \in suppressed

(* An import under way holds its account and knows what was deleted in it. *)
AtWork ==
    \A p \in Procs : pc[p] = "commit" =>
        /\ Exists(at[p])
        /\ \A i \in Items : row[at[p]][i].status = "deleted" => i \in checked[p]

(* A correction is of a transaction that is there.                         *)
Corrected ==
    \A a \in Accounts, i \in Items : row[a][i].category = "user" => row[a][i].status = "booked"

-------------------------------------------------------------------------------
(* Facts about the operators *)

(* The variables a sync keeps for itself, and the type they have.          *)
LocalType ==
    /\ pc \in [Procs -> {"idle", "fetch", "import", "commit"}]
    /\ batch \in [Procs -> SUBSET Accounts] /\ at \in [Procs -> Accounts \cup {"none"}]
    /\ \A p \in Procs : pc[p] \in {"import", "commit"} => at[p] \in Accounts
    /\ seen \in [Procs -> [Items -> 0 .. MaxVersion]]
    /\ age \in [Procs -> 0 .. ImportTime] /\ initial \in [Procs -> BOOLEAN]
    /\ checked \in [Procs -> SUBSET Items] /\ spent \in [Procs -> 0 .. RunTime]

(* What a run or request remembers once a sync is over is well typed.      *)
LEMMA DoneType ==
    ASSUME LocalType, NEW p \in Procs, NEW a, Done(p, a)
    PROVE  LocalType'
<1> USE DEF LocalType, Done
<1>1. Nothing \in [Items -> 0 .. MaxVersion]
  BY DEF Nothing
<1>2. batch[p] \ {a} \in SUBSET Accounts
  OBVIOUS
<1>3. pc' \in [Procs -> {"idle", "fetch", "import", "commit"}]
  OBVIOUS
<1>4. \A q \in Procs : pc'[q] \in {"import", "commit"} => at'[q] \in Accounts
  <2> SUFFICES ASSUME NEW q \in Procs, pc'[q] \in {"import", "commit"}
               PROVE  at'[q] \in Accounts
    OBVIOUS
  <2>1. q # p
    OBVIOUS
  <2>2. QED
    BY <2>1
<1>5. QED
  BY <1>1, <1>2, <1>3, <1>4

LEMMA ReleasedType ==
    ASSUME acct \in [Accounts -> AccountRow], NEW p, NEW a \in Accounts
    PROVE  Released(p, a) \in [Accounts -> AccountRow]
  BY DEF Released, AccountRow

(* The times an account row is given.                                      *)
LEMMA Times ==
    /\ 0 \in 0 .. Interval /\ Interval \in 0 .. Interval
    /\ 0 \in 0 .. ClaimTTL /\ ClaimTTL \in 0 .. ClaimTTL
    /\ \A elapsed \in 0 .. ImportTime : Interval - elapsed \in 0 .. Interval
  OBVIOUS

(* What an import, a claim and a tick make of an account row is one.       *)
LEMMA ImportedType ==
    ASSUME NEW account \in AccountRow, NEW elapsed \in 0 .. ImportTime
    PROVE  /\ Imported(account, elapsed) \in AccountRow
           /\ Imported(account, elapsed).state = account.state
           /\ Imported(account, elapsed).wait = Interval - elapsed
<1>1. Before(elapsed) \in SUBSET Items
  BY DEF Before
<1>2. QED
  BY <1>1, Times, Zenon DEF AccountRow, Imported, Wait

LEMMA ClaimedType ==
    ASSUME NEW account \in AccountRow
    PROVE  /\ Claimed(account) \in AccountRow
           /\ Claimed(account).state = account.state
           /\ Claimed(account).wait = Interval
  BY Times, Zenon DEF AccountRow, Claimed

LEMMA LaterType ==
    ASSUME NEW account \in AccountRow
    PROVE  /\ Later(account) \in AccountRow
           /\ Later(account).state = account.state
           /\ Later(account).wait = Minus(account.wait)
<1>1. Minus(account.wait) \in 0 .. Interval /\ Minus(account.claim) \in 0 .. ClaimTTL
  BY DEF AccountRow, Minus
<1>2. QED
  BY <1>1 DEF AccountRow, Later

(* An account and a transaction with another state or category.            *)
LEMMA StateType ==
    ASSUME NEW account \in AccountRow, NEW s \in {"none", "linked", "ended", "gone"}
    PROVE  /\ [account EXCEPT !.state = s] \in AccountRow
           /\ [account EXCEPT !.state = s].state = s
           /\ [account EXCEPT !.state = s].wait = account.wait
  BY Zenon DEF AccountRow

LEMMA CategoryType ==
    ASSUME NEW old \in TransactionRow, NEW c \in {"bank", "user"}
    PROVE  /\ [old EXCEPT !.category = c] \in TransactionRow
           /\ [old EXCEPT !.category = c].category = c
           /\ [old EXCEPT !.category = c].status = old.status
  BY Zenon DEF TransactionRow

(* Giving back a claim leaves state and wait of every account alone.       *)
LEMMA ReleasedKeeps ==
    ASSUME TypeOK, NEW p, NEW a, acct' = Released(p, a), NEW b \in Accounts
    PROVE  acct'[b].state = acct[b].state /\ acct'[b].wait = acct[b].wait
  BY DEF TypeOK, Released, AccountRow

LEMMA UpsertedType ==
    ASSUME NEW old \in TransactionRow, NEW version \in 0 .. MaxVersion
    PROVE  /\ Upserted(old, version) \in TransactionRow
           /\ Upserted(old, version).status = "booked"
           /\ Upserted(old, version).category = "user" <=>
                old.status = "booked" /\ old.category = "user"
  BY DEF Upserted, TransactionRow

-------------------------------------------------------------------------------
(* Type correctness *)

LEMMA InitTyped == Init => TypeOK
  BY DEF Init, TypeOK, NoAccount, NoRow, Nothing, AccountRow, TransactionRow, Procs, NotYet

LEMMA TypedStep ==
    ASSUME TypeOK, [Next]_vars
    PROVE  TypeOK'
<1> USE DEF TypeOK, entries
<1>l. LocalType
  BY DEF LocalType
<1>1. ASSUME NEW w \in Workers, Claim(w) PROVE TypeOK'
  <2>1. Due \subseteq Accounts
    BY DEF Due
  <2>2. acct' \in [Accounts -> AccountRow] /\ since' \in [Accounts -> 0 .. Interval]
    BY <1>1, ClaimedType DEF Claim
  <2>3. QED
    BY <1>1, <2>1, <2>2 DEF Claim, ledger, Procs
<1>2. ASSUME NEW w \in Workers, NEW a \in Accounts, Fetch(w, a) PROVE TypeOK'
  BY <1>2 DEF Fetch, Fetched, ledger, Procs
<1>3. ASSUME NEW w \in Workers, NEW a \in Accounts, Refused(w, a) PROVE TypeOK'
  <2>1. LocalType'
    BY <1>3, <1>l, DoneType DEF Refused, Procs
  <2>2. QED
    BY <1>3, <2>1, ReleasedType DEF Refused, LocalType, ledger
<1>4. ASSUME NEW p \in Procs, Begin(p) PROVE TypeOK'
  BY <1>4 DEF Begin, ledger
<1>5. ASSUME NEW p \in Procs, NotFound(p) PROVE TypeOK'
  <2>1. LocalType'
    BY <1>5, <1>l, DoneType DEF NotFound
  <2>2. QED
    BY <1>5, <2>1 DEF NotFound, LocalType, ledger
<1>6. ASSUME NEW p \in Procs, Commit(p) PROVE TypeOK'
  <2>1. LocalType'
    BY <1>6, <1>l, DoneType DEF Commit
  <2>2. at[p] \in Accounts
    BY <1>6 DEF Commit
  <2>3. acct' \in [Accounts -> AccountRow]
    BY <1>6, <2>2, ImportedType DEF Commit
  <2>4. \A i \in Items : Upserted(row[at[p]][i], seen[p][i]) \in TransactionRow
    BY <2>2, UpsertedType
  <2>5. row' \in [Accounts -> [Items -> TransactionRow]]
    BY <1>6, <2>2, <2>4 DEF Commit
  <2>6. events' \subseteq Accounts \X Items /\ passed' \subseteq Accounts \X Items
    BY <1>6, <2>2 DEF Commit, Before
  <2>7. QED
    BY <1>6, <2>1, <2>3, <2>5, <2>6 DEF Commit, LocalType
<1>7. ASSUME NEW p \in Procs, SyncFails(p) PROVE TypeOK'
  <2>1. PICK a \in Accounts : acct' = Released(p, a) /\ Done(p, a)
    BY <1>7 DEF SyncFails
  <2>2. LocalType'
    BY <1>l, <2>1, DoneType
  <2>3. QED
    BY <1>7, <2>1, <2>2, ReleasedType DEF SyncFails, LocalType, ledger
<1>8. ASSUME NEW w \in Workers, RunStops(w) PROVE TypeOK'
  <2>1. w \in Procs /\ Nothing \in [Items -> 0 .. MaxVersion]
    BY DEF Procs, Nothing
  <2>2. QED
    BY <1>8, <2>1 DEF RunStops, ledger
<1>9. ASSUME NEW c \in Clients, NEW a \in Accounts, AskForSync(c, a) PROVE TypeOK'
  <2>1. \E window : Fetched(c, a, window)
    BY <1>9 DEF AskForSync
  <2>2. requests' \in 0 .. MaxRequests
    BY <1>9 DEF AskForSync, Request
  <2>3. UNCHANGED <<entries, acct, ledger, batch, initial, checked, spent, since, faults>>
    BY <1>9 DEF AskForSync
  <2>4. QED
    BY <2>1, <2>2, <2>3 DEF Fetched, ledger, Procs
<1>10. ASSUME NEW a \in Accounts, Link(a) PROVE TypeOK'
  <2>1. [acct[a] EXCEPT !.state = "linked"] \in AccountRow
    BY StateType
  <2>2. acct' \in [Accounts -> AccountRow]
    BY <1>10, <2>1 DEF Link
  <2>3. QED
    BY <1>10, <2>2 DEF Link, ledger, local
<1>11. ASSUME NEW a \in Accounts, ConsentEnds(a) PROVE TypeOK'
  <2>1. [acct[a] EXCEPT !.state = "ended"] \in AccountRow
    BY StateType
  <2>2. acct' \in [Accounts -> AccountRow]
    BY <1>11, <2>1 DEF ConsentEnds
  <2>3. QED
    BY <1>11, <2>2 DEF ConsentEnds, Request, ledger, local
<1>12. ASSUME NEW a \in Accounts, Disconnect(a) PROVE TypeOK'
  <2>1. [NoAccount EXCEPT !.state = "gone"] \in AccountRow
    BY Times, Zenon DEF NoAccount, AccountRow
  <2>2. QED
    BY <1>12, <2>1 DEF Disconnect, Request, ledger, local
<1>13. ASSUME NEW a \in Accounts, NEW i \in Items, DeleteTransaction(a, i) PROVE TypeOK'
  <2>1. [NoRow EXCEPT !.status = "deleted"] \in TransactionRow
    <3>1. 0 \in 0 .. MaxVersion
      OBVIOUS
    <3>2. QED
      BY <3>1, Zenon DEF NoRow, TransactionRow
  <2>2. row' \in [Accounts -> [Items -> TransactionRow]]
    BY <1>13, <2>1 DEF DeleteTransaction
  <2>3. QED
    BY <1>13, <2>2 DEF DeleteTransaction, Request, local
<1>14. ASSUME NEW a \in Accounts, NEW i \in Items, CorrectTransaction(a, i) PROVE TypeOK'
  <2>1. row[a][i] \in TransactionRow
    OBVIOUS
  <2>2. [row[a][i] EXCEPT !.category = "user"] \in TransactionRow
    BY <2>1, CategoryType
  <2>3. row' \in [Accounts -> [Items -> TransactionRow]]
    BY <1>14, <2>2 DEF CorrectTransaction
  <2>4. QED
    BY <1>14, <2>3 DEF CorrectTransaction, Request, local
<1>15. ASSUME NEW i \in Items, BankChanges(i) PROVE TypeOK'
  BY <1>15 DEF BankChanges, ledger, local
<1>16. ASSUME NEW i \in Items, DateComes(i) PROVE TypeOK'
  <2>1. 0 \in NotYet .. History + 1
    BY DEF NotYet
  <2>2. QED
    BY <1>16, <2>1 DEF DateComes, ledger, local
<1>17. CASE Tick
  <2>1. acct' \in [Accounts -> AccountRow]
    BY <1>17, LaterType DEF Tick
  <2>2. age' \in [Procs -> 0 .. ImportTime] /\ spent' \in [Procs -> 0 .. RunTime]
    BY <1>17 DEF Tick, InTime
  <2>3. since' \in [Accounts -> 0 .. Interval]
    BY <1>17 DEF Tick
  <2>4. dated' \in [Items -> NotYet .. History + 1]
    BY <1>17 DEF Tick, NotYet
  <2>5. QED
    BY <1>17, <2>1, <2>2, <2>3, <2>4 DEF Tick, ledger
<1>18. CASE UNCHANGED vars
  BY <1>18 DEF vars
<1>19. QED
  BY <1>1, <1>2, <1>3, <1>4, <1>5, <1>6, <1>7, <1>8, <1>9, <1>10, <1>11, <1>12, <1>13, <1>14,
     <1>15, <1>16, <1>17, <1>18
     DEF Next, Run, Import, Procs

(* Every variable keeps its type.                                          *)
THEOREM TypeCorrect == Spec => []TypeOK
  BY InitTyped, TypedStep, PTL DEF Spec

-------------------------------------------------------------------------------
(* The inductive invariant *)

(* What Next keeps, besides the types.                                     *)
Invariants == Unused /\ Spaced /\ InHand /\ OneFetcher /\ Remembered /\ AtWork /\ Corrected

(* A step that takes up no account and begins no import.                   *)
NoNewWork ==
    /\ \A w \in Workers :
         /\ batch'[w] \subseteq batch[w]
         /\ batch'[w] # {} => spent'[w] = spent[w]
         /\ pc'[w] = "idle" => batch'[w] = {}
    /\ \A p \in Procs : pc'[p] = "commit" =>
         pc[p] = "commit" /\ at'[p] = at[p] /\ checked'[p] = checked[p]

(* A step that leaves alone when and whether an account may be synced.     *)
SameAccounts ==
    \A a \in Accounts : acct'[a].state = acct[a].state /\ acct'[a].wait = acct[a].wait

(* A sync that is over leaves no new work.                                 *)
LEMMA DoneNoNewWork ==
    ASSUME TypeOK, InHand, NEW p \in Procs, NEW a, Done(p, a)
    PROVE  NoNewWork
<1> USE DEF TypeOK, Done, Procs
<1>1. ASSUME NEW w \in Workers
      PROVE  /\ batch'[w] \subseteq batch[w]
             /\ batch'[w] # {} => spent'[w] = spent[w]
             /\ pc'[w] = "idle" => batch'[w] = {}
  <2>1. CASE w = p
    BY <2>1
  <2>2. CASE w # p
    BY <2>2 DEF InHand
  <2>3. QED
    BY <2>1, <2>2
<1>2. ASSUME NEW q \in Procs, pc'[q] = "commit"
      PROVE  pc[q] = "commit" /\ at'[q] = at[q] /\ checked'[q] = checked[q]
  <2>1. q # p
    BY <1>2
  <2>2. QED
    BY <1>2, <2>1
<1>3. QED
  BY <1>1, <1>2 DEF NoNewWork

(* Such steps keep the invariants.                                         *)
LEMMA QuietStep ==
    ASSUME TypeOK, Invariants, SameAccounts, NoNewWork, UNCHANGED <<row, suppressed, since>>
    PROVE  Invariants'
<1> USE DEF Invariants, SameAccounts, Exists
<1>1. Unused' /\ Spaced' /\ Remembered' /\ Corrected'
  BY DEF Unused, Spaced, Remembered, Corrected
<1>2. InHand'
  <2> SUFFICES ASSUME NEW w \in Workers
               PROVE  /\ pc'[w] = "idle" => batch'[w] = {}
                      /\ \A a \in batch'[w] :
                           /\ acct'[a].state # "none"
                           /\ Exists(a)' => acct'[a].wait + spent'[w] >= Interval - ImportTime
    BY DEF InHand
  <2>1. batch[w] \subseteq Accounts
    BY DEF TypeOK, Procs
  <2>2. QED
    BY <2>1 DEF InHand, NoNewWork
<1>3. OneFetcher'
  BY DEF OneFetcher, NoNewWork
<1>4. AtWork'
  <2> SUFFICES ASSUME NEW p \in Procs, pc'[p] = "commit"
               PROVE  /\ Exists(at[p])'
                      /\ \A i \in Items : row'[at'[p]][i].status = "deleted" => i \in checked'[p]
    BY DEF AtWork
  <2>1. pc[p] = "commit" /\ at'[p] = at[p] /\ checked'[p] = checked[p] /\ at[p] \in Accounts
    BY DEF TypeOK, NoNewWork
  <2>2. QED
    BY <2>1 DEF AtWork
<1>5. QED
  BY <1>1, <1>2, <1>3, <1>4

LEMMA InvariantsInit == Init => Invariants
  BY DEF Init, Invariants, Unused, Spaced, InHand, OneFetcher, Remembered, AtWork, Corrected,
         Exists, NoAccount, NoRow, Procs

(* What is due is in nobody's hands: a run has not that much time.         *)
LEMMA DueIsFree ==
    ASSUME TypeOK, InHand, NEW w \in Workers, NEW a \in batch[w]
    PROVE  a \notin Due
<1>1. a \in Accounts /\ spent[w] \in 0 .. RunTime
  BY DEF TypeOK, Procs
<1>2. SUFFICES ASSUME a \in Due PROVE FALSE
  OBVIOUS
<1>3. Exists(a) /\ acct[a].wait = 0
  BY <1>2 DEF Due, Exists
<1>4. acct[a].wait + spent[w] >= Interval - ImportTime
  BY <1>3 DEF InHand
<1>5. QED
  BY <1>1, <1>3, <1>4

LEMMA ClaimStep ==
    ASSUME TypeOK, Invariants, NEW w \in Workers, Claim(w)
    PROVE  Invariants'
<1> USE DEF Invariants
<1>t. TypeOK
  OBVIOUS
<1>1. PICK claimed \in SUBSET Due :
        /\ acct' = [a \in Accounts |-> IF a \in claimed THEN Claimed(acct[a]) ELSE acct[a]]
        /\ since' = [a \in Accounts |-> IF a \in claimed THEN 0 ELSE since[a]]
        /\ batch' = [batch EXCEPT ![w] = claimed]
  BY DEF Claim
<1>2. claimed \subseteq Accounts /\ \A a \in claimed : acct[a].state = "linked"
  BY <1>1 DEF Due
<1>3. \A a \in Accounts :
        /\ acct'[a].state = acct[a].state
        /\ acct'[a].wait = IF a \in claimed THEN Interval ELSE acct[a].wait
        /\ since'[a] = IF a \in claimed THEN 0 ELSE since[a]
  BY <1>1, ClaimedType DEF TypeOK
<1>4. UNCHANGED <<row, suppressed, at, checked>>
  BY DEF Claim, ledger
<1>5. /\ batch'[w] = claimed /\ pc'[w] = "fetch" /\ spent'[w] = 0
      /\ \A v \in Workers : v # w => /\ batch'[v] = batch[v] /\ pc'[v] = pc[v]
                                     /\ spent'[v] = spent[v]
  BY <1>1 DEF Claim, TypeOK, Procs
<1>6. Unused'
  BY <1>2, <1>3, <1>4 DEF Unused
<1>7. Spaced'
  BY SMTT(30), <1>3 DEF Spaced, Exists, TypeOK
<1>8. InHand'
  <2> SUFFICES ASSUME NEW v \in Workers
               PROVE  /\ pc'[v] = "idle" => batch'[v] = {}
                      /\ \A a \in batch'[v] :
                           /\ acct'[a].state # "none"
                           /\ Exists(a)' => acct'[a].wait + spent'[v] >= Interval - ImportTime
    BY DEF InHand
  <2>1. CASE v = w
    BY <1>2, <1>3, <1>5, <2>1
  <2>2. CASE v # w
    <3>1. batch[v] \subseteq Accounts /\ spent[v] \in 0 .. RunTime
      BY DEF TypeOK, Procs
    <3>2. QED
      BY <1>3, <1>5, <2>2, <3>1 DEF InHand, Exists
  <2>3. QED
    BY <2>1, <2>2
<1>9. OneFetcher'
  BY <1>1, <1>5, DueIsFree DEF OneFetcher
<1>10. Remembered' /\ Corrected'
  BY <1>3, <1>4 DEF Remembered, Corrected, Exists
<1>11. AtWork'
  <2>1. \A p \in Procs : pc'[p] = "commit" => pc[p] = "commit"
    BY DEF Claim, TypeOK
  <2>2. QED
    BY <1>3, <1>4, <2>1 DEF AtWork, Exists, TypeOK
<1>12. QED
  BY <1>6, <1>7, <1>8, <1>9, <1>10, <1>11

LEMMA BeginStep ==
    ASSUME TypeOK, Invariants, NEW p \in Procs, Begin(p)
    PROVE  Invariants'
<1> USE DEF Invariants, Begin, ledger
<1>1. Unused' /\ Spaced' /\ OneFetcher' /\ Remembered' /\ Corrected'
  BY DEF Unused, Spaced, OneFetcher, Remembered, Corrected, Exists
<1>2. InHand'
  BY DEF InHand, Exists, TypeOK, Procs
<1>3. AtWork'
  <2> SUFFICES ASSUME NEW q \in Procs, pc'[q] = "commit"
               PROVE  /\ Exists(at[q])
                      /\ \A i \in Items : row[at[q]][i].status = "deleted" => i \in checked'[q]
    BY DEF AtWork, Exists
  <2>1. CASE q = p
    BY <2>1 DEF TypeOK, Remembered
  <2>2. CASE q # p
    BY <2>2 DEF TypeOK, AtWork
  <2>3. QED
    BY <2>1, <2>2
<1>4. QED
  BY <1>1, <1>2, <1>3

LEMMA CommitStep ==
    ASSUME TypeOK, Invariants, NEW p \in Procs, Commit(p)
    PROVE  Invariants'
<1> USE DEF Invariants
<1>1. at[p] \in Accounts /\ Exists(at[p]) /\ age[p] \in 0 .. ImportTime
  BY DEF Commit, TypeOK, AtWork
<1>2. NoNewWork /\ UNCHANGED <<suppressed, since>>
  BY DoneNoNewWork DEF Commit
<1>3. \A a \in Accounts :
        /\ acct'[a].state = acct[a].state
        /\ acct'[a].wait = IF a = at[p] THEN Interval - age[p] ELSE acct[a].wait
  BY SMTT(30), <1>1, ImportedType DEF Commit, TypeOK
<1>4. \A a \in Accounts, i \in Items :
        \/ row'[a][i] = row[a][i]
        \/ /\ a = at[p] /\ row'[a][i].status = "booked"
  BY <1>1, UpsertedType DEF Commit, TypeOK
<1>5. Unused'
  BY <1>1, <1>2, <1>3, <1>4 DEF Unused, Exists
<1>6. Spaced'
  <2> SUFFICES ASSUME NEW a \in Accounts, Exists(a)
               PROVE  acct'[a].wait + since[a] >= Interval - ImportTime
    BY <1>2, <1>3 DEF Spaced, Exists
  <2>1. since[a] \in 0 .. Interval
    BY DEF TypeOK
  <2>2. QED
    BY <1>1, <1>3, <2>1 DEF Spaced
<1>7. InHand'
  <2> SUFFICES ASSUME NEW w \in Workers
               PROVE  /\ pc'[w] = "idle" => batch'[w] = {}
                      /\ \A a \in batch'[w] :
                           /\ acct'[a].state # "none"
                           /\ Exists(a)' => acct'[a].wait + spent'[w] >= Interval - ImportTime
    BY DEF InHand
  <2>1. batch[w] \subseteq Accounts /\ spent[w] \in 0 .. RunTime
    BY DEF TypeOK, Procs
  <2>2. QED
    BY <1>1, <1>2, <1>3, <2>1 DEF InHand, NoNewWork, Exists
<1>8. OneFetcher'
  BY <1>2 DEF OneFetcher, NoNewWork
<1>9. Remembered' /\ Corrected'
  BY <1>2, <1>3, <1>4 DEF Remembered, Corrected, Exists
<1>10. AtWork'
  BY SMTT(30), <1>2, <1>3, <1>4 DEF AtWork, NoNewWork, Exists, TypeOK
<1>11. QED
  BY <1>5, <1>6, <1>7, <1>8, <1>9, <1>10

(* Link, ConsentEnds and Disconnect: one account has another state.        *)
LEMMA StateStep ==
    ASSUME TypeOK, Invariants, NEW a \in Accounts, Link(a) \/ ConsentEnds(a) \/ Disconnect(a)
    PROVE  Invariants'
<1> USE DEF Invariants
<1>1. UNCHANGED <<ledger, local, since>>
  BY DEF Link, ConsentEnds, Disconnect
<1>2. \A b \in Accounts : b # a => acct'[b] = acct[b]
  BY DEF Link, ConsentEnds, Disconnect, TypeOK
<1>3. CASE Link(a)
  <2>1. acct[a].state = "none" /\ acct'[a].state = "linked" /\ acct'[a].wait = acct[a].wait
    BY <1>3, StateType DEF Link, TypeOK
  <2>2. since[a] = Interval /\ \A i \in Items : row[a][i].status = "none"
    BY <2>1 DEF Unused
  <2>3. acct[a].wait \in 0 .. Interval
    BY Zenon DEF TypeOK, AccountRow
  <2>4. Unused' /\ Remembered' /\ Corrected'
    BY <1>1, <1>2, <2>1, <2>2 DEF Unused, Remembered, Corrected, Exists, ledger
  <2>5. Spaced'
    BY <1>1, <1>2, <2>1, <2>2, <2>3 DEF Spaced, Exists
  <2>6. InHand' /\ OneFetcher'
    BY <1>1, <1>2, <2>1 DEF InHand, OneFetcher, Exists, TypeOK, local, Procs
  <2>7. AtWork'
    BY <1>1, <1>2, <2>1 DEF AtWork, Exists, TypeOK, local, ledger
  <2>8. QED
    BY <2>4, <2>5, <2>6, <2>7
<1>4. CASE ConsentEnds(a)
  <2>1. Exists(a) /\ Exists(a)' /\ acct'[a].state # "none" /\ acct'[a].wait = acct[a].wait
    BY <1>4, StateType DEF ConsentEnds, TypeOK, Exists
  <2>2. \A b \in Accounts : /\ Exists(b)' <=> Exists(b)
                            /\ acct'[b].state = "none" => acct[b].state = "none"
                            /\ acct'[b].wait = acct[b].wait
    BY <1>2, <2>1 DEF Exists
  <2>3. QED
    <3>1. Unused' /\ Remembered' /\ Corrected' /\ Spaced'
      BY <1>1, <2>2 DEF Unused, Remembered, Corrected, Spaced, ledger
    <3>2. InHand' /\ OneFetcher'
      BY <1>1, <1>2, <2>1, <2>2 DEF InHand, OneFetcher, TypeOK, local, Procs
    <3>3. AtWork'
      BY <1>1, <2>2 DEF AtWork, TypeOK, local, ledger
    <3>4. QED
      BY <3>1, <3>2, <3>3
<1>5. CASE Disconnect(a)
  <2>1. acct'[a].state = "gone" /\ ~Locked(a)
    BY <1>5, Zenon DEF Disconnect, TypeOK, NoAccount
  <2>2. Unused' /\ Remembered' /\ Corrected' /\ Spaced'
    BY <1>1, <1>2, <2>1 DEF Unused, Remembered, Corrected, Spaced, Exists, ledger
  <2>3. InHand' /\ OneFetcher'
    BY <1>1, <1>2, <2>1 DEF InHand, OneFetcher, Exists, TypeOK, local, Procs
  <2>4. AtWork'
    BY <1>1, <1>2, <2>1 DEF AtWork, Locked, Exists, TypeOK, local, ledger
  <2>5. QED
    BY <2>2, <2>3, <2>4
<1>6. QED
  BY <1>3, <1>4, <1>5

LEMMA DeleteStep ==
    ASSUME TypeOK, Invariants, NEW a \in Accounts, NEW i \in Items, DeleteTransaction(a, i)
    PROVE  Invariants'
<1> USE DEF Invariants
<1>1. /\ row[a][i].status = "booked" /\ (Exists(a) => ~Locked(a))
      /\ suppressed' = IF Exists(a) THEN suppressed \cup {i} ELSE suppressed
      /\ UNCHANGED <<acct, local, since>>
  BY DEF DeleteTransaction, MayDelete
<1>2. row'[a][i].status = "deleted" /\ row'[a][i].category = "bank"
  BY Zenon DEF DeleteTransaction, TypeOK, NoRow
<1>3. \A b \in Accounts, j \in Items : b # a \/ j # i => row'[b][j] = row[b][j]
  BY DEF DeleteTransaction, TypeOK
<1>4. acct[a].state # "none"
  BY <1>1 DEF Unused
<1>5. Unused' /\ Corrected'
  BY <1>1, <1>2, <1>3, <1>4 DEF Unused, Corrected
<1>6. Spaced' /\ InHand' /\ OneFetcher'
  BY <1>1 DEF Spaced, InHand, OneFetcher, Exists, local
<1>7. Remembered'
  BY <1>1, <1>2, <1>3 DEF Remembered, Exists
<1>8. AtWork'
  BY <1>1, <1>3 DEF AtWork, Locked, Exists, TypeOK, local
<1>9. QED
  BY <1>5, <1>6, <1>7, <1>8

LEMMA CorrectStep ==
    ASSUME TypeOK, Invariants, NEW a \in Accounts, NEW i \in Items, CorrectTransaction(a, i)
    PROVE  Invariants'
<1> USE DEF Invariants
<1>1. row[a][i].status = "booked" /\ UNCHANGED <<acct, suppressed, local, since>>
  BY DEF CorrectTransaction
<1>2. row[a][i] \in TransactionRow
  BY DEF TypeOK
<1>3. \A b \in Accounts, j \in Items :
        row'[b][j] = IF b = a /\ j = i THEN [row[a][i] EXCEPT !.category = "user"] ELSE row[b][j]
  BY DEF CorrectTransaction, TypeOK
<1>4. row'[a][i].status = row[a][i].status
  BY <1>2, <1>3, CategoryType
<1>5. \A b \in Accounts, j \in Items : row'[b][j].status = row[b][j].status
  BY <1>3, <1>4
<1>6. Unused' /\ Remembered' /\ Spaced' /\ InHand' /\ OneFetcher'
  BY <1>1, <1>5 DEF Unused, Remembered, Spaced, InHand, OneFetcher, Exists, local
<1>7. AtWork'
  BY <1>1, <1>5 DEF AtWork, Exists, TypeOK, local
<1>8. Corrected'
  BY <1>1, <1>3, <1>5 DEF Corrected
<1>9. QED
  BY <1>6, <1>7, <1>8

LEMMA TickStep ==
    ASSUME TypeOK, Invariants, Tick
    PROVE  Invariants'
<1> USE DEF Invariants
<1>1. \A a \in Accounts : /\ acct[a].wait \in 0 .. Interval
                          /\ acct'[a].state = acct[a].state
                          /\ acct'[a].wait = Minus(acct[a].wait)
  <2> SUFFICES ASSUME NEW a \in Accounts
               PROVE  /\ acct[a].wait \in 0 .. Interval
                      /\ acct'[a].state = acct[a].state
                      /\ acct'[a].wait = Minus(acct[a].wait)
    OBVIOUS
  <2>1. acct[a] \in AccountRow
    BY DEF TypeOK
  <2>2. acct[a].wait \in 0 .. Interval
    BY <2>1, Zenon DEF AccountRow
  <2>3. QED
    BY <2>1, <2>2, LaterType DEF Tick
<1>2. UNCHANGED <<ledger, pc, batch, at, checked>>
  BY DEF Tick
<1>3. \A a \in Accounts : since'[a] = IF since[a] < Interval THEN since[a] + 1 ELSE since[a]
  BY DEF Tick
<1>4. \A w \in Workers : spent'[w] = IF pc[w] # "idle" THEN spent[w] + 1 ELSE 0
  BY DEF Tick, Procs
<1>5. Unused' /\ Remembered' /\ Corrected'
  BY <1>1, <1>2, <1>3 DEF Unused, Remembered, Corrected, Exists, ledger
<1>6. Spaced'
  <2> SUFFICES ASSUME NEW a \in Accounts, Exists(a)
               PROVE  acct'[a].wait + since'[a] >= Interval - ImportTime
    BY <1>1 DEF Spaced, Exists
  <2>1. since[a] \in 0 .. Interval
    BY DEF TypeOK
  <2>2. QED
    BY <1>1, <1>3, <2>1 DEF Spaced, Minus
<1>7. InHand'
  <2> SUFFICES ASSUME NEW w \in Workers, NEW a \in batch[w]
               PROVE  /\ acct'[a].state # "none"
                      /\ Exists(a)' => acct'[a].wait + spent'[w] >= Interval - ImportTime
    BY <1>2 DEF InHand
  <2>1. a \in Accounts /\ spent[w] \in 0 .. RunTime /\ pc[w] # "idle"
    BY DEF TypeOK, InHand, Procs
  <2>2. QED
    BY <1>1, <1>4, <2>1 DEF InHand, Exists, Minus
<1>8. OneFetcher' /\ AtWork'
  BY <1>1, <1>2 DEF OneFetcher, AtWork, Exists, TypeOK, ledger
<1>9. QED
  BY <1>5, <1>6, <1>7, <1>8

LEMMA InvariantsStep ==
    ASSUME TypeOK, Invariants, [Next]_vars
    PROVE  Invariants'
<1>i. InHand
  BY DEF Invariants
<1>1. ASSUME NEW w \in Workers, NEW a \in Accounts, Fetch(w, a) PROVE Invariants'
  <2>1. NoNewWork /\ SameAccounts /\ UNCHANGED <<row, suppressed, since>>
    BY <1>1, <1>i DEF Fetch, Fetched, NoNewWork, SameAccounts, InHand, TypeOK, ledger, Procs
  <2>2. QED
    BY <2>1, QuietStep
<1>2. ASSUME NEW p \in Procs, NEW a \in Accounts, acct' = Released(p, a), Done(p, a),
             UNCHANGED <<row, suppressed, since>>
      PROVE  Invariants'
  BY <1>2, <1>i, DoneNoNewWork, ReleasedKeeps, QuietStep DEF SameAccounts
<1>3. ASSUME NEW p \in Procs, NotFound(p) PROVE Invariants'
  <2>1. NoNewWork /\ SameAccounts /\ UNCHANGED <<row, suppressed, since>>
    BY <1>3, <1>i, DoneNoNewWork DEF NotFound, SameAccounts, ledger
  <2>2. QED
    BY <2>1, QuietStep
<1>4. ASSUME NEW w \in Workers, RunStops(w) PROVE Invariants'
  <2>1. NoNewWork /\ SameAccounts /\ UNCHANGED <<row, suppressed, since>>
    BY <1>4, <1>i DEF RunStops, NoNewWork, SameAccounts, InHand, TypeOK, ledger, Procs
  <2>2. QED
    BY <2>1, QuietStep
<1>5. ASSUME NEW c \in Clients, NEW a \in Accounts, AskForSync(c, a) PROVE Invariants'
  <2>1. \A p \in Procs : p # c => pc'[p] = pc[p] /\ at'[p] = at[p]
    BY <1>5 DEF AskForSync, Fetched, TypeOK, Procs
  <2>2. c \in Procs /\ c \notin Workers /\ pc'[c] = "import"
    BY <1>5 DEF AskForSync, Fetched, TypeOK, Procs
  <2>3. UNCHANGED <<acct, row, suppressed, since, batch, spent, checked>>
    BY <1>5 DEF AskForSync, ledger
  <2>4. NoNewWork /\ SameAccounts
    BY <1>i, <2>1, <2>2, <2>3 DEF NoNewWork, SameAccounts, InHand, Procs
  <2>5. QED
    BY <2>3, <2>4, QuietStep
<1>6. ASSUME UNCHANGED <<acct, row, suppressed, since, pc, batch, at, checked, spent>>
      PROVE  Invariants'
  <2>1. NoNewWork /\ SameAccounts
    BY <1>6, <1>i DEF NoNewWork, SameAccounts, InHand
  <2>2. QED
    BY <1>6, <2>1, QuietStep
<1>7. ASSUME NEW w \in Workers, NEW a \in Accounts, Refused(w, a) PROVE Invariants'
  BY <1>2, <1>7 DEF Refused, ledger, Procs
<1>8. ASSUME NEW p \in Procs, SyncFails(p) PROVE Invariants'
  <2>1. PICK a \in Accounts : acct' = Released(p, a) /\ Done(p, a)
    BY <1>8 DEF SyncFails, TypeOK
  <2>2. QED
    BY <1>2, <1>8, <2>1 DEF SyncFails, ledger
<1>9. ASSUME NEW i \in Items, BankChanges(i) \/ DateComes(i) PROVE Invariants'
  BY <1>6, <1>9 DEF BankChanges, DateComes, ledger, local
<1>10. CASE UNCHANGED vars
  BY <1>6, <1>10 DEF vars
<1>11. QED
  BY <1>1, <1>3, <1>4, <1>5, <1>7, <1>8, <1>9, <1>10, ClaimStep, BeginStep, CommitStep,
     StateStep, DeleteStep, CorrectStep, TickStep
     DEF Next, Run, Import, Procs

-------------------------------------------------------------------------------
(* Theorems *)

IInv == TypeOK /\ Invariants

(* The inductive invariant holds in every reachable state: the wait of an  *)
(* account covers the time since its claim and the age of the run that has *)
(* it in hand, and every import under way knows of every deletion.         *)
THEOREM Inductive == Spec => []IInv
<1>1. Init => IInv
  BY InitTyped, InvariantsInit DEF IInv
<1>2. IInv /\ [Next]_vars => IInv'
  BY TypedStep, InvariantsStep DEF IInv
<1>3. QED
  BY <1>1, <1>2, PTL DEF Spec

(* Two replicas never have the same bank account in hand, whatever a       *)
(* user's sync, a release or a tick makes of its claim.                    *)
THEOREM NeverTwoFetchers == Spec => []OneFetcher
<1>1. IInv => OneFetcher
  BY DEF IInv, Invariants
<1>2. QED
  BY <1>1, Inductive, PTL

LEMMA PacedStep ==
    ASSUME IInv, [Next]_vars, NEW a \in Accounts, since'[a] = 0, since[a] # 0
    PROVE  since[a] >= Interval - ImportTime
<1>1. since[a] \in 0 .. Interval
  BY DEF IInv, TypeOK
<1>2. ~Tick
  BY <1>1 DEF Tick
<1>3. PICK w \in Workers : Claim(w)
  BY <1>2 DEF Next, vars, Run, Import, Fetch, Refused, Begin, NotFound, Commit, RunStops,
         AskForSync, SyncFails, Link, ConsentEnds, Disconnect, DeleteTransaction,
         CorrectTransaction, DateComes, BankChanges
<1>4. a \in Due
  BY <1>3 DEF Claim
<1>5. Exists(a) /\ acct[a].wait = 0
  BY <1>4 DEF Due, Exists
<1>6. QED
  BY <1>1, <1>5 DEF IInv, Invariants, Spaced

(* Between two claims of a bank account are six hours, less the time the   *)
(* import of a user's sync may take from its reading of the clock.         *)
THEOREM ClaimsArePaced == Spec => Paced
<1>1. IInv /\ [Next]_vars => [\A a \in Accounts :
        since'[a] = 0 /\ since[a] # 0 => since[a] >= Interval - ImportTime]_vars
  BY PacedStep
<1>2. QED
  BY <1>1, Inductive, PTL DEF Spec, Paced

(* What a step makes of a transaction that was deleted or corrected.       *)
LEMMA RowStep ==
    ASSUME IInv, [Next]_vars, NEW a \in Accounts, NEW i \in Items
    PROVE  /\ row[a][i].status = "deleted" => row'[a][i].status = "deleted"
           /\ row[a][i].category = "user" =>
                row'[a][i].category = "user" \/ row'[a][i].status = "deleted"
<1> USE DEF IInv, Invariants
<1>1. ASSUME NEW p \in Procs, Commit(p)
      PROVE  \/ row'[a][i] = row[a][i]
             \/ /\ a = at[p] /\ i \notin checked[p]
                /\ row'[a][i] = Upserted(row[a][i], seen[p][i])
  <2>1. PICK known \in SUBSET suppressed :
          /\ checked[p] \subseteq known
          /\ row' = [row EXCEPT ![at[p]] = [j \in Items |->
               IF j \in {k \in Items : seen[p][k] > 0 /\ k \notin known}
               THEN Upserted(@[j], seen[p][j]) ELSE @[j]]]
    BY <1>1 DEF Commit
  <2>2. QED
    BY <2>1 DEF TypeOK
<1>2. ASSUME NEW p \in Procs, Commit(p) PROVE
        /\ row[a][i].status = "deleted" => row'[a][i].status = "deleted"
        /\ row[a][i].category = "user" => row'[a][i].category = "user"
  <2>1. CASE row'[a][i] = row[a][i]
    BY <2>1
  <2>2. CASE /\ a = at[p] /\ i \notin checked[p]
             /\ row'[a][i] = Upserted(row[a][i], seen[p][i])
    <3>1. row[a][i].status # "deleted"
      BY <1>2, <2>2 DEF Commit, AtWork
    <3>2. row[a][i] \in TransactionRow /\ seen[p][i] \in 0 .. MaxVersion
      BY DEF TypeOK
    <3>3. Upserted(row[a][i], seen[p][i]).category = "user" <=>
            row[a][i].status = "booked" /\ row[a][i].category = "user"
      BY <3>2, UpsertedType
    <3>4. QED
      BY <2>2, <3>1, <3>3 DEF Corrected
  <2>3. QED
    BY <1>1, <1>2, <2>1, <2>2
<1>3. ASSUME NEW b \in Accounts, NEW j \in Items, DeleteTransaction(b, j)
      PROVE  \/ row'[a][i] = row[a][i]
             \/ row[a][i].status = "booked" /\ row'[a][i].status = "deleted"
  <2>1. CASE a = b /\ i = j
    BY <1>3, <2>1, Zenon DEF DeleteTransaction, TypeOK, NoRow
  <2>2. CASE ~(a = b /\ i = j)
    BY <1>3, <2>2 DEF DeleteTransaction, TypeOK
  <2>3. QED
    BY <2>1, <2>2
<1>4. ASSUME NEW b \in Accounts, NEW j \in Items, CorrectTransaction(b, j)
      PROVE  \/ row'[a][i] = row[a][i]
             \/ row[a][i].status = "booked" /\ row'[a][i].category = "user"
  <2>1. row[b][j] \in TransactionRow
    BY DEF TypeOK
  <2>2. [row[b][j] EXCEPT !.category = "user"].category = "user"
    BY <2>1, CategoryType
  <2>3. row' = [row EXCEPT ![b][j] = [row[b][j] EXCEPT !.category = "user"]]
    BY <1>4 DEF CorrectTransaction
  <2>4. row'[a][i] = IF a = b /\ i = j THEN [row[b][j] EXCEPT !.category = "user"] ELSE row[a][i]
    BY <2>3 DEF TypeOK
  <2>5. QED
    BY <1>4, <2>2, <2>4 DEF CorrectTransaction
<1>5. \/ row' = row
      \/ \E p \in Procs : Commit(p)
      \/ \E b \in Accounts, j \in Items : DeleteTransaction(b, j) \/ CorrectTransaction(b, j)
  BY DEF Next, vars, Run, Import, Claim, Fetch, Refused, Begin, NotFound, RunStops, AskForSync,
         SyncFails, Link, ConsentEnds, Disconnect, DateComes, BankChanges, Tick, Procs, ledger
<1>6. QED
  BY <1>2, <1>3, <1>4, <1>5

(* A deleted transaction is not imported again, for any number of syncs    *)
(* under way with data from before: the import holds the account row, so   *)
(* whatever was deleted before is among the suppressions it has read.      *)
THEOREM DeletionIsFinal == Spec => DeletedStaysDeleted
<1>1. IInv /\ [Next]_vars => [\A a \in Accounts, i \in Items :
        row[a][i].status = "deleted" => row'[a][i].status = "deleted"]_vars
  BY RowStep
<1>2. QED
  BY <1>1, Inductive, PTL DEF Spec, DeletedStaysDeleted

(* A category a user has corrected stays until the transaction is deleted. *)
THEOREM CorrectionIsKept == Spec => CorrectionKept
<1>1. IInv /\ [Next]_vars => [\A a \in Accounts, i \in Items :
        row[a][i].category = "user" =>
          row'[a][i].category = "user" \/ row'[a][i].status = "deleted"]_vars
  BY RowStep
<1>2. QED
  BY <1>1, Inductive, PTL DEF Spec, CorrectionKept
==============================================================================
