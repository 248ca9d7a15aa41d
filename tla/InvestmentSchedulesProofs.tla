----------------------- MODULE InvestmentSchedulesProofs -----------------------
(***************************************************************************)
(* Theorems about InvestmentSchedules, for any number of replicas,         *)
(* requests, schedules and days and any size of a batch.                   *)
(*                                                                         *)
(* BoughtOnce rests on Locked: an occurrence a run is about to buy is      *)
(* planned, and only one run at a time is about to buy. NoDateLost rests   *)
(* on Listed and Marking: what a run has read of a schedule agrees with    *)
(* the watermark of then, and when it comes to move the watermark, all     *)
(* dates up to its own have their occurrence. NeverOversold rests on the   *)
(* lock of the position: what a request was checked against is what it     *)
(* commits to, and purchases, which are not checked, come last of their    *)
(* moment and lower no holding.                                            *)
(***************************************************************************)
EXTENDS InvestmentSchedules, TLAPS, FiniteSetTheorems, WellFoundedInduction

(* What a trade may be of, a trade, and what a run reads of a schedule.    *)
Sources  == {<<>>} \cup (Schedules \X Days)
Rows     == [id : Nat, at : Days, delta : Int, of : Sources]
Listings == [id : Schedules, from : Nat, dates : SUBSET Days]

(* The type invariant in three parts, of the trades and the requests, the  *)
(* schedules, and the runs, as precise as the proofs need it.              *)
LedgerTyped ==
    /\ LedgerTypeOK
    /\ trades \subseteq Rows /\ job \in [Clients -> Rows]
    /\ \A c \in Clients : step[c] # "idle" => job[c].delta # 0

TablesTyped ==
    /\ status \in [Schedules -> {"none", "active", "paused", "archived"}]
    /\ def \in [Schedules -> [start : Days, dates : SUBSET Days]]
    /\ through \in [Schedules -> Days \cup {Null}]
    /\ occ \in [Schedules -> [Days -> {"none", "planned", "posted"}]]
    /\ dark \subseteq Schedules /\ edited \subseteq Schedules
    /\ bought \in [Schedules -> [Days -> Nat]]

RunsTyped ==
    /\ holder \in Clients \cup Workers \cup {"none"}
    /\ at \in [Workers -> {"idle", "storing", "marking", "pricing", "posting"}]
    /\ today \in [Workers -> Days]
    /\ seen \in [Workers -> SUBSET Listings]
    /\ batch \in [Workers -> SUBSET (Schedules \X Days)]
    /\ \A w \in Workers :
         /\ at[w] \in {"pricing", "posting"} <=> batch[w] # {}
         /\ at[w] = "posting" <=> holder = w

(* The occurrence a run is about to buy is planned.                        *)
Locked ==
    \A w \in Workers : at[w] = "posting" =>
        occ[First(batch[w])[1]][First(batch[w])[2]] = "planned"

(* A schedule that was never created was never materialised.               *)
Fresh == \A s \in Schedules : status[s] = "none" => through[s] = Null

(* What a run has read of a schedule that is not edited is still true.     *)
Listed ==
    \A w \in Workers : \A x \in seen[w] :
        /\ status[x.id] # "none"
        /\ x.id \notin edited =>
             /\ x.dates = DatesOf(def[x.id])
             /\ \A d \in x.dates : d < x.from => occ[x.id][d] # "none"

(* What a run is to mark as materialised is.                               *)
Marking ==
    \A w \in Workers : at[w] = "marking" =>
        /\ seen[w] # {}
        /\ Upcoming(seen[w]).id \notin edited =>
             \A d \in Upcoming(seen[w]).dates :
                 d <= today[w] => occ[Upcoming(seen[w]).id][d] # "none"

IInv ==
    /\ LedgerTyped /\ TablesTyped /\ RunsTyped
    /\ Locked /\ BoughtOnce
    /\ Fresh /\ Listed /\ Marking /\ NoDateLost

-------------------------------------------------------------------------------
(* Facts about the operators *)

(* The order of the numbers has no infinite descent.                       *)
Below == {p \in Nat \X Nat : p[1] < p[2]}

LEMMA BelowIsWellFounded == IsWellFoundedOn(Below, Nat)
<1>1. Below \cap (Nat \X Nat) \subseteq OpToRel(<, Nat)
  BY Zenon DEF Below, OpToRel
<1> QED BY <1>1, NatLessThanWellFounded, IsWellFoundedOnSubrelation

(* A set of numbers has a least one.                                       *)
LEMMA Least ==
    ASSUME NEW T \in SUBSET Nat, T # {}
    PROVE  \E m \in T : \A n \in T : m <= n
<1>1. PICK m \in T : \A n \in T : ~ (<<n, m>> \in Below)
  BY BelowIsWellFounded, WFMin
<1>2. ASSUME NEW n \in T, n < m PROVE FALSE
  <2>1. <<n, m>> \in Nat \X Nat /\ <<n, m>>[1] = n /\ <<n, m>>[2] = m
    OBVIOUS
  <2>2. <<n, m>> \in Below
    BY <2>1, <1>2 DEF Below
  <2> QED BY <1>1, <2>2
<1> QED BY <1>2

(* A set of numbers below a bound has a greatest one.                      *)
LEMMA Greatest ==
    ASSUME NEW T \in SUBSET Nat, T # {}, NEW n \in Nat, \A x \in T : x <= n
    PROVE  \E m \in T : \A x \in T : x <= m
<1> DEFINE D == {n - x : x \in T}
<1>1. D \in SUBSET Nat /\ D # {}
  <2>1. \A x \in T : n - x \in Nat
    OBVIOUS
  <2> QED BY <2>1
<1>2. PICK m \in D : \A x \in D : m <= x
  <2> HIDE DEF D
  <2> QED BY <1>1, Least
<1>3. PICK g \in T : m = n - g
  OBVIOUS
<1>4. ASSUME NEW x \in T PROVE x <= g
  <2>1. n - g <= n - x
    BY <1>2, <1>3
  <2> QED BY <2>1
<1> QED BY <1>4

(* The occurrence a run comes to next is of its batch.                     *)
LEMMA FirstIsOne ==
    ASSUME NEW X \in SUBSET (Schedules \X Days), X # {}
    PROVE  First(X) \in X
<1>1. {x[2] : x \in X} \in SUBSET Nat /\ {x[2] : x \in X} # {}
  BY LedgerAssumption DEF Days
<1>2. PICK x \in X : \A y \in X : x[2] <= y[2]
  <2>1. PICK m \in {x[2] : x \in X} : \A n \in {x[2] : x \in X} : m <= n
    BY <1>1, Least
  <2> QED BY <2>1
<1>3. {y[1] : y \in {z \in X : z[2] = x[2]}} \in SUBSET Nat
  BY SchedulesAssumption
<1>4. {y[1] : y \in {z \in X : z[2] = x[2]}} # {}
  OBVIOUS
<1>5. PICK y \in X : y[2] = x[2] /\ \A z \in X : z[2] = x[2] => y[1] <= z[1]
  <2>1. PICK m \in {y[1] : y \in {z \in X : z[2] = x[2]}} :
           \A n \in {y[1] : y \in {z \in X : z[2] = x[2]}} : m <= n
    BY <1>3, <1>4, Least
  <2> QED BY <2>1
<1>6. \A z \in X : Before(y, z)
  BY <1>2, <1>5, LedgerAssumption DEF Before, Days
<1> QED BY <1>6 DEF First

(* The schedule a run comes to next is one it has read.                    *)
LEMMA UpcomingIsOne ==
    ASSUME NEW X \in SUBSET Listings, X # {}
    PROVE  Upcoming(X) \in X
<1> DEFINE ids == {x.id : x \in X}
<1>1. \A x \in X : x.id \in Nat
  BY SchedulesAssumption DEF Listings
<1>2. PICK m \in ids : \A n \in ids : m <= n
  <2>1. ids \in SUBSET Nat
    BY <1>1
  <2>2. ids # {}
    OBVIOUS
  <2> HIDE DEF ids
  <2> QED BY <2>1, <2>2, Least
<1>3. PICK x \in X : \A y \in X : x.id <= y.id
  BY <1>2
<1> QED BY <1>3 DEF Upcoming

(* Storing adds what is missing and leaves what is there.                  *)
LEMMA StoredRow ==
    ASSUME NEW row \in [Days -> {"none", "planned", "posted"}], NEW x \in Listings,
           NEW last \in Days
    PROVE  /\ Stored(row, x, last) \in [Days -> {"none", "planned", "posted"}]
           /\ \A d \in Days :
                /\ Stored(row, x, last)[d] = "posted" <=> row[d] = "posted"
                /\ row[d] = "planned" => Stored(row, x, last)[d] = "planned"
                /\ d \in x.dates /\ x.from <= d /\ d <= last =>
                     Stored(row, x, last)[d] # "none"
BY LedgerAssumption DEF Stored, Listings, Days

-------------------------------------------------------------------------------
(* Holdings: the sum over a finite set of trades, in whatever order. The   *)
(* induction is over the parts of the set: of those that would contradict  *)
(* a lemma, take one without such a part of its own.                       *)

(* Among subsets of a finite set there is one of which no proper part is   *)
(* among them.                                                             *)
LEMMA Smallest ==
    ASSUME NEW S, IsFiniteSet(S), NEW B \in SUBSET SUBSET S, B # {}
    PROVE  \E b \in B : \A a \in B : a \subseteq b => a = b
<1>1. B \subseteq FiniteSubsetsOf(S)
  BY FS_Subset DEF FiniteSubsetsOf
<1>2. PICK b \in B : \A a \in B : ~ (<<a, b>> \in StrictSubsetOrdering(S))
  BY <1>1, FS_StrictSubsetOrderingWellFounded, WFMin
<1>3. ASSUME NEW a \in B, a \subseteq b, a # b PROVE FALSE
  BY <1>2, <1>3 DEF StrictSubsetOrdering
<1> QED BY <1>3

(* How a holding is summed: one trade after the other.                     *)
Pick(s) == CHOOSE x \in s : TRUE
Sums(g, S) == g = [s \in SUBSET S |-> IF s = {} THEN 0 ELSE Pick(s).delta + g[s \ {Pick(s)}]]

(* The fold the model sums with is the function that sums the parts.       *)
LEMMA HeldSums == ASSUME NEW S PROVE Held(S) = (CHOOSE g : Sums(g, S))[S]
  BY DEF Held, MapThenSumSet, MapThenFoldSet, Sums, Pick

(* There is one such function.                                             *)
LEMMA SumsUnique ==
    ASSUME NEW S, IsFiniteSet(S), NEW g, NEW h, Sums(g, S), Sums(h, S)
    PROVE  g = h
<1> DEFINE B == {s \in SUBSET S : g[s] # h[s]}
<1>1. SUFFICES B = {}
  BY DEF Sums
<1>2. SUFFICES ASSUME B # {} PROVE FALSE
  OBVIOUS
<1>3. PICK b \in B : \A a \in B : a \subseteq b => a = b
  <2>1. B \in SUBSET SUBSET S
    OBVIOUS
  <2> HIDE DEF B
  <2> QED BY <1>2, <2>1, Smallest
<1>4. b # {} /\ Pick(b) \in b
  BY <1>3 DEF Sums, Pick
<1>5. g[b \ {Pick(b)}] = h[b \ {Pick(b)}]
  BY <1>3, <1>4
<1>6. g[b] = h[b]
  BY <1>3, <1>4, <1>5 DEF Sums
<1> QED BY <1>3, <1>6

(* A part of a set is summed alike, alone or as a part.                    *)
LEMMA SumsOfPart ==
    ASSUME NEW S, IsFiniteSet(S), NEW g, Sums(g, S), NEW r \in SUBSET S
    PROVE  Held(r) = g[r]
<1> DEFINE h == [s \in SUBSET r |-> g[s]]
<1>1. Sums(h, r)
  BY DEF Sums
<1>2. IsFiniteSet(r)
  BY FS_Subset
<1>3. \A f : Sums(f, r) => f = h
  BY <1>1, <1>2, SumsUnique
<1>4. (CHOOSE f : Sums(f, r)) = h
  BY <1>1, <1>3
<1> QED BY <1>4, HeldSums

(* There is such a function.                                               *)
LEMMA SumsExist ==
    ASSUME NEW S, IsFiniteSet(S)
    PROVE  \E g : Sums(g, S)
<1> DEFINE B == {s \in SUBSET S : ~ \E g : Sums(g, s)}
<1>1. SUFFICES ASSUME B # {} PROVE FALSE
  OBVIOUS
<1>2. PICK b \in B : \A a \in B : a \subseteq b => a = b
  <2>1. B \in SUBSET SUBSET S
    OBVIOUS
  <2> HIDE DEF B
  <2> QED BY <1>1, <2>1, Smallest
<1> DEFINE G == [r \in SUBSET b |-> IF r = {} THEN 0 ELSE Pick(r).delta + Held(r \ {Pick(r)})]
<1>3. ASSUME NEW q \in SUBSET b, q # b PROVE G[q] = Held(q)
  <2>1. PICK h : Sums(h, q)
    BY <1>2, <1>3
  <2>2. IsFiniteSet(q)
    BY <1>2, FS_Subset
  <2>3. Held(q) = h[q]
    BY <2>1, <2>2, SumsOfPart
  <2>4. q # {} => Held(q \ {Pick(q)}) = h[q \ {Pick(q)}]
    BY <2>1, <2>2, SumsOfPart
  <2>5. h[q] = IF q = {} THEN 0 ELSE Pick(q).delta + h[q \ {Pick(q)}]
    BY <2>1 DEF Sums
  <2> QED BY <2>3, <2>4, <2>5
<1>4. \A r \in SUBSET b : r # {} => r \ {Pick(r)} # b /\ r \ {Pick(r)} \in SUBSET b
  BY DEF Pick
<1>5. Sums(G, b)
  <2>1. \A r \in SUBSET b : G[r] = IF r = {} THEN 0 ELSE Pick(r).delta + G[r \ {Pick(r)}]
    BY <1>3, <1>4
  <2> QED BY <2>1 DEF Sums
<1> QED BY <1>2, <1>5

(* A holding is that of the trade that is taken first and of the others.   *)
LEMMA HeldStep ==
    ASSUME NEW S, IsFiniteSet(S)
    PROVE  Held(S) = IF S = {} THEN 0 ELSE Pick(S).delta + Held(S \ {Pick(S)})
<1>1. PICK g : Sums(g, S)
  BY SumsExist
<1>2. \A r \in SUBSET S : Held(r) = g[r]
  BY <1>1, SumsOfPart
<1>3. S \ {Pick(S)} \in SUBSET S
  OBVIOUS
<1> QED BY <1>1, <1>2, <1>3 DEF Sums

(* A holding is a number.                                                  *)
LEMMA HeldIsNumber ==
    ASSUME NEW S, IsFiniteSet(S), \A s \in S : s.delta \in Int
    PROVE  Held(S) \in Int
<1> DEFINE B == {s \in SUBSET S : Held(s) \notin Int}
<1>1. SUFFICES ASSUME B # {} PROVE FALSE
  OBVIOUS
<1>2. PICK b \in B : \A a \in B : a \subseteq b => a = b
  <2>1. B \in SUBSET SUBSET S
    OBVIOUS
  <2> HIDE DEF B
  <2> QED BY <1>1, <2>1, Smallest
<1>3. Held(b) = IF b = {} THEN 0 ELSE Pick(b).delta + Held(b \ {Pick(b)})
  BY <1>2, FS_Subset, HeldStep
<1>4. b # {} => Pick(b) \in b
  BY DEF Pick
<1>5. b # {} => Held(b \ {Pick(b)}) \in Int
  BY <1>2, <1>4
<1> QED BY <1>2, <1>3, <1>4, <1>5

(* A holding is that of any of its trades and of the others.               *)
LEMMA HeldWithout ==
    ASSUME NEW S, IsFiniteSet(S), \A s \in S : s.delta \in Int, NEW y \in S
    PROVE  Held(S) = y.delta + Held(S \ {y})
<1> DEFINE B == {s \in SUBSET S : \E z \in s : Held(s) # z.delta + Held(s \ {z})}
<1>1. SUFFICES ASSUME B # {} PROVE FALSE
  OBVIOUS
<1>2. PICK b \in B : \A a \in B : a \subseteq b => a = b
  <2>1. B \in SUBSET SUBSET S
    OBVIOUS
  <2> HIDE DEF B
  <2> QED BY <1>1, <2>1, Smallest
<1>3. PICK z \in b : Held(b) # z.delta + Held(b \ {z})
  BY <1>2
<1> DEFINE x == Pick(b)
<1>4. x \in b
  BY <1>3 DEF Pick
<1>5. IsFiniteSet(b)
  BY <1>2, FS_Subset
<1>6. Held(b) = x.delta + Held(b \ {x})
  BY <1>3, <1>5, HeldStep
<1>7. x # z
  BY <1>3, <1>6
<1> HIDE DEF x
<1>8. \A u, v \in b : u # v => Held(b \ {u}) = v.delta + Held((b \ {u}) \ {v})
  <2> SUFFICES ASSUME NEW u \in b, NEW v \in b, u # v
               PROVE  Held(b \ {u}) = v.delta + Held((b \ {u}) \ {v})
    OBVIOUS
  <2>1. b \ {u} \in SUBSET S /\ b \ {u} \subseteq b /\ b \ {u} # b /\ v \in b \ {u}
    BY <1>2
  <2>2. b \ {u} \notin B
    BY <1>2, <2>1
  <2> QED BY <2>1, <2>2
<1>9. /\ Held(b \ {x}) = z.delta + Held((b \ {x}) \ {z})
      /\ Held(b \ {z}) = x.delta + Held((b \ {z}) \ {x})
  BY <1>3, <1>4, <1>7, <1>8
<1>10. (b \ {x}) \ {z} = (b \ {z}) \ {x}
  OBVIOUS
<1>11. Held((b \ {z}) \ {x}) \in Int
  <2>1. IsFiniteSet((b \ {z}) \ {x}) /\ \A s \in (b \ {z}) \ {x} : s.delta \in Int
    BY <1>2, <1>5, FS_Subset
  <2> QED BY <2>1, HeldIsNumber
<1>12. x.delta \in Int /\ z.delta \in Int
  BY <1>2, <1>3, <1>4
<1>13. Held(b) = z.delta + Held(b \ {z})
  <2> DEFINE p == x.delta
             q == z.delta
             r == Held((b \ {z}) \ {x})
             hp == Held(b \ {x})
             hq == Held(b \ {z})
  <2>1. p \in Int /\ q \in Int /\ r \in Int
    BY <1>11, <1>12
  <2>2. Held(b) = p + hp /\ hp = q + r /\ hq = p + r
    BY <1>6, <1>9, <1>10
  <2> HIDE DEF p, q, r, hp, hq
  <2>3. Held(b) = q + hq
    BY <2>1, <2>2
  <2> QED BY <2>3 DEF q, hq
<1> QED BY <1>3, <1>13

(* Trades of a position: each has an id of its own.                        *)
Distinct(T) ==
    /\ IsFiniteSet(T)
    /\ \A t \in T : t.id \in Nat /\ t.at \in Days /\ t.delta \in Int
    /\ \A t, u \in T : t.id = u.id => t = u

(* A purchase that has the last place of its moment makes no holding       *)
(* smaller: whatever was valid before is valid with it.                    *)
LEMMA PurchaseKeepsValid ==
    ASSUME NEW T, Distinct(T), Valid(T), NEW n,
           n.id \in Nat, n.at \in Days, n.delta \in Nat, n \notin T,
           \A t \in T : t.id < n.id
    PROVE  Valid(T \cup {n})
<1>1. /\ IsFiniteSet(T) /\ \A t \in T : t.id \in Nat /\ t.at \in Nat /\ t.delta \in Int
      /\ \A t \in T : t.at <= MaxDay
      /\ n.at \in Nat /\ MaxDay \in Nat
  BY LedgerAssumption DEF Distinct, Days
<1>2. \A P \in SUBSET T : Held(P \cup {n}) = n.delta + Held(P) /\ Held(P) \in Int
  <2> SUFFICES ASSUME NEW P \in SUBSET T
               PROVE  Held(P \cup {n}) = n.delta + Held(P) /\ Held(P) \in Int
    OBVIOUS
  <2>1. IsFiniteSet(P)
    BY <1>1, FS_Subset
  <2>2. IsFiniteSet(P \cup {n}) /\ \A s \in P \cup {n} : s.delta \in Int
    BY <1>1, <2>1, FS_AddElement
  <2>3. (P \cup {n}) \ {n} = P
    OBVIOUS
  <2>4. Held(P \cup {n}) = n.delta + Held((P \cup {n}) \ {n})
    BY <2>2, HeldWithout
  <2> QED BY <1>1, <2>1, <2>3, <2>4, HeldIsNumber
<1>3. ASSUME NEW t \in T PROVE Held(UpTo(T \cup {n}, t)) >= 0
  <2>1. Held(UpTo(T, t)) >= 0 /\ UpTo(T, t) \in SUBSET T
    BY DEF Valid, UpTo
  <2>2. UpTo(T \cup {n}, t) = UpTo(T, t) \/ UpTo(T \cup {n}, t) = UpTo(T, t) \cup {n}
    BY DEF UpTo
  <2>3. Held(UpTo(T, t) \cup {n}) >= 0
    BY <1>2, <2>1
  <2> QED BY <2>1, <2>2, <2>3
<1>4. Held(UpTo(T \cup {n}, n)) >= 0
  <2> DEFINE P == {u \in T : u.at <= n.at}
  <2>1. UpTo(T \cup {n}, n) = P \cup {n}
    BY <1>1 DEF UpTo
  <2>2. Held(P) >= 0
    <3>1. CASE P = {}
      <4>1. Held({}) = 0
        BY FS_EmptySet, HeldStep
      <4> QED BY <3>1, <4>1
    <3>2. CASE P # {}
      <4> DEFINE A == {u.at : u \in P}
      <4>1. PICK a \in A : \A x \in A : x <= a
        <5>1. A \in SUBSET Nat /\ A # {} /\ \A x \in A : x <= MaxDay
          BY <1>1, <3>2
        <5> HIDE DEF A
        <5> QED BY <1>1, <5>1, Greatest
      <4> DEFINE I == {u.id : u \in {v \in P : v.at = a}}
      <4>2. PICK i \in I : \A x \in I : x <= i
        <5>1. I \in SUBSET Nat /\ I # {} /\ \A x \in I : x <= n.id
          BY <1>1, <4>1
        <5> HIDE DEF I
        <5> QED BY <5>1, Greatest
      <4>3. PICK m \in P : m.at = a /\ m.id = i
        BY <4>2
      <4>4. \A u \in P : u.at < m.at \/ (u.at = m.at /\ u.id <= m.id)
        BY <1>1, <4>1, <4>2, <4>3
      <4>5. UpTo(T, m) = P
        BY <1>1, <4>4 DEF UpTo
      <4> QED BY <4>5 DEF Valid
    <3> QED BY <3>1, <3>2
  <2>3. P \in SUBSET T
    OBVIOUS
  <2> HIDE DEF P
  <2>4. Held(P \cup {n}) = n.delta + Held(P) /\ Held(P) \in Int
    BY <1>2, <2>3
  <2>5. Held(P \cup {n}) >= 0
    BY <2>2, <2>4
  <2> QED BY <2>1, <2>5
<1> QED BY <1>3, <1>4 DEF Valid

-------------------------------------------------------------------------------
(* Every action keeps the invariant *)

(* Taking the lock of the position is no matter of the runs: none of them  *)
(* holds it.                                                               *)
LEMMA CheckStep ==
    ASSUME IInv, NEW c \in Clients, Check(c),
           UNCHANGED <<tables, dark, runs, notes>>
    PROVE  IInv'
<1>1. LedgerTyped'
  BY IInv DEF IInv, LedgerTyped, LedgerTypeOK, Check
<1>2. RunsTyped'
  BY IInv, SchedulesAssumption DEF IInv, RunsTyped, runs, Free, Check
<1>3. /\ TablesTyped' /\ Locked' /\ BoughtOnce' /\ Fresh' /\ Listed'
      /\ Marking' /\ NoDateLost'
  BY IInv DEF IInv, TablesTyped, Locked, BoughtOnce, Fresh, Listed, Marking,
        NoDateLost, tables, runs, notes, Check
<1> QED BY <1>1, <1>2, <1>3 DEF IInv

(* A request that is refused changes no trade.                             *)
LEMMA RefuseStep ==
    ASSUME IInv, NEW c \in Clients, Refuse(c),
           UNCHANGED <<tables, dark, runs, notes>>
    PROVE  IInv'
<1>1. LedgerTyped'
  BY IInv, LedgerAssumption DEF IInv, LedgerTyped, Days, Row, NoJob, Over,
        LedgerTypeOK, Sources, Rows, Refuse
<1>2. RunsTyped'
  BY SchedulesAssumption DEF IInv, RunsTyped, Refuse, Over, Free, runs
<1>3. /\ TablesTyped' /\ Locked' /\ BoughtOnce' /\ Fresh' /\ Listed'
      /\ Marking' /\ NoDateLost'
  BY IInv DEF IInv, TablesTyped, Locked, BoughtOnce, Fresh, Listed, Marking,
        NoDateLost, tables, runs, notes, Refuse
<1> QED BY <1>1, <1>2, <1>3 DEF IInv

(* A trade that is added has an id of its own.                             *)
LEMMA CommitStep ==
    ASSUME IInv, NEW c \in Clients, Commit(c),
           UNCHANGED <<tables, dark, runs, notes>>
    PROVE  IInv'
<1>1. IsFiniteSet(After(c))
  BY IInv, FS_AddElement, FS_RemoveElement
  DEF IInv, LedgerTyped, LedgerTypeOK, After
<1>2. LedgerTyped'
  <2> DEFINE t == [job[c] EXCEPT !.id = nextId]
  <2>1. /\ job[c] \in Rows /\ job[c].delta # 0 /\ nextId \in Nat \ {0} /\ step[c] # "idle"
    BY DEF IInv, LedgerTyped, LedgerTypeOK, Commit
  <2>2. t \in Rows /\ t.id = nextId /\ t.at \in Days /\ t.delta # 0
    BY <2>1 DEF Rows
  <2>3. CASE Adds(c)
    <3> HIDE DEF t
    <3>1. trades' = trades \cup {t} /\ nextId' = nextId + 1
      BY <2>3 DEF Commit, After, t
    <3>2. /\ \A u \in trades' : u.id \in 1 .. (nextId' - 1) /\ u.at \in Days /\ u.delta # 0
          /\ \A u, v \in trades' : u.id = v.id => u = v
      BY <2>1, <2>2, <3>1 DEF IInv, LedgerTyped, LedgerTypeOK
    <3>3. trades' \subseteq Rows /\ nextId' \in Nat \ {0}
      BY <2>1, <2>2, <3>1 DEF IInv, LedgerTyped
    <3>4. /\ job' \in [Clients -> Rows]
          /\ \A p \in Clients : job'[p].at \in Days /\ job'[p].id \in 0 .. (nextId' - 1)
      BY <2>1, <3>1, LedgerAssumption
      DEF IInv, LedgerTyped, LedgerTypeOK, Commit, Over, NoJob, Row, Rows, Sources, Days
    <3>5. /\ step' \in [Clients -> {"idle", "waiting", "checked"}]
          /\ \A p \in Clients : step'[p] # "idle" => job'[p].delta # 0
          /\ day' = day /\ events' = events
      BY DEF IInv, LedgerTyped, LedgerTypeOK, Commit, Over
    <3>6. IsFiniteSet(trades')
      BY <1>1 DEF Commit
    <3> QED BY <3>2, <3>3, <3>4, <3>5, <3>6 DEF IInv, LedgerTyped, LedgerTypeOK
  <2>4. CASE ~ Adds(c)
    <3>1. trades' = trades \ {job[c]} /\ nextId' = nextId
      BY <2>4 DEF Commit, After
    <3>2. IsFiniteSet(trades')
      BY <1>1 DEF Commit
    <3> QED BY <3>1, <3>2, LedgerAssumption
        DEF IInv, LedgerTyped, LedgerTypeOK, Commit, Over, NoJob, Row, Rows, Sources, Days
  <2> QED BY <2>3, <2>4
<1>3. RunsTyped'
  BY IInv, SchedulesAssumption DEF IInv, RunsTyped, runs, Over, Commit
<1>4. /\ TablesTyped' /\ Locked' /\ BoughtOnce' /\ Fresh' /\ Listed'
      /\ Marking' /\ NoDateLost'
  BY IInv DEF IInv, TablesTyped, Locked, BoughtOnce, Fresh, Listed, Marking,
        NoDateLost, tables, runs, notes, Commit
<1> QED BY <1>2, <1>3, <1>4 DEF IInv

(* Whatever a request held, it was not what a run holds.                   *)
LEMMA AbortStep ==
    ASSUME IInv, NEW c \in Clients, Abort(c),
           UNCHANGED <<tables, dark, runs, notes>>
    PROVE  IInv'
<1>1. LedgerTyped'
  BY IInv, LedgerAssumption DEF IInv, LedgerTyped, Days, Row, NoJob, Event, Over,
        LedgerTypeOK, Sources, Rows, Abort
<1>2. RunsTyped'
  BY IInv, SchedulesAssumption DEF IInv, RunsTyped, runs, Over, Abort
<1>3. /\ TablesTyped' /\ Locked' /\ BoughtOnce' /\ Fresh' /\ Listed'
      /\ Marking' /\ NoDateLost'
  BY IInv DEF IInv, TablesTyped, Locked, BoughtOnce, Fresh, Listed, Marking,
        NoDateLost, tables, runs, notes, Abort
<1> QED BY <1>1, <1>2, <1>3 DEF IInv

(* The row a request is to delete has the type of a trade.                 *)
LEMMA AskDeleteStep ==
    ASSUME IInv, NEW c \in Clients, NEW t \in trades,
           AskDelete(c, t), UNCHANGED <<tables, dark, runs, notes>>
    PROVE  IInv'
<1>1. LedgerTyped'
  BY IInv, LedgerAssumption, SchedulesAssumption DEF IInv, LedgerTyped,
        TablesTyped, RunsTyped, Locked, Marking, NoDateLost, ledger, Event, Ask,
        LedgerTypeOK, DatesOf, AskDelete
<1>2. /\ TablesTyped' /\ RunsTyped' /\ Locked' /\ BoughtOnce' /\ Fresh'
      /\ Listed' /\ Marking' /\ NoDateLost'
  BY IInv DEF IInv, TablesTyped, RunsTyped, Locked, BoughtOnce, Fresh, Listed,
        Marking, NoDateLost, tables, runs, notes, ledger, Ask, AskDelete
<1> QED BY <1>1, <1>2 DEF IInv

(* A buy adds to the holding.                                              *)
LEMMA AskBuyStep ==
    ASSUME IInv, NEW c \in Clients, NEW x \in Days,
           NEW q \in Quantities, AskBuy(c, x, q),
           UNCHANGED <<tables, dark, runs, notes>>
    PROVE  IInv'
<1>1. LedgerTyped'
  BY IInv, LedgerAssumption, SchedulesAssumption DEF IInv, LedgerTyped,
        TablesTyped, Fresh, ledger, Row, Event, Ask, LedgerTypeOK, Sources, Rows,
        AskBuy
<1>2. /\ TablesTyped' /\ RunsTyped' /\ Locked' /\ BoughtOnce' /\ Fresh'
      /\ Listed' /\ Marking' /\ NoDateLost'
  BY IInv DEF IInv, TablesTyped, RunsTyped, Locked, BoughtOnce, Fresh, Listed,
        Marking, NoDateLost, tables, runs, notes, ledger, Days, Event, Ask, Null,
        DatesOf, Listings, AskBuy
<1> QED BY <1>1, <1>2 DEF IInv

(* A sale takes from the holding.                                          *)
LEMMA AskSellStep ==
    ASSUME IInv, NEW c \in Clients, NEW x \in Days,
           NEW q \in Quantities, AskSell(c, x, q),
           UNCHANGED <<tables, dark, runs, notes>>
    PROVE  IInv'
<1>1. LedgerTyped'
  BY SMTT(30), IInv, LedgerAssumption, SchedulesAssumption DEF IInv, LedgerTyped, Listed,
        ledger, Row, Event, Ask, LedgerTypeOK, Sources, Rows, AskSell
<1>2. /\ TablesTyped' /\ RunsTyped' /\ Locked' /\ BoughtOnce' /\ Fresh'
      /\ Listed' /\ Marking' /\ NoDateLost'
  BY IInv DEF IInv, TablesTyped, RunsTyped, Locked, BoughtOnce, Fresh, Listed,
        Marking, NoDateLost, tables, runs, notes, ledger, Days, Ask, AskSell
<1> QED BY <1>1, <1>2 DEF IInv

(* No run has read a schedule that was never created, and none of its      *)
(* dates is behind a watermark.                                            *)
LEMMA CreateStep ==
    ASSUME IInv, NEW s \in Schedules, NEW d \in Definitions,
           Create(s, d)
    PROVE  IInv'
<1>1. LedgerTyped'
  BY IInv, LedgerAssumption DEF IInv, LedgerTyped, TablesTyped, ledger, requests,
        Event, LedgerTypeOK, Create
<1>2. TablesTyped'
  BY IInv, SchedulesAssumption DEF IInv, TablesTyped, notes, Create
<1>3. Fresh'
  BY IInv DEF IInv, Fresh, Listed, Create
<1>4. Listed'
  BY IInv DEF IInv, Listed, runs, notes, Create
<1>5. NoDateLost'
  BY IInv, SchedulesAssumption DEF IInv, LedgerTyped, Fresh, NoDateLost, Days,
        Null, notes, DatesOf, Create
<1>6. RunsTyped' /\ Locked' /\ BoughtOnce' /\ Marking'
  BY IInv DEF IInv, RunsTyped, Locked, BoughtOnce, Marking, ledger, runs, notes,
        Create
<1> QED BY <1>1, <1>2, <1>3, <1>4, <1>5, <1>6 DEF IInv

(* What runs have read of a schedule need not be true once it is edited.   *)
LEMMA EditStep ==
    ASSUME IInv, NEW s \in Schedules, NEW d \in Definitions,
           Edit(s, d)
    PROVE  IInv'
<1>1. LedgerTyped'
  BY IInv, LedgerAssumption DEF IInv, LedgerTyped, ledger, requests, Event,
        LedgerTypeOK, Edit
<1>2. TablesTyped'
  BY IInv, SchedulesAssumption DEF IInv, TablesTyped, Edit
<1>3. Listed'
  BY IInv DEF IInv, Listed, runs, Edit
<1>4. Marking'
  BY DEF IInv, Marking, Edit, runs
<1>5. NoDateLost'
  BY IInv DEF IInv, LedgerTyped, NoDateLost, Edit
<1>6. RunsTyped' /\ Locked' /\ BoughtOnce' /\ Fresh'
  BY IInv DEF IInv, RunsTyped, Locked, BoughtOnce, Fresh, ledger, runs, Edit
<1> QED BY <1>1, <1>2, <1>3, <1>4, <1>5, <1>6 DEF IInv

(* A schedule that was created is never again as if it were not.           *)
LEMMA SetStatusStep ==
    ASSUME IInv, NEW s \in Schedules,
           NEW new \in {"active", "paused", "archived"}, SetStatus(s, new)
    PROVE  IInv'
<1>1. LedgerTyped'
  BY IInv, LedgerAssumption DEF IInv, LedgerTyped, ledger, requests, Event,
        LedgerTypeOK, SetStatus
<1>2. TablesTyped'
  BY IInv DEF IInv, TablesTyped, notes, SetStatus
<1>3. Fresh'
  BY IInv DEF IInv, Fresh, SetStatus
<1>4. Listed'
  BY IInv DEF IInv, Listed, runs, notes, SetStatus
<1>5. RunsTyped' /\ Locked' /\ BoughtOnce' /\ Marking' /\ NoDateLost'
  BY IInv DEF IInv, RunsTyped, Locked, BoughtOnce, Marking, NoDateLost, ledger,
        runs, notes, SetStatus
<1> QED BY <1>1, <1>2, <1>3, <1>4, <1>5 DEF IInv

(* Before the day from which a run stores, all dates have their            *)
(* occurrence: they are behind the watermark, or before the start.         *)
LEMMA ListActiveStep ==
    ASSUME IInv, NEW w \in Workers, ListActive(w)
    PROVE  IInv'
<1>1. LedgerTyped'
  BY IInv DEF IInv, LedgerTyped, ledger, requests, LedgerTypeOK, ListActive
<1>2. RunsTyped'
  <2>1. \A s \in Schedules : From(def[s], through[s]) \in Nat /\ DatesOf(def[s]) \in SUBSET Days
    BY LedgerAssumption DEF IInv, TablesTyped, From, DatesOf, Null, Days
  <2>2. seen' \in [Workers -> SUBSET Listings]
    BY <2>1 DEF IInv, RunsTyped, ListActive, Listings
  <2> QED BY <2>2 DEF IInv, RunsTyped, ListActive, LedgerTyped, LedgerTypeOK, ledger
<1>3. Locked'
  BY IInv DEF IInv, Locked, tables, ListActive
<1>4. Listed'
  BY IInv DEF IInv, TablesTyped, Listed, NoDateLost, Days, tables, notes,
        DatesOf, From, ListActive
<1>5. Marking'
  BY IInv DEF IInv, Marking, tables, notes, ListActive
<1>6. TablesTyped' /\ BoughtOnce' /\ Fresh' /\ NoDateLost'
  BY IInv DEF IInv, TablesTyped, BoughtOnce, Fresh, NoDateLost, tables, notes,
        ListActive
<1> QED BY <1>1, <1>2, <1>3, <1>4, <1>5, <1>6 DEF IInv

(* Storing makes no planned or posted occurrence anything else, and when   *)
(* it is done no date up to that of the run is missing.                    *)
LEMMA StoreStep ==
    ASSUME IInv, NEW w \in Workers, Store(w)
    PROVE  IInv'
<1> DEFINE x == Upcoming(seen[w])
<1>1. x \in seen[w] /\ x \in Listings /\ x.id \in Schedules /\ today[w] \in Days
  <2>1. x \in seen[w]
    BY IInv, UpcomingIsOne DEF IInv, RunsTyped, Store
  <2> QED BY <2>1 DEF IInv, RunsTyped, Listings
<1>2. occ' = [occ EXCEPT ![x.id] = Stored(occ[x.id], x, today[w])]
  BY DEF Store
<1>3. /\ at' = [at EXCEPT ![w] = "marking"] /\ at[w] = "storing" /\ seen[w] # {}
      /\ UNCHANGED <<day, ledger, requests, events, status, def, through, dark, today, seen,
                     batch, notes>>
  BY DEF Store
<1> HIDE DEF x
<1>4. /\ occ' \in [Schedules -> [Days -> {"none", "planned", "posted"}]]
      /\ \A s \in Schedules, d \in Days :
           /\ occ'[s][d] = "posted" <=> occ[s][d] = "posted"
           /\ occ[s][d] = "planned" => occ'[s][d] = "planned"
      /\ \A d \in x.dates : x.from <= d /\ d <= today[w] => occ'[x.id][d] # "none"
  <2>1. occ[x.id] \in [Days -> {"none", "planned", "posted"}]
    BY <1>1 DEF IInv, TablesTyped
  <2>2. x.dates \subseteq Days
    BY <1>1 DEF Listings
  <2>3. /\ occ'[x.id] = Stored(occ[x.id], x, today[w])
        /\ \A s \in Schedules \ {x.id} : occ'[s] = occ[s]
    BY <1>1, <1>2 DEF IInv, TablesTyped
  <2>4. occ' \in [Schedules -> [Days -> {"none", "planned", "posted"}]]
    BY <1>1, <1>2, <2>1, StoredRow DEF IInv, TablesTyped
  <2>5. ASSUME NEW s \in Schedules, NEW d \in Days
        PROVE  /\ occ'[s][d] = "posted" <=> occ[s][d] = "posted"
               /\ occ[s][d] = "planned" => occ'[s][d] = "planned"
    BY <1>1, <2>1, <2>3, StoredRow
  <2>6. \A d \in x.dates : x.from <= d /\ d <= today[w] => occ'[x.id][d] # "none"
    BY <1>1, <2>1, <2>2, <2>3, StoredRow
  <2> QED BY <2>4, <2>5, <2>6
<1>5. \A s \in Schedules, d \in Days : occ[s][d] # "none" => occ'[s][d] # "none"
  BY <1>4 DEF IInv, TablesTyped
<1>6. LedgerTyped'
  BY <1>3 DEF IInv, LedgerTyped, LedgerTypeOK, ledger, requests
<1>7. TablesTyped'
  BY <1>3, <1>4 DEF IInv, TablesTyped, notes
<1>8. RunsTyped'
  BY <1>3 DEF IInv, RunsTyped, ledger
<1>9. Locked'
  <2> SUFFICES ASSUME NEW v \in Workers, at'[v] = "posting"
               PROVE  occ'[First(batch'[v])[1]][First(batch'[v])[2]] = "planned"
    BY DEF Locked
  <2>1. at[v] = "posting" /\ batch'[v] = batch[v]
    BY <1>3 DEF IInv, RunsTyped
  <2>2. First(batch[v]) \in Schedules \X Days
    BY <2>1, FirstIsOne DEF IInv, RunsTyped
  <2> QED BY <1>4, <2>1, <2>2 DEF IInv, Locked
<1>10. BoughtOnce'
  BY <1>3, <1>4 DEF IInv, BoughtOnce, notes
<1>11. Fresh' /\ NoDateLost'
  BY <1>3, <1>5 DEF IInv, Fresh, NoDateLost, DatesOf, notes, TablesTyped
<1>12. Listed'
  <2> SUFFICES ASSUME NEW v \in Workers, NEW y \in seen[v], y.id \notin edited
               PROVE  \A d \in y.dates : d < y.from => occ'[y.id][d] # "none"
    BY <1>3 DEF IInv, Listed, notes
  <2>1. y.id \in Schedules /\ y.dates \subseteq Days
    BY DEF IInv, RunsTyped, Listings
  <2> QED BY <1>5, <2>1 DEF IInv, Listed
<1>13. Marking'
  <2> SUFFICES ASSUME NEW v \in Workers, at'[v] = "marking", seen[v] # {},
                      Upcoming(seen[v]).id \notin edited,
                      NEW d \in Upcoming(seen[v]).dates, d <= today[v]
               PROVE  occ'[Upcoming(seen[v]).id][d] # "none"
    BY <1>3 DEF IInv, Marking, notes
  <2>1. Upcoming(seen[v]) \in seen[v] /\ seen[v] \in SUBSET Listings
    BY UpcomingIsOne DEF IInv, RunsTyped
  <2>2. Upcoming(seen[v]).id \in Schedules /\ d \in Days
    BY <2>1 DEF Listings
  <2>3. CASE v = w
    <3>1. d \in Nat /\ x.from \in Nat
      BY <1>1, <2>2, LedgerAssumption DEF Days, Listings
    <3>2. CASE x.from <= d
      BY <1>4, <2>3, <3>2 DEF x
    <3>3. CASE d < x.from
      BY <1>1, <1>5, <2>2, <2>3, <3>3 DEF IInv, Listed, x
    <3> QED BY <3>1, <3>2, <3>3
  <2>4. CASE v # w
    BY <1>3, <1>5, <2>2, <2>4 DEF IInv, Marking, RunsTyped
  <2> QED BY <2>3, <2>4
<1> QED BY <1>6, <1>7, <1>8, <1>9, <1>10, <1>11, <1>12, <1>13 DEF IInv

(* The watermark moves over dates that were just stored. It may move back  *)
(* as well.                                                                *)
LEMMA MarkStep ==
    ASSUME IInv, NEW w \in Workers, Mark(w)
    PROVE  IInv'
<1>1. Upcoming(seen[w]) \in seen[w]
  BY IInv, UpcomingIsOne DEF IInv, RunsTyped, Marking, Store, Mark
<1>2. LedgerTyped'
  BY IInv DEF IInv, LedgerTyped, ledger, requests, LedgerTypeOK, Mark
<1>3. TablesTyped'
  BY IInv, <1>1 DEF IInv, TablesTyped, RunsTyped, notes, Listings, Mark
<1>4. RunsTyped'
  BY IInv DEF IInv, RunsTyped, ledger, Mark
<1>5. Locked'
  BY IInv DEF IInv, Locked, Mark
<1>6. Fresh'
  BY IInv DEF IInv, Fresh, Mark
<1>7. Listed'
  BY IInv DEF IInv, Listed, notes, Mark
<1>8. Marking'
  BY IInv DEF IInv, RunsTyped, Marking, notes, Mark
<1>9. NoDateLost'
  BY IInv, <1>1 DEF IInv, Listed, Marking, NoDateLost, notes, Mark
<1>10. BoughtOnce'
  BY IInv DEF IInv, BoughtOnce, notes, Mark
<1> QED BY <1>2, <1>3, <1>4, <1>5, <1>6, <1>7, <1>8, <1>9, <1>10 DEF IInv

(* The batch is empty, and the run over, or the run goes on to price it.   *)
LEMMA ListDueStep ==
    ASSUME IInv, NEW w \in Workers, ListDue(w)
    PROVE  IInv'
<1>1. LedgerTyped'
  BY IInv DEF IInv, LedgerTyped, ledger, requests, LedgerTypeOK, ListDue
<1>2. RunsTyped'
  <2>1. PICK B \in SUBSET (Schedules \X Days) : Continue(w, B)
    BY DEF ListDue
  <2>2. at[w] = "storing" /\ UNCHANGED <<holder, seen>>
    BY DEF ListDue, ledger
  <2> QED BY <2>1, <2>2, LedgerAssumption DEF IInv, RunsTyped, Continue, Days
<1>3. Locked'
  BY IInv DEF IInv, Locked, tables, Continue, ListDue
<1>4. Marking'
  BY IInv DEF IInv, Marking, tables, notes, Continue, ListDue
<1>5. TablesTyped' /\ BoughtOnce' /\ Fresh' /\ Listed' /\ NoDateLost'
  BY IInv DEF IInv, TablesTyped, BoughtOnce, Fresh, Listed, NoDateLost, tables,
        notes, ListDue
<1> QED BY <1>1, <1>2, <1>3, <1>4, <1>5 DEF IInv

(* Passing over an occurrence leaves it planned.                           *)
LEMMA NoQuoteStep ==
    ASSUME IInv, NEW w \in Workers, NoQuote(w)
    PROVE  IInv'
<1>1. LedgerTyped'
  BY IInv DEF IInv, LedgerTyped, ledger, requests, LedgerTypeOK, NoQuote
<1>2. RunsTyped'
  BY IInv, LedgerAssumption DEF IInv, RunsTyped, ledger, Days, Continue, Drop,
        NoQuote
<1>3. Locked'
  BY IInv DEF IInv, Locked, tables, Continue, Drop, NoQuote
<1>4. Marking'
  BY IInv DEF IInv, Marking, tables, notes, Continue, Drop, NoQuote
<1>5. TablesTyped' /\ BoughtOnce' /\ Fresh' /\ Listed' /\ NoDateLost'
  BY IInv DEF IInv, TablesTyped, BoughtOnce, Fresh, Listed, NoDateLost, tables,
        notes, NoQuote
<1> QED BY <1>1, <1>2, <1>3, <1>4, <1>5 DEF IInv

(* The occurrence was looked at under its lock.                            *)
LEMMA BeginStep ==
    ASSUME IInv, NEW w \in Workers, Begin(w)
    PROVE  IInv'
<1>1. First(batch[w]) \in batch[w]
  BY IInv, FirstIsOne DEF IInv, RunsTyped, Waiting, Begin
<1>2. LedgerTyped'
  BY IInv DEF IInv, LedgerTyped, requests, LedgerTypeOK, Begin
<1>3. RunsTyped'
  BY IInv, <1>1, SchedulesAssumption DEF IInv, RunsTyped, Free, Begin
<1>4. Locked'
  BY IInv DEF IInv, Locked, tables, Current, Postable, Begin
<1>5. Marking'
  BY IInv DEF IInv, Marking, tables, notes, Begin
<1>6. TablesTyped' /\ BoughtOnce' /\ Fresh' /\ Listed' /\ NoDateLost'
  BY IInv DEF IInv, TablesTyped, BoughtOnce, Fresh, Listed, NoDateLost, tables,
        notes, Begin
<1> QED BY <1>2, <1>3, <1>4, <1>5, <1>6 DEF IInv

(* An occurrence somebody else bought, or whose schedule was paused, is    *)
(* passed over.                                                            *)
LEMMA GoneStep ==
    ASSUME IInv, NEW w \in Workers, Gone(w)
    PROVE  IInv'
<1>1. LedgerTyped'
  BY IInv DEF IInv, LedgerTyped, ledger, requests, LedgerTypeOK, Gone
<1>2. RunsTyped'
  BY IInv, LedgerAssumption DEF IInv, RunsTyped, ledger, Days, Continue, Drop,
        Waiting, Gone
<1>3. Locked'
  BY IInv DEF IInv, Locked, tables, Continue, Drop, Waiting, Gone
<1>4. Marking'
  BY IInv DEF IInv, Marking, tables, notes, Continue, Drop, Waiting, Gone
<1>5. TablesTyped' /\ BoughtOnce' /\ Fresh' /\ Listed' /\ NoDateLost'
  BY IInv DEF IInv, TablesTyped, BoughtOnce, Fresh, Listed, NoDateLost, tables,
        notes, Gone
<1> QED BY <1>1, <1>2, <1>3, <1>4, <1>5 DEF IInv

(* What is bought was planned, so it was never bought before.              *)
LEMMA PostStep ==
    ASSUME IInv, NEW w \in Workers, Post(w)
    PROVE  IInv'
<1> DEFINE x == First(batch[w])
<1>1. x \in Schedules \X Days /\ at[w] = "posting" /\ holder = w
  BY IInv, FirstIsOne DEF IInv, RunsTyped, Post
<1>2. /\ nextId' = nextId + 1 /\ holder' = "none"
      /\ batch' = [batch EXCEPT ![w] = batch[w] \ {x}]
      /\ at' = [at EXCEPT ![w] = IF batch[w] \ {x} = {} THEN "idle" ELSE "pricing"]
      /\ today' = [today EXCEPT ![w] = 0]
      /\ UNCHANGED <<day, requests, events, status, def, through, dark, seen, edited>>
  BY <1>1 DEF Post, Release, Drop, Continue, Current
<1>3. PICK q \in Quantities : trades' = trades \cup {Row(nextId, x[2], q, x)}
  BY DEF Post, Current
<1>4. /\ occ' = [occ EXCEPT ![x[1]][x[2]] = "posted"]
      /\ bought' = [bought EXCEPT ![x[1]][x[2]] = @ + 1]
  BY DEF Post, Current
<1> HIDE DEF x
<1>5. occ[x[1]][x[2]] = "planned" /\ bought[x[1]][x[2]] = 0
  BY <1>1 DEF IInv, Locked, BoughtOnce, x
<1>6. /\ occ' \in [Schedules -> [Days -> {"none", "planned", "posted"}]]
      /\ bought' \in [Schedules -> [Days -> Nat]]
  <2>1. occ[x[1]] \in [Days -> {"none", "planned", "posted"}] /\ bought[x[1]] \in [Days -> Nat]
    BY <1>1 DEF IInv, TablesTyped
  <2> QED BY <1>1, <1>4, <2>1 DEF IInv, TablesTyped
<1>7. \A s \in Schedules, d \in Days :
        IF s = x[1] /\ d = x[2] THEN occ'[s][d] = "posted" /\ bought'[s][d] = 1
        ELSE occ'[s][d] = occ[s][d] /\ bought'[s][d] = bought[s][d]
  BY <1>1, <1>4, <1>5 DEF IInv, TablesTyped
<1> DEFINE t == Row(nextId, x[2], q, x)
<1>8. t \in Rows /\ t.id = nextId /\ t.at \in Days /\ t.delta # 0
  BY <1>1, LedgerAssumption DEF Rows, Row, Sources, IInv, LedgerTyped, LedgerTypeOK
<1>9. IsFiniteSet(trades')
  BY <1>3, FS_AddElement DEF IInv, LedgerTyped, LedgerTypeOK
<1>10. LedgerTyped'
  <2> HIDE DEF t
  <2>1. trades' = trades \cup {t}
    BY <1>3 DEF t
  <2>2. /\ nextId' \in Nat \ {0}
        /\ \A u \in trades' : u.id \in 1 .. (nextId' - 1) /\ u.at \in Days /\ u.delta # 0
        /\ \A u, v \in trades' : u.id = v.id => u = v
    BY <1>2, <1>8, <2>1 DEF IInv, LedgerTyped, LedgerTypeOK
  <2>3. \A c \in Clients : job'[c].at \in Days /\ job'[c].id \in 0 .. (nextId' - 1)
    BY <1>2 DEF IInv, LedgerTyped, LedgerTypeOK, requests
  <2> QED
    BY <1>2, <1>8, <1>9, <2>1, <2>2, <2>3 DEF IInv, LedgerTyped, LedgerTypeOK, requests
<1>11. TablesTyped'
  BY <1>2, <1>6 DEF IInv, TablesTyped
<1>12. RunsTyped'
  BY <1>1, <1>2, LedgerAssumption, SchedulesAssumption DEF IInv, RunsTyped, Days
<1>13. Locked'
  BY <1>1, <1>2 DEF IInv, RunsTyped, Locked
<1>14. BoughtOnce'
  BY <1>7 DEF IInv, BoughtOnce
<1>15. \A s \in Schedules, d \in Days : occ[s][d] # "none" => occ'[s][d] # "none"
  BY <1>7
<1>16. Fresh' /\ NoDateLost'
  BY <1>2, <1>15 DEF IInv, Fresh, NoDateLost, DatesOf, TablesTyped
<1>17. Listed'
  <2> SUFFICES ASSUME NEW v \in Workers, NEW y \in seen[v], y.id \notin edited
               PROVE  \A d \in y.dates : d < y.from => occ'[y.id][d] # "none"
    BY <1>2 DEF IInv, Listed
  <2>1. y.id \in Schedules /\ y.dates \subseteq Days
    BY DEF IInv, RunsTyped, Listings
  <2> QED BY <1>15, <2>1 DEF IInv, Listed
<1>18. Marking'
  <2> SUFFICES ASSUME NEW v \in Workers, at'[v] = "marking"
               PROVE  /\ seen[v] # {}
                      /\ Upcoming(seen[v]).id \notin edited =>
                           \A d \in Upcoming(seen[v]).dates :
                             d <= today'[v] => occ'[Upcoming(seen[v]).id][d] # "none"
    BY <1>2 DEF Marking
  <2>1. at[v] = "marking" /\ today'[v] = today[v]
    BY <1>2 DEF IInv, RunsTyped
  <2>2. Upcoming(seen[v]) \in seen[v] /\ seen[v] \in SUBSET Listings /\ seen[v] # {}
    BY <2>1, UpcomingIsOne DEF IInv, RunsTyped, Marking
  <2>3. Upcoming(seen[v]).id \in Schedules /\ Upcoming(seen[v]).dates \subseteq Days
    BY <2>2 DEF Listings
  <2> QED BY <1>15, <2>1, <2>2, <2>3 DEF IInv, Marking
<1> QED BY <1>10, <1>11, <1>12, <1>13, <1>14, <1>16, <1>17, <1>18 DEF IInv

(* A purchase that fails leaves its occurrence planned, and nobody holds   *)
(* it.                                                                     *)
LEMMA PostFailsStep ==
    ASSUME IInv, NEW w \in Workers, PostFails(w)
    PROVE  IInv'
<1>1. LedgerTyped'
  BY IInv, LedgerAssumption DEF IInv, LedgerTyped, requests, Event, LedgerTypeOK,
        PostFails
<1>2. RunsTyped'
  BY IInv, LedgerAssumption, SchedulesAssumption DEF IInv, RunsTyped, Days,
        Continue, Drop, Release, PostFails
<1>3. Locked'
  BY IInv DEF IInv, RunsTyped, Locked, Continue, Drop, PostFails
<1>4. Marking'
  BY IInv DEF IInv, Marking, tables, notes, Continue, Drop, PostFails
<1>5. TablesTyped' /\ BoughtOnce' /\ Fresh' /\ Listed' /\ NoDateLost'
  BY IInv DEF IInv, TablesTyped, BoughtOnce, Fresh, Listed, NoDateLost, tables,
        notes, PostFails
<1> QED BY <1>1, <1>2, <1>3, <1>4, <1>5 DEF IInv

(* A run that ends releases the position.                                  *)
LEMMA StopStep ==
    ASSUME IInv, NEW w \in Workers, Stop(w)
    PROVE  IInv'
<1>1. LedgerTyped'
  BY IInv, LedgerAssumption DEF IInv, LedgerTyped, requests, Event, LedgerTypeOK,
        Stop
<1>2. RunsTyped'
  BY IInv, LedgerAssumption, SchedulesAssumption DEF IInv, RunsTyped, Days,
        Release, Idle, Stop
<1>3. Locked'
  BY IInv DEF IInv, RunsTyped, Locked, tables, Idle, Stop
<1>4. Listed'
  BY IInv DEF IInv, Listed, tables, notes, Idle, Stop
<1>5. Marking'
  BY IInv DEF IInv, RunsTyped, Marking, tables, notes, Idle, Stop
<1>6. TablesTyped' /\ BoughtOnce' /\ Fresh' /\ NoDateLost'
  BY IInv DEF IInv, TablesTyped, BoughtOnce, Fresh, NoDateLost, tables, notes,
        Stop
<1> QED BY <1>1, <1>2, <1>3, <1>4, <1>5, <1>6 DEF IInv

(* No property looks at the present day.                                   *)
LEMMA TickStep ==
    ASSUME IInv, Tick
    PROVE  IInv'
<1>1. LedgerTyped'
  BY IInv, LedgerAssumption DEF IInv, LedgerTyped, ledger, requests, Days,
        LedgerTypeOK, Tick
<1>2. /\ TablesTyped' /\ RunsTyped' /\ Locked' /\ BoughtOnce' /\ Fresh'
      /\ Listed' /\ Marking' /\ NoDateLost'
  BY IInv DEF IInv, TablesTyped, RunsTyped, Locked, BoughtOnce, Fresh, Listed,
        Marking, NoDateLost, ledger, tables, runs, notes, DatesOf, Tick
<1> QED BY <1>1, <1>2 DEF IInv

(* Prices decide when an occurrence is bought, not whether twice.          *)
LEMMA PriceGoesStep ==
    ASSUME IInv, NEW s \in Schedules, PriceGoes(s)
    PROVE  IInv'
<1>1. LedgerTyped'
  BY IInv, LedgerAssumption DEF IInv, LedgerTyped, ledger, requests, Event,
        LedgerTypeOK, PriceGoes
<1>2. TablesTyped'
  BY IInv DEF IInv, TablesTyped, tables, notes, PriceGoes
<1>3. /\ RunsTyped' /\ Locked' /\ BoughtOnce' /\ Fresh' /\ Listed' /\ Marking'
      /\ NoDateLost'
  BY IInv DEF IInv, RunsTyped, Locked, BoughtOnce, Fresh, Listed, Marking,
        NoDateLost, ledger, tables, runs, notes, PriceGoes
<1> QED BY <1>1, <1>2, <1>3 DEF IInv

(* As when it goes.                                                        *)
LEMMA PriceComesStep ==
    ASSUME IInv, NEW s \in Schedules, PriceComes(s)
    PROVE  IInv'
<1>1. TablesTyped'
  BY IInv DEF IInv, TablesTyped, tables, notes, PriceComes
<1>2. /\ LedgerTyped' /\ RunsTyped' /\ Locked' /\ BoughtOnce' /\ Fresh'
      /\ Listed' /\ Marking' /\ NoDateLost'
  BY IInv DEF IInv, LedgerTyped, RunsTyped, Locked, BoughtOnce, Fresh, Listed,
        Marking, NoDateLost, ledger, requests, LedgerTypeOK, tables, runs, notes,
        PriceComes
<1> QED BY <1>1, <1>2 DEF IInv

-------------------------------------------------------------------------------
(* The strengthened invariant holds at the start, and every step keeps it. *)
LEMMA Inductive == Spec => []IInv
<1>1. Init => IInv
  <2> SUFFICES ASSUME Init
               PROVE  IInv
    OBVIOUS
  <2>1. LedgerTyped
    BY LedgerAssumption, FS_EmptySet
    DEF Init, LedgerInit, LedgerTyped, LedgerTypeOK, NoJob, Row, Rows, Sources, Days
  <2>2. TablesTyped
    BY LedgerAssumption DEF Init, TablesTyped, Days, Null
  <2>3. RunsTyped
    BY LedgerAssumption, SchedulesAssumption DEF Init, LedgerInit, RunsTyped, Days
  <2>4. Locked /\ BoughtOnce /\ Fresh /\ Listed /\ Marking
    BY DEF Init, Locked, BoughtOnce, Fresh, Listed, Marking
  <2>5. NoDateLost
    BY LedgerAssumption DEF Init, NoDateLost, DatesOf
  <2> QED BY <2>1, <2>2, <2>3, <2>4, <2>5 DEF IInv
<1>2. IInv /\ [Next]_vars => IInv'
  <2> SUFFICES ASSUME IInv, [Next]_vars
               PROVE  IInv'
    OBVIOUS
  <2>1. CASE UserStep /\ UNCHANGED <<tables, dark, runs, notes>>
    BY <2>1, CheckStep, RefuseStep, CommitStep, AbortStep, AskDeleteStep,
       AskBuyStep, AskSellStep
    DEF UserStep, Handle
  <2>2. ASSUME NEW w \in Workers, Run(w) \/ PostFails(w) \/ Stop(w)
        PROVE  IInv'
    BY <2>2, ListActiveStep, StoreStep, MarkStep, ListDueStep, NoQuoteStep,
       BeginStep, GoneStep, PostStep, PostFailsStep, StopStep
    DEF Run
  <2>3. ASSUME NEW s \in Schedules, NEW d \in Definitions, Create(s, d) \/ Edit(s, d)
        PROVE  IInv'
    BY <2>3, CreateStep, EditStep
  <2>4. ASSUME NEW s \in Schedules, NEW new \in {"active", "paused", "archived"},
               SetStatus(s, new)
        PROVE  IInv'
    BY <2>4, SetStatusStep
  <2>5. ASSUME NEW s \in Schedules, PriceGoes(s) \/ PriceComes(s)
        PROVE  IInv'
    BY <2>5, PriceGoesStep, PriceComesStep
  <2>6. CASE Tick
    BY <2>6, TickStep
  <2>7. CASE UNCHANGED vars
    BY <2>7 DEF IInv, LedgerTyped, LedgerTypeOK, TablesTyped, RunsTyped, Locked,
                BoughtOnce, Fresh, Listed, Marking, NoDateLost, vars, ledger, requests,
                tables, runs, notes
  <2> QED BY <2>1, <2>2, <2>3, <2>4, <2>5, <2>6, <2>7 DEF Next
<1> QED BY <1>1, <1>2, PTL DEF Spec

(* Trades, schedules, occurrences and runs have their types; whoever holds *)
(* the position is a request or the run that posts.                        *)
THEOREM TypeCorrect == Spec => []TypeOK
<1>1. IInv => TypeOK
  BY DEF IInv, LedgerTyped, TablesTyped, RunsTyped, TypeOK
<1> QED BY <1>1, Inductive, PTL

(* However many replicas list, price and post the same occurrences, and    *)
(* whatever fails, each occurrence is bought at most once, and exactly     *)
(* once if it counts as posted.                                            *)
THEOREM PurchasesAreSingle == Spec => []BoughtOnce
<1>1. IInv => BoughtOnce
  BY DEF IInv
<1> QED BY <1>1, Inductive, PTL

(* Replicas that materialise the same schedules at once, stop anywhere and *)
(* mark in any order leave no date without an occurrence behind the        *)
(* watermark of a schedule that was never edited.                          *)
THEOREM NoDateIsLost == Spec => []NoDateLost
<1>1. IInv => NoDateLost
  BY DEF IInv
<1> QED BY <1>1, Inductive, PTL

-------------------------------------------------------------------------------
(* No sale of what is not held *)

(* What makes NeverOversold inductive: a request that was checked holds    *)
(* the position, and what it was checked against is still what there is.   *)
Sound ==
    /\ NeverOversold
    /\ \A c \in Clients : step[c] = "checked" => holder = c /\ Acceptable(c)

(* A request commits what it was checked against; whoever is refused or    *)
(* rolled back changes no trade.                                           *)
LEMMA RequestKeepsSound ==
    ASSUME IInv, Sound, NEW c \in Clients, Handle(c) \/ Abort(c)
    PROVE  Sound'
<1>1. \A d \in Clients : d # c => step'[d] = step[d] /\ job'[d] = job[d]
  BY DEF Handle, Check, Refuse, Commit, Abort, Over, IInv, LedgerTyped, LedgerTypeOK
<1>2. CASE Check(c)
  <2>1. trades' = trades /\ nextId' = nextId /\ job' = job /\ holder' = c /\ holder = "none"
    BY <1>2 DEF Check, Free
  <2>2. \A d \in Clients : d # c => step'[d] # "checked"
    BY <1>1, <2>1, SchedulesAssumption DEF Sound
  <2>3. Acceptable(c)'
    BY <1>2, <2>1 DEF Check, Acceptable, After, Adds
  <2> QED BY <2>1, <2>2, <2>3 DEF Sound, NeverOversold
<1>3. CASE Refuse(c) \/ Abort(c)
  <2>1. trades' = trades /\ nextId' = nextId /\ step'[c] = "idle"
        /\ holder' = IF holder = c THEN "none" ELSE holder
    BY <1>3 DEF Refuse, Abort, Over, IInv, LedgerTyped, LedgerTypeOK
  <2>2. ASSUME NEW d \in Clients, step'[d] = "checked" PROVE holder' = d /\ Acceptable(d)'
    <3>1. d # c /\ holder = d /\ Acceptable(d)
      BY <1>1, <2>1, <2>2 DEF Sound
    <3>2. job'[d] = job[d]
      BY <1>1, <3>1
    <3> QED BY <2>1, <3>1, <3>2 DEF Acceptable, After, Adds
  <2> QED BY <2>1, <2>2 DEF Sound, NeverOversold
<1>4. CASE Commit(c)
  <2>1. step[c] = "checked" /\ holder = c /\ Acceptable(c) /\ trades' = After(c)
    BY <1>4 DEF Commit, Sound
  <2>2. \A d \in Clients : step'[d] # "checked"
    <3>1. step'[c] = "idle"
      BY <1>4 DEF Commit, Over, IInv, LedgerTyped, LedgerTypeOK
    <3> QED BY <1>1, <2>1, <3>1 DEF Sound
  <2>3. Valid(After(c))
    <3>1. CASE Valid(After(c))
      BY <3>1
    <3>2. CASE Adds(c) /\ job[c].delta > 0
      <4> DEFINE n == [job[c] EXCEPT !.id = nextId]
      <4>1. /\ n.id \in Nat /\ n.at \in Days /\ n.delta \in Nat
            /\ \A t \in trades : t.id < n.id
        BY <3>2 DEF IInv, LedgerTyped, LedgerTypeOK, Rows
      <4>2. n \notin trades
        <5> HIDE DEF n
        <5> QED BY <4>1
      <4>3. Distinct(trades)
        BY DEF IInv, LedgerTyped, LedgerTypeOK, Distinct, Rows
      <4>4. After(c) = trades \cup {n}
        BY <3>2 DEF After
      <4> HIDE DEF n
      <4> QED BY <4>1, <4>2, <4>3, <4>4, PurchaseKeepsValid DEF Sound, NeverOversold
    <3> QED BY <2>1, <3>1, <3>2 DEF Acceptable
  <2> QED BY <2>1, <2>2, <2>3 DEF Sound, NeverOversold
<1> QED BY <1>2, <1>3, <1>4 DEF Handle

(* A request that is new is not checked yet.                               *)
LEMMA AskingKeepsSound ==
    ASSUME IInv, Sound, NEW c \in Clients, NEW j, Ask(c, j)
    PROVE  Sound'
<1>1. /\ \A d \in Clients : d # c => step'[d] = step[d] /\ job'[d] = job[d]
      /\ step'[c] = "waiting" /\ UNCHANGED <<trades, nextId, holder>>
  BY DEF Ask, IInv, LedgerTyped, LedgerTypeOK, ledger
<1>2. ASSUME NEW d \in Clients, step'[d] = "checked" PROVE holder' = d /\ Acceptable(d)'
  <2>1. d # c /\ holder = d /\ Acceptable(d)
    BY <1>1, <1>2 DEF Sound
  <2> QED BY <1>1, <2>1 DEF Acceptable, After, Adds
<1> QED BY <1>1, <1>2 DEF Sound, NeverOversold

(* A scheduled purchase is made by the run that holds the position.        *)
LEMMA PostKeepsSound ==
    ASSUME IInv, Sound, NEW w \in Workers, Post(w)
    PROVE  Sound'
<1>1. holder = w /\ UNCHANGED requests
  BY DEF IInv, RunsTyped, Post
<1>2. \A c \in Clients : step'[c] # "checked"
  BY <1>1, SchedulesAssumption DEF Sound, requests
<1>3. Current(w) \in Schedules \X Days
  BY FirstIsOne DEF IInv, RunsTyped, Post, Current
<1>4. PICK q \in Quantities :
         trades' = trades \cup {Row(nextId, Current(w)[2], q, Current(w))}
  BY DEF Post
<1> DEFINE n == Row(nextId, Current(w)[2], q, Current(w))
<1>5. /\ n.id \in Nat /\ n.at \in Days /\ n.delta \in Nat
      /\ \A t \in trades : t.id < n.id
  BY <1>3, LedgerAssumption DEF IInv, LedgerTyped, LedgerTypeOK, Rows, Row
<1>6. n \notin trades
  BY <1>5 DEF IInv, LedgerTyped, LedgerTypeOK
<1>7. Distinct(trades)
  BY DEF IInv, LedgerTyped, LedgerTypeOK, Distinct, Rows
<1>8. Valid(trades')
  <2> HIDE DEF n
  <2>1. trades' = trades \cup {n}
    BY <1>4 DEF n
  <2> QED BY <1>5, <1>6, <1>7, <2>1, PurchaseKeepsValid DEF Sound, NeverOversold
<1> QED BY <1>2, <1>8 DEF Sound, NeverOversold

(* No other step of a run, of a schedule, of a price or of the day changes *)
(* a trade or what a request was checked for, and a run that takes or      *)
(* leaves the position is not a request.                                   *)
LEMMA OthersKeepSound ==
    ASSUME IInv, Sound, UNCHANGED <<trades, nextId, requests>>,
           holder' = holder \/ holder = "none" \/ holder \in Workers
    PROVE  Sound'
<1>1. ASSUME NEW d \in Clients, step'[d] = "checked" PROVE holder' = d /\ Acceptable(d)'
  <2>1. holder = d /\ Acceptable(d)
    BY <1>1 DEF Sound, requests
  <2>2. holder' = d
    BY <2>1, SchedulesAssumption
  <2> QED BY <2>1, <2>2 DEF Acceptable, After, Adds, requests
<1> QED BY <1>1 DEF Sound, NeverOversold

(* However sales, back-dated ones too, deletions and scheduled purchases   *)
(* overlap, at no moment has more been sold than was held.                 *)
THEOREM NothingOversold == Spec => []NeverOversold
<1>1. Init => Sound
  BY DEF Init, LedgerInit, Sound, NeverOversold, Valid
<1>2. IInv /\ Sound /\ [Next]_vars => Sound'
  <2> SUFFICES ASSUME IInv, Sound, [Next]_vars PROVE Sound'
    OBVIOUS
  <2>1. CASE UserStep
    BY <2>1, RequestKeepsSound, AskingKeepsSound DEF UserStep, AskBuy, AskSell, AskDelete
  <2>2. ASSUME NEW w \in Workers, Post(w) PROVE Sound'
    BY <2>2, PostKeepsSound
  <2>3. ASSUME NEW w \in Workers,
               ListActive(w) \/ Store(w) \/ Mark(w) \/ ListDue(w) \/ NoQuote(w) \/ Gone(w)
        PROVE  Sound'
    BY <2>3, OthersKeepSound
    DEF ListActive, Store, Mark, ListDue, NoQuote, Gone, Drop, ledger
  <2>4. ASSUME NEW w \in Workers, Begin(w) \/ PostFails(w) \/ Stop(w) PROVE Sound'
    <3>1. UNCHANGED <<trades, nextId, requests>>
      BY <2>4 DEF Begin, PostFails, Stop
    <3>2. holder' = holder \/ holder = "none" \/ holder \in Workers
      BY <2>4 DEF Begin, PostFails, Stop, Idle, Release, Free
    <3> QED BY <3>1, <3>2, OthersKeepSound
  <2>5. CASE \E s \in Schedules :
               \/ \E d \in Definitions : Create(s, d) \/ Edit(s, d)
               \/ \E new \in {"active", "paused", "archived"} : SetStatus(s, new)
               \/ PriceGoes(s) \/ PriceComes(s)
    <3>1. UNCHANGED <<ledger, requests>>
      BY <2>5 DEF Create, Edit, SetStatus, PriceGoes, PriceComes
    <3> QED BY <3>1, OthersKeepSound DEF ledger
  <2>6. CASE Tick \/ UNCHANGED vars
    <3>1. UNCHANGED <<ledger, requests>>
      BY <2>6 DEF Tick, vars
    <3> QED BY <3>1, OthersKeepSound DEF ledger
  <2> QED BY <2>1, <2>2, <2>3, <2>4, <2>5, <2>6 DEF Next, Run
<1>3. Sound => NeverOversold
  BY DEF Sound
<1> QED BY <1>1, <1>2, <1>3, Inductive, PTL DEF Spec
===============================================================================
