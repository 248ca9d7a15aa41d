---------------------- MODULE NotificationDeliveryProofs ----------------------
(***************************************************************************)
(* Theorems about NotificationDelivery, for any number of replicas, users, *)
(* devices and notifications, any batch and any bounds of time, as long as *)
(* a run is over before its claims count as abandoned.                     *)
(*                                                                         *)
(* HeldByOne rests on Locked: while a run has a claim in hand, the row has *)
(* the lock time of that run, which is too young to be stale (Runs), so no *)
(* claim takes it over; a row that is missing belongs to a user who has    *)
(* left (Swept) and does not come back. The bound of attempts in TypeOK    *)
(* rests on Tried: whatever waits for another attempt has had one less     *)
(* than is allowed, and whatever was abandoned has cost a fault.           *)
(* TwiceOnlyIfUnrecorded rests on Counted: a push that is not accounted    *)
(* for as unrecorded is one about to be recorded, or one that no run will  *)
(* ever repeat.                                                            *)
(***************************************************************************)
EXTENDS NotificationDelivery, TLAPS

USE NotificationAssumption DEF NotificationAssumption

(* An idle run holds nothing, one at work is within its time, and where it *)
(* is tells what it has in hand.                                           *)
Runs ==
    \A w \in Workers :
        /\ pc[w] = "idle" => batch[w] = {}
        /\ pc[w] # "idle" => started[w] <= clock /\ clock - started[w] <= RunTime
        /\ pc[w] \in {"record", "commit"} => current[w] \in batch[w] /\ outcome[w] \in Outcomes
        /\ pc[w] = "commit" =>
             verdict[w] # "none" /\ Exists(current[w].n, current[w].d)

(* Nothing is left of users who are gone.                                  *)
Swept ==
    /\ \A n \in Notifications : outbox[n].status \in Live => Owner[n] \in users
    /\ \A n \in Notifications, d \in Devices :
         ~Exists(n, d) => dlv[n][d].status = "none"

Held(n, d) == \E w \in Workers : \E claim \in batch[w] : claim.n = n /\ claim.d = d

(* What a run has in hand is locked since its beginning, and in hand once. *)
Locked ==
    \A w \in Workers : \A claim \in batch[w] :
        /\ device[claim.d].user # NoUser
        /\ Exists(claim.n, claim.d) =>
             /\ dlv[claim.n][claim.d].lockedAt = started[w]
             /\ dlv[claim.n][claim.d].attempts = claim.attempts
        /\ \A other \in batch[w] : other.n = claim.n /\ other.d = claim.d => other = claim

(* What may be tried again has an attempt left, or a fault made up for it. *)
Tried ==
    \A n \in Notifications, d \in Devices :
        dlv[n][d].status = "pending" \/ (dlv[n][d].status = "processing" /\ ~Held(n, d))
          => dlv[n][d].attempts < MaxAttempts + faults

(* A row that is missing and will not be made again.                       *)
Lost(n, d) == Owner[n] \notin users \/ device[d].user \notin users \cup {NoUser}

(* The provider has accepted it, and a run is about to record that.        *)
Accepted(n, d) ==
    \E w \in Workers :
        /\ pc[w] \in {"record", "commit"} /\ outcome[w] = "accepted"
        /\ current[w].n = n /\ current[w].d = d

Over(n, d) == dlv[n][d].status \in Settled \/ (Lost(n, d) /\ ~Held(n, d))

Counted ==
    \A n \in Notifications, d \in Devices :
        \/ pushes[n][d] <= unrecorded[n][d]
        \/ pushes[n][d] <= 1 + unrecorded[n][d] /\ (Accepted(n, d) \/ Over(n, d))

(* What a run says of a push is true before it is recorded.                *)
Truthful ==
    /\ \A n \in Notifications, d \in Devices : Accepted(n, d) => pushes[n][d] > 0
    /\ \A w \in Workers :
         pc[w] = "commit" /\ verdict[w] = "sent" =>
           \E d \in Devices : pushes[current[w].n][d] > 0

Work == TypeOK /\ HeldByOne /\ Runs /\ Swept /\ Locked /\ Tried
IInv == Work /\ Counted /\ Truthful /\ SentIsTrue

-------------------------------------------------------------------------------
(* Types *)

Row == [status : {"none"} \cup Live \cup Settled, attempts : 0 .. (MaxAttempts + faults),
        available : Nat, lockedAt : 0 .. MaxTime]

(* What a run keeps for itself, and the types of that.                     *)
RunType ==
    /\ pc \in [Workers -> {"idle", "send", "record", "commit"}]
    /\ started \in [Workers -> 0 .. MaxTime]
    /\ batch \in [Workers -> SUBSET Claims]
    /\ current \in [Workers -> Claims \cup {NoClaim}]
    /\ outcome \in [Workers -> Outcomes \cup {"none"}]
    /\ verdict \in [Workers -> {"none", "processing", "sent", "dead"}]

(* notificationRetryDelay is a number.                                     *)
LEMMA RetryDelayType ==
    ASSUME NEW attempt \in Nat, attempt > 0
    PROVE  RetryDelay(attempt) \in Nat
<1>1. 2^0 \in Nat /\ 2^1 \in Nat /\ 2^2 \in Nat /\ 2^3 \in Nat /\ 2^4 \in Nat /\ 2^5 \in Nat /\ 2^6 \in Nat
  OBVIOUS
<1>2. \A x \in 0 .. 6 : x = 0 \/ x = 1 \/ x = 2 \/ x = 3 \/ x = 4 \/ x = 5 \/ x = 6
  OBVIOUS
<1>3. \A x \in 0 .. 6 : 2 ^ x \in Nat
  BY <1>1, <1>2, Zenon
<1>4. (IF attempt > 7 THEN 7 ELSE attempt) - 1 \in 0 .. 6
  OBVIOUS
<1>5. QED
  BY <1>3, <1>4, Zenon DEF RetryDelay

(* A claim in hand is one, and the one a run is at is among them.          *)
LEMMA InHand ==
    ASSUME RunType, Runs, NEW w \in Workers
    PROVE  /\ \A claim \in batch[w] : claim.n \in Notifications /\ claim.d \in Devices
           /\ pc[w] \in {"record", "commit"} =>
                /\ current[w] \in batch[w] /\ current[w] \in Claims
                /\ current[w].n \in Notifications /\ current[w].d \in Devices
                /\ current[w].attempts \in 1 .. (MaxAttempts + MaxFaults)
                /\ outcome[w] \in Outcomes
<1>1. batch[w] \subseteq Claims
  BY DEF RunType
<1>2. QED
  BY <1>1 DEF Runs, Claims

-------------------------------------------------------------------------------
(* A run that goes on to its next delivery *)

(* What a run remembers once a delivery is over is well typed.           *)
LEMMA FinishedType ==
    ASSUME RunType, NEW w \in Workers, Finished(w)
    PROVE  RunType'
<1> DEFINE rest == batch[w] \ {current[w]}
<1>1. rest \in SUBSET Claims
  BY DEF RunType
<1>2. pc' \in [Workers -> {"idle", "send", "record", "commit"}]
  BY DEF RunType, Finished
<1>3. started' \in [Workers -> 0 .. MaxTime]
  BY DEF RunType, Finished
<1>4. batch' \in [Workers -> SUBSET Claims]
  BY <1>1 DEF RunType, Finished
<1>5. current' \in [Workers -> Claims \cup {NoClaim}]
  BY DEF RunType, Finished
<1>6. outcome' \in [Workers -> Outcomes \cup {"none"}]
  BY DEF RunType, Finished
<1>7. verdict' \in [Workers -> {"none", "processing", "sent", "dead"}]
  BY DEF RunType, Finished
<1>8. QED
  BY <1>2, <1>3, <1>4, <1>5, <1>6, <1>7 DEF RunType, Claims

(* It has less in hand than before, and nothing of what it finished.       *)
LEMMA FinishedRest ==
    ASSUME RunType, Runs, Locked, NEW w \in Workers, Finished(w),
           pc[w] \in {"record", "commit"}
    PROVE  /\ batch'[w] = batch[w] \ {current[w]}
           /\ \A claim \in batch'[w] :
                ~(claim.n = current[w].n /\ claim.d = current[w].d)
           /\ pc'[w] \in {"idle", "send"} /\ (pc'[w] = "idle" <=> batch'[w] = {})
           /\ pc'[w] # "idle" => started'[w] = started[w]
           /\ outcome'[w] = "none" /\ verdict'[w] = "none"
           /\ \A v \in Workers \ {w} :
                /\ pc'[v] = pc[v] /\ started'[v] = started[v] /\ batch'[v] = batch[v]
                /\ current'[v] = current[v] /\ outcome'[v] = outcome[v]
                /\ verdict'[v] = verdict[v]
<1>1. batch'[w] = batch[w] \ {current[w]}
  BY DEF RunType, Finished
<1>2. current[w] \in batch[w]
  BY DEF Runs
<1>3. \A claim \in batch'[w] : ~(claim.n = current[w].n /\ claim.d = current[w].d)
  BY <1>1, <1>2 DEF Locked
<1>4. pc'[w] \in {"idle", "send"} /\ (pc'[w] = "idle" <=> batch'[w] = {})
  BY <1>1 DEF RunType, Finished
<1>5. pc'[w] # "idle" => started'[w] = started[w]
  BY <1>1 DEF RunType, Finished
<1>6. outcome'[w] = "none" /\ verdict'[w] = "none"
  BY DEF RunType, Finished
<1>7. ASSUME NEW v \in Workers \ {w}
      PROVE  /\ pc'[v] = pc[v] /\ started'[v] = started[v] /\ batch'[v] = batch[v]
             /\ current'[v] = current[v] /\ outcome'[v] = outcome[v]
             /\ verdict'[v] = verdict[v]
  BY DEF RunType, Finished
<1>8. QED
  BY <1>1, <1>3, <1>4, <1>5, <1>6, <1>7

-------------------------------------------------------------------------------
(* ClaimNotificationDeliveries *)

(* A row that may get a delivery made for it: FannedOut.                   *)
Makes(n, d) ==
    Deliverable(n, clock) /\ device[d].active /\ device[d].user = Owner[n]

AfterFannedOut(n, d) == FannedOut(GivenUp(Freed(clock), clock), clock)[n][d]

AfterFreed(n, d) == Freed(clock)[n][d]
AfterGivenUp(n, d)  == GivenUp(Freed(clock), clock)[n][d]

(* The first statement of a claim gives back a row that is stale ...       *)
LEMMA FreedRow ==
    ASSUME TypeOK, NEW n \in Notifications, NEW d \in Devices
    PROVE  /\ AfterFreed(n, d) \in Row
           /\ \/ AfterFreed(n, d) = dlv[n][d]
              \/ /\ Stale(dlv[n][d], clock) /\ AfterFreed(n, d).status = "pending"
                 /\ AfterFreed(n, d).attempts = dlv[n][d].attempts
<1> DEFINE row == dlv[n][d]
           freed == AfterFreed(n, d)
<1>1. row \in Row /\ clock \in Nat /\ 0 \in 0 .. MaxTime
  BY DEF TypeOK, Row
<1>2. freed = IF Stale(row, clock)
              THEN [row EXCEPT !.status = "pending", !.available = clock, !.lockedAt = 0] ELSE row
  BY DEF AfterFreed, Freed
<1> HIDE DEF row, freed
<1>3. CASE Stale(row, clock)
  <2>1. freed = [row EXCEPT !.status = "pending", !.available = clock, !.lockedAt = 0]
    BY <1>2, <1>3
  <2>2. freed \in Row /\ freed.status = "pending" /\ freed.attempts = row.attempts
    BY <1>1, <2>1 DEF Row, Live
  <2>3. QED
    BY <1>3, <2>2 DEF row, freed
<1>4. CASE ~Stale(row, clock)
  BY <1>1, <1>2, <1>4 DEF row, freed
<1>5. QED
  BY <1>3, <1>4

(* ... and the second gives up one that is too old.                        *)
LEMMA GivenRow ==
    ASSUME TypeOK, NEW n \in Notifications, NEW d \in Devices
    PROVE  /\ AfterGivenUp(n, d) \in Row
           /\ \/ AfterGivenUp(n, d) = AfterFreed(n, d)
              \/ /\ AfterFreed(n, d).status = "pending" /\ AfterGivenUp(n, d).status = "dead"
                 /\ AfterGivenUp(n, d).attempts = AfterFreed(n, d).attempts
<1> DEFINE freed == AfterFreed(n, d)
           given == AfterGivenUp(n, d)
<1>1. freed \in Row /\ 0 \in 0 .. MaxTime
  BY FreedRow
<1>2. given = IF Expired(n, clock) /\ Waiting(freed)
              THEN [freed EXCEPT !.status = "dead", !.lockedAt = 0] ELSE freed
  BY DEF AfterGivenUp, AfterFreed, GivenUp
<1> HIDE DEF freed, given
<1>3. CASE Expired(n, clock) /\ Waiting(freed)
  <2>1. given = [freed EXCEPT !.status = "dead", !.lockedAt = 0]
    BY <1>2, <1>3
  <2>2. given \in Row /\ given.status = "dead" /\ given.attempts = freed.attempts
    BY <1>1, <2>1 DEF Row, Settled
  <2>3. QED
    BY <1>3, <2>2 DEF freed, given, Waiting
<1>4. CASE ~(Expired(n, clock) /\ Waiting(freed))
  BY <1>1, <1>2, <1>4 DEF freed, given
<1>5. QED
  BY <1>3, <1>4

(* With the third, which makes deliveries, a row is left alone, given back *)
(* or up, or made.                                                         *)
LEMMA PreparedRow ==
    ASSUME TypeOK, NEW n \in Notifications, NEW d \in Devices
    PROVE  /\ AfterFannedOut(n, d) \in Row
           /\ \/ AfterFannedOut(n, d) = dlv[n][d]
              \/ /\ Stale(dlv[n][d], clock) \/ dlv[n][d].status = "pending"
                 /\ AfterFannedOut(n, d).status \in {"pending", "dead"}
                 /\ AfterFannedOut(n, d).attempts = dlv[n][d].attempts
              \/ /\ dlv[n][d].status = "none" /\ Makes(n, d)
                 /\ AfterFannedOut(n, d).status = "pending" /\ AfterFannedOut(n, d).attempts = 0
<1> DEFINE row   == dlv[n][d]
           freed == AfterFreed(n, d)
           given == AfterGivenUp(n, d)
<1>1. row \in Row /\ clock \in 0 .. MaxTime
  BY DEF TypeOK, Row
<1>3. /\ freed \in Row
      /\ freed = row \/ (Stale(row, clock) /\ freed.status = "pending" /\ freed.attempts = row.attempts)
  BY FreedRow
<1>5. /\ given \in Row
      /\ given = freed \/ (freed.status = "pending" /\ given.status = "dead" /\ given.attempts = freed.attempts)
  BY GivenRow
<1>6. AfterFannedOut(n, d) = IF /\ Deliverable(n, clock) /\ given.status = "none"
                          /\ device[d].active /\ device[d].user = Owner[n]
                       THEN [NoDelivery EXCEPT !.status = "pending", !.available = clock] ELSE given
  BY DEF AfterFannedOut, FannedOut, AfterGivenUp
<1>7. \/ AfterFannedOut(n, d) = given
      \/ /\ given.status = "none" /\ Makes(n, d)
         /\ AfterFannedOut(n, d) = [status |-> "pending", attempts |-> 0, available |-> clock, lockedAt |-> 0]
  BY <1>6 DEF Makes, NoDelivery
<1>8. AfterFannedOut(n, d) \in Row
  <2>1. CASE AfterFannedOut(n, d) = given
    BY <2>1, <1>5
  <2>2. CASE AfterFannedOut(n, d) = [status |-> "pending", attempts |-> 0, available |-> clock, lockedAt |-> 0]
    <3>1. 0 \in 0 .. (MaxAttempts + faults) /\ 0 \in 0 .. MaxTime /\ clock \in Nat
      BY <1>1 DEF TypeOK
    <3>2. QED
      BY <2>2, <3>1 DEF Row, Live
  <2>3. QED
    BY <1>7, <2>1, <2>2
<1> HIDE DEF row, freed, given
<1>9. given.status = "none" => row = given
  BY <1>3, <1>5
<1>10. \/ AfterFannedOut(n, d) = row
       \/ /\ Stale(row, clock) \/ row.status = "pending"
          /\ AfterFannedOut(n, d).status \in {"pending", "dead"}
          /\ AfterFannedOut(n, d).attempts = row.attempts
       \/ /\ row.status = "none" /\ Makes(n, d)
          /\ AfterFannedOut(n, d).status = "pending" /\ AfterFannedOut(n, d).attempts = 0
  BY <1>3, <1>5, <1>7, <1>9
<1>11. QED
  BY <1>8, <1>10 DEF row

(* What becomes of a row the claim does not take, and of one it takes.     *)
Left(n, d) ==
    \/ dlv'[n][d] = dlv[n][d]
    \/ /\ Stale(dlv[n][d], clock) \/ dlv[n][d].status = "pending"
       /\ dlv'[n][d].status \in {"pending", "dead"}
       /\ dlv'[n][d].attempts = dlv[n][d].attempts
    \/ /\ dlv[n][d].status = "none" /\ Makes(n, d)
       /\ dlv'[n][d].status = "pending" /\ dlv'[n][d].attempts = 0

Taken(n, d) ==
    /\ dlv'[n][d].status = "processing" /\ dlv'[n][d].lockedAt = clock
    /\ \/ /\ Stale(dlv[n][d], clock) \/ dlv[n][d].status = "pending"
          /\ dlv'[n][d].attempts = dlv[n][d].attempts + 1
       \/ /\ dlv[n][d].status = "none" /\ Makes(n, d)
          /\ dlv'[n][d].attempts = 1

ClaimOf(r) == [n |-> r[1], d |-> r[2], attempts |-> dlv'[r[1]][r[2]].attempts]

(* The outcome of a claim, row by row.                                     *)
LEMMA ClaimRows ==
    ASSUME TypeOK, NEW w \in Workers, Claim(w)
    PROVE  \E due \in SUBSET (Notifications \X Devices) :
             /\ batch' = [batch EXCEPT ![w] = {ClaimOf(r) : r \in due}]
             /\ due = {} => UNCHANGED <<pc, started>>
             /\ due # {} => /\ pc' = [pc EXCEPT ![w] = "send"]
                            /\ started' = [started EXCEPT ![w] = clock]
             /\ dlv' = [n \in Notifications |-> [d \in Devices |-> dlv'[n][d]]]
             /\ \A n \in Notifications, d \in Devices :
                  /\ <<n, d>> \in due => Taken(n, d)
                  /\ <<n, d>> \notin due => Left(n, d)
                  /\ dlv'[n][d] \in [status : {"none"} \cup Live \cup Settled,
                                     attempts : 0 .. (MaxAttempts + faults + 1),
                                     available : Nat, lockedAt : 0 .. MaxTime]
             /\ outbox' = [n \in Notifications |->
                  IF \E d \in Devices : <<n, d>> \in due
                  THEN [outbox[n] EXCEPT !.status = "processing"]
                  ELSE Closed(GivenUp(Freed(clock), clock), clock)[n]]
<1> DEFINE rows == FannedOut(GivenUp(Freed(clock), clock), clock)
<1>1. PICK due \in First(rows, Due(rows, clock), Batch) :
         /\ dlv' = [n \in Notifications |-> [d \in Devices |->
                      IF <<n, d>> \in due
                      THEN [rows[n][d] EXCEPT !.status = "processing", !.attempts = @ + 1,
                                              !.lockedAt = clock]
                      ELSE rows[n][d]]]
         /\ outbox' = [n \in Notifications |->
                      IF \E d \in Devices : <<n, d>> \in due
                      THEN [outbox[n] EXCEPT !.status = "processing"]
                      ELSE Closed(GivenUp(Freed(clock), clock), clock)[n]]
         /\ batch' = [batch EXCEPT ![w] =
                      {[n |-> r[1], d |-> r[2], attempts |-> rows[r[1]][r[2]].attempts + 1] : r \in due}]
         /\ IF due = {} THEN UNCHANGED <<pc, started>>
            ELSE /\ pc' = [pc EXCEPT ![w] = "send"]
                 /\ started' = [started EXCEPT ![w] = clock]
  BY Zenon DEF Claim
<1>2. due \subseteq Due(rows, clock)
  BY DEF First
<1>3. due \in SUBSET (Notifications \X Devices)
  BY <1>2 DEF Due
<1>4. \A n \in Notifications, d \in Devices : rows[n][d] = AfterFannedOut(n, d)
  BY DEF AfterFannedOut
<1>5. \A n \in Notifications, d \in Devices :
         <<n, d>> \in due => AfterFannedOut(n, d).status = "pending"
  BY <1>2, <1>4 DEF Due
<1> HIDE DEF rows
<1>6. ASSUME NEW n \in Notifications, NEW d \in Devices
      PROVE  /\ <<n, d>> \in due => Taken(n, d)
             /\ <<n, d>> \in due => dlv'[n][d].attempts = rows[n][d].attempts + 1
             /\ <<n, d>> \notin due => Left(n, d)
             /\ dlv'[n][d] \in [status : {"none"} \cup Live \cup Settled,
                                attempts : 0 .. (MaxAttempts + faults + 1),
                                available : Nat, lockedAt : 0 .. MaxTime]
  <2> DEFINE p == AfterFannedOut(n, d)
  <2>1. dlv'[n][d] = IF <<n, d>> \in due
                     THEN [p EXCEPT !.status = "processing", !.attempts = @ + 1, !.lockedAt = clock]
                     ELSE p
    BY <1>1, <1>4
  <2>2. p \in Row
    BY PreparedRow
  <2>3. clock \in 0 .. MaxTime /\ faults \in Nat
    BY DEF TypeOK
  <2>4. rows[n][d] = p
    BY <1>4
  <2> HIDE DEF p
  <2>5. CASE <<n, d>> \in due
    <3>1. p.status = "pending"
      BY <1>5, <2>5 DEF p
    <3>2. /\ dlv'[n][d].status = "processing" /\ dlv'[n][d].lockedAt = clock
          /\ dlv'[n][d].attempts = p.attempts + 1
      BY <2>1, <2>2, <2>5 DEF Row
    <3>3. Taken(n, d)
      BY <3>1, <3>2, PreparedRow DEF Taken, p
    <3>4. p.attempts + 1 \in 0 .. (MaxAttempts + faults + 1)
      BY <2>2, <2>3 DEF Row
    <3>5. dlv'[n][d] \in [status : {"none"} \cup Live \cup Settled,
                          attempts : 0 .. (MaxAttempts + faults + 1),
                          available : Nat, lockedAt : 0 .. MaxTime]
      BY <2>1, <2>2, <2>3, <2>5, <3>4 DEF Row, Live
    <3>6. QED
      BY <2>4, <2>5, <3>2, <3>3, <3>5
  <2>6. CASE <<n, d>> \notin due
    <3>1. dlv'[n][d] = p
      BY <2>1, <2>6
    <3>2. Left(n, d)
      BY <3>1, PreparedRow DEF Left, p
    <3>3. 0 .. (MaxAttempts + faults) \subseteq 0 .. (MaxAttempts + faults + 1)
      BY <2>3
    <3>4. QED
      BY <2>2, <2>6, <3>1, <3>2, <3>3 DEF Row
  <2>7. QED
    BY <2>5, <2>6
<1>7. {[n |-> r[1], d |-> r[2], attempts |-> rows[r[1]][r[2]].attempts + 1] : r \in due}
        = {ClaimOf(r) : r \in due}
  <2>1. \A r \in due : r[1] \in Notifications /\ r[2] \in Devices /\ r = <<r[1], r[2]>>
    BY <1>3
  <2>2. \A r \in due : dlv'[r[1]][r[2]].attempts = rows[r[1]][r[2]].attempts + 1
    BY <1>6, <2>1
  <2>3. QED
    BY <2>2 DEF ClaimOf
<1>8. dlv' = [n \in Notifications |-> [d \in Devices |-> dlv'[n][d]]]
  BY <1>1
<1>9. QED
  BY <1>1, <1>3, <1>6, <1>7, <1>8

(* Of what the claim may change or take, nothing is in anybody's hands.    *)
LEMMA FreeToTake ==
    ASSUME Work, NEW n \in Notifications, NEW d \in Devices,
           \/ Stale(dlv[n][d], clock)
           \/ dlv[n][d].status = "pending"
           \/ dlv[n][d].status = "none" /\ Makes(n, d)
    PROVE  Exists(n, d) /\ ~Held(n, d)
<1>1. Exists(n, d)
  <2>1. CASE dlv[n][d].status # "none"
    BY <2>1 DEF Work, Swept
  <2>2. CASE Makes(n, d)
    BY <2>2 DEF Makes, Deliverable, Work, Swept, Exists
  <2>3. QED
    BY <2>1, <2>2 DEF Stale
<1>2. ASSUME NEW w \in Workers, NEW claim \in batch[w], claim.n = n, claim.d = d
      PROVE  FALSE
  <2>1. dlv[n][d].status = "processing"
    BY <1>1, <1>2 DEF Work, HeldByOne
  <2>2. Stale(dlv[n][d], clock)
    BY <2>1
  <2>3. dlv[n][d].lockedAt = started[w]
    BY <1>1, <1>2 DEF Work, Locked
  <2>4. clock - started[w] <= RunTime
    BY DEF Work, Runs
  <2>5. clock \in Nat /\ started[w] \in Nat
    BY DEF Work, TypeOK
  <2>6. QED
    BY <2>2, <2>3, <2>4, <2>5 DEF Stale
<1>3. QED
  BY <1>1, <1>2 DEF Held

(* A notification the claim does not take up stays as it is or is closed.  *)
LEMMA ClosedRow ==
    ASSUME TypeOK, NEW n \in Notifications
    PROVE  LET closed == Closed(GivenUp(Freed(clock), clock), clock)[n] IN
           \/ closed = outbox[n]
           \/ /\ closed = [outbox[n] EXCEPT !.status = closed.status]
              /\ closed.status \in {"sent", "dead"}
              /\ closed.status = "sent" => \E d \in Devices : dlv[n][d].status = "sent"
<1> DEFINE rows == GivenUp(Freed(clock), clock)
           closed == Closed(rows, clock)[n]
<1>1. closed = IF /\ outbox[n].status \in Live /\ Expired(n, clock)
                  /\ \A d \in Devices : rows[n][d].status \notin Live
               THEN [outbox[n] EXCEPT !.status =
                        IF \E d \in Devices : rows[n][d].status = "sent" THEN "sent" ELSE "dead"]
               ELSE outbox[n]
  BY DEF Closed
<1>2. ASSUME NEW d \in Devices, rows[n][d].status = "sent"
      PROVE  dlv[n][d].status = "sent"
  <2>1. AfterGivenUp(n, d).status = "sent"
    BY <1>2 DEF AfterGivenUp
  <2>2. AfterFreed(n, d).status = "sent"
    BY <2>1, GivenRow
  <2>3. QED
    BY <2>2, FreedRow
<1>3. outbox[n] \in [status : {"none", "gone"} \cup Live \cup Settled, created : 0 .. MaxTime]
  BY DEF TypeOK
<1> HIDE DEF rows, closed
<1>4. \/ closed = outbox[n]
      \/ /\ closed = [outbox[n] EXCEPT !.status = "sent"] /\ \E d \in Devices : rows[n][d].status = "sent"
      \/ closed = [outbox[n] EXCEPT !.status = "dead"]
  BY <1>1
<1>5. \/ closed = outbox[n]
      \/ /\ closed = [outbox[n] EXCEPT !.status = closed.status]
         /\ closed.status \in {"sent", "dead"}
         /\ closed.status = "sent" => \E d \in Devices : dlv[n][d].status = "sent"
  <2>1. CASE closed = [outbox[n] EXCEPT !.status = "sent"] /\ \E d \in Devices : rows[n][d].status = "sent"
    BY <1>2, <1>3, <2>1
  <2>2. CASE closed = [outbox[n] EXCEPT !.status = "dead"]
    BY <1>3, <2>2
  <2>3. QED
    BY <1>4, <2>1, <2>2
<1>6. QED
  BY <1>5 DEF closed, rows

(* Claim keeps the invariant.                                              *)
LEMMA ClaimStep ==
    ASSUME IInv, NEW w \in Workers, Claim(w)
    PROVE  IInv'
<1> USE DEF IInv, Work
<1>0. /\ pc[w] = "idle"
      /\ UNCHANGED <<clock, users, device, quiet, current, outcome, verdict, pushes, unrecorded,
                     requests, faults>>
  BY DEF Claim
<1>1. PICK due \in SUBSET (Notifications \X Devices) :
        /\ batch' = [batch EXCEPT ![w] = {ClaimOf(r) : r \in due}]
        /\ due = {} => UNCHANGED <<pc, started>>
        /\ due # {} => /\ pc' = [pc EXCEPT ![w] = "send"]
                       /\ started' = [started EXCEPT ![w] = clock]
        /\ dlv' = [n \in Notifications |-> [d \in Devices |-> dlv'[n][d]]]
        /\ \A n \in Notifications, d \in Devices :
             /\ <<n, d>> \in due => Taken(n, d)
             /\ <<n, d>> \notin due => Left(n, d)
             /\ dlv'[n][d] \in [status : {"none"} \cup Live \cup Settled,
                                attempts : 0 .. (MaxAttempts + faults + 1),
                                available : Nat, lockedAt : 0 .. MaxTime]
        /\ outbox' = [n \in Notifications |->
             IF \E d \in Devices : <<n, d>> \in due
             THEN [outbox[n] EXCEPT !.status = "processing"]
             ELSE Closed(GivenUp(Freed(clock), clock), clock)[n]]
  BY ClaimRows
<1>2. \A n \in Notifications, d \in Devices :
        \/ Stale(dlv[n][d], clock)
        \/ dlv[n][d].status = "pending"
        \/ dlv[n][d].status = "none" /\ Makes(n, d)
        => Exists(n, d) /\ ~Held(n, d)
  BY FreeToTake
<1>3. \A n \in Notifications, d \in Devices :
        Taken(n, d) => Exists(n, d) /\ ~Held(n, d) /\ dlv[n][d].status \in {"none", "pending", "processing"}
  BY <1>2 DEF Taken, Stale
<1>4. \A n \in Notifications, d \in Devices : Exists(n, d)' <=> Exists(n, d)
  BY <1>0 DEF Exists
<1>5. batch[w] = {} /\ batch'[w] = {ClaimOf(r) : r \in due}
      /\ \A v \in Workers \ {w} : batch'[v] = batch[v] /\ pc'[v] = pc[v] /\ started'[v] = started[v]
  <2>1. batch[w] = {}
    BY <1>0 DEF Runs
  <2>2. batch'[w] = {ClaimOf(r) : r \in due} /\ \A v \in Workers \ {w} : batch'[v] = batch[v]
    BY <1>1 DEF TypeOK
  <2>3. CASE due = {}
    BY <1>1, <2>1, <2>2, <2>3
  <2>4. CASE due # {}
    BY <1>1, <2>1, <2>2, <2>4 DEF TypeOK
  <2>5. QED
    BY <2>3, <2>4
<1>6. \A claim \in batch'[w] :
        /\ claim.n \in Notifications /\ claim.d \in Devices /\ <<claim.n, claim.d>> \in due
        /\ claim = ClaimOf(<<claim.n, claim.d>>)
        /\ Taken(claim.n, claim.d) /\ claim.attempts = dlv'[claim.n][claim.d].attempts
  <2> SUFFICES ASSUME NEW r \in due
               PROVE  LET claim == ClaimOf(r) IN
                      /\ claim.n \in Notifications /\ claim.d \in Devices /\ <<claim.n, claim.d>> \in due
                      /\ claim = ClaimOf(<<claim.n, claim.d>>)
                      /\ Taken(claim.n, claim.d) /\ claim.attempts = dlv'[claim.n][claim.d].attempts
    BY <1>5
  <2>1. r[1] \in Notifications /\ r[2] \in Devices /\ r = <<r[1], r[2]>>
    OBVIOUS
  <2>2. ClaimOf(r).n = r[1] /\ ClaimOf(r).d = r[2] /\ ClaimOf(r).attempts = dlv'[r[1]][r[2]].attempts
    BY DEF ClaimOf
  <2>3. Taken(r[1], r[2])
    BY <1>1, <2>1
  <2>4. QED
    BY <2>1, <2>2, <2>3
<1>7. \A n \in Notifications, d \in Devices : <<n, d>> \in due => Held(n, d)'
  <2> SUFFICES ASSUME NEW n \in Notifications, NEW d \in Devices, <<n, d>> \in due
               PROVE  Held(n, d)'
    OBVIOUS
  <2>1. ClaimOf(<<n, d>>) \in batch'[w] /\ ClaimOf(<<n, d>>).n = n /\ ClaimOf(<<n, d>>).d = d
    BY <1>5 DEF ClaimOf
  <2>2. QED
    BY <2>1 DEF Held
<1>8. \A n \in Notifications, d \in Devices : Held(n, d) => Held(n, d)' /\ dlv'[n][d] = dlv[n][d]
  <2> SUFFICES ASSUME NEW n \in Notifications, NEW d \in Devices, Held(n, d)
               PROVE  Held(n, d)' /\ dlv'[n][d] = dlv[n][d]
    OBVIOUS
  <2>1. PICK v \in Workers : \E claim \in batch[v] : claim.n = n /\ claim.d = d
    BY DEF Held
  <2>2. v # w
    BY <1>5, <2>1
  <2>3. Held(n, d)'
    BY <1>5, <2>1, <2>2 DEF Held
  <2>4. <<n, d>> \notin due
    BY <1>1, <1>3
  <2>5. Left(n, d)
    BY <1>1, <2>4
  <2>6. QED
    BY <1>2, <2>3, <2>5 DEF Left
<1>9. \A n \in Notifications, d \in Devices :
        Held(n, d)' => Held(n, d) \/ <<n, d>> \in due
  <2> SUFFICES ASSUME NEW n \in Notifications, NEW d \in Devices,
                      NEW v \in Workers, NEW claim \in batch'[v], claim.n = n, claim.d = d
               PROVE  Held(n, d) \/ <<n, d>> \in due
    BY DEF Held
  <2>1. CASE v = w
    BY <1>6, <2>1
  <2>2. CASE v # w
    BY <1>5, <2>2 DEF Held
  <2>3. QED
    BY <2>1, <2>2
<1>10. \A n \in Notifications, d \in Devices : Accepted(n, d)' <=> Accepted(n, d)
  <2>1. pc'[w] \in {"idle", "send"}
    BY <1>0, <1>1 DEF TypeOK
  <2>2. \A v \in Workers :
          /\ pc'[v] \in {"record", "commit"} <=> pc[v] \in {"record", "commit"}
          /\ outcome'[v] = outcome[v] /\ current'[v] = current[v]
    BY <1>0, <1>5, <2>1
  <2>3. QED
    BY <2>2, Zenon DEF Accepted
<1>11. TypeOK'
  <2>1. \A n \in Notifications, d \in Devices :
          dlv'[n][d].attempts <= MaxAttempts + faults
    <3> SUFFICES ASSUME NEW n \in Notifications, NEW d \in Devices
                 PROVE  dlv'[n][d].attempts <= MaxAttempts + faults
      OBVIOUS
    <3>1. dlv[n][d].attempts \in 0 .. (MaxAttempts + faults) /\ faults \in Nat
      BY DEF TypeOK
    <3>2. CASE Taken(n, d)
      <4>1. CASE dlv'[n][d].attempts = 1
        BY <3>1, <4>1
      <4>2. CASE /\ Stale(dlv[n][d], clock) \/ dlv[n][d].status = "pending"
                 /\ dlv'[n][d].attempts = dlv[n][d].attempts + 1
        <5>1. dlv[n][d].attempts < MaxAttempts + faults
          BY <1>2, <4>2 DEF Tried, Stale
        <5>2. QED
          BY <3>1, <4>2, <5>1
      <4>3. QED
        BY <3>2, <4>1, <4>2 DEF Taken
    <3>3. CASE Left(n, d)
      BY <3>1, <3>3 DEF Left
    <3>4. QED
      BY <1>1, <3>2, <3>3
  <2>2. \A n \in Notifications, d \in Devices : dlv'[n][d] \in Row
    <3> SUFFICES ASSUME NEW n \in Notifications, NEW d \in Devices
                 PROVE  dlv'[n][d] \in Row
      OBVIOUS
    <3>1. dlv'[n][d] \in [status : {"none"} \cup Live \cup Settled,
                          attempts : 0 .. (MaxAttempts + faults + 1),
                          available : Nat, lockedAt : 0 .. MaxTime]
      BY <1>1
    <3>2. dlv'[n][d].attempts \in 0 .. (MaxAttempts + faults)
      BY <2>1, <3>1 DEF TypeOK
    <3>3. QED
      BY <3>1, <3>2 DEF Row
  <2>3. dlv' \in [Notifications -> [Devices -> Row]]
    BY <1>1, <2>2
  <2>4. batch'[w] \in SUBSET Claims
    <3> SUFFICES ASSUME NEW claim \in batch'[w]
                 PROVE  claim \in Claims
      OBVIOUS
    <3>1. /\ claim.n \in Notifications /\ claim.d \in Devices /\ Taken(claim.n, claim.d)
          /\ claim = [n |-> claim.n, d |-> claim.d, attempts |-> dlv'[claim.n][claim.d].attempts]
      BY <1>6 DEF ClaimOf
    <3>2. /\ dlv'[claim.n][claim.d].attempts \in 0 .. (MaxAttempts + faults)
          /\ dlv[claim.n][claim.d].attempts \in Nat
      BY <2>2, <3>1 DEF Row, TypeOK
    <3>3. dlv'[claim.n][claim.d].attempts > 0
      BY <3>1, <3>2 DEF Taken
    <3>4. faults \in 0 .. MaxFaults
      BY DEF TypeOK
    <3>5. dlv'[claim.n][claim.d].attempts \in 1 .. (MaxAttempts + MaxFaults)
      BY <3>2, <3>3, <3>4
    <3>6. QED
      BY <3>1, <3>5 DEF Claims
  <2>5. batch' \in [Workers -> SUBSET Claims]
    BY <1>1, <1>5, <2>4 DEF TypeOK
  <2>6. pc' \in [Workers -> {"idle", "send", "record", "commit"}]
    BY <1>1 DEF TypeOK
  <2>7. started' \in [Workers -> 0 .. MaxTime]
    BY <1>1 DEF TypeOK
  <2>8. outbox' \in [Notifications -> [status : {"none", "gone"} \cup Live \cup Settled,
                                       created : 0 .. MaxTime]]
    <3>1. ASSUME NEW n \in Notifications
          PROVE  outbox'[n] \in [status : {"none", "gone"} \cup Live \cup Settled,
                                 created : 0 .. MaxTime]
      <4>1. outbox[n] \in [status : {"none", "gone"} \cup Live \cup Settled, created : 0 .. MaxTime]
        BY DEF TypeOK
      <4>2. CASE outbox'[n] = [outbox[n] EXCEPT !.status = "processing"]
        BY <4>1, <4>2 DEF Live
      <4>3. CASE outbox'[n] = Closed(GivenUp(Freed(clock), clock), clock)[n]
        <5> DEFINE closed == Closed(GivenUp(Freed(clock), clock), clock)[n]
        <5>1. \/ closed = outbox[n]
              \/ closed = [outbox[n] EXCEPT !.status = closed.status] /\ closed.status \in {"sent", "dead"}
          BY ClosedRow
        <5> HIDE DEF closed
        <5>2. closed \in [status : {"none", "gone"} \cup Live \cup Settled, created : 0 .. MaxTime]
          BY <4>1, <5>1 DEF Settled
        <5>3. QED
          BY <4>3, <5>2 DEF closed
      <4>4. QED
        BY <1>1, <4>2, <4>3
    <3>2. QED
      BY <1>1, <3>1
  <2>9. QED
    BY <1>0, <2>3, <2>5, <2>6, <2>7, <2>8 DEF TypeOK, Row, Claims
<1>12. HeldByOne'
  <2>1. ASSUME NEW v \in Workers, NEW claim \in batch'[v], Exists(claim.n, claim.d)'
        PROVE  dlv'[claim.n][claim.d].status = "processing"
    <3>1. CASE v = w
      BY <1>6, <3>1 DEF Taken
    <3>2. CASE v # w
      <4>1. claim \in batch[v] /\ claim.n \in Notifications /\ claim.d \in Devices
        BY <1>5, <3>2 DEF TypeOK, Claims
      <4>2. Held(claim.n, claim.d)
        BY <4>1 DEF Held
      <4>3. QED
        BY <1>4, <1>8, <2>1, <4>1, <4>2 DEF HeldByOne
    <3>3. QED
      BY <3>1, <3>2
  <2>2. ASSUME NEW v \in Workers \ {w}, NEW claim \in batch'[w], NEW other \in batch'[v]
        PROVE  <<claim.n, claim.d>> # <<other.n, other.d>>
    <3>1. ~Held(claim.n, claim.d)
      BY <1>3, <1>6
    <3>2. Held(other.n, other.d)
      BY <1>5 DEF Held
    <3>3. QED
      BY <3>1, <3>2
  <2>3. ASSUME NEW u \in Workers, NEW v \in Workers, u # v,
               NEW mine \in batch'[u], NEW other \in batch'[v]
        PROVE  <<mine.n, mine.d>> # <<other.n, other.d>>
    <3>1. CASE u = w
      BY <2>2, <2>3, <3>1
    <3>2. CASE v = w
      BY <2>2, <2>3, <3>2
    <3>3. CASE u # w /\ v # w
      BY <1>5, <2>3, <3>3 DEF HeldByOne
    <3>4. QED
      BY <3>1, <3>2, <3>3
  <2>4. QED
    BY <2>1, <2>3, Zenon DEF HeldByOne
<1>13. Runs'
  <2> SUFFICES ASSUME NEW v \in Workers
               PROVE  /\ pc'[v] = "idle" => batch'[v] = {}
                      /\ pc'[v] # "idle" => started'[v] <= clock' /\ clock' - started'[v] <= RunTime
                      /\ pc'[v] \in {"record", "commit"} => current'[v] \in batch'[v] /\ outcome'[v] \in Outcomes
                      /\ pc'[v] = "commit" => verdict'[v] # "none" /\ Exists(current[v].n, current[v].d)'
    BY DEF Runs
  <2>1. CASE v # w
    BY <1>0, <1>5, <2>1 DEF Runs, Exists
  <2>2. CASE v = w /\ due = {}
    BY <1>0, <1>1, <1>5, <2>2
  <2>3. CASE v = w /\ due # {}
    <3>1. pc'[w] = "send" /\ started'[w] = clock
      BY <1>1, <2>3 DEF TypeOK
    <3>2. clock' = clock /\ clock \in Nat
      BY <1>0 DEF TypeOK
    <3>3. QED
      BY <2>3, <3>1, <3>2
  <2>4. QED
    BY <2>1, <2>2, <2>3, Zenon
<1>14. Swept'
  <2>1. ASSUME NEW n \in Notifications, outbox'[n].status \in Live
        PROVE  Owner[n] \in users
    <3>1. CASE \E d \in Devices : <<n, d>> \in due
      BY <1>1, <1>3, <3>1 DEF Exists
    <3>2. CASE ~\E d \in Devices : <<n, d>> \in due
      <4>1. outbox'[n] = Closed(GivenUp(Freed(clock), clock), clock)[n]
        BY <1>1, <3>2
      <4>2. outbox'[n] = outbox[n]
        BY <2>1, <4>1, ClosedRow DEF Live
      <4>3. QED
        BY <2>1, <4>2 DEF Swept
    <3>3. QED
      BY <3>1, <3>2
  <2>2. ASSUME NEW n \in Notifications, NEW d \in Devices, ~Exists(n, d)
        PROVE  dlv'[n][d].status = "none"
    <3>1. dlv[n][d].status = "none"
      BY <2>2 DEF Swept
    <3>2. <<n, d>> \notin due
      BY <1>1, <1>3, <2>2
    <3>3. Left(n, d)
      BY <1>1, <3>2
    <3>4. QED
      BY <1>2, <2>2, <3>1, <3>3 DEF Left
  <2>3. QED
    BY <1>0, <1>4, <2>1, <2>2 DEF Swept
<1>15. Locked'
  <2> SUFFICES ASSUME NEW v \in Workers, NEW claim \in batch'[v]
               PROVE  /\ device'[claim.d].user # NoUser
                      /\ Exists(claim.n, claim.d)' =>
                           /\ dlv'[claim.n][claim.d].lockedAt = started'[v]
                           /\ dlv'[claim.n][claim.d].attempts = claim.attempts
                      /\ \A other \in batch'[v] :
                           other.n = claim.n /\ other.d = claim.d => other = claim
    BY DEF Locked
  <2>1. CASE v # w
    <3>1. claim \in batch[v] /\ claim.n \in Notifications /\ claim.d \in Devices
      BY <1>5, <2>1 DEF TypeOK, Claims
    <3>2. dlv'[claim.n][claim.d] = dlv[claim.n][claim.d]
      BY <1>8, <3>1 DEF Held
    <3>3. started'[v] = started[v] /\ batch'[v] = batch[v] /\ device' = device
      BY <1>0, <1>5, <2>1
    <3>4. QED
      BY <1>4, <3>1, <3>2, <3>3 DEF Locked
  <2>2. CASE v = w
    <3>1. /\ claim.n \in Notifications /\ claim.d \in Devices
          /\ Taken(claim.n, claim.d) /\ claim.attempts = dlv'[claim.n][claim.d].attempts
      BY <1>6, <2>2
    <3>2. started'[w] = clock
      BY <1>1, <1>6, <2>2 DEF TypeOK
    <3>3. device[claim.d].user # NoUser
      <4>1. Exists(claim.n, claim.d)
        BY <1>3, <3>1
      <4>2. QED
        BY <4>1 DEF Exists, TypeOK
    <3>4. \A other \in batch'[v] : other.n = claim.n /\ other.d = claim.d => other = claim
      BY <1>6, <2>2
    <3>5. QED
      BY <1>0, <2>2, <3>1, <3>2, <3>3, <3>4 DEF Taken
  <2>3. QED
    BY <2>1, <2>2
<1>16. Tried'
  <2> SUFFICES ASSUME NEW n \in Notifications, NEW d \in Devices,
                      \/ dlv'[n][d].status = "pending"
                      \/ dlv'[n][d].status = "processing" /\ ~Held(n, d)'
               PROVE  dlv'[n][d].attempts < MaxAttempts + faults'
    BY DEF Tried
  <2>1. <<n, d>> \notin due
    BY <1>1, <1>7 DEF Taken
  <2>2. Left(n, d)
    BY <1>1, <2>1
  <2>3. faults' = faults /\ faults \in Nat
    BY <1>0 DEF TypeOK
  <2>4. CASE dlv'[n][d] = dlv[n][d]
    BY <1>8, <2>3, <2>4 DEF Tried
  <2>5. CASE /\ Stale(dlv[n][d], clock) \/ dlv[n][d].status = "pending"
             /\ dlv'[n][d].attempts = dlv[n][d].attempts
    BY <1>2, <2>3, <2>5 DEF Tried, Stale
  <2>6. CASE dlv'[n][d].attempts = 0
    BY <2>3, <2>6
  <2>7. QED
    BY <2>2, <2>4, <2>5, <2>6 DEF Left
<1>17. Counted'
  <2> SUFFICES ASSUME NEW n \in Notifications, NEW d \in Devices
               PROVE  Over(n, d) => Over(n, d)'
    BY <1>0, <1>10 DEF Counted
  <2>1. CASE dlv[n][d].status \in Settled
    <3>1. <<n, d>> \notin due
      BY <1>1, <1>3, <2>1 DEF Settled
    <3>2. dlv'[n][d] = dlv[n][d]
      BY <1>1, <2>1, <3>1 DEF Left, Settled, Stale
    <3>3. QED
      BY <2>1, <3>2 DEF Over
  <2>2. CASE Lost(n, d) /\ ~Held(n, d)
    <3>1. ~Exists(n, d)
      BY <2>2 DEF Lost, Exists, TypeOK
    <3>2. <<n, d>> \notin due
      BY <1>1, <1>3, <3>1
    <3>3. ~Held(n, d)'
      BY <1>9, <2>2, <3>2
    <3>4. Lost(n, d)'
      BY <1>0, <2>2 DEF Lost
    <3>5. QED
      BY <3>3, <3>4 DEF Over
  <2>3. QED
    BY <2>1, <2>2 DEF Over
<1>18. Truthful'
  <2>1. \A v \in Workers : pc'[v] = "commit" => pc[v] = "commit"
    BY <1>0, <1>1, <1>5 DEF TypeOK
  <2>2. QED
    BY <1>0, <1>10, <2>1 DEF Truthful
<1>19. SentIsTrue'
  <2>1. ASSUME NEW n \in Notifications, outbox'[n].status = "sent"
        PROVE  \E d \in Devices : pushes'[n][d] > 0
    <3>1. ~\E d \in Devices : <<n, d>> \in due
      <4>1. outbox[n] \in [status : {"none", "gone"} \cup Live \cup Settled, created : 0 .. MaxTime]
        BY DEF TypeOK
      <4>2. ASSUME NEW d \in Devices, <<n, d>> \in due
            PROVE  outbox'[n] = [outbox[n] EXCEPT !.status = "processing"]
        BY <1>1, <4>2
      <4>3. QED
        BY <2>1, <4>1, <4>2
    <3>2. outbox'[n] = Closed(GivenUp(Freed(clock), clock), clock)[n]
      BY <1>1, <3>1
    <3>3. outbox[n].status = "sent" \/ \E d \in Devices : dlv[n][d].status = "sent"
      BY <2>1, <3>2, ClosedRow
    <3>4. QED
      BY <1>0, <3>3 DEF SentIsTrue
  <2>2. ASSUME NEW n \in Notifications, NEW d \in Devices, dlv'[n][d].status = "sent"
        PROVE  pushes'[n][d] > 0
    <3>1. <<n, d>> \notin due
      BY <1>1, <2>2 DEF Taken
    <3>2. dlv[n][d].status = "sent"
      BY <1>1, <2>2, <3>1 DEF Left
    <3>3. QED
      BY <1>0, <3>2 DEF SentIsTrue
  <2>3. QED
    BY <2>1, <2>2 DEF SentIsTrue
<1>20. QED
  BY <1>11, <1>12, <1>13, <1>14, <1>15, <1>16, <1>17, <1>18, <1>19

-------------------------------------------------------------------------------
(* Sending and recording *)

(* Nothing two runs have in hand is the same.                              *)
LEMMA OneHolder ==
    ASSUME HeldByOne, NEW w \in Workers, NEW v \in Workers,
           NEW mine \in batch[w], NEW other \in batch[v], mine.n = other.n, mine.d = other.d
    PROVE  w = v
BY DEF HeldByOne

(* A delivery in hand that no run is about to record as accepted has no    *)
(* push that could not be accounted for.                                   *)
LEMMA HeldIsCounted ==
    ASSUME HeldByOne, Runs, Swept, Counted, NEW n \in Notifications, NEW d \in Devices,
           Held(n, d), ~Accepted(n, d)
    PROVE  pushes[n][d] <= unrecorded[n][d]
<1>1. PICK w \in Workers : \E claim \in batch[w] : claim.n = n /\ claim.d = d
  BY DEF Held
<1>2. dlv[n][d].status \notin Settled
  <2>1. CASE Exists(n, d)
    BY <1>1, <2>1 DEF HeldByOne, Settled
  <2>2. CASE ~Exists(n, d)
    BY <2>2 DEF Swept, Settled
  <2>3. QED
    BY <2>1, <2>2
<1>3. QED
  BY <1>2 DEF Counted, Over

(* A larger bound allows what a smaller one does.                        *)
LEMMA Wider ==
    ASSUME NEW a \in Nat, NEW b \in Nat, NEW c \in Nat, b <= c
    PROVE  0 .. (a + b) \subseteq 0 .. (a + c)
OBVIOUS

(* A fault that is spent leaves every row within its bound of attempts.    *)
LEMMA RowsWithin ==
    ASSUME TypeOK, faults' \in {faults, faults + 1}
    PROVE  dlv \in [Notifications -> [Devices ->
                     [status : {"none"} \cup Live \cup Settled,
                      attempts : 0 .. (MaxAttempts + faults'),
                      available : Nat, lockedAt : 0 .. MaxTime]]]
<1>1. 0 .. (MaxAttempts + faults) \subseteq 0 .. (MaxAttempts + faults')
  <2>1. faults \in 0 .. MaxFaults
    BY DEF TypeOK
  <2>2. faults' \in Nat /\ faults <= faults' /\ faults \in Nat /\ MaxAttempts \in Nat
    BY <2>1
  <2>3. QED
    BY <2>2, Wider
<1>2. ASSUME NEW n \in Notifications, NEW d \in Devices
      PROVE  dlv[n][d] \in [status : {"none"} \cup Live \cup Settled,
                            attempts : 0 .. (MaxAttempts + faults'),
                            available : Nat, lockedAt : 0 .. MaxTime]
  <2>1. dlv[n][d] \in Row
    BY DEF TypeOK, Row
  <2>2. QED
    BY <1>1, <2>1 DEF Row
<1>3. QED
  BY <1>2 DEF TypeOK

(* Send keeps the invariant.                                               *)
LEMMA SendStep ==
    ASSUME IInv, NEW w \in Workers, NEW result \in Outcomes, Send(w, result)
    PROVE  IInv'
<1> USE DEF IInv, Work
<1> DEFINE taken == result \in {"accepted", "unanswered"}
           lost  == result = "unanswered"
<1>0. /\ UNCHANGED <<clock, users, outbox, device, dlv, quiet, started, batch, verdict, requests>>
      /\ outcome' = [outcome EXCEPT ![w] = result]
      /\ pc' = [pc EXCEPT ![w] = "record"]
  BY DEF Send, table
<1>a. pc[w] = "send"
  BY DEF Send
<1>b. IF lost THEN faults < MaxFaults /\ faults' = faults + 1 ELSE faults' = faults
  BY DEF Send
<1>1. PICK claim \in batch[w] :
        /\ current' = [current EXCEPT ![w] = claim]
        /\ pushes' = [pushes EXCEPT ![claim.n][claim.d] = IF taken THEN @ + 1 ELSE @]
        /\ unrecorded' = [unrecorded EXCEPT ![claim.n][claim.d] = IF lost THEN @ + 1 ELSE @]
  BY Zenon DEF Send
<1> DEFINE n == claim.n  d == claim.d
<1>2. claim \in Claims /\ n \in Notifications /\ d \in Devices
  BY DEF TypeOK, Claims
<1> HIDE DEF n, d, taken, lost
<1>3. /\ pushes' \in [Notifications -> [Devices -> Nat]]
      /\ pushes'[n][d] = IF taken THEN pushes[n][d] + 1 ELSE pushes[n][d]
      /\ \A m \in Notifications, e \in Devices :
           ~(m = n /\ e = d) => pushes'[m][e] = pushes[m][e]
  <2>1. pushes \in [Notifications -> [Devices -> Nat]]
    BY DEF TypeOK
  <2>2. pushes' = [pushes EXCEPT ![n] = [pushes[n] EXCEPT ![d] = IF taken THEN @ + 1 ELSE @]]
    BY <1>1 DEF n, d
  <2>3. [pushes[n] EXCEPT ![d] = IF taken THEN @ + 1 ELSE @] \in [Devices -> Nat]
    BY <1>2, <2>1
  <2>4. QED
    BY <1>2, <2>1, <2>2, <2>3
<1>4. /\ unrecorded' \in [Notifications -> [Devices -> Nat]]
      /\ unrecorded'[n][d] = IF lost THEN unrecorded[n][d] + 1 ELSE unrecorded[n][d]
      /\ \A m \in Notifications, e \in Devices :
           ~(m = n /\ e = d) => unrecorded'[m][e] = unrecorded[m][e]
  <2>1. unrecorded \in [Notifications -> [Devices -> Nat]]
    BY DEF TypeOK
  <2>2. unrecorded' = [unrecorded EXCEPT ![n] = [unrecorded[n] EXCEPT ![d] = IF lost THEN @ + 1 ELSE @]]
    BY <1>1 DEF n, d
  <2>3. [unrecorded[n] EXCEPT ![d] = IF lost THEN @ + 1 ELSE @] \in [Devices -> Nat]
    BY <1>2, <2>1
  <2>4. QED
    BY <1>2, <2>1, <2>2, <2>3
<1>5. /\ pc'[w] = "record" /\ current'[w] = claim /\ outcome'[w] = result
      /\ \A v \in Workers \ {w} :
           pc'[v] = pc[v] /\ current'[v] = current[v] /\ outcome'[v] = outcome[v]
  BY <1>0, <1>1 DEF TypeOK
<1>6. faults' \in {faults, faults + 1} /\ faults' \in 0 .. MaxFaults
  <2>1. faults \in 0 .. MaxFaults
    BY DEF TypeOK
  <2>2. QED
    BY <1>b, <2>1
<1>7. \A m \in Notifications, e \in Devices :
        /\ Exists(m, e)' <=> Exists(m, e)
        /\ Held(m, e)' <=> Held(m, e)
        /\ Over(m, e)' <=> Over(m, e)
  BY <1>0 DEF Exists, Held, Over, Lost
<1>8. \A m \in Notifications, e \in Devices : Accepted(m, e) => Accepted(m, e)'
  <2> SUFFICES ASSUME NEW m \in Notifications, NEW e \in Devices, NEW v \in Workers,
                      pc[v] \in {"record", "commit"}, outcome[v] = "accepted",
                      current[v].n = m, current[v].d = e
               PROVE  Accepted(m, e)'
    BY DEF Accepted
  <2>1. v # w
    BY <1>a
  <2>2. QED
    BY <1>5, <2>1 DEF Accepted
<1>9. TypeOK'
  <2>1. dlv' \in [Notifications -> [Devices ->
                   [status : {"none"} \cup Live \cup Settled,
                    attempts : 0 .. (MaxAttempts + faults'),
                    available : Nat, lockedAt : 0 .. MaxTime]]]
    BY <1>0, <1>6, RowsWithin
  <2>2. /\ pc' \in [Workers -> {"idle", "send", "record", "commit"}]
        /\ current' \in [Workers -> Claims \cup {NoClaim}]
        /\ outcome' \in [Workers -> Outcomes \cup {"none"}]
    BY <1>0, <1>1, <1>2 DEF TypeOK
  <2>3. QED
    BY <1>0, <1>3, <1>4, <1>6, <2>1, <2>2 DEF TypeOK, Claims
<1>10. HeldByOne' /\ Swept' /\ Locked'
  BY <1>0, <1>7 DEF HeldByOne, Swept, Locked, Exists
<1>11. Runs'
  <2> SUFFICES ASSUME NEW v \in Workers
               PROVE  /\ pc'[v] = "idle" => batch'[v] = {}
                      /\ pc'[v] # "idle" => started'[v] <= clock' /\ clock' - started'[v] <= RunTime
                      /\ pc'[v] \in {"record", "commit"} => current'[v] \in batch'[v] /\ outcome'[v] \in Outcomes
                      /\ pc'[v] = "commit" => verdict'[v] # "none" /\ Exists(current[v].n, current[v].d)'
    BY DEF Runs
  <2>1. CASE v # w
    BY <1>0, <1>5, <2>1 DEF Runs, Exists
  <2>2. CASE v = w
    BY <1>0, <1>5, <2>2 DEF Runs
  <2>3. QED
    BY <2>1, <2>2
<1>12. Tried'
  <2> SUFFICES ASSUME NEW m \in Notifications, NEW e \in Devices,
                      \/ dlv[m][e].status = "pending"
                      \/ dlv[m][e].status = "processing" /\ ~Held(m, e)
               PROVE  dlv[m][e].attempts < MaxAttempts + faults'
    BY <1>0, <1>7 DEF Tried
  <2>1. dlv[m][e].attempts < MaxAttempts + faults
    BY DEF Tried
  <2>2. dlv[m][e].attempts \in Nat /\ faults \in Nat
    BY DEF TypeOK
  <2>3. QED
    BY <1>6, <2>1, <2>2
<1>13. Counted'
  <2> SUFFICES ASSUME NEW m \in Notifications, NEW e \in Devices
               PROVE  \/ pushes'[m][e] <= unrecorded'[m][e]
                      \/ /\ pushes'[m][e] <= 1 + unrecorded'[m][e]
                         /\ Accepted(m, e)' \/ Over(m, e)'
    BY DEF Counted
  <2>1. CASE m = n /\ e = d
    <3>1. Held(n, d)
      BY DEF Held, n, d
    <3>2. ~Accepted(n, d)
      <4>1. SUFFICES ASSUME NEW v \in Workers, pc[v] \in {"record", "commit"},
                            current[v].n = n, current[v].d = d
                     PROVE  FALSE
        BY DEF Accepted
      <4>2. current[v] \in batch[v]
        BY <4>1 DEF Runs
      <4>3. v = w
        BY <4>1, <4>2, OneHolder DEF n, d
      <4>4. QED
        BY <1>a, <4>1, <4>3
    <3>3. pushes[n][d] <= unrecorded[n][d]
      BY <1>2, <3>1, <3>2, HeldIsCounted
    <3>4. pushes[n][d] \in Nat /\ unrecorded[n][d] \in Nat
      BY <1>2 DEF TypeOK
    <3>5. CASE result = "accepted"
      <4>1. Accepted(n, d)'
        BY <1>5, <3>5 DEF Accepted, n, d
      <4>2. pushes'[n][d] <= 1 + unrecorded'[n][d]
        BY <1>3, <1>4, <3>3, <3>4, <3>5 DEF taken, lost
      <4>3. QED
        BY <2>1, <4>1, <4>2
    <3>6. CASE result = "unanswered"
      BY <1>3, <1>4, <2>1, <3>3, <3>4, <3>6 DEF taken, lost
    <3>7. CASE result \notin {"accepted", "unanswered"}
      BY <1>3, <1>4, <2>1, <3>3, <3>4, <3>7 DEF taken, lost
    <3>8. QED
      BY <3>5, <3>6, <3>7
  <2>2. CASE ~(m = n /\ e = d)
    BY <1>3, <1>4, <1>7, <1>8, <2>2 DEF Counted
  <2>3. QED
    BY <2>1, <2>2
<1>14. \A m \in Notifications, e \in Devices : pushes[m][e] > 0 => pushes'[m][e] > 0
  <2>1. pushes[n][d] \in Nat
    BY <1>2 DEF TypeOK
  <2>2. QED
    BY <1>3, <2>1
<1>15. Truthful'
  <2>1. ASSUME NEW v \in Workers, pc'[v] \in {"record", "commit"}, outcome'[v] = "accepted",
               NEW m \in Notifications, NEW e \in Devices, current'[v].n = m, current'[v].d = e
        PROVE  pushes'[m][e] > 0
    <3>1. CASE v # w
      <4>1. Accepted(m, e)
        BY <1>5, <2>1, <3>1 DEF Accepted
      <4>2. QED
        BY <1>14, <4>1 DEF Truthful
    <3>2. CASE v = w
      <4>1. m = n /\ e = d /\ taken
        BY <1>5, <2>1, <3>2 DEF n, d, taken
      <4>2. pushes[n][d] \in Nat
        BY <1>2 DEF TypeOK
      <4>3. QED
        BY <1>3, <4>1, <4>2
    <3>3. QED
      BY <3>1, <3>2
  <2>2. ASSUME NEW v \in Workers, pc'[v] = "commit", verdict'[v] = "sent"
        PROVE  \E e \in Devices : pushes'[current'[v].n][e] > 0
    <3>1. v # w /\ pc[v] = "commit" /\ verdict[v] = "sent" /\ current'[v] = current[v]
      BY <1>0, <1>5, <2>2
    <3>2. current[v].n \in Notifications
      BY <3>1, InHand DEF TypeOK, RunType
    <3>3. QED
      BY <1>14, <3>1, <3>2 DEF Truthful
  <2>3. QED
    BY <2>1, <2>2 DEF Truthful, Accepted
<1>16. SentIsTrue'
  BY <1>0, <1>14 DEF SentIsTrue
<1>17. QED
  BY <1>9, <1>10, <1>11, <1>12, <1>13, <1>15, <1>16

(* A run that finishes with a delivery keeps what is said of runs, if what *)
(* it finished with is the only row it changed.                            *)
LEMMA FinishedHeld ==
    ASSUME TypeOK, HeldByOne, Runs, Locked, NEW w \in Workers, Finished(w),
           pc[w] \in {"record", "commit"},
           NEW n \in Notifications, NEW d \in Devices, n = current[w].n, d = current[w].d
    PROVE  /\ ~Held(n, d)'
           /\ \A m \in Notifications, e \in Devices :
                /\ ~(m = n /\ e = d) => (Held(m, e)' <=> Held(m, e))
                /\ Accepted(m, e)' <=> Accepted(m, e) /\ ~(m = n /\ e = d)
<1>0. RunType
  BY DEF TypeOK, RunType
<1>1. /\ batch'[w] = batch[w] \ {current[w]}
      /\ \A claim \in batch'[w] : ~(claim.n = n /\ claim.d = d)
      /\ pc'[w] \in {"idle", "send"}
      /\ \A v \in Workers \ {w} :
           /\ pc'[v] = pc[v] /\ batch'[v] = batch[v]
           /\ current'[v] = current[v] /\ outcome'[v] = outcome[v]
  BY <1>0, FinishedRest
<1>2. current[w] \in batch[w]
  BY <1>0, InHand
<1>3. \A v \in Workers \ {w} : \A claim \in batch[v] :
        ~(claim.n = n /\ claim.d = d)
  BY <1>2, OneHolder
<1>4. ~Held(n, d)'
  <2> SUFFICES ASSUME NEW v \in Workers, NEW claim \in batch'[v],
                      claim.n = n, claim.d = d
               PROVE  FALSE
    BY DEF Held
  <2>1. QED
    BY <1>1, <1>3
<1>5. ASSUME NEW m \in Notifications, NEW e \in Devices, ~(m = n /\ e = d)
      PROVE  Held(m, e)' <=> Held(m, e)
  <2>1. ASSUME Held(m, e)' PROVE Held(m, e)
    BY <1>1, <2>1 DEF Held
  <2>2. ASSUME Held(m, e) PROVE Held(m, e)'
    <3>1. PICK v \in Workers : \E claim \in batch[v] : claim.n = m /\ claim.d = e
      BY <2>2 DEF Held
    <3>2. PICK claim \in batch[v] : claim.n = m /\ claim.d = e
      BY <3>1
    <3>3. claim \in batch'[v]
      BY <1>1, <1>5, <3>2
    <3>4. QED
      BY <3>2, <3>3 DEF Held
  <2>3. QED
    BY <2>1, <2>2
<1>6. ASSUME NEW m \in Notifications, NEW e \in Devices
      PROVE  Accepted(m, e)' <=> Accepted(m, e) /\ ~(m = n /\ e = d)
  <2>1. \A v \in Workers \ {w} :
          pc[v] \in {"record", "commit"} => ~(current[v].n = n /\ current[v].d = d)
    BY <1>0, <1>3, InHand
  <2>2. ASSUME Accepted(m, e)'
        PROVE  Accepted(m, e) /\ ~(m = n /\ e = d)
    BY <1>1, <2>1, <2>2 DEF Accepted
  <2>3. ASSUME Accepted(m, e), ~(m = n /\ e = d)
        PROVE  Accepted(m, e)'
    BY <1>1, <2>3 DEF Accepted
  <2>4. QED
    BY <2>2, <2>3
<1>7. QED
  BY <1>4, <1>5, <1>6

(* Runs stays true of a run that finishes with a delivery.                 *)
LEMMA FinishedRuns ==
    ASSUME TypeOK, Runs, Locked, NEW w \in Workers, Finished(w),
           pc[w] \in {"record", "commit"}, UNCHANGED <<clock, users>>,
           \A d \in Devices : device'[d].user = device[d].user
    PROVE  Runs'
<1>0. RunType
  BY DEF TypeOK, RunType
<1>1. /\ pc'[w] \in {"idle", "send"} /\ (pc'[w] = "idle" <=> batch'[w] = {})
      /\ pc'[w] # "idle" => started'[w] = started[w]
      /\ \A v \in Workers \ {w} :
           /\ pc'[v] = pc[v] /\ started'[v] = started[v] /\ batch'[v] = batch[v]
           /\ current'[v] = current[v] /\ outcome'[v] = outcome[v]
           /\ verdict'[v] = verdict[v]
  BY <1>0, FinishedRest
<1> SUFFICES ASSUME NEW v \in Workers
             PROVE  /\ pc'[v] = "idle" => batch'[v] = {}
                    /\ pc'[v] # "idle" => started'[v] <= clock' /\ clock' - started'[v] <= RunTime
                    /\ pc'[v] \in {"record", "commit"} => current'[v] \in batch'[v] /\ outcome'[v] \in Outcomes
                    /\ pc'[v] = "commit" => verdict'[v] # "none" /\ Exists(current[v].n, current[v].d)'
  BY DEF Runs
<1>2. CASE v = w
  <2>1. started[w] <= clock /\ clock - started[w] <= RunTime
    BY DEF Runs
  <2>2. QED
    BY <1>1, <1>2, <2>1
<1>3. CASE v # w
  <2>1. pc[v] = "commit" => (Exists(current[v].n, current[v].d)' <=> Exists(current[v].n, current[v].d))
    <3>1. pc[v] = "commit" => current[v].d \in Devices
      BY <1>0, InHand
    <3>2. current'[v] = current[v]
      BY <1>1, <1>3
    <3>3. QED
      BY <3>1, <3>2 DEF Exists
  <2>2. QED
    BY <1>1, <1>3, <2>1 DEF Runs
<1>4. QED
  BY <1>2, <1>3

(* NotClaimed keeps the invariant.                                         *)
LEMMA NotClaimedStep ==
    ASSUME IInv, NEW w \in Workers, NotClaimed(w)
    PROVE  IInv'
<1> USE DEF IInv, Work
<1>0. /\ pc[w] = "record" /\ dlv[current[w].n][current[w].d].status # "processing" /\ Finished(w)
      /\ UNCHANGED <<clock, users, outbox, device, dlv, quiet, pushes, unrecorded, requests, faults>>
  BY DEF NotClaimed, table
<1>1. RunType
  BY DEF TypeOK, RunType
<1>2. PICK n \in Notifications, d \in Devices :
        n = current[w].n /\ d = current[w].d /\ current[w] \in batch[w]
  BY <1>0, <1>1, InHand
<1>3. ~Exists(n, d) /\ device[d].user # NoUser
  BY <1>0, <1>2 DEF HeldByOne, Locked
<1>4. Lost(n, d) /\ dlv[n][d].status = "none"
  BY <1>2, <1>3 DEF Lost, Exists, Swept
<1>5. /\ ~Held(n, d)'
      /\ \A m \in Notifications, e \in Devices : ~(m = n /\ e = d) => (Held(m, e)' <=> Held(m, e))
      /\ \A m \in Notifications, e \in Devices : Accepted(m, e)' <=> Accepted(m, e) /\ ~(m = n /\ e = d)
  BY <1>0, <1>2, FinishedHeld
<1>6. /\ batch'[w] = batch[w] \ {current[w]} /\ pc'[w] \in {"idle", "send"}
      /\ pc'[w] # "idle" => started'[w] = started[w]
      /\ (pc'[w] = "idle" <=> batch'[w] = {})
      /\ \A v \in Workers \ {w} :
           /\ pc'[v] = pc[v] /\ batch'[v] = batch[v] /\ started'[v] = started[v]
           /\ current'[v] = current[v] /\ verdict'[v] = verdict[v]
  BY <1>0, <1>1, FinishedRest
<1>7. \A m \in Notifications, e \in Devices :
        (Exists(m, e)' <=> Exists(m, e)) /\ (Lost(m, e)' <=> Lost(m, e))
  BY <1>0 DEF Exists, Lost
<1>8. TypeOK'
  <2>1. RunType'
    BY <1>0, <1>1, FinishedType
  <2>2. QED
    BY <1>0, <2>1 DEF TypeOK, RunType, Claims
<1>9. HeldByOne'
  <2>1. \A v \in Workers : batch'[v] \subseteq batch[v]
    BY <1>6
  <2>2. QED
    BY <1>0, <2>1 DEF HeldByOne, Exists
<1>10. Runs'
  BY <1>0, FinishedRuns
<1>11. Swept'
  BY <1>0 DEF Swept, Exists
<1>12. Locked'
  <2>1. \A v \in Workers : batch'[v] \subseteq batch[v] /\ (batch'[v] # {} => started'[v] = started[v])
    BY <1>6
  <2>2. QED
    BY <1>0, <2>1 DEF Locked, Exists
<1>13. Tried'
  BY <1>0, <1>4, <1>5 DEF Tried
<1>14. Counted'
  <2> SUFFICES ASSUME NEW m \in Notifications, NEW e \in Devices
               PROVE  Accepted(m, e) \/ Over(m, e) => Accepted(m, e)' \/ Over(m, e)'
    BY <1>0 DEF Counted
  <2>1. CASE m = n /\ e = d
    <3>1. Over(n, d)'
      BY <1>2, <1>4, <1>5, <1>7 DEF Over
    <3>2. QED
      BY <2>1, <3>1
  <2>2. CASE ~(m = n /\ e = d)
    <3>1. Over(m, e) => Over(m, e)'
      BY <1>0, <1>5, <1>7, <2>2 DEF Over
    <3>2. QED
      BY <1>5, <2>2, <3>1
  <2>3. QED
    BY <2>1, <2>2
<1>15. Truthful'
  BY <1>0, <1>5, <1>6 DEF Truthful
<1>16. SentIsTrue'
  BY <1>0 DEF SentIsTrue
<1>17. QED
  BY <1>8, <1>9, <1>10, <1>11, <1>12, <1>13, <1>14, <1>15, <1>16

(* Record keeps the invariant: the verdict it computes is true.            *)
LEMMA RecordStep ==
    ASSUME IInv, NEW w \in Workers, Record(w)
    PROVE  IInv'
<1> USE DEF IInv, Work
<1>0. /\ pc[w] = "record" /\ dlv[current[w].n][current[w].d].status = "processing"
      /\ pc' = [pc EXCEPT ![w] = "commit"]
      /\ UNCHANGED <<clock, users, outbox, device, dlv, quiet, started, batch, current, outcome,
                     pushes, unrecorded, requests, faults>>
  BY DEF Record, table
<1>1. RunType
  BY DEF TypeOK, RunType
<1>2. PICK n \in Notifications, d \in Devices :
        n = current[w].n /\ d = current[w].d /\ current[w] \in batch[w]
  BY <1>0, <1>1, InHand
<1> DEFINE rows == [dlv[n] EXCEPT ![d] = Recorded(w)]
<1>3. verdict' = [verdict EXCEPT ![w] = OutboxStatus(rows)]
  BY <1>2 DEF Record
<1>4. OutboxStatus(rows) \in {"processing", "sent", "dead"}
  BY DEF OutboxStatus
<1>5. OutboxStatus(rows) = "sent" => \E e \in Devices : rows[e].status = "sent"
  BY DEF OutboxStatus
<1>6. \A e \in Devices \ {d} : rows[e] = dlv[n][e]
  BY DEF TypeOK
<1>7. rows[d].status = "sent" => outcome[w] = "accepted"
  <2>1. dlv[n][d] \in Row /\ dlv[n] \in [Devices -> Row]
    BY DEF TypeOK, Row
  <2>2. rows[d] = Recorded(w)
    BY <2>1
  <2>3. Recorded(w).status = NewStatus(outcome[w], current[w].attempts)
    BY <1>2, <2>1 DEF Recorded, Row
  <2>4. QED
    BY <2>2, <2>3 DEF NewStatus
<1> HIDE DEF rows
<1>8. /\ pc'[w] = "commit" /\ verdict'[w] = OutboxStatus(rows)
      /\ \A v \in Workers \ {w} : pc'[v] = pc[v] /\ verdict'[v] = verdict[v]
  BY <1>0, <1>3 DEF TypeOK
<1>9. \A v \in Workers : pc'[v] \in {"record", "commit"} <=> pc[v] \in {"record", "commit"}
  BY <1>0, <1>8
<1>10. \A m \in Notifications, e \in Devices :
         /\ Exists(m, e)' <=> Exists(m, e)
         /\ Held(m, e)' <=> Held(m, e)
         /\ Over(m, e)' <=> Over(m, e)
  BY <1>0 DEF Exists, Held, Over, Lost
<1>11. \A m \in Notifications, e \in Devices : Accepted(m, e)' <=> Accepted(m, e)
  BY <1>0, <1>9 DEF Accepted
<1>12. TypeOK'
  <2>1. verdict' \in [Workers -> {"none", "processing", "sent", "dead"}]
    BY <1>3, <1>4 DEF TypeOK
  <2>2. pc' \in [Workers -> {"idle", "send", "record", "commit"}]
    BY <1>0 DEF TypeOK
  <2>3. QED
    BY <1>0, <2>1, <2>2 DEF TypeOK, Claims
<1>13. HeldByOne' /\ Swept' /\ Locked'
  BY <1>0 DEF HeldByOne, Swept, Locked, Exists
<1>14. Runs'
  <2> SUFFICES ASSUME NEW v \in Workers
               PROVE  /\ pc'[v] = "idle" => batch'[v] = {}
                      /\ pc'[v] # "idle" => started'[v] <= clock' /\ clock' - started'[v] <= RunTime
                      /\ pc'[v] \in {"record", "commit"} => current'[v] \in batch'[v] /\ outcome'[v] \in Outcomes
                      /\ pc'[v] = "commit" => verdict'[v] # "none" /\ Exists(current[v].n, current[v].d)'
    BY DEF Runs
  <2>1. CASE v # w
    BY <1>0, <1>8, <2>1 DEF Runs, Exists
  <2>2. CASE v = w
    <3>1. Exists(n, d)
      BY <1>0, <1>2 DEF Swept
    <3>2. Exists(current[w].n, current[w].d)'
      BY <1>0, <1>2, <3>1 DEF Exists
    <3>3. pc'[w] = "commit" /\ verdict'[w] # "none"
      BY <1>4, <1>8
    <3>4. QED
      BY <1>0, <2>2, <3>2, <3>3 DEF Runs
  <2>3. QED
    BY <2>1, <2>2
<1>15. Tried'
  BY <1>0, <1>10 DEF Tried
<1>16. Counted'
  BY <1>0, <1>10, <1>11 DEF Counted
<1>17. Truthful'
  <2>1. ASSUME OutboxStatus(rows) = "sent"
        PROVE  \E e \in Devices : pushes[n][e] > 0
    <3>1. PICK e \in Devices : rows[e].status = "sent"
      BY <1>5, <2>1
    <3>2. CASE e = d
      <4>1. Accepted(n, d)
        BY <1>0, <1>2, <1>7, <3>1, <3>2 DEF Accepted
      <4>2. QED
        BY <4>1 DEF Truthful
    <3>3. CASE e # d
      BY <1>6, <3>1, <3>3 DEF SentIsTrue
    <3>4. QED
      BY <3>2, <3>3
  <2>2. ASSUME NEW v \in Workers, pc'[v] = "commit", verdict'[v] = "sent"
        PROVE  \E e \in Devices : pushes'[current'[v].n][e] > 0
    <3>1. CASE v = w
      BY <1>0, <1>2, <1>8, <2>1, <2>2, <3>1
    <3>2. CASE v # w
      BY <1>0, <1>8, <2>2, <3>2 DEF Truthful
    <3>3. QED
      BY <3>1, <3>2
  <2>3. QED
    BY <1>0, <1>11, <2>2 DEF Truthful
<1>18. SentIsTrue'
  BY <1>0 DEF SentIsTrue
<1>19. QED
  BY <1>12, <1>13, <1>14, <1>15, <1>16, <1>17, <1>18

(* What is recorded is a row, and one that is to be tried again has an     *)
(* attempt left.                                                           *)
LEMMA RecordedRow ==
    ASSUME Work, NEW w \in Workers, pc[w] = "commit",
           NEW n \in Notifications, NEW d \in Devices, n = current[w].n, d = current[w].d
    PROVE  /\ Recorded(w) \in Row
           /\ Recorded(w).status \in {"sent", "dead", "pending"}
           /\ Recorded(w).status = "sent" <=> outcome[w] = "accepted"
           /\ Recorded(w).status = "pending" => Recorded(w).attempts < MaxAttempts
<1> USE DEF Work
<1>1. RunType
  BY DEF TypeOK, RunType
<1>2. current[w] \in batch[w] /\ current[w].attempts \in Nat /\ current[w].attempts > 0
  BY <1>1, InHand
<1>3. Exists(n, d)
  BY DEF Runs
<1>4. dlv[n][d].attempts = current[w].attempts
  BY <1>2, <1>3 DEF Locked
<1>5. dlv[n][d] \in Row /\ started[w] \in Nat /\ 0 \in 0 .. MaxTime
  BY DEF TypeOK, Row
<1> DEFINE status == NewStatus(outcome[w], current[w].attempts)
           at == started[w] + IF status = "pending" THEN RetryDelay(current[w].attempts) ELSE 0
<1>6. Recorded(w) = [dlv[n][d] EXCEPT !.status = status, !.lockedAt = 0, !.available = at]
  BY DEF Recorded
<1>7. at \in Nat
  BY <1>2, <1>5, RetryDelayType
<1>8. /\ status \in {"sent", "dead", "pending"}
      /\ status = "sent" <=> outcome[w] = "accepted"
      /\ status = "pending" => current[w].attempts < MaxAttempts
  BY <1>2 DEF NewStatus, Permanent
<1> HIDE DEF status, at
<1>9. /\ Recorded(w) \in Row /\ Recorded(w).status = status
      /\ Recorded(w).attempts = dlv[n][d].attempts
  BY <1>5, <1>6, <1>7, <1>8 DEF Row, Live, Settled
<1>10. QED
  BY <1>4, <1>8, <1>9

(* Commit keeps the invariant: it changes the one row it holds.            *)
LEMMA CommitStep ==
    ASSUME IInv, NEW w \in Workers, Commit(w)
    PROVE  IInv'
<1> USE DEF IInv, Work
<1>0. /\ pc[w] = "commit" /\ Finished(w)
      /\ UNCHANGED <<clock, users, quiet, pushes, unrecorded, requests, faults>>
  BY DEF Commit
<1>1. RunType
  BY DEF TypeOK, RunType
<1>2. PICK n \in Notifications, d \in Devices :
        n = current[w].n /\ d = current[w].d /\ current[w] \in batch[w]
  BY <1>0, <1>1, InHand
<1>3. /\ dlv' = [dlv EXCEPT ![n][d] = Recorded(w)]
      /\ outbox' = [outbox EXCEPT ![n].status = verdict[w]]
      /\ device' = IF outcome[w] = "unregistered" THEN [device EXCEPT ![d].active = FALSE] ELSE device
  BY <1>2 DEF Commit
<1>4. Exists(n, d) /\ dlv[n][d].status = "processing"
  BY <1>0, <1>2 DEF Runs, HeldByOne
<1>5. /\ Recorded(w) \in Row
      /\ Recorded(w).status \in {"sent", "dead", "pending"}
      /\ Recorded(w).status = "sent" <=> outcome[w] = "accepted"
      /\ Recorded(w).status = "pending" => Recorded(w).attempts < MaxAttempts
  BY <1>0, <1>2, RecordedRow
<1>6. verdict[w] \in {"processing", "sent", "dead"}
  BY <1>0 DEF TypeOK, Runs
<1>7. /\ dlv' \in [Notifications -> [Devices -> Row]] /\ dlv'[n][d] = Recorded(w)
      /\ \A m \in Notifications, e \in Devices : ~(m = n /\ e = d) => dlv'[m][e] = dlv[m][e]
  <2>1. dlv \in [Notifications -> [Devices -> Row]]
    BY DEF TypeOK, Row
  <2>2. dlv' = [dlv EXCEPT ![n] = [dlv[n] EXCEPT ![d] = Recorded(w)]]
    BY <1>3
  <2>3. [dlv[n] EXCEPT ![d] = Recorded(w)] \in [Devices -> Row]
    BY <1>5, <2>1
  <2>4. QED
    BY <2>1, <2>2, <2>3
<1>8. /\ outbox' \in [Notifications -> [status : {"none", "gone"} \cup Live \cup Settled, created : 0 .. MaxTime]]
      /\ outbox'[n].status = verdict[w]
      /\ \A m \in Notifications \ {n} : outbox'[m] = outbox[m]
  <2>1. outbox \in [Notifications -> [status : {"none", "gone"} \cup Live \cup Settled, created : 0 .. MaxTime]]
    BY DEF TypeOK
  <2>2. [outbox[n] EXCEPT !.status = verdict[w]]
          \in [status : {"none", "gone"} \cup Live \cup Settled, created : 0 .. MaxTime]
    BY <1>6, <2>1 DEF Live, Settled
  <2>3. outbox' = [outbox EXCEPT ![n] = [outbox[n] EXCEPT !.status = verdict[w]]]
    BY <1>3
  <2>4. [outbox[n] EXCEPT !.status = verdict[w]].status = verdict[w]
    BY <2>1
  <2>5. QED
    BY <2>1, <2>2, <2>3, <2>4
<1>9. /\ device' \in [Devices -> [user : Users \cup {NoUser}, active : BOOLEAN]]
      /\ \A e \in Devices : device'[e].user = device[e].user
  <2>1. device \in [Devices -> [user : Users \cup {NoUser}, active : BOOLEAN]]
    BY DEF TypeOK
  <2>2. device' = device \/ device' = [device EXCEPT ![d] = [device[d] EXCEPT !.active = FALSE]]
    BY <1>3
  <2>3. /\ [device[d] EXCEPT !.active = FALSE] \in [user : Users \cup {NoUser}, active : BOOLEAN]
        /\ [device[d] EXCEPT !.active = FALSE].user = device[d].user
    BY <2>1
  <2>4. QED
    BY <2>1, <2>2, <2>3
<1>10. /\ ~Held(n, d)'
       /\ \A m \in Notifications, e \in Devices :
            /\ ~(m = n /\ e = d) => (Held(m, e)' <=> Held(m, e))
            /\ Accepted(m, e)' <=> Accepted(m, e) /\ ~(m = n /\ e = d)
  BY <1>0, <1>2, FinishedHeld
<1>11. /\ batch'[w] = batch[w] \ {current[w]} /\ pc'[w] \in {"idle", "send"}
       /\ \A claim \in batch'[w] : ~(claim.n = n /\ claim.d = d)
       /\ pc'[w] # "idle" => started'[w] = started[w]
       /\ (pc'[w] = "idle" <=> batch'[w] = {})
       /\ \A v \in Workers \ {w} :
            /\ pc'[v] = pc[v] /\ batch'[v] = batch[v] /\ started'[v] = started[v]
            /\ current'[v] = current[v] /\ verdict'[v] = verdict[v]
  BY <1>0, <1>1, <1>2, FinishedRest
<1>12. \A m \in Notifications, e \in Devices :
         (Exists(m, e)' <=> Exists(m, e)) /\ (Lost(m, e)' <=> Lost(m, e))
  BY <1>0, <1>9 DEF Exists, Lost
<1>13. \A v \in Workers : \A claim \in batch'[v] :
         /\ claim \in batch[v] /\ claim.n \in Notifications /\ claim.d \in Devices
         /\ ~(claim.n = n /\ claim.d = d) /\ started'[v] = started[v]
  <2> SUFFICES ASSUME NEW v \in Workers, NEW claim \in batch'[v]
               PROVE  /\ claim \in batch[v] /\ claim.n \in Notifications /\ claim.d \in Devices
                      /\ ~(claim.n = n /\ claim.d = d) /\ started'[v] = started[v]
    OBVIOUS
  <2>1. claim \in batch[v] /\ started'[v] = started[v]
    BY <1>11
  <2>2. claim.n \in Notifications /\ claim.d \in Devices
    BY <1>1, <2>1, InHand
  <2>3. ~(claim.n = n /\ claim.d = d)
    BY <1>2, <1>11, <2>1, OneHolder
  <2>4. QED
    BY <2>1, <2>2, <2>3
<1>14. TypeOK'
  <2>1. RunType'
    BY <1>0, <1>1, FinishedType
  <2>2. QED
    BY <1>0, <1>7, <1>8, <1>9, <2>1 DEF TypeOK, RunType, Claims, Row
<1>15. HeldByOne'
  <2>1. \A v \in Workers : \A claim \in batch'[v] :
          Exists(claim.n, claim.d)' => dlv'[claim.n][claim.d].status = "processing"
    BY <1>7, <1>12, <1>13 DEF HeldByOne
  <2>2. \A v \in Workers : batch'[v] \subseteq batch[v]
    BY <1>13
  <2>3. QED
    BY <2>1, <2>2 DEF HeldByOne
<1>16. Runs'
  BY <1>0, <1>9, FinishedRuns
<1>17. Swept'
  <2>1. \A m \in Notifications : outbox'[m].status \in Live => Owner[m] \in users'
    BY <1>0, <1>4, <1>8 DEF Swept, Exists
  <2>2. \A m \in Notifications, e \in Devices : ~Exists(m, e)' => dlv'[m][e].status = "none"
    BY <1>4, <1>7, <1>12 DEF Swept
  <2>3. QED
    BY <2>1, <2>2 DEF Swept
<1>18. Locked'
  <2> SUFFICES ASSUME NEW v \in Workers, NEW claim \in batch'[v]
               PROVE  /\ device'[claim.d].user # NoUser
                      /\ Exists(claim.n, claim.d)' =>
                           /\ dlv'[claim.n][claim.d].lockedAt = started'[v]
                           /\ dlv'[claim.n][claim.d].attempts = claim.attempts
                      /\ \A other \in batch'[v] :
                           other.n = claim.n /\ other.d = claim.d => other = claim
    BY DEF Locked
  <2>1. dlv'[claim.n][claim.d] = dlv[claim.n][claim.d]
    BY <1>7, <1>13
  <2>2. device'[claim.d].user = device[claim.d].user
    BY <1>9, <1>13
  <2>3. QED
    BY <1>12, <1>13, <2>1, <2>2 DEF Locked
<1>19. Tried'
  <2> SUFFICES ASSUME NEW m \in Notifications, NEW e \in Devices,
                      \/ dlv'[m][e].status = "pending"
                      \/ dlv'[m][e].status = "processing" /\ ~Held(m, e)'
               PROVE  dlv'[m][e].attempts < MaxAttempts + faults'
    BY DEF Tried
  <2>1. CASE m = n /\ e = d
    <3>1. Recorded(w).attempts < MaxAttempts /\ Recorded(w).attempts \in Nat /\ faults \in Nat
      BY <1>5, <1>7, <2>1 DEF Row, TypeOK
    <3>2. QED
      BY <1>0, <1>7, <2>1, <3>1
  <2>2. CASE ~(m = n /\ e = d)
    BY <1>0, <1>7, <1>10, <2>2 DEF Tried
  <2>3. QED
    BY <2>1, <2>2
<1>20. Counted'
  <2> SUFFICES ASSUME NEW m \in Notifications, NEW e \in Devices
               PROVE  \/ pushes[m][e] <= unrecorded[m][e]
                      \/ /\ pushes[m][e] <= 1 + unrecorded[m][e]
                         /\ Accepted(m, e)' \/ Over(m, e)'
    BY <1>0 DEF Counted
  <2>1. CASE m = n /\ e = d
    <3>1. CASE outcome[w] = "accepted"
      <4>1. Over(n, d)'
        BY <1>5, <1>7, <3>1 DEF Over, Settled
      <4>2. QED
        BY <2>1, <4>1 DEF Counted
    <3>2. CASE outcome[w] # "accepted"
      <4>1. ~Accepted(n, d)
        <5> SUFFICES ASSUME NEW v \in Workers, pc[v] \in {"record", "commit"},
                            outcome[v] = "accepted", current[v].n = n, current[v].d = d
                     PROVE  FALSE
          BY DEF Accepted
        <5>1. current[v] \in batch[v]
          BY <1>1, InHand
        <5>2. v = w
          BY <1>2, <5>1, OneHolder
        <5>3. QED
          BY <3>2, <5>2
      <4>2. Held(n, d)
        BY <1>2 DEF Held
      <4>3. QED
        BY <2>1, <4>1, <4>2, HeldIsCounted
    <3>3. QED
      BY <3>1, <3>2
  <2>2. CASE ~(m = n /\ e = d)
    <3>1. Over(m, e) => Over(m, e)'
      BY <1>7, <1>10, <1>12, <2>2 DEF Over
    <3>2. QED
      BY <1>10, <2>2, <3>1 DEF Counted
  <2>3. QED
    BY <2>1, <2>2
<1>21. Truthful'
  BY <1>0, <1>10, <1>11 DEF Truthful
<1>22. SentIsTrue'
  <2>1. ASSUME NEW m \in Notifications, outbox'[m].status = "sent"
        PROVE  \E e \in Devices : pushes'[m][e] > 0
    BY <1>0, <1>2, <1>8, <2>1 DEF Truthful, SentIsTrue
  <2>2. ASSUME NEW m \in Notifications, NEW e \in Devices, dlv'[m][e].status = "sent"
        PROVE  pushes'[m][e] > 0
    <3>1. CASE m = n /\ e = d
      <4>1. Accepted(n, d)
        BY <1>0, <1>2, <1>5, <1>7, <2>2, <3>1 DEF Accepted
      <4>2. QED
        BY <1>0, <3>1, <4>1 DEF Truthful
    <3>2. CASE ~(m = n /\ e = d)
      BY <1>0, <1>7, <2>2, <3>2 DEF SentIsTrue
    <3>3. QED
      BY <3>1, <3>2
  <2>3. QED
    BY <2>1, <2>2 DEF SentIsTrue
<1>23. QED
  BY <1>14, <1>15, <1>16, <1>17, <1>18, <1>19, <1>20, <1>21, <1>22

-------------------------------------------------------------------------------
(* Faults, users and time *)

(* Fail keeps the invariant: what the run had in hand is abandoned, which  *)
(* costs a fault, and what was accepted and not recorded is counted.       *)
LEMMA FailStep ==
    ASSUME IInv, NEW w \in Workers, Fail(w)
    PROVE  IInv'
<1> USE DEF IInv, Work
<1> DEFINE taken == pc[w] \in {"record", "commit"} /\ outcome[w] = "accepted"
<1>0. /\ UNCHANGED <<clock, users, outbox, device, dlv, quiet, pushes, requests>>
      /\ batch' = [batch EXCEPT ![w] = {}]
      /\ pc' = [pc EXCEPT ![w] = "idle"]
      /\ started' = [started EXCEPT ![w] = 0]
      /\ current' = [current EXCEPT ![w] = NoClaim]
      /\ outcome' = [outcome EXCEPT ![w] = "none"]
      /\ verdict' = [verdict EXCEPT ![w] = "none"]
      /\ faults < MaxFaults /\ faults' = faults + 1
  BY DEF Fail, table
<1>1. RunType
  BY DEF TypeOK, RunType
<1>2. /\ pc'[w] = "idle" /\ batch'[w] = {}
      /\ \A v \in Workers \ {w} :
           /\ pc'[v] = pc[v] /\ batch'[v] = batch[v] /\ started'[v] = started[v]
           /\ current'[v] = current[v] /\ outcome'[v] = outcome[v] /\ verdict'[v] = verdict[v]
  BY <1>0 DEF TypeOK
<1>3. /\ unrecorded' \in [Notifications -> [Devices -> Nat]]
      /\ \A m \in Notifications, e \in Devices : unrecorded'[m][e] >= unrecorded[m][e]
      /\ taken => unrecorded'[current[w].n][current[w].d] = unrecorded[current[w].n][current[w].d] + 1
  <2>0. unrecorded \in [Notifications -> [Devices -> Nat]]
    BY DEF TypeOK
  <2>1. CASE taken
    <3>1. PICK n \in Notifications, d \in Devices : n = current[w].n /\ d = current[w].d
      BY <1>1, <2>1, InHand
    <3>2. unrecorded' = [unrecorded EXCEPT ![n] = [unrecorded[n] EXCEPT ![d] = @ + 1]]
      BY <2>1, <3>1 DEF Fail
    <3>3. [unrecorded[n] EXCEPT ![d] = @ + 1] \in [Devices -> Nat]
      BY <2>0
    <3>4. unrecorded' \in [Notifications -> [Devices -> Nat]]
      BY <2>0, <3>2, <3>3
    <3>5. unrecorded'[n][d] = unrecorded[n][d] + 1
      BY <2>0, <3>2
    <3>6. \A m \in Notifications, e \in Devices :
            ~(m = n /\ e = d) => unrecorded'[m][e] = unrecorded[m][e]
      BY <2>0, <3>2
    <3>7. \A m \in Notifications, e \in Devices : unrecorded'[m][e] >= unrecorded[m][e]
      BY <2>0, <3>5, <3>6
    <3>8. QED
      BY <3>1, <3>4, <3>5, <3>7
  <2>2. CASE ~taken
    <3>1. unrecorded' = unrecorded
      BY <2>2 DEF Fail
    <3>2. QED
      BY <2>0, <2>2, <3>1
  <2>3. QED
    BY <2>1, <2>2
<1> HIDE DEF taken
<1>4. \A m \in Notifications, e \in Devices :
        (Exists(m, e)' <=> Exists(m, e)) /\ (Lost(m, e)' <=> Lost(m, e)) /\ (Held(m, e)' => Held(m, e))
  BY <1>0, <1>2 DEF Exists, Lost, Held
<1>5. \A m \in Notifications, e \in Devices :
        /\ Accepted(m, e)' => Accepted(m, e)
        /\ Accepted(m, e) => Accepted(m, e)' \/ (taken /\ current[w].n = m /\ current[w].d = e)
  BY <1>2 DEF Accepted, taken
<1>6. TypeOK'
  <2>1. dlv' \in [Notifications -> [Devices ->
                   [status : {"none"} \cup Live \cup Settled,
                    attempts : 0 .. (MaxAttempts + faults'),
                    available : Nat, lockedAt : 0 .. MaxTime]]]
    BY <1>0, RowsWithin
  <2>2. faults' \in 0 .. MaxFaults
    BY <1>0 DEF TypeOK
  <2>3. RunType'
    <3>1. 0 \in 0 .. MaxTime /\ {} \in SUBSET Claims
      OBVIOUS
    <3>2. QED
      BY <1>0, <1>1, <3>1 DEF RunType, Claims
  <2>4. QED
    BY <1>0, <1>3, <2>1, <2>2, <2>3 DEF TypeOK, RunType, Claims
<1>7. HeldByOne' /\ Swept'
  BY <1>0, <1>2 DEF HeldByOne, Swept, Exists
<1>8. Locked'
  BY <1>0, <1>2, <1>4 DEF Locked, Exists
<1>9. Runs'
  <2> SUFFICES ASSUME NEW v \in Workers
               PROVE  /\ pc'[v] = "idle" => batch'[v] = {}
                      /\ pc'[v] # "idle" => started'[v] <= clock' /\ clock' - started'[v] <= RunTime
                      /\ pc'[v] \in {"record", "commit"} => current'[v] \in batch'[v] /\ outcome'[v] \in Outcomes
                      /\ pc'[v] = "commit" => verdict'[v] # "none" /\ Exists(current[v].n, current[v].d)'
    BY DEF Runs
  <2>1. CASE v # w
    BY <1>0, <1>2, <2>1 DEF Runs, Exists
  <2>2. CASE v = w
    BY <1>2, <2>2
  <2>3. QED
    BY <2>1, <2>2
<1>10. Tried'
  <2> SUFFICES ASSUME NEW m \in Notifications, NEW e \in Devices,
                      dlv[m][e].status \in {"pending", "processing"}
               PROVE  dlv[m][e].attempts < MaxAttempts + faults'
    BY <1>0 DEF Tried
  <2>1. dlv[m][e].attempts \in 0 .. (MaxAttempts + faults) /\ faults \in Nat
    BY DEF TypeOK
  <2>2. QED
    BY <1>0, <2>1
<1>11. Counted'
  <2> SUFFICES ASSUME NEW m \in Notifications, NEW e \in Devices
               PROVE  \/ pushes[m][e] <= unrecorded'[m][e]
                      \/ /\ pushes[m][e] <= 1 + unrecorded'[m][e]
                         /\ Accepted(m, e)' \/ Over(m, e)'
    BY <1>0 DEF Counted
  <2>1. /\ pushes[m][e] \in Nat /\ unrecorded[m][e] \in Nat /\ unrecorded'[m][e] \in Nat
        /\ unrecorded'[m][e] >= unrecorded[m][e]
    BY <1>3 DEF TypeOK
  <2>2. CASE pushes[m][e] <= unrecorded[m][e]
    BY <2>1, <2>2
  <2>3. CASE pushes[m][e] <= 1 + unrecorded[m][e] /\ Over(m, e)
    <3>1. Over(m, e)'
      BY <1>0, <1>4, <2>3 DEF Over
    <3>2. QED
      BY <2>1, <2>3, <3>1
  <2>4. CASE pushes[m][e] <= 1 + unrecorded[m][e] /\ Accepted(m, e)
    <3>1. CASE Accepted(m, e)'
      BY <2>1, <2>4, <3>1
    <3>2. CASE taken /\ current[w].n = m /\ current[w].d = e
      BY <1>3, <2>1, <2>4, <3>2
    <3>3. QED
      BY <1>5, <2>4, <3>1, <3>2
  <2>5. QED
    BY <2>2, <2>3, <2>4 DEF Counted
<1>12. Truthful'
  BY <1>0, <1>2, <1>5 DEF Truthful
<1>13. SentIsTrue'
  BY <1>0 DEF SentIsTrue
<1>14. QED
  BY <1>6, <1>7, <1>8, <1>9, <1>10, <1>11, <1>12, <1>13

(* Emit, ToggleQuietHours and DeactivatePushDevice keep the invariant: no  *)
(* delivery, no run and no owner changes.                                  *)
LEMMA QuietStep ==
    ASSUME IInv, TypeOK',
           UNCHANGED <<clock, users, dlv, run, pushes, unrecorded, faults>>,
           \A d \in Devices : device'[d].user = device[d].user,
           \A n \in Notifications :
             \/ outbox'[n] = outbox[n]
             \/ outbox'[n].status = "pending" /\ Owner[n] \in users
    PROVE  IInv'
<1> USE DEF IInv, Work
<1>0. UNCHANGED <<clock, users, dlv, pc, started, batch, current, outcome, verdict, pushes,
                  unrecorded, faults>>
  BY DEF run
<1>1. RunType
  BY DEF TypeOK, RunType
<1>2. \A m \in Notifications, e \in Devices :
        /\ Exists(m, e)' <=> Exists(m, e)
        /\ Lost(m, e)' <=> Lost(m, e)
        /\ Held(m, e)' <=> Held(m, e)
        /\ Accepted(m, e)' <=> Accepted(m, e)
  BY <1>0 DEF Exists, Lost, Held, Accepted
<1>3. \A w \in Workers : \A claim \in batch[w] : claim.n \in Notifications /\ claim.d \in Devices
  BY <1>1, InHand
<1>4. HeldByOne'
  BY <1>0, <1>2, <1>3 DEF HeldByOne
<1>5. Runs'
  <2>1. \A w \in Workers : pc[w] = "commit" =>
          (Exists(current[w].n, current[w].d)' <=> Exists(current[w].n, current[w].d))
    BY <1>0, <1>1, InHand DEF Exists
  <2>2. QED
    BY <1>0, <2>1 DEF Runs
<1>6. Swept'
  BY <1>0, <1>2 DEF Swept
<1>7. Locked'
  BY <1>0, <1>2, <1>3 DEF Locked
<1>8. Tried'
  BY <1>0, <1>2 DEF Tried
<1>9. Counted'
  BY <1>0, <1>2 DEF Counted, Over
<1>10. Truthful'
  BY <1>0, <1>2 DEF Truthful
<1>11. SentIsTrue'
  BY <1>0 DEF SentIsTrue
<1>12. QED
  BY <1>4, <1>5, <1>6, <1>7, <1>8, <1>9, <1>10, <1>11

(* Emit keeps the invariant: a new notification is of a user who is there.*)
LEMMA EmitStep ==
    ASSUME IInv, NEW n \in Notifications, Emit(n)
    PROVE  IInv'
<1>0. /\ Owner[n] \in users
      /\ outbox' = [outbox EXCEPT ![n] = [status |-> "pending", created |-> clock]]
      /\ UNCHANGED <<clock, users, device, dlv, quiet, run, pushes, unrecorded, requests, faults>>
  BY DEF Emit
<1>1. TypeOK'
  <2>1. [status |-> "pending", created |-> clock]
          \in [status : {"none", "gone"} \cup Live \cup Settled, created : 0 .. MaxTime]
    BY DEF IInv, Work, TypeOK, Live
  <2>2. outbox' \in [Notifications -> [status : {"none", "gone"} \cup Live \cup Settled,
                                       created : 0 .. MaxTime]]
    BY <1>0, <2>1 DEF IInv, Work, TypeOK
  <2>3. QED
    BY <1>0, <2>2 DEF IInv, Work, TypeOK, run, Claims
<1>2. \A m \in Notifications :
        \/ outbox'[m] = outbox[m]
        \/ outbox'[m].status = "pending" /\ Owner[m] \in users
  BY <1>0 DEF IInv, Work, TypeOK
<1>3. QED
  BY <1>0, <1>1, <1>2, QuietStep

(* Quiet hours are looked at by the next claim, and by nothing before.   *)
LEMMA ToggleStep ==
    ASSUME IInv, NEW u \in Users, ToggleQuietHours(u)
    PROVE  IInv'
<1>0. /\ UNCHANGED <<clock, users, outbox, device, dlv, run, pushes, unrecorded, faults>>
      /\ quiet' \subseteq quiet \cup {u} /\ requests < MaxRequests /\ requests' = requests + 1
  BY DEF ToggleQuietHours, Request, table
<1>1. TypeOK'
  BY <1>0 DEF IInv, Work, TypeOK, run, Claims
<1>2. QED
  BY <1>0, <1>1, QuietStep

(* A device that is deactivated keeps its owner and its deliveries.      *)
LEMMA DeactivateStep ==
    ASSUME IInv, NEW d \in Devices, DeactivatePushDevice(d)
    PROVE  IInv'
<1>0. /\ UNCHANGED <<clock, users, outbox, dlv, quiet, run, pushes, unrecorded, faults>>
      /\ device' = [device EXCEPT ![d].active = FALSE]
      /\ requests < MaxRequests /\ requests' = requests + 1
  BY DEF DeactivatePushDevice, Request
<1>1. device \in [Devices -> [user : Users \cup {NoUser}, active : BOOLEAN]]
  BY DEF IInv, Work, TypeOK
<1>2. /\ device' \in [Devices -> [user : Users \cup {NoUser}, active : BOOLEAN]]
      /\ \A e \in Devices : device'[e].user = device[e].user
  BY <1>0, <1>1
<1>3. TypeOK'
  BY <1>0, <1>2 DEF IInv, Work, TypeOK, run, Claims
<1>4. QED
  BY <1>0, <1>2, <1>3, QuietStep

(* A device nobody had registered has no delivery, and no claim.           *)
LEMMA RegisterStep ==
    ASSUME IInv, NEW u \in Users, NEW d \in Devices, RegisterPushDevice(u, d)
    PROVE  IInv'
<1> USE DEF IInv, Work
<1>0. /\ u \in users /\ device[d].user \in users \cup {NoUser}
      /\ device' = [device EXCEPT ![d] = [user |-> u, active |-> TRUE]]
      /\ requests < MaxRequests /\ requests' = requests + 1
      /\ UNCHANGED <<clock, users, outbox, dlv, quiet, pc, started, batch, current, outcome, verdict,
                     pushes, unrecorded, faults>>
  BY DEF RegisterPushDevice, Request, run
<1>1. RunType /\ u # NoUser
  BY DEF TypeOK, RunType
<1>2. /\ device' \in [Devices -> [user : Users \cup {NoUser}, active : BOOLEAN]]
      /\ device'[d].user = u
      /\ \A e \in Devices \ {d} : device'[e].user = device[e].user
  BY <1>0 DEF TypeOK
<1>3. \A m \in Notifications, e \in Devices :
        /\ Exists(m, e) => Exists(m, e)'
        /\ Exists(m, e)' => Exists(m, e) \/ device[e].user = NoUser
        /\ Lost(m, e)' <=> Lost(m, e)
        /\ Held(m, e)' <=> Held(m, e)
        /\ Accepted(m, e)' <=> Accepted(m, e)
  <2>1. \A m \in Notifications, e \in Devices :
          (Held(m, e)' <=> Held(m, e)) /\ (Accepted(m, e)' <=> Accepted(m, e))
    BY <1>0 DEF Held, Accepted
  <2>2. \A e \in Devices :
          /\ device[e].user \in users => device'[e].user \in users
          /\ device'[e].user \in users => device[e].user \in users \cup {NoUser}
          /\ device'[e].user \in users \cup {NoUser} <=> device[e].user \in users \cup {NoUser}
    BY <1>0, <1>2
  <2>3. QED
    BY <1>0, <2>1, <2>2 DEF Exists, Lost
<1>4. \A w \in Workers : \A claim \in batch[w] :
        /\ claim.n \in Notifications /\ claim.d \in Devices
        /\ Exists(claim.n, claim.d)' => Exists(claim.n, claim.d)
  BY <1>1, <1>3, InHand DEF Locked
<1>5. TypeOK'
  BY <1>0, <1>2 DEF TypeOK, Claims
<1>6. HeldByOne'
  BY <1>0, <1>4 DEF HeldByOne
<1>7. Runs'
  <2>1. \A w \in Workers : pc[w] = "commit" => Exists(current[w].n, current[w].d)'
    <3> SUFFICES ASSUME NEW w \in Workers, pc[w] = "commit"
                 PROVE  Exists(current[w].n, current[w].d)'
      OBVIOUS
    <3>1. PICK n \in Notifications, e \in Devices : n = current[w].n /\ e = current[w].d
      BY <1>1, InHand
    <3>2. Exists(n, e)'
      BY <1>3, <3>1 DEF Runs
    <3>3. QED
      BY <1>0, <3>1, <3>2
  <2>2. QED
    BY <1>0, <2>1 DEF Runs
<1>8. Swept'
  BY <1>0, <1>3 DEF Swept
<1>9. Locked'
  <2>1. \A w \in Workers : \A claim \in batch[w] : device'[claim.d].user # NoUser
    BY <1>0, <1>1, <1>2, <1>4 DEF Locked
  <2>2. QED
    BY <1>0, <1>4, <2>1 DEF Locked
<1>10. Tried'
  BY <1>0, <1>3 DEF Tried
<1>11. Counted'
  BY <1>0, <1>3 DEF Counted, Over
<1>12. Truthful'
  BY <1>0, <1>3 DEF Truthful
<1>13. SentIsTrue'
  BY <1>0 DEF SentIsTrue
<1>14. QED
  BY <1>5, <1>6, <1>7, <1>8, <1>9, <1>10, <1>11, <1>12, <1>13

(* What goes with a user is lost for good, and what stays is as it was.    *)
LEMMA DeleteUserStep ==
    ASSUME IInv, NEW u \in Users, DeleteUser(u)
    PROVE  IInv'
<1> USE DEF IInv, Work
<1>0. /\ u \in users /\ users' = users \ {u}
      /\ \A w \in Workers : pc[w] = "commit" =>
           Owner[current[w].n] # u /\ device[current[w].d].user # u
      /\ outbox' = [n \in Notifications |->
                      IF Owner[n] = u THEN [outbox[n] EXCEPT !.status = "gone"] ELSE outbox[n]]
      /\ device' = [d \in Devices |->
                      IF device[d].user = u THEN [device[d] EXCEPT !.active = FALSE] ELSE device[d]]
      /\ dlv' = [n \in Notifications |-> [d \in Devices |->
                   IF Owner[n] = u \/ device[d].user = u THEN NoDelivery ELSE dlv[n][d]]]
      /\ requests < MaxRequests /\ requests' = requests + 1
      /\ UNCHANGED <<clock, quiet, pc, started, batch, current, outcome, verdict, pushes, unrecorded,
                     faults>>
  BY DEF DeleteUser, Request, run
<1>1. RunType /\ u # NoUser
  BY DEF TypeOK, RunType
<1>2. /\ device' \in [Devices -> [user : Users \cup {NoUser}, active : BOOLEAN]]
      /\ \A e \in Devices : device'[e].user = device[e].user
  <2>1. ASSUME NEW e \in Devices
        PROVE  /\ device'[e] \in [user : Users \cup {NoUser}, active : BOOLEAN]
               /\ device'[e].user = device[e].user
    <3>1. device[e] \in [user : Users \cup {NoUser}, active : BOOLEAN]
      BY DEF TypeOK
    <3>2. device'[e] = device[e] \/ device'[e] = [device[e] EXCEPT !.active = FALSE]
      BY <1>0
    <3>3. QED
      BY <3>1, <3>2
  <2>2. QED
    BY <1>0, <2>1
<1>3. /\ outbox' \in [Notifications -> [status : {"none", "gone"} \cup Live \cup Settled, created : 0 .. MaxTime]]
      /\ \A m \in Notifications :
           \/ outbox'[m] = outbox[m] /\ Owner[m] # u
           \/ outbox'[m].status = "gone"
  <2>1. \A m \in Notifications :
          outbox[m] \in [status : {"none", "gone"} \cup Live \cup Settled, created : 0 .. MaxTime]
    BY DEF TypeOK
  <2>2. QED
    BY <1>0, <2>1
<1>4. /\ dlv' \in [Notifications -> [Devices -> Row]]
      /\ \A m \in Notifications, e \in Devices :
           \/ dlv'[m][e] = dlv[m][e] /\ Owner[m] # u /\ device[e].user # u
           \/ dlv'[m][e] = NoDelivery /\ (Owner[m] = u \/ device[e].user = u)
  <2>1. NoDelivery \in Row
    <3>1. 0 \in 0 .. (MaxAttempts + faults) /\ 0 \in 0 .. MaxTime
      BY DEF TypeOK
    <3>2. QED
      BY <3>1 DEF NoDelivery, Row
  <2>2. \A m \in Notifications, e \in Devices : dlv[m][e] \in Row
    BY DEF TypeOK, Row
  <2>3. QED
    BY <1>0, <2>1, <2>2
<1>5. \A m \in Notifications, e \in Devices :
        /\ Exists(m, e)' <=> Exists(m, e) /\ Owner[m] # u /\ device[e].user # u
        /\ Lost(m, e)' <=> Lost(m, e) \/ Owner[m] = u \/ device[e].user = u
        /\ Held(m, e)' <=> Held(m, e)
        /\ Accepted(m, e)' <=> Accepted(m, e)
  <2>1. \A m \in Notifications, e \in Devices :
          (Held(m, e)' <=> Held(m, e)) /\ (Accepted(m, e)' <=> Accepted(m, e))
    BY <1>0 DEF Held, Accepted
  <2>2. QED
    BY <1>0, <1>1, <1>2, <2>1 DEF Exists, Lost
<1>6. \A w \in Workers : \A claim \in batch[w] :
        /\ claim.n \in Notifications /\ claim.d \in Devices
        /\ Exists(claim.n, claim.d)' =>
             Exists(claim.n, claim.d) /\ dlv'[claim.n][claim.d] = dlv[claim.n][claim.d]
  BY <1>1, <1>4, <1>5, InHand
<1>7. \A m \in Notifications, e \in Devices :
        dlv'[m][e].status # "none" => dlv'[m][e] = dlv[m][e]
  BY <1>4 DEF NoDelivery
<1>8. TypeOK'
  BY <1>0, <1>2, <1>3, <1>4 DEF TypeOK, Claims, Row
<1>9. HeldByOne'
  BY ZenonT(30), <1>0, <1>6 DEF HeldByOne
<1>10. Runs'
  <2>1. \A w \in Workers : pc[w] = "commit" => Exists(current[w].n, current[w].d)'
    <3> SUFFICES ASSUME NEW w \in Workers, pc[w] = "commit"
                 PROVE  Exists(current[w].n, current[w].d)'
      OBVIOUS
    <3>1. PICK n \in Notifications, e \in Devices : n = current[w].n /\ e = current[w].d
      BY <1>1, InHand
    <3>2. Exists(n, e)'
      BY <1>0, <1>5, <3>1 DEF Runs
    <3>3. QED
      BY <1>0, <3>1, <3>2
  <2>2. QED
    BY <1>0, <2>1 DEF Runs
<1>11. Swept'
  <2>1. \A m \in Notifications : outbox'[m].status \in Live => Owner[m] \in users'
    BY <1>0, <1>3 DEF Swept, Live
  <2>2. \A m \in Notifications, e \in Devices : ~Exists(m, e)' => dlv'[m][e].status = "none"
    BY <1>4, <1>5 DEF Swept, NoDelivery
  <2>3. QED
    BY <2>1, <2>2 DEF Swept
<1>12. Locked'
  <2>1. \A w \in Workers : \A claim \in batch[w] : device'[claim.d].user # NoUser
    BY <1>2, <1>6 DEF Locked
  <2>2. ASSUME NEW w \in Workers, NEW claim \in batch[w], Exists(claim.n, claim.d)'
        PROVE  /\ dlv'[claim.n][claim.d].lockedAt = started[w]
               /\ dlv'[claim.n][claim.d].attempts = claim.attempts
    BY <1>6, <2>2 DEF Locked
  <2>3. \A w \in Workers : \A claim \in batch[w] : \A other \in batch[w] :
          other.n = claim.n /\ other.d = claim.d => other = claim
    BY DEF Locked
  <2>4. batch' = batch /\ started' = started
    BY <1>0
  <2>5. QED
    BY <2>1, <2>2, <2>3, <2>4 DEF Locked
<1>13. Tried'
  BY <1>0, <1>5, <1>7 DEF Tried
<1>14. Counted'
  <2> SUFFICES ASSUME NEW m \in Notifications, NEW e \in Devices, Over(m, e)
               PROVE  Over(m, e)'
    BY <1>0, <1>5 DEF Counted
  <2>1. CASE dlv[m][e].status \in Settled
    <3>1. ~Held(m, e)
      <4> SUFFICES ASSUME NEW w \in Workers, NEW claim \in batch[w], claim.n = m, claim.d = e
                   PROVE  FALSE
        BY DEF Held
      <4>1. CASE Exists(m, e)
        BY <2>1, <4>1 DEF HeldByOne, Settled
      <4>2. CASE ~Exists(m, e)
        BY <2>1, <4>2 DEF Swept, Settled
      <4>3. QED
        BY <4>1, <4>2
    <3>2. QED
      BY <1>4, <1>5, <2>1, <3>1 DEF Over
  <2>2. CASE Lost(m, e) /\ ~Held(m, e)
    BY <1>5, <2>2 DEF Over
  <2>3. QED
    BY <2>1, <2>2 DEF Over
<1>15. Truthful'
  BY <1>0, <1>5 DEF Truthful
<1>16. SentIsTrue'
  <2>1. \A m \in Notifications : outbox'[m].status = "sent" => outbox[m].status = "sent"
    BY <1>3
  <2>2. \A m \in Notifications, e \in Devices : dlv'[m][e].status = "sent" => dlv[m][e].status = "sent"
    BY <1>7
  <2>3. QED
    BY <1>0, <2>1, <2>2 DEF SentIsTrue
<1>17. QED
  BY <1>8, <1>9, <1>10, <1>11, <1>12, <1>13, <1>14, <1>15, <1>16

(* Tick keeps the invariant: it waits for every run that is at its timeout. *)
LEMMA TickStep ==
    ASSUME IInv, Tick
    PROVE  IInv'
<1> USE DEF IInv, Work
<1>0. /\ clock < MaxTime /\ \A w \in Workers : InTime(w)
      /\ clock' = clock + 1
      /\ UNCHANGED <<users, outbox, device, dlv, quiet, pc, started, batch, current, outcome, verdict,
                     pushes, unrecorded, requests, faults>>
  BY DEF Tick, table, run
<1>1. clock \in 0 .. MaxTime /\ clock' \in 0 .. MaxTime
  BY <1>0 DEF TypeOK
<1>2. TypeOK'
  BY <1>0, <1>1 DEF TypeOK, Claims
<1>3. HeldByOne' /\ Swept' /\ Locked'
  BY <1>0 DEF HeldByOne, Swept, Locked, Exists
<1>4. Runs'
  <2>1. ASSUME NEW w \in Workers, pc[w] # "idle"
        PROVE  started[w] <= clock' /\ clock' - started[w] <= RunTime
    <3>1. clock - started[w] < RunTime /\ started[w] <= clock /\ started[w] \in Nat
      BY <1>0, <2>1 DEF InTime, Runs, TypeOK
    <3>2. clock \in Nat /\ clock' = clock + 1
      BY <1>0, <1>1
    <3>3. QED
      BY <3>1, <3>2
  <2>2. QED
    BY <1>0, <2>1 DEF Runs, Exists
<1>5. Tried'
  BY <1>0 DEF Tried, Held
<1>6. Counted'
  BY <1>0 DEF Counted, Over, Lost, Held, Accepted
<1>7. Truthful'
  BY <1>0 DEF Truthful, Accepted
<1>8. SentIsTrue'
  BY <1>0 DEF SentIsTrue
<1>9. QED
  BY <1>2, <1>3, <1>4, <1>5, <1>6, <1>7, <1>8

-------------------------------------------------------------------------------
(* Theorems *)

(* The invariant holds before the first run.                             *)
LEMMA InitInv == Init => IInv
<1> SUFFICES ASSUME Init PROVE IInv
  OBVIOUS
<1> USE DEF Init
<1>1. TypeOK
  <2>1. PICK u \in Users \cup {NoUser} :
          device = [d \in Devices |-> [user |-> u, active |-> u # NoUser]]
    OBVIOUS
  <2>2. device \in [Devices -> [user : Users \cup {NoUser}, active : BOOLEAN]]
    BY <2>1
  <2>3. 0 \in 0 .. MaxTime /\ 0 \in 0 .. MaxRequests /\ 0 \in 0 .. MaxFaults /\ 0 \in 0 .. (MaxAttempts + 0)
    OBVIOUS
  <2>4. /\ outbox \in [Notifications -> [status : {"none", "gone"} \cup Live \cup Settled, created : 0 .. MaxTime]]
        /\ dlv \in [Notifications -> [Devices ->
                      [status : {"none"} \cup Live \cup Settled, attempts : 0 .. (MaxAttempts + faults),
                       available : Nat, lockedAt : 0 .. MaxTime]]]
    BY <2>3 DEF NoOutbox, NoDelivery
  <2>5. /\ pc \in [Workers -> {"idle", "send", "record", "commit"}]
        /\ started \in [Workers -> 0 .. MaxTime] /\ batch \in [Workers -> SUBSET Claims]
        /\ current \in [Workers -> Claims \cup {NoClaim}]
        /\ outcome \in [Workers -> Outcomes \cup {"none"}]
        /\ verdict \in [Workers -> {"none", "processing", "sent", "dead"}]
    BY <2>3
  <2>6. QED
    BY <2>2, <2>3, <2>4, <2>5 DEF TypeOK
<1>2. HeldByOne /\ Runs /\ Locked
  BY DEF HeldByOne, Runs, Locked
<1>3. Swept /\ Tried
  BY DEF Swept, Tried, NoOutbox, NoDelivery, Live
<1>4. Counted
  BY DEF Counted
<1>5. Truthful
  BY DEF Truthful, Accepted
<1>6. SentIsTrue
  BY DEF SentIsTrue, NoOutbox, NoDelivery
<1>7. QED
  BY <1>1, <1>2, <1>3, <1>4, <1>5, <1>6 DEF IInv, Work

(* Each action of a run, of a user, of a fault and of time keeps it.     *)
LEMMA StepInv == IInv /\ [Next]_vars => IInv'
<1> SUFFICES ASSUME IInv, [Next]_vars PROVE IInv'
  OBVIOUS
<1>1. ASSUME NEW w \in Workers, Claim(w) PROVE IInv'
  BY <1>1, ClaimStep
<1>2. ASSUME NEW w \in Workers, NEW result \in Outcomes, Send(w, result) PROVE IInv'
  BY <1>2, SendStep
<1>3. ASSUME NEW w \in Workers, Record(w) PROVE IInv'
  BY <1>3, RecordStep
<1>4. ASSUME NEW w \in Workers, Commit(w) PROVE IInv'
  BY <1>4, CommitStep
<1>5. ASSUME NEW w \in Workers, NotClaimed(w) PROVE IInv'
  BY <1>5, NotClaimedStep
<1>6. ASSUME NEW w \in Workers, Fail(w) PROVE IInv'
  BY <1>6, FailStep
<1>7. ASSUME NEW n \in Notifications, Emit(n) PROVE IInv'
  BY <1>7, EmitStep
<1>8. ASSUME NEW u \in Users, NEW d \in Devices, RegisterPushDevice(u, d) PROVE IInv'
  BY <1>8, RegisterStep
<1>9. ASSUME NEW d \in Devices, DeactivatePushDevice(d) PROVE IInv'
  BY <1>9, DeactivateStep
<1>10. ASSUME NEW u \in Users, ToggleQuietHours(u) PROVE IInv'
  BY <1>10, ToggleStep
<1>11. ASSUME NEW u \in Users, DeleteUser(u) PROVE IInv'
  BY <1>11, DeleteUserStep
<1>12. CASE Tick
  BY <1>12, TickStep
<1>13. CASE UNCHANGED vars
  <2>1. UNCHANGED <<clock, users, outbox, device, dlv, quiet, pc, started, batch, current,
                    outcome, verdict, pushes, unrecorded, requests, faults>>
    BY <1>13 DEF vars
  <2>2. TypeOK' /\ UNCHANGED run
    BY <2>1 DEF IInv, Work, TypeOK, Claims, run
  <2>3. QED
    BY <2>1, <2>2, QuietStep
<1>14. QED
  BY <1>1, <1>2, <1>3, <1>4, <1>5, <1>6, <1>7, <1>8, <1>9, <1>10, <1>11, <1>12, <1>13
     DEF Next, Run

(* The invariant the others follow from holds in every state.            *)
THEOREM Inductive == Spec => []IInv
BY InitInv, StepInv, PTL DEF Spec

(* Every variable keeps its type; among them, nobody is tried more often   *)
(* than maximumNotificationDeliveryAttempts and once more for each fault.  *)
THEOREM TypeCorrect == Spec => []TypeOK
<1>1. IInv => TypeOK
  BY DEF IInv, Work
<1>2. QED
  BY <1>1, Inductive, PTL

(* ClaimNotificationDeliveries never gives a delivery to a second run      *)
(* while the first may still send it, however many replicas claim.         *)
THEOREM ClaimsAreExclusive == Spec => []HeldByOne
<1>1. IInv => HeldByOne
  BY DEF IInv, Work
<1>2. QED
  BY <1>1, Inductive, PTL

(* A push is doubled only as often as its outcome could not be recorded.   *)
THEOREM DoubledOnlyIfUnrecorded == Spec => []TwiceOnlyIfUnrecorded
<1>1. IInv => TwiceOnlyIfUnrecorded
  <2> SUFFICES ASSUME IInv, NEW n \in Notifications, NEW d \in Devices
               PROVE  pushes[n][d] <= 1 + unrecorded[n][d]
    BY DEF TwiceOnlyIfUnrecorded
  <2>1. pushes[n][d] \in Nat /\ unrecorded[n][d] \in Nat
    BY DEF IInv, Work, TypeOK
  <2>2. QED
    BY <2>1 DEF IInv, Counted
<1>2. QED
  BY <1>1, Inductive, PTL

(* What counts as sent was taken by a provider, for every verdict that     *)
(* CompleteNotificationDelivery computes from rows others are changing.    *)
THEOREM SentWasTaken == Spec => []SentIsTrue
<1>1. IInv => SentIsTrue
  BY DEF IInv
<1>2. QED
  BY <1>1, Inductive, PTL

(* A delivery that is settled is never sent again or given up, by a claim  *)
(* or by what a run records late.                                          *)
THEOREM SettledIsFinal == Spec => SettledStays
<1> DEFINE Stays == \A n \in Notifications, d \in Devices :
              dlv[n][d].status \in Settled /\ Exists(n, d)' => dlv'[n][d].status = dlv[n][d].status
<1>1. IInv /\ [Next]_vars => [Stays]_vars
  <2> SUFFICES ASSUME IInv, Next, NEW n \in Notifications, NEW d \in Devices,
                      dlv[n][d].status \in Settled, Exists(n, d)'
               PROVE  dlv'[n][d].status = dlv[n][d].status
    OBVIOUS
  <2> USE DEF IInv, Work
  <2>1. ASSUME NEW w \in Workers, Claim(w)
        PROVE  dlv'[n][d] = dlv[n][d]
    <3>1. Taken(n, d) \/ Left(n, d)
      BY <2>1, ClaimRows
    <3>2. QED
      BY <3>1 DEF Taken, Left, Settled, Stale
  <2>2. ASSUME NEW w \in Workers, Commit(w)
        PROVE  dlv'[n][d] = dlv[n][d]
    <3>1. pc[w] = "commit" /\ dlv' = [dlv EXCEPT ![current[w].n][current[w].d] = Recorded(w)]
      BY <2>2 DEF Commit
    <3>2. PICK m \in Notifications, e \in Devices :
            m = current[w].n /\ e = current[w].d /\ current[w] \in batch[w]
      BY <3>1, InHand DEF TypeOK, RunType
    <3>3. dlv[m][e].status = "processing"
      BY <3>1, <3>2 DEF Runs, HeldByOne
    <3>4. ~(m = n /\ e = d)
      BY <3>3 DEF Settled
    <3>5. QED
      BY <3>1, <3>2, <3>4 DEF TypeOK
  <2>3. ASSUME NEW u \in Users, DeleteUser(u)
        PROVE  dlv'[n][d] = dlv[n][d]
    <3>1. /\ users' = users \ {u} /\ device'[d].user = device[d].user
          /\ dlv'[n][d] = IF Owner[n] = u \/ device[d].user = u THEN NoDelivery ELSE dlv[n][d]
      BY <2>3 DEF DeleteUser, TypeOK
    <3>2. Owner[n] \in users' /\ device'[d].user \in users'
      BY DEF Exists
    <3>3. QED
      BY <3>1, <3>2
  <2>4. CASE UNCHANGED dlv
    BY <2>4
  <2>5. QED
    BY <2>1, <2>2, <2>3, <2>4
       DEF Next, Run, Send, Record, NotClaimed, Fail, Emit, RegisterPushDevice,
           DeactivatePushDevice, ToggleQuietHours, Tick, table
<1>2. QED
  BY <1>1, Inductive, PTL DEF Spec, SettledStays
===============================================================================
