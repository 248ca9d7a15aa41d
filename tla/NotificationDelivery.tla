------------------------- MODULE NotificationDelivery -------------------------
(***************************************************************************)
(* Push notifications: the outbox other components fill, the devices users *)
(* register, and the delivery run every replica starts every 30 seconds    *)
(* (RunNotificationDeliveryMaintenance): claim a batch of deliveries in    *)
(* one transaction, hand each to APNs or FCM, record the outcome of each   *)
(* in a transaction of its own.                                            *)
(*                                                                         *)
(* Claim is one action: rows another claim has locked are skipped, so two  *)
(* claims behave as one after the other. Recording is two, because the     *)
(* statement that recomputes the outbox row reads the deliveries before it *)
(* may have to wait for that row (READ COMMITTED).                         *)
(***************************************************************************)
EXTENDS Integers, FiniteSets

CONSTANTS
    Workers,        \* delivery workers, one per replica
    Users,
    Devices,        \* push_devices rows: one per platform and token
    Notifications,  \* notification_outbox rows that may come to be
    Owner,          \* the user of each notification
    NoUser,         \* the user of a device never registered
    Batch,          \* notificationDeliveryBatchSize
    MaxAttempts,    \* maximumNotificationDeliveryAttempts
    LockTTL,        \* notificationDeliveryLockTTL
    TTL,            \* notificationDeliveryTTL
    RunTime,        \* the timeout of a run
    MaxTime,        \* bound: end of the clock
    MaxRequests,    \* bound: registrations, removals, quiet hours
    MaxFaults       \* bound: runs that stop half-way, answers that are lost

(* A run is over before its claims count as abandoned: 25 s to 10 minutes. *)
ASSUME NotificationAssumption ==
    /\ Owner \in [Notifications -> Users] /\ NoUser \notin Users
    /\ Batch \in Nat \ {0} /\ MaxAttempts \in Nat \ {0}
    /\ LockTTL \in Nat /\ TTL \in Nat /\ RunTime \in Nat
    /\ RunTime <= LockTTL
    /\ MaxTime \in Nat /\ MaxRequests \in Nat /\ MaxFaults \in Nat

VARIABLES
    clock,
    users,          \* the users whose account exists
    outbox,         \* notification_outbox
    device,         \* push_devices
    dlv,            \* dlv[n][d]: notification_deliveries
    quiet,          \* the users who are in their quiet hours
    pc,             \* where the run of each worker is
    started,        \* the time its run read from the clock
    batch,          \* the deliveries it claimed and has not finished
    current,        \* the one of them it is at
    outcome,        \* what the provider made of it
    verdict,        \* the outbox status its open transaction computed
    pushes,         \* history: how often the provider took n for d
    unrecorded,     \* history: how often this could not be recorded
    requests,
    faults

vars == <<clock, users, outbox, device, dlv, quiet, pc, started, batch, current,
          outcome, verdict, pushes, unrecorded, requests, faults>>

table == <<users, outbox, device, dlv>>
run   == <<pc, started, batch, current, outcome, verdict>>

-------------------------------------------------------------------------------
(* Rows *)

Live    == {"pending", "processing"}
Settled == {"sent", "dead"}

NoOutbox   == [status |-> "none", created |-> 0]
NoDelivery == [status |-> "none", attempts |-> 0, available |-> 0, lockedAt |-> 0]
NoClaim    == [n |-> "none", d |-> "none", attempts |-> 0]

Expired(n, at) == outbox[n].created < at - TTL
Deliverable(n, at) == outbox[n].status \in Live /\ ~Expired(n, at)

-------------------------------------------------------------------------------
(* ClaimNotificationDeliveries, statement by statement. Each operator      *)
(* takes the deliveries the one before it left.                            *)

MutantNeverStale(row, at) == FALSE
Stale(row, at) == row.status = "processing" /\ row.lockedAt < at - LockTTL

(* Claims of runs that must be over are given back.                        *)
Freed(at) ==
    [n \in Notifications |-> [d \in Devices |->
        IF Stale(dlv[n][d], at)
        THEN [dlv[n][d] EXCEPT !.status = "pending", !.available = at, !.lockedAt = 0]
        ELSE dlv[n][d]]]

MutantWaiting(row) == row.status # "none"
Waiting(row) == row.status = "pending"

(* What was not delivered within a day is given up ...                     *)
GivenUp(rows, at) ==
    [n \in Notifications |-> [d \in Devices |->
        IF Expired(n, at) /\ Waiting(rows[n][d])
        THEN [rows[n][d] EXCEPT !.status = "dead", !.lockedAt = 0] ELSE rows[n][d]]]

(* ... and closes a notification nothing is left of.                       *)
Closed(rows, at) ==
    [n \in Notifications |->
        IF /\ outbox[n].status \in Live /\ Expired(n, at)
           /\ \A d \in Devices : rows[n][d].status \notin Live
        THEN [outbox[n] EXCEPT !.status =
                IF \E d \in Devices : rows[n][d].status = "sent" THEN "sent" ELSE "dead"]
        ELSE outbox[n]]

(* Every active device of the user gets a delivery, once.                  *)
FannedOut(rows, at) ==
    [n \in Notifications |-> [d \in Devices |->
        IF /\ Deliverable(n, at) /\ rows[n][d].status = "none"
           /\ device[d].active /\ device[d].user = Owner[n]
        THEN [NoDelivery EXCEPT !.status = "pending", !.available = at] ELSE rows[n][d]]]

MutantDue(rows, at) ==
    {r \in Notifications \X Devices :
        /\ rows[r[1]][r[2]].status \in Live /\ rows[r[1]][r[2]].available <= at
        /\ device[r[2]].active /\ ~Expired(r[1], at) /\ Owner[r[1]] \notin quiet}
Due(rows, at) ==
    {r \in Notifications \X Devices :
        /\ rows[r[1]][r[2]].status = "pending" /\ rows[r[1]][r[2]].available <= at
        /\ device[r[2]].active /\ ~Expired(r[1], at) /\ Owner[r[1]] \notin quiet}

(* ORDER BY available_at, id LIMIT n                                       *)
First(rows, due, n) ==
    {b \in SUBSET due :
        /\ Cardinality(b) = IF Cardinality(due) < n THEN Cardinality(due) ELSE n
        /\ \A r \in b, q \in due \ b : rows[r[1]][r[2]].available <= rows[q[1]][q[2]].available}

Claim(w) ==
    LET rows == FannedOut(GivenUp(Freed(clock), clock), clock) IN
    /\ pc[w] = "idle"
    /\ \E due \in First(rows, Due(rows, clock), Batch) :
         /\ dlv' = [n \in Notifications |-> [d \in Devices |->
                      IF <<n, d>> \in due
                      THEN [rows[n][d] EXCEPT !.status = "processing", !.attempts = @ + 1,
                                              !.lockedAt = clock]
                      ELSE rows[n][d]]]
         /\ outbox' = [n \in Notifications |->
                      IF \E d \in Devices : <<n, d>> \in due
                      THEN [outbox[n] EXCEPT !.status = "processing"]
                      ELSE Closed(GivenUp(Freed(clock), clock), clock)[n]]
         /\ batch' = [batch EXCEPT ![w] =
                      {[n |-> r[1], d |-> r[2], attempts |-> rows[r[1]][r[2]].attempts + 1] : r \in due}]
         /\ IF due = {} THEN UNCHANGED <<pc, started>>
            ELSE /\ pc' = [pc EXCEPT ![w] = "send"]
                 /\ started' = [started EXCEPT ![w] = clock]
    /\ UNCHANGED <<clock, users, device, quiet, current, outcome, verdict, pushes, unrecorded, requests, faults>>

-------------------------------------------------------------------------------
(* Sending and recording *)

(* What Send returns: accepted; a temporary error; an answer that was lost *)
(* after the provider had accepted, which looks like one; a permanent      *)
(* error; a permanent error that tells that the token is gone.             *)
Outcomes == {"accepted", "unavailable", "unanswered", "refused", "unregistered"}

Send(w, result) ==
    LET taken == result \in {"accepted", "unanswered"}
        lost  == result = "unanswered" IN
    /\ pc[w] = "send"
    /\ lost => faults < MaxFaults
    /\ \E claim \in batch[w] :
         /\ current' = [current EXCEPT ![w] = claim]
         /\ pushes' = [pushes EXCEPT ![claim.n][claim.d] = IF taken THEN @ + 1 ELSE @]
         /\ unrecorded' = [unrecorded EXCEPT ![claim.n][claim.d] = IF lost THEN @ + 1 ELSE @]
    /\ outcome' = [outcome EXCEPT ![w] = result]
    /\ faults' = IF lost THEN faults + 1 ELSE faults
    /\ pc' = [pc EXCEPT ![w] = "record"]
    /\ UNCHANGED <<clock, table, quiet, started, batch, verdict, requests>>

MutantPermanent(result, attempts) == result \in {"refused", "unregistered"} \/ attempts > MaxAttempts
Permanent(result, attempts) == result \in {"refused", "unregistered"} \/ attempts >= MaxAttempts

NewStatus(result, attempts) ==
    IF result = "accepted" THEN "sent"
    ELSE IF Permanent(result, attempts) THEN "dead" ELSE "pending"

(* notificationRetryDelay, in units of 30 seconds; the cap of an hour is   *)
(* never reached.                                                          *)
RetryDelay(attempt) == 2 ^ ((IF attempt > 7 THEN 7 ELSE attempt) - 1)

Recorded(w) ==
    LET status == NewStatus(outcome[w], current[w].attempts) IN
    [dlv[current[w].n][current[w].d] EXCEPT
        !.status = status, !.lockedAt = 0,
        !.available = started[w] + IF status = "pending" THEN RetryDelay(current[w].attempts) ELSE 0]

MutantOutboxStatus(rows) ==
    IF \E d \in Devices : rows[d].status \in Live THEN "processing" ELSE "sent"
OutboxStatus(rows) ==
    IF \E d \in Devices : rows[d].status \in Live THEN "processing"
    ELSE IF \E d \in Devices : rows[d].status = "sent" THEN "sent" ELSE "dead"

(* The run goes on to the next delivery of its batch.                      *)
Finished(w) ==
    LET rest == batch[w] \ {current[w]} IN
    /\ batch' = [batch EXCEPT ![w] = rest]
    /\ pc' = [pc EXCEPT ![w] = IF rest = {} THEN "idle" ELSE "send"]
    /\ started' = IF rest = {} THEN [started EXCEPT ![w] = 0] ELSE started
    /\ current' = [current EXCEPT ![w] = NoClaim]
    /\ outcome' = [outcome EXCEPT ![w] = "none"]
    /\ verdict' = [verdict EXCEPT ![w] = "none"]

(* CompleteNotificationDelivery locks the delivery, writes it and computes *)
(* the outbox status from what is committed and its own write ...          *)
Record(w) ==
    LET n == current[w].n  d == current[w].d IN
    /\ pc[w] = "record" /\ dlv[n][d].status = "processing"
    /\ verdict' = [verdict EXCEPT ![w] = OutboxStatus([dlv[n] EXCEPT ![d] = Recorded(w)])]
    /\ pc' = [pc EXCEPT ![w] = "commit"]
    /\ UNCHANGED <<clock, table, quiet, started, batch, current, outcome, pushes, unrecorded, requests, faults>>

(* ... and commits.                                                        *)
Commit(w) ==
    LET n == current[w].n  d == current[w].d IN
    /\ pc[w] = "commit"
    /\ dlv' = [dlv EXCEPT ![n][d] = Recorded(w)]
    /\ outbox' = [outbox EXCEPT ![n].status = verdict[w]]
    /\ device' = IF outcome[w] = "unregistered" THEN [device EXCEPT ![d].active = FALSE] ELSE device
    /\ Finished(w)
    /\ UNCHANGED <<clock, users, quiet, pushes, unrecorded, requests, faults>>

(* A delivery that is gone or no longer claimed is not recorded.           *)
NotClaimed(w) ==
    /\ pc[w] = "record" /\ dlv[current[w].n][current[w].d].status # "processing"
    /\ Finished(w)
    /\ UNCHANGED <<clock, table, quiet, pushes, unrecorded, requests, faults>>

-------------------------------------------------------------------------------
(* The other components, users and the environment *)

(* INSERT INTO notification_outbox. Bound: early enough to expire.         *)
Emit(n) ==
    /\ outbox[n].status = "none" /\ Owner[n] \in users
    /\ clock + TTL + LockTTL + 2 <= MaxTime
    /\ outbox' = [outbox EXCEPT ![n] = [status |-> "pending", created |-> clock]]
    /\ UNCHANGED <<clock, users, device, dlv, quiet, run, pushes, unrecorded, requests, faults>>

Request == requests < MaxRequests /\ requests' = requests + 1

(* A token another user registered before changes hands.                   *)
RegisterPushDevice(u, d) ==
    /\ Request /\ u \in users /\ device[d].user \in users \cup {NoUser}
    /\ device' = [device EXCEPT ![d] = [user |-> u, active |-> TRUE]]
    /\ UNCHANGED <<clock, users, outbox, dlv, quiet, run, pushes, unrecorded, faults>>

DeactivatePushDevice(d) ==
    /\ Request /\ device[d].active
    /\ device' = [device EXCEPT ![d].active = FALSE]
    /\ UNCHANGED <<clock, users, outbox, dlv, quiet, run, pushes, unrecorded, faults>>

Exists(n, d) == Owner[n] \in users /\ device[d].user \in users

(* DELETE FROM users: devices, notifications and deliveries go with it     *)
(* (ON DELETE CASCADE), once no transaction holds one of the rows.         *)
DeleteUser(u) ==
    /\ Request /\ u \in users
    /\ \A w \in Workers : pc[w] = "commit" =>
         Owner[current[w].n] # u /\ device[current[w].d].user # u
    /\ users' = users \ {u}
    /\ outbox' = [n \in Notifications |->
                     IF Owner[n] = u THEN [outbox[n] EXCEPT !.status = "gone"] ELSE outbox[n]]
    /\ device' = [d \in Devices |->
                     IF device[d].user = u THEN [device[d] EXCEPT !.active = FALSE] ELSE device[d]]
    /\ dlv' = [n \in Notifications |-> [d \in Devices |->
                  IF Owner[n] = u \/ device[d].user = u THEN NoDelivery ELSE dlv[n][d]]]
    /\ UNCHANGED <<clock, quiet, run, pushes, unrecorded, faults>>

(* Quiet hours begin or end, by the clock or by a change of preferences.   *)
ToggleQuietHours(u) ==
    /\ Request /\ u \in users
    /\ quiet' = IF u \in quiet THEN quiet \ {u} ELSE quiet \cup {u}
    /\ UNCHANGED <<clock, table, run, pushes, unrecorded, faults>>

MutantInTime(w) == TRUE
(* No run outlives its timeout.                                            *)
InTime(w) == pc[w] # "idle" => clock - started[w] < RunTime

Tick ==
    /\ clock < MaxTime /\ \A w \in Workers : InTime(w)
    /\ clock' = clock + 1
    /\ UNCHANGED <<table, quiet, run, pushes, unrecorded, requests, faults>>

(* The run's context ends, a statement fails or the process dies: what was *)
(* not committed is rolled back, claims stay as they are.                  *)
Fail(w) ==
    LET claim == current[w]
        taken == pc[w] \in {"record", "commit"} /\ outcome[w] = "accepted" IN
    /\ pc[w] # "idle" /\ faults < MaxFaults
    /\ unrecorded' = IF taken THEN [unrecorded EXCEPT ![claim.n][claim.d] = @ + 1] ELSE unrecorded
    /\ batch' = [batch EXCEPT ![w] = {}]
    /\ pc' = [pc EXCEPT ![w] = "idle"]
    /\ started' = [started EXCEPT ![w] = 0]
    /\ current' = [current EXCEPT ![w] = NoClaim]
    /\ outcome' = [outcome EXCEPT ![w] = "none"]
    /\ verdict' = [verdict EXCEPT ![w] = "none"]
    /\ faults' = faults + 1
    /\ UNCHANGED <<clock, table, quiet, pushes, requests>>

-------------------------------------------------------------------------------
Init ==
    /\ clock = 0
    /\ users = Users
    /\ outbox = [n \in Notifications |-> NoOutbox]
    /\ \E u \in Users \cup {NoUser} :
         device = [d \in Devices |-> [user |-> u, active |-> u # NoUser]]
    /\ dlv = [n \in Notifications |-> [d \in Devices |-> NoDelivery]]
    /\ quiet = {}
    /\ pc = [w \in Workers |-> "idle"]
    /\ started = [w \in Workers |-> 0]
    /\ batch = [w \in Workers |-> {}]
    /\ current = [w \in Workers |-> NoClaim]
    /\ outcome = [w \in Workers |-> "none"]
    /\ verdict = [w \in Workers |-> "none"]
    /\ pushes = [n \in Notifications |-> [d \in Devices |-> 0]]
    /\ unrecorded = [n \in Notifications |-> [d \in Devices |-> 0]]
    /\ requests = 0
    /\ faults = 0

Run(w) ==
    \/ Claim(w)
    \/ \E result \in Outcomes : Send(w, result)
    \/ Record(w)
    \/ Commit(w)
    \/ NotClaimed(w)

Next ==
    \/ \E w \in Workers : Run(w) \/ Fail(w)
    \/ \E n \in Notifications : Emit(n)
    \/ \E u \in Users, d \in Devices : RegisterPushDevice(u, d)
    \/ \E d \in Devices : DeactivatePushDevice(d)
    \/ \E u \in Users : ToggleQuietHours(u) \/ DeleteUser(u)
    \/ Tick

Spec == Init /\ [][Next]_vars

(* Each replica's ticker goes on, and so does time.                        *)
FairSpec == Spec /\ WF_vars(Tick) /\ \A w \in Workers : WF_vars(Run(w))

-------------------------------------------------------------------------------
(* Properties *)

Claims == [n : Notifications, d : Devices, attempts : 1 .. (MaxAttempts + MaxFaults)]

(* The bound of attempts is a claim about the code: a delivery is tried    *)
(* MaxAttempts times, and once more for each outcome that went unrecorded. *)
TypeOK ==
    /\ clock \in 0 .. MaxTime /\ users \subseteq Users
    /\ outbox \in [Notifications -> [status : {"none", "gone"} \cup Live \cup Settled, created : 0 .. MaxTime]]
    /\ device \in [Devices -> [user : Users \cup {NoUser}, active : BOOLEAN]]
    /\ dlv \in [Notifications -> [Devices ->
                  [status : {"none"} \cup Live \cup Settled, attempts : 0 .. (MaxAttempts + faults),
                   available : Nat, lockedAt : 0 .. MaxTime]]]
    /\ quiet \subseteq Users
    /\ pc \in [Workers -> {"idle", "send", "record", "commit"}]
    /\ started \in [Workers -> 0 .. MaxTime]
    /\ batch \in [Workers -> SUBSET Claims]
    /\ current \in [Workers -> Claims \cup {NoClaim}]
    /\ outcome \in [Workers -> Outcomes \cup {"none"}]
    /\ verdict \in [Workers -> {"none", "processing", "sent", "dead"}]
    /\ pushes \in [Notifications -> [Devices -> Nat]]
    /\ unrecorded \in [Notifications -> [Devices -> Nat]]
    /\ requests \in 0 .. MaxRequests /\ faults \in 0 .. MaxFaults

(* While a run holds a claim, its delivery is being processed, for it      *)
(* alone: the lock of a run that may still be sending is never taken over. *)
HeldByOne ==
    /\ \A w \in Workers : \A claim \in batch[w] :
         Exists(claim.n, claim.d) => dlv[claim.n][claim.d].status = "processing"
    /\ \A w, v \in Workers : w # v =>
         \A mine \in batch[w], other \in batch[v] : <<mine.n, mine.d>> # <<other.n, other.d>>

(* A user sees a notification twice on a device only if the first time it  *)
(* was accepted the outcome could not be recorded. README.md:233 speaks of *)
(* "PostgreSQL claims safe across two replicas": two replicas alone never  *)
(* double a push.                                                          *)
TwiceOnlyIfUnrecorded ==
    \A n \in Notifications, d \in Devices : pushes[n][d] <= 1 + unrecorded[n][d]

(* A notification that counts as sent reached a device, and what counts as *)
(* sent to a device was taken by the provider.                             *)
SentIsTrue ==
    \A n \in Notifications :
        /\ outbox[n].status = "sent" => \E d \in Devices : pushes[n][d] > 0
        /\ \A d \in Devices : dlv[n][d].status = "sent" => pushes[n][d] > 0

(* What is settled stays settled: no run sends it again or gives it up.    *)
SettledStays ==
    [][\A n \in Notifications, d \in Devices :
         dlv[n][d].status \in Settled /\ Exists(n, d)' => dlv'[n][d].status = dlv[n][d].status]_vars

(* Every notification comes to an end, and so do its deliveries: whatever  *)
(* fails, whoever deactivates a device or stays in quiet hours, and also   *)
(* when two replicas that finish its last two deliveries each still see    *)
(* the other's in work and leave the outbox row in processing.             *)
EveryNotificationSettles ==
    \A n \in Notifications :
        outbox[n].status # "none" ~>
            /\ outbox[n].status \in Settled \cup {"gone"}
            /\ \A d \in Devices : dlv[n][d].status \notin Live
==============================================================================
