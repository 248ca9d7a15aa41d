------------------------- MODULE ScheduledMoneyProofs -------------------------
(***************************************************************************)
(* Theorems about ScheduledMoney, for any number of replicas, requests,    *)
(* schedules and days. The inductive invariant adds to PostedExactlyOnce   *)
(* what protects it: a locked row is planned and has one holder            *)
(* (LocksHold), an open archive has the rows it has come to and no other   *)
(* change of its schedule (ArchivesHold), and a row that is not posted has *)
(* no transaction (TxnLinks). Defined and Known say that whoever works on a schedule      *)
(* works on one that was created. LedgerImplemented maps every step to a   *)
(* step or a stutter of PostingLedger; NoDateIsLost has an invariant of    *)
(* its own, in the last part.                                              *)
(***************************************************************************)
EXTENDS ScheduledMoney, TLAPS

USE ScheduledMoneyAssumption

(* Only a slot no schedule was created in lacks a definition.              *)
Defined == \A s \in Schedules : sched[s].status # "none" => sched[s].def \in Definitions

(* Whatever a process works on, the schedule was created before.           *)
Known == \A p \in Procs : \A item \in todo[p] : sched[item.id].status # "none"

(* So was what is being archived.                                          *)
Begun == \A s \in archiving : sched[s].status # "none"

(* What a posting batch holds: rows no other replica holds and no archive, *)
(* still planned. If their schedule was archived meanwhile, they were      *)
(* inserted after the archive looked for planned rows.                     *)
LocksHold ==
    /\ \A w, v \in Workers : w # v => locked[w] \cap locked[v] = {}
    /\ \A w \in Workers, s \in Schedules, d \in Dates :
         <<s, d>> \in locked[w] =>
            /\ pc[w] = "posting"
            /\ occ[s][d].status = "planned"
            /\ d \notin held[s]
            /\ sched[s].status = "archived" => d \notin seen[s]

(* What an open archive holds is planned, and its schedule is not archived *)
(* by anybody else.                                                        *)
ArchivesHold ==
    \A s \in Schedules :
        /\ s \in archiving => sched[s].status \in {"active", "paused"}
        /\ s \notin archiving => held[s] = {}
        /\ \A d \in held[s] : occ[s][d].status = "planned"

(* An occurrence that is not posted has no transaction.                    *)
TxnLinks ==
    \A s \in Schedules, d \in Dates :
        occ[s][d].status # "posted" => occ[s][d].txn = "none"

(* What materialized_through may be.                                       *)
Watermarks == {Null} \cup 0 .. (MaxDay + 1 + Horizon)

(* The inductive invariant.                                                *)
IInv ==
    /\ TypeOK
    /\ Defined
    /\ Known
    /\ LocksHold
    /\ ArchivesHold
    /\ TxnLinks
    /\ PostedExactlyOnce

-------------------------------------------------------------------------------
(* Facts about the operators *)

(* The local date of a definition lies within the days of the model.       *)
LEMMA LocalDateType ==
    ASSUME NEW d \in Definitions, NEW at \in 1 .. MaxDay
    PROVE  LocalDate(d, at) \in 1 .. (MaxDay + 1)
  BY DEF LocalDate, Definition

(* A watermark a run may set is a date of the model.                       *)
LEMMA AdvanceType ==
    ASSUME NEW d \in Definitions, NEW at \in 1 .. MaxDay,
           NEW mt \in Watermarks
    PROVE  Advance(mt, Through(LocalDate(d, at))) \in 0 .. (MaxDay + 1 + Horizon)
  BY LocalDateType DEF Advance, Through, Null, Watermarks

(* A batch is taken from the rows offered to it.                           *)
LEMMA OldestSubset ==
    ASSUME NEW rows, NEW n, NEW batch \in Oldest(rows, n)
    PROVE  batch \subseteq rows
  BY DEF Oldest

(* Where a process goes after a schedule.                                  *)
LEMMA AfterMaterializeType ==
    ASSUME NEW p, NEW rest
    PROVE  AfterMaterialize(p, rest) \in {"materialize", "post", "idle"}
  BY DEF AfterMaterialize

-------------------------------------------------------------------------------
(* Type correctness *)

(* What the statements make of an occurrence row is one.                   *)
LEMMA RowTypes ==
    ASSUME NEW row \in OccurrenceRow, wanted \in BOOLEAN
    PROVE  /\ NoRow \in OccurrenceRow
           /\ Posted(row) \in OccurrenceRow
           /\ [row EXCEPT !.events = @ \cup {"due"}] \in OccurrenceRow
           /\ [row EXCEPT !.status = "skipped"] \in OccurrenceRow
           /\ [row EXCEPT !.txn = "deleted"] \in OccurrenceRow
<1>1. NoRow \in OccurrenceRow
  BY DEF NoRow, OccurrenceRow
<1>2. [row EXCEPT !.status = "skipped"] \in OccurrenceRow /\ [row EXCEPT !.txn = "deleted"] \in OccurrenceRow
  BY DEF OccurrenceRow
<1>3. [row EXCEPT !.events = @ \cup {"due"}] \in OccurrenceRow
  <2>1. row.events \cup {"due"} \in SUBSET {"due", "posted"}
    BY DEF OccurrenceRow
  <2>2. QED
    BY <2>1 DEF OccurrenceRow
<1>4. Posted(row) \in OccurrenceRow
  <2>1. (IF wanted THEN row.events \cup {"posted"} ELSE row.events) \in SUBSET {"due", "posted"}
    BY DEF OccurrenceRow
  <2>2. QED
    BY <2>1 DEF Posted, OccurrenceRow
<1>5. QED
  BY <1>1, <1>2, <1>3, <1>4

(* What the statements make of a schedule row is one.                      *)
LEMMA StatusType ==
    ASSUME NEW row \in ScheduleRow, NEW status \in {"active", "paused", "archived"}
    PROVE  [row EXCEPT !.status = status] \in ScheduleRow
  BY DEF ScheduleRow

LEMMA MarkType ==
    ASSUME NEW row \in ScheduleRow, NEW mt \in Watermarks
    PROVE  [row EXCEPT !.mt = mt] \in ScheduleRow
  BY DEF ScheduleRow, Watermarks

LEMMA EditType ==
    ASSUME NEW row \in ScheduleRow, NEW d \in Definitions, NEW mt \in Watermarks
    PROVE  [row EXCEPT !.def = d, !.mt = mt] \in ScheduleRow
  BY DEF ScheduleRow, Watermarks

LEMMA ForgetNowType ==
    ASSUME NEW p, now \in [Procs -> 1 .. MaxDay], ForgetNow(p)
    PROVE  now' \in [Procs -> 1 .. MaxDay]
<1>1. 1 \in 1 .. MaxDay
  OBVIOUS
<1>2. now' = [now EXCEPT ![p] = 1] \/ now' = now
  BY DEF ForgetNow
<1>3. QED
  BY <1>1, <1>2

Plain == TypeOK /\ Defined /\ Known
Typed == TypeOK /\ Defined /\ Known /\ Begun

(* A row that was created is there ever after, and a process takes up only *)
(* schedules that are there.                                               *)
LEMMA KnownStep ==
    ASSUME TypeOK, Known,
           \A s \in Schedules : sched[s].status # "none" => sched'[s].status # "none",
           \A p \in Procs : \A item \in todo'[p] :
              item \in todo[p] \/ sched'[item.id].status # "none"
    PROVE  Known'
<1>1. SUFFICES ASSUME NEW p \in Procs, NEW item \in todo'[p]
               PROVE  sched'[item.id].status # "none"
  BY DEF Known
<1>2. item \in todo[p] => item.id \in Schedules /\ sched[item.id].status # "none"
  BY DEF TypeOK, Item, Known
<1>3. QED
  BY <1>2

LEMMA InitTyped == Init => Typed
  BY DEF Init, Typed, TypeOK, Defined, Known, Begun, NoSchedule, NoRow, ScheduleRow, OccurrenceRow, Procs

LEMMA PlainStep ==
    ASSUME Plain, Begun, [Next]_vars
    PROVE  Plain'
<1> USE DEF Plain, TypeOK, Defined, Known, archiveVars
<1>1. ASSUME NEW p \in Procs, Materialize(p) PROVE Plain'
  <2> PICK item \in todo[p] : Skip(p, item) \/ Upsert(p, item) \/ Mark(p, item)
    BY <1>1 DEF Materialize
  <2>0. item \in Item /\ item.id \in Schedules /\ item.def \in Definitions
    BY DEF Item
  <2>1. CASE Skip(p, item)
    <3>1. Known'
      BY <2>1, KnownStep DEF Skip
    <3>2. todo' \in [Procs -> SUBSET Item]
      BY <2>1 DEF Skip
    <3>3. QED
      BY <2>1, <3>1, <3>2, AfterMaterializeType DEF Skip, ForgetNow
  <2>2. CASE Upsert(p, item)
    <3>1. occ' \in [Schedules -> [Dates -> OccurrenceRow]]
      BY <2>0, <2>2 DEF Upsert, InsertOrKeep, PlannedRow, OccurrenceRow
    <3>2. QED
      BY <2>0, <2>2, <3>1 DEF Upsert
  <2>3. CASE Mark(p, item)
    <3>1. sched' \in [Schedules -> ScheduleRow] /\ Defined'
      <4>1. Advance(sched[item.id].mt, Through(LocalDate(item.def, now[p])))
              \in 0 .. (MaxDay + 1 + Horizon)
        BY <2>0, AdvanceType DEF ScheduleRow, Watermarks
      <4>2. QED
        BY <2>0, <2>3, <4>1, MarkType DEF Mark, Watermarks, ScheduleRow
    <3>2. Known'
      BY <2>0, <2>3, KnownStep DEF Mark, ScheduleRow
    <3>3. QED
      BY <2>0, <2>3, <3>1, <3>2, AfterMaterializeType DEF Mark, ForgetNow
  <2>4. QED
    BY <2>1, <2>2, <2>3
<1>2. ASSUME NEW w \in Workers, ListActive(w) PROVE Plain'
  <2>1. {Snapshot(s) : s \in {s \in Schedules : sched[s].status = "active"}} \subseteq Item
    BY DEF Snapshot, Item, ScheduleRow
  <2>2. Known'
    BY <1>2, KnownStep DEF ListActive, Snapshot
  <2>3. QED
    BY <1>2, <2>1, <2>2, AfterMaterializeType DEF ListActive, Procs
<1>3. ASSUME NEW w \in Workers, PostSelect(w) PROVE Plain'
  <2>1. PICK batch \in Oldest(Free(Due(TRUE, now[w])), PostLimit) :
          locked' = [locked EXCEPT ![w] = batch]
    BY <1>3 DEF PostSelect
  <2>2. batch \subseteq Schedules \X Dates
    BY OldestSubset DEF Free, Due
  <2>3. QED
    BY <1>3, <2>1, <2>2 DEF PostSelect, Procs
<1>4. ASSUME NEW w \in Workers, PostCommit(w) PROVE Plain'
  <2>1. occ' \in [Schedules -> [Dates -> OccurrenceRow]]
    BY <1>4, RowTypes DEF PostCommit
  <2>2. txns' \in [Schedules -> [Dates -> Nat]]
    BY <1>4 DEF PostCommit
  <2>3. QED
    BY <1>4, <2>1, <2>2 DEF PostCommit, Procs
<1>5. ASSUME NEW w \in Workers, QueueReminders(w) PROVE Plain'
  <2>1. occ' \in [Schedules -> [Dates -> OccurrenceRow]]
    <3>1. PICK batch \in Oldest(Due(FALSE, now[w]), RemindLimit) :
         occ' = [s \in Schedules |-> [d \in Dates |->
                   IF wanted /\ <<s, d>> \in batch
                   THEN [occ[s][d] EXCEPT !.events = @ \cup {"due"}] ELSE occ[s][d]]]
      BY <1>5 DEF QueueReminders
    <3>2. QED
      BY <3>1, RowTypes
  <2>2. now' \in [Procs -> 1 .. MaxDay]
    BY <1>5, ForgetNowType DEF QueueReminders
  <2>3. QED
    BY <1>5, <2>1, <2>2 DEF QueueReminders, Procs
<1>6. ASSUME NEW c \in Clients, NEW s \in Schedules, NEW d \in Definitions, Create(c, s, d)
      PROVE  Plain'
  <2>1. sched' \in [Schedules -> ScheduleRow] /\ Defined'
    BY <1>6 DEF Create, ScheduleRow
  <2>2. Known'
    BY <1>6, KnownStep DEF Create, ScheduleRow
  <2>3. QED
    BY <1>6, <2>1, <2>2 DEF Create, MayRequest, MoreRequests, Item, Procs
<1>7. ASSUME NEW c \in Clients, NEW s \in Schedules, NEW d \in Definitions, BeginUpdate(c, s, d)
      PROVE  Plain'
  <2>1. LocalDate(d, day) - 1 \in 0 .. (MaxDay + 1 + Horizon)
    BY LocalDateType
  <2>2. [id |-> s, def |-> d, mt |-> LocalDate(d, day) - 1] \in Item
    BY <2>1 DEF Item
  <2>3. Known'
    BY <1>7, KnownStep DEF BeginUpdate
  <2>4. QED
    BY <1>7, <2>2, <2>3 DEF BeginUpdate, MayRequest, MoreRequests, Procs
<1>8. ASSUME NEW c \in Clients, NEW s \in Schedules, NEW target \in {"pause", "resume"},
             BeginSetStatus(c, s, target)
      PROVE  Plain'
  <2>1. Snapshot(s) \in Item
    BY <1>8 DEF BeginSetStatus, Snapshot, Item, ScheduleRow
  <2>2. Known'
    BY <1>8, KnownStep DEF BeginSetStatus, Snapshot
  <2>3. QED
    BY <1>8, <2>1, <2>2 DEF BeginSetStatus, MayRequest, MoreRequests, Procs
<1>9. ASSUME NEW s \in Schedules, ArchiveCommit(s) PROVE Plain'
  <2>1. occ' \in [Schedules -> [Dates -> OccurrenceRow]]
    BY <1>9, RowTypes DEF ArchiveCommit
  <2>2. sched' = [sched EXCEPT ![s].status = "archived"]
    BY <1>9 DEF ArchiveCommit
  <2>3. sched' \in [Schedules -> ScheduleRow]
    BY ZenonT(30), <2>2, StatusType
  <2>4. Defined'
    BY <1>9, <2>2 DEF Begun, ArchiveCommit, ScheduleRow
  <2>5. Known'
    BY <1>9, <2>2, KnownStep DEF Begun, ArchiveCommit, ScheduleRow
  <2>6. QED
    BY <1>9, <2>1, <2>3, <2>4, <2>5 DEF ArchiveCommit
<1>19. ASSUME NEW s \in Schedules, ArchiveBegin(s) \/ ArchiveSkip(s) \/ ArchiveFails(s)
       PROVE  Plain'
  <2>1. archiving' \subseteq Schedules /\ requests' \in 0 .. MaxRequests /\ faults' \in 0 .. MaxFaults
    BY <1>19 DEF ArchiveBegin, ArchiveSkip, ArchiveFails, MoreRequests
  <2>2. seen' \in [Schedules -> SUBSET Dates] /\ held' \in [Schedules -> SUBSET Dates]
    <3>1. CASE ArchiveBegin(s)
      BY <3>1 DEF ArchiveBegin
    <3>2. CASE ArchiveSkip(s)
      <4>1. PICK d \in seen[s] : held' = [held EXCEPT ![s] = @ \cup {d}]
        BY <3>2 DEF ArchiveSkip
      <4>2. held[s] \cup {d} \in SUBSET Dates
        OBVIOUS
      <4>3. QED
        BY <3>2, <4>1, <4>2 DEF ArchiveSkip
    <3>3. CASE ArchiveFails(s)
      BY <3>3 DEF ArchiveFails
    <3>4. QED
      BY <1>19, <3>1, <3>2, <3>3
  <2>3. UNCHANGED <<day, wanted, sched, occ, txns, pc, now, todo, stored, locked, edited>>
    BY <1>19 DEF ArchiveBegin, ArchiveSkip, ArchiveFails
  <2>4. QED
    BY <2>1, <2>2, <2>3
<1>10. ASSUME NEW c \in Clients, NEW s \in Schedules, NEW d \in Dates, DeleteTransaction(c, s, d)
       PROVE  Plain'
  <2>1. occ' \in [Schedules -> [Dates -> OccurrenceRow]]
    BY <1>10, RowTypes DEF DeleteTransaction
  <2>2. QED
    BY <1>10, <2>1 DEF DeleteTransaction, MayRequest, MoreRequests
<1>11. ASSUME NEW c \in Clients, SetPreference(c) PROVE Plain'
  BY <1>11 DEF SetPreference, MayRequest, MoreRequests
<1>12. ASSUME NEW c \in Clients, CommitUpdate(c) PROVE Plain'
  <2>1. PICK item \in todo[c] :
          /\ sched' = [sched EXCEPT ![item.id] = [@ EXCEPT !.def = item.def, !.mt = item.mt]]
          /\ edited' = edited \cup {item.id}
          /\ occ' = [occ EXCEPT ![item.id] = [d \in Dates |->
                IF d \in {e \in Dates : Replaceable(occ[item.id][e], e, LocalDate(item.def, now[c]))}
                THEN NoRow ELSE @[d]]]
          /\ IF sched[item.id].status = "active"
             THEN pc' = [pc EXCEPT ![c] = "materialize"] /\ UNCHANGED todo
             ELSE Finish(c)
    BY <1>12 DEF CommitUpdate
  <2>2. item.id \in Schedules /\ item.def \in Definitions /\ item.mt \in Watermarks
    BY DEF Item, Watermarks, Procs
  <2>3. occ' \in [Schedules -> [Dates -> OccurrenceRow]]
    BY <2>1, <2>2 DEF NoRow, OccurrenceRow
  <2>4. sched' \in [Schedules -> ScheduleRow] /\ Defined'
    <3>1. [sched[item.id] EXCEPT !.def = item.def, !.mt = item.mt] \in ScheduleRow
      BY <2>2, EditType
    <3>2. QED
      BY <2>1, <2>2, <3>1 DEF ScheduleRow
  <2>5. pc' \in [Procs -> {"idle", "materialize", "post", "posting", "remind",
                          "update", "pause", "resume"}] /\ todo' \in [Procs -> SUBSET Item]
    BY <2>1 DEF Finish, Procs
  <2>6. Known'
    <3>1. \A s \in Schedules : sched'[s].status = sched[s].status
      BY <2>1, <2>2 DEF ScheduleRow
    <3>2. \A q \in Procs : todo'[q] \subseteq todo[q]
      BY <2>1 DEF Finish
    <3>3. QED
      BY <3>1, <3>2, KnownStep
  <2>7. now' \in [Procs -> 1 .. MaxDay]
    <3>1. ForgetNow(c)
      BY <1>12 DEF CommitUpdate
    <3>2. QED
      BY <3>1, ForgetNowType
  <2>8. edited' \subseteq Schedules
    BY <2>1, <2>2
  <2>9. QED
    BY <1>12, <2>3, <2>4, <2>5, <2>6, <2>7, <2>8 DEF CommitUpdate
<1>13. ASSUME NEW c \in Clients, CommitPause(c) \/ CommitResume(c) PROVE Plain'
  <2>1. PICK item \in todo[c], status \in {"active", "paused"} :
          sched' = [sched EXCEPT ![item.id].status = status]
    BY <1>13 DEF CommitPause, CommitResume
  <2>2. item.id \in Schedules
    BY DEF Item, Procs
  <2>3. sched[item.id].status # "none"
    BY DEF Procs
  <2>4. sched' \in [Schedules -> ScheduleRow]
    BY <2>1, <2>2, StatusType
  <2>5. Defined'
    BY <2>1, <2>2, <2>3 DEF ScheduleRow
  <2>6. todo' \in [Procs -> SUBSET Item]
    BY <1>13 DEF CommitPause, CommitResume, Finish
  <2>7. Known'
    <3>1. \A s \in Schedules : sched[s].status # "none" => sched'[s].status # "none"
      BY <2>1, <2>2 DEF ScheduleRow
    <3>2. \A q \in Procs : todo'[q] \subseteq todo[q]
      BY <1>13 DEF CommitPause, CommitResume, Finish
    <3>3. QED
      BY <3>1, <3>2, KnownStep
  <2>8. CASE CommitPause(c)
    BY <2>4, <2>5, <2>6, <2>7, <2>8 DEF CommitPause, Finish, ForgetNow, Procs
  <2>9. CASE CommitResume(c)
    BY <2>4, <2>5, <2>6, <2>7, <2>9 DEF CommitResume, Procs
  <2>10. QED
    BY <1>13, <2>8, <2>9
<1>14. ASSUME NEW c \in Clients, NotFound(c) PROVE Plain'
  BY <1>14 DEF NotFound, Finish, ForgetNow, Procs
<1>15. ASSUME NEW p \in Procs, Fail(p) PROVE Plain'
  BY <1>15 DEF Fail, ForgetNow
<1>16. CASE Tick
  BY <1>16 DEF Tick
<1>17. CASE UNCHANGED vars
  BY <1>17 DEF vars
<1> HIDE DEF Plain, TypeOK, Defined, Known, archiveVars
<1>18. QED
  BY <1>1, <1>2, <1>3, <1>4, <1>5, <1>6, <1>7, <1>8, <1>9, <1>10, <1>11, <1>12, <1>13,
     <1>14, <1>15, <1>16, <1>17, <1>19
     DEF Next, WorkerStep, Request, RequestStep, ArchiveStep, Procs

(* A schedule that was created is there ever after.                        *)
LEMMA SchedulesLast ==
    ASSUME Plain, [Next]_vars
    PROVE  \A s \in Schedules : sched[s].status # "none" => sched'[s].status # "none"
<1> USE DEF Plain, TypeOK
<1>1. ASSUME NEW s \in Schedules, NEW status \in {"active", "paused", "archived"},
             sched' = [sched EXCEPT ![s].status = status]
      PROVE  \A r \in Schedules : sched[r].status # "none" => sched'[r].status # "none"
  BY <1>1 DEF ScheduleRow
<1>2. ASSUME NEW p \in Procs, Materialize(p)
      PROVE  \A r \in Schedules : sched[r].status # "none" => sched'[r].status # "none"
  <2>1. PICK item \in todo[p] : Skip(p, item) \/ Upsert(p, item) \/ Mark(p, item)
    BY <1>2 DEF Materialize
  <2>2. item.id \in Schedules
    BY DEF Item
  <2>3. \A r \in Schedules : sched'[r].status = sched[r].status
    <3>1. CASE Mark(p, item)
      BY <2>2, <3>1 DEF Mark, ScheduleRow
    <3>2. CASE Skip(p, item) \/ Upsert(p, item)
      BY <3>2 DEF Skip, Upsert
    <3>3. QED
      BY <2>1, <3>1, <3>2
  <2>4. QED
    BY <2>3
<1>3. ASSUME NEW c \in Clients, CommitUpdate(c)
      PROVE  \A r \in Schedules : sched[r].status # "none" => sched'[r].status # "none"
  <2>1. PICK item \in todo[c] :
          sched' = [sched EXCEPT ![item.id] = [@ EXCEPT !.def = item.def, !.mt = item.mt]]
    BY <1>3 DEF CommitUpdate
  <2>2. QED
    BY <2>1 DEF ScheduleRow
<1>4. ASSUME NEW c \in Clients, CommitPause(c) \/ CommitResume(c)
      PROVE  \A r \in Schedules : sched[r].status # "none" => sched'[r].status # "none"
  <2>1. PICK item \in todo[c], status \in {"active", "paused"} :
          sched' = [sched EXCEPT ![item.id].status = status]
    BY <1>4 DEF CommitPause, CommitResume
  <2>2. item.id \in Schedules
    BY DEF Item, Procs
  <2>3. QED
    BY <1>1, <2>1, <2>2
<1>5. ASSUME NEW c \in Clients, Request(c)
      PROVE  \A r \in Schedules : sched[r].status # "none" => sched'[r].status # "none"
  BY <1>5 DEF Request, Create, BeginUpdate, BeginSetStatus, DeleteTransaction, SetPreference
<1>6. ASSUME NEW s \in Schedules, ArchiveCommit(s)
      PROVE  \A r \in Schedules : sched[r].status # "none" => sched'[r].status # "none"
  BY <1>1, <1>6 DEF ArchiveCommit
<1>7. ASSUME sched' = sched
      PROVE  \A r \in Schedules : sched[r].status # "none" => sched'[r].status # "none"
  BY <1>7
<1> HIDE DEF Plain, TypeOK
<1>8. QED
  BY <1>2, <1>3, <1>4, <1>5, <1>6, <1>7
     DEF Next, vars, WorkerStep, RequestStep, ArchiveStep, Procs, ListActive, PostSelect, PostCommit,
         QueueReminders, NotFound, ArchiveBegin, ArchiveSkip, ArchiveFails, Fail, Tick

(* Only a schedule that is there begins to be archived.                    *)
LEMMA ArchivesBegin ==
    ASSUME [Next]_vars
    PROVE  \A s \in archiving' : s \in archiving \/ sched[s].status # "none"
<1>1. ASSUME NEW s \in Schedules, ArchiveBegin(s) \/ ArchiveStep(s) \/ ArchiveFails(s)
      PROVE  \A r \in archiving' : r \in archiving \/ sched[r].status # "none"
  BY <1>1 DEF ArchiveBegin, ArchiveStep, ArchiveSkip, ArchiveCommit, ArchiveFails
<1>2. ASSUME NEW c \in Clients, Request(c) \/ RequestStep(c) \/ Materialize(c)
      PROVE  archiving' = archiving
  BY <1>2 DEF Request, RequestStep, Materialize, Skip, Upsert, Mark, Create, BeginUpdate,
              BeginSetStatus, DeleteTransaction, SetPreference, CommitUpdate, CommitPause,
              CommitResume, NotFound, archiveVars
<1>3. ASSUME NEW w \in Workers, WorkerStep(w)
      PROVE  archiving' = archiving
  BY <1>3 DEF WorkerStep, Materialize, Skip, Upsert, Mark, ListActive, PostSelect, PostCommit,
              QueueReminders, archiveVars
<1>4. CASE Tick \/ UNCHANGED vars \/ \E p \in Procs : Fail(p)
  BY <1>4 DEF Tick, vars, Fail, archiveVars
<1>5. QED
  BY <1>1, <1>2, <1>3, <1>4 DEF Next

(* Typed is inductive.                                                     *)
LEMMA TypedStep ==
    ASSUME Typed, [Next]_vars
    PROVE  Typed'
<1>1. Plain'
  BY PlainStep DEF Typed, Plain
<1>2. Begun'
  <2>1. \A s \in archiving' : s \in Schedules
    BY <1>1 DEF Plain, TypeOK
  <2>2. \A s \in archiving' : sched[s].status # "none"
    BY ArchivesBegin DEF Typed, Begun
  <2>3. QED
    BY <2>1, <2>2, SchedulesLast DEF Begun, Typed, Plain
<1>3. QED
  BY <1>1, <1>2 DEF Typed, Plain

(* Every variable stays within its type.                                   *)
THEOREM TypeCorrect == Spec => []TypeOK
<1>1. Typed /\ [Next]_vars => Typed'
  BY TypedStep
<1>2. Typed => TypeOK
  BY DEF Typed
<1>3. QED
  BY <1>1, <1>2, InitTyped, PTL DEF Spec

-------------------------------------------------------------------------------
(* Every date is booked once *)

(* What every step but PostCommit does to an occurrence: it neither makes  *)
(* it posted nor takes that back, and its transaction is at most deleted.  *)
Keeps(row, new) ==
    /\ new.status = "posted" <=> row.status = "posted"
    /\ new.txn = row.txn \/ (row.txn = "booked" /\ new.txn = "deleted")

RowsKept ==
    /\ txns' = txns
    /\ \A s \in Schedules, d \in Dates : Keeps(occ[s][d], occ'[s][d])

(* Steps that keep the rows keep the book.                                 *)
LEMMA BookKept ==
    ASSUME TxnLinks, PostedExactlyOnce, RowsKept
    PROVE  TxnLinks' /\ PostedExactlyOnce'
  BY DEF TxnLinks, PostedExactlyOnce, RowsKept, Keeps

(* What a posting batch holds, every step but those of its owner leaves.   *)
LocksKept ==
    /\ locked' = locked
    /\ \A w \in Workers : locked[w] # {} => pc'[w] = pc[w]
    /\ \A w \in Workers, s \in Schedules, d \in Dates :
         <<s, d>> \in locked[w] =>
            /\ occ'[s][d].status = occ[s][d].status
            /\ d \notin held'[s]
            /\ sched'[s].status = "archived" => d \notin seen'[s]

LEMMA LocksStep ==
    ASSUME LocksHold, LocksKept
    PROVE  LocksHold'
<1>1. \A w, v \in Workers : w # v => locked'[w] \cap locked'[v] = {}
  BY DEF LocksHold, LocksKept
<1>2. ASSUME NEW w \in Workers, NEW s \in Schedules, NEW d \in Dates, <<s, d>> \in locked'[w]
      PROVE  /\ pc'[w] = "posting" /\ occ'[s][d].status = "planned" /\ d \notin held'[s]
             /\ sched'[s].status = "archived" => d \notin seen'[s]
  <2>1. <<s, d>> \in locked[w] /\ locked[w] # {}
    BY <1>2 DEF LocksKept
  <2>2. QED
    BY <2>1 DEF LocksHold, LocksKept
<1>3. QED
  BY <1>1, <1>2 DEF LocksHold

(* Only a replica that is posting holds a row.                             *)
LEMMA OnlyPostingHolds ==
    ASSUME TypeOK, LocksHold, NEW w \in Workers, locked[w] # {}
    PROVE  pc[w] = "posting"
<1>1. PICK s \in Schedules, d \in Dates : <<s, d>> \in locked[w]
  <2>1. PICK r : r \in locked[w]
    OBVIOUS
  <2>2. r \in Schedules \X Dates
    BY <2>1 DEF TypeOK, Procs
  <2>3. QED
    BY <2>1, <2>2
<1>2. QED
  BY <1>1 DEF LocksHold

(* No step but those of an archive gives it rows, or takes any from it.    *)
LEMMA ArchivesLast ==
    ASSUME ArchivesHold, archiveVars' = archiveVars,
           \A s \in Schedules :
              s \in archiving =>
                sched'[s].status = sched[s].status \/ sched'[s].status \in {"active", "paused"},
           \A s \in Schedules : \A d \in held[s] : occ'[s][d].status = occ[s][d].status
    PROVE  ArchivesHold'
  BY DEF ArchivesHold, archiveVars

(* The steps that touch neither occurrences nor make a schedule archived.  *)
LEMMA QuietStep ==
    ASSUME TypeOK, LocksHold, NEW p \in Procs,
           pc[p] # "posting" \/ p \in Clients,
           \A q \in Procs : q # p => pc'[q] = pc[q],
           locked' = locked, occ' = occ, txns' = txns, archiveVars' = archiveVars,
           ArchivesHold,
           \A s \in Schedules :
              sched'[s].status = sched[s].status \/ sched'[s].status \in {"active", "paused"}
    PROVE  LocksKept /\ RowsKept /\ ArchivesHold'
<1>1. ASSUME NEW w \in Workers, locked[w] # {} PROVE pc'[w] = pc[w]
  BY <1>1, OnlyPostingHolds DEF Procs
<1>2. ArchivesHold'
  BY ArchivesLast
<1>3. QED
  BY <1>1, <1>2 DEF LocksKept, RowsKept, Keeps, LocksHold, archiveVars

(* What skipping a row and deleting its transaction leave alone.           *)
LEMMA RowEffects ==
    ASSUME NEW row \in OccurrenceRow
    PROVE  /\ [row EXCEPT !.status = "skipped"].status = "skipped"
           /\ [row EXCEPT !.status = "skipped"].txn = row.txn
           /\ [row EXCEPT !.txn = "deleted"].status = row.status
           /\ [row EXCEPT !.txn = "deleted"].txn = "deleted"
  BY DEF OccurrenceRow

(* Every step but a commit of PostDue keeps the rows and the locks.        *)
LEMMA OtherSteps ==
    ASSUME IInv, [Next]_vars, ~ \E w \in Workers : PostCommit(w)
    PROVE  LocksHold' /\ ArchivesHold' /\ RowsKept
<1> USE DEF IInv
<1>1. ASSUME NEW p \in Procs, Materialize(p) PROVE LocksHold' /\ ArchivesHold' /\ RowsKept
  <2>1. PICK item \in todo[p] : Skip(p, item) \/ Upsert(p, item) \/ Mark(p, item)
    BY <1>1 DEF Materialize
  <2>2. item.id \in Schedules /\ item.def \in Definitions
    BY DEF TypeOK, Item
  <2>3. pc[p] = "materialize"
    BY <2>1 DEF Skip, Upsert, Mark
  <2>4. CASE Skip(p, item)
    BY <2>3, <2>4, QuietStep, LocksStep DEF Skip, TypeOK
  <2>5. CASE Upsert(p, item)
    <3> DEFINE New == DatesToInsert(item, LocalDate(item.def, now[p]))
    <3>1. \A s \in Schedules, d \in Dates :
            occ'[s][d] = IF s = item.id /\ d \in New
                         THEN InsertOrKeep(occ[s][d], item.def) ELSE occ[s][d]
      BY <2>2, <2>5 DEF Upsert, TypeOK
    <3>2. \A s \in Schedules, d \in Dates : Keeps(occ[s][d], occ'[s][d])
      BY <3>1 DEF InsertOrKeep, PlannedRow, Keeps, TxnLinks
    <3>3. \A s \in Schedules, d \in Dates :
            occ[s][d].status = "planned" => occ'[s][d].status = "planned"
      BY <3>1 DEF InsertOrKeep
    <3>4. LocksKept
      BY <2>5, <3>3 DEF LocksKept, LocksHold, Upsert, archiveVars
    <3>5. ArchivesHold'
      <4>1. \A s \in Schedules : \A d \in held[s] : occ'[s][d].status = occ[s][d].status
        BY <3>3 DEF ArchivesHold, TypeOK
      <4>2. QED
        BY <2>5, <4>1, ArchivesLast DEF Upsert
    <3>6. QED
      BY <2>5, <3>2, <3>4, <3>5, LocksStep DEF RowsKept, Upsert
  <2>6. CASE Mark(p, item)
    <3>1. \A s \in Schedules : sched'[s].status = sched[s].status
      BY <2>2, <2>6 DEF Mark, TypeOK, ScheduleRow
    <3>2. QED
      BY <2>3, <2>6, <3>1, QuietStep, LocksStep DEF Mark, TypeOK
  <2>7. QED
    BY <2>1, <2>4, <2>5, <2>6
<1>2. ASSUME NEW w \in Workers, ListActive(w) PROVE LocksHold' /\ ArchivesHold' /\ RowsKept
  BY <1>2, QuietStep, LocksStep DEF ListActive, TypeOK, Procs
<1>3. ASSUME NEW w \in Workers, PostSelect(w) PROVE LocksHold' /\ ArchivesHold' /\ RowsKept
  <2>1. PICK batch \in Oldest(Free(Due(TRUE, now[w])), PostLimit) :
          locked' = [locked EXCEPT ![w] = batch]
    BY <1>3 DEF PostSelect
  <2>2. batch \subseteq Free(Due(TRUE, now[w]))
    BY OldestSubset
  <2>3. ASSUME NEW s \in Schedules, NEW d \in Dates, <<s, d>> \in batch
        PROVE  occ[s][d].status = "planned" /\ sched[s].status = "active"
    BY <2>2, <2>3 DEF Free, Due
  <2>4. \A v \in Workers : locked[v] \cap batch = {}
    BY <2>2 DEF Free
  <2>10. \A s \in Schedules, d \in Dates : <<s, d>> \in batch => d \notin held[s]
    BY <2>2 DEF Free
  <2>5. \A v \in Workers : locked'[v] = IF v = w THEN batch ELSE locked[v]
    BY <2>1 DEF TypeOK, Procs
  <2>6. \A v \in Workers : pc'[v] = IF v = w THEN "posting" ELSE pc[v]
    BY <1>3 DEF PostSelect, TypeOK, Procs
  <2>7. occ' = occ /\ sched' = sched /\ txns' = txns /\ archiveVars' = archiveVars
    BY <1>3 DEF PostSelect
  <2>8. LocksHold'
    BY <2>3, <2>4, <2>5, <2>6, <2>7, <2>10 DEF LocksHold, archiveVars
  <2>9. ArchivesHold'
    BY <1>3, <2>7, ArchivesLast DEF PostSelect
  <2>11. QED
    BY <2>7, <2>8, <2>9 DEF RowsKept, Keeps
<1>4. ASSUME NEW w \in Workers, QueueReminders(w) PROVE LocksHold' /\ ArchivesHold' /\ RowsKept
  <2>1. PICK batch \in Oldest(Due(FALSE, now[w]), RemindLimit) :
         occ' = [s \in Schedules |-> [d \in Dates |->
                   IF wanted /\ <<s, d>> \in batch
                   THEN [occ[s][d] EXCEPT !.events = @ \cup {"due"}] ELSE occ[s][d]]]
    BY <1>4 DEF QueueReminders
  <2>2. \A s \in Schedules, d \in Dates :
          occ'[s][d].status = occ[s][d].status /\ occ'[s][d].txn = occ[s][d].txn
    BY <2>1 DEF TypeOK, OccurrenceRow
  <2>3. pc[w] = "remind" /\ locked[w] = {}
    BY <1>4, OnlyPostingHolds DEF QueueReminders
  <2>4. LocksKept
    BY <1>4, <2>2, <2>3 DEF LocksKept, LocksHold, QueueReminders, TypeOK, Procs, archiveVars
  <2>5. ArchivesHold'
    <3>1. \A s \in Schedules : \A d \in held[s] : occ'[s][d].status = occ[s][d].status
      BY <2>2 DEF TypeOK
    <3>2. QED
      BY <1>4, <3>1, ArchivesLast DEF QueueReminders
  <2>6. QED
    BY <1>4, <2>2, <2>4, <2>5, LocksStep DEF RowsKept, Keeps, QueueReminders
<1>5. ASSUME NEW c \in Clients, Request(c) PROVE LocksHold' /\ ArchivesHold' /\ RowsKept
  <2>1. ASSUME NEW s \in Schedules, NEW d \in Definitions, Create(c, s, d)
        PROVE  LocksHold' /\ ArchivesHold' /\ RowsKept
    BY <2>1, QuietStep, LocksStep DEF Create, TypeOK, ScheduleRow, Procs
  <2>2. ASSUME NEW s \in Schedules, NEW d \in Definitions, BeginUpdate(c, s, d)
        PROVE  LocksHold' /\ ArchivesHold' /\ RowsKept
    BY <2>2, QuietStep, LocksStep DEF BeginUpdate, TypeOK, Procs
  <2>3. ASSUME NEW s \in Schedules, NEW target, BeginSetStatus(c, s, target)
        PROVE  LocksHold' /\ ArchivesHold' /\ RowsKept
    BY <2>3, QuietStep, LocksStep DEF BeginSetStatus, TypeOK, Procs
  <2>4. ASSUME NEW s \in Schedules, NEW d \in Dates, DeleteTransaction(c, s, d)
        PROVE  LocksHold' /\ ArchivesHold' /\ RowsKept
    <3>1. \A t \in Schedules, e \in Dates :
            occ'[t][e] = IF t = s /\ e = d
                         THEN [occ[t][e] EXCEPT !.txn = "deleted"] ELSE occ[t][e]
      BY <2>4 DEF DeleteTransaction, TypeOK
    <3>2. \A t \in Schedules, e \in Dates : occ'[t][e].status = occ[t][e].status
      <4>1. ASSUME NEW t \in Schedules, NEW e \in Dates PROVE occ'[t][e].status = occ[t][e].status
        <5>1. occ[t][e] \in OccurrenceRow
          BY DEF TypeOK
        <5>2. QED
          BY ZenonT(30), <3>1, <5>1, RowEffects
      <4>2. QED
        BY <4>1
    <3>3. \A t \in Schedules, e \in Dates : Keeps(occ[t][e], occ'[t][e])
      BY <2>4, <3>1, <3>2 DEF Keeps, DeleteTransaction, TypeOK, OccurrenceRow
    <3>4. LocksKept
      BY <2>4, <3>2 DEF LocksKept, LocksHold, DeleteTransaction, archiveVars
    <3>5. ArchivesHold'
      <4>1. \A t \in Schedules : \A e \in held[t] : occ'[t][e].status = occ[t][e].status
        BY <3>2 DEF TypeOK
      <4>2. QED
        BY <2>4, <4>1, ArchivesLast DEF DeleteTransaction
    <3>6. QED
      BY <2>4, <3>3, <3>4, <3>5, LocksStep DEF RowsKept, DeleteTransaction
  <2>5. CASE SetPreference(c)
    BY <2>5, LocksStep, ArchivesLast DEF archiveVars, SetPreference, LocksKept, LocksHold, RowsKept, Keeps
  <2>6. QED
    BY <1>5, <2>1, <2>2, <2>3, <2>4, <2>5 DEF Request
<1>6. ASSUME NEW c \in Clients, CommitUpdate(c) PROVE LocksHold' /\ ArchivesHold' /\ RowsKept
  <2>1. PICK item \in todo[c] :
          /\ \A w \in Workers, d \in {e \in Dates : Replaceable(occ[item.id][e], e, LocalDate(item.def, now[c]))} :
               <<item.id, d>> \notin locked[w]
          /\ sched' = [sched EXCEPT ![item.id] = [@ EXCEPT !.def = item.def, !.mt = item.mt]]
          /\ occ' = [occ EXCEPT ![item.id] = [d \in Dates |->
                IF d \in {e \in Dates : Replaceable(occ[item.id][e], e, LocalDate(item.def, now[c]))}
                THEN NoRow ELSE @[d]]]
          /\ pc' = [pc EXCEPT ![c] = "materialize"] \/ pc' = [pc EXCEPT ![c] = "idle"]
          /\ item.id \notin archiving
    BY <1>6 DEF CommitUpdate, Finish
  <2>2. item.id \in Schedules
    BY DEF TypeOK, Item, Procs
  <2>3. \A s \in Schedules, d \in Dates :
          occ'[s][d] = IF s = item.id /\ Replaceable(occ[s][d], d, LocalDate(item.def, now[c]))
                       THEN NoRow ELSE occ[s][d]
    BY <2>1, <2>2 DEF TypeOK
  <2>4. \A s \in Schedules, d \in Dates : Keeps(occ[s][d], occ'[s][d])
    BY <2>3 DEF Keeps, Replaceable, NoRow, TxnLinks
  <2>5. \A s \in Schedules : sched'[s].status = sched[s].status
    BY <2>1, <2>2 DEF TypeOK, ScheduleRow
  <2>6. \A w \in Workers : pc'[w] = pc[w]
    BY <2>1 DEF TypeOK, Procs
  <2>7. locked' = locked /\ txns' = txns
    BY <1>6 DEF CommitUpdate
  <2>8. ASSUME NEW w \in Workers, NEW s \in Schedules, NEW d \in Dates, <<s, d>> \in locked[w]
        PROVE  occ'[s][d] = occ[s][d]
    BY <2>1, <2>3, <2>8
  <2>9. LocksKept
    BY <1>6, <2>5, <2>6, <2>7, <2>8 DEF LocksKept, LocksHold, CommitUpdate, archiveVars
  <2>11. ArchivesHold'
    <3>1. ASSUME NEW s \in Schedules, NEW d \in held[s] PROVE occ'[s][d].status = occ[s][d].status
      BY <2>1, <2>3 DEF ArchivesHold, TypeOK
    <3>2. QED
      BY <1>6, <2>5, <3>1, ArchivesLast DEF CommitUpdate
  <2>10. QED
    BY <2>4, <2>7, <2>9, <2>11, LocksStep DEF RowsKept
<1>7. ASSUME NEW c \in Clients, CommitPause(c) \/ CommitResume(c) PROVE LocksHold' /\ ArchivesHold' /\ RowsKept
  <2>1. PICK item \in todo[c], status \in {"active", "paused"} :
          sched' = [sched EXCEPT ![item.id].status = status]
    BY <1>7 DEF CommitPause, CommitResume
  <2>2. \A s \in Schedules :
          sched'[s].status = sched[s].status \/ sched'[s].status \in {"active", "paused"}
    BY <2>1 DEF TypeOK, ScheduleRow
  <2>3. QED
    BY <1>7, <2>2, QuietStep, LocksStep DEF CommitPause, CommitResume, Finish, TypeOK, Procs
<1>8. ASSUME NEW c \in Clients, NotFound(c) PROVE LocksHold' /\ ArchivesHold' /\ RowsKept
  BY <1>8, QuietStep, LocksStep DEF NotFound, Finish, TypeOK, Procs
<1>9. ASSUME NEW p \in Procs, Fail(p) PROVE LocksHold' /\ ArchivesHold' /\ RowsKept
  <2>1. \A v \in Workers : locked'[v] = IF v = p THEN {} ELSE locked[v]
    BY <1>9 DEF Fail, TypeOK, Procs
  <2>2. \A v \in Workers : v # p => pc'[v] = pc[v]
    BY <1>9 DEF Fail, TypeOK, Procs
  <2>3. LocksHold'
    BY <1>9, <2>1, <2>2 DEF Fail, LocksHold, archiveVars
  <2>5. ArchivesHold'
    BY <1>9, ArchivesLast DEF Fail
  <2>4. QED
    BY <1>9, <2>3, <2>5 DEF Fail, RowsKept, Keeps
<1>10. CASE Tick
  BY <1>10, LocksStep, ArchivesLast DEF archiveVars, Tick, LocksKept, LocksHold, RowsKept, Keeps
<1>11. CASE UNCHANGED vars
  BY <1>11, LocksStep, ArchivesLast DEF archiveVars, vars, LocksKept, LocksHold, RowsKept, Keeps
<1>12. ASSUME NEW s \in Schedules, ArchiveCommit(s)
       PROVE  LocksHold' /\ ArchivesHold' /\ RowsKept
  <2>1. \A t \in Schedules, d \in Dates :
          occ'[t][d] = IF t = s /\ d \in held[s]
                       THEN [occ[t][d] EXCEPT !.status = "skipped"] ELSE occ[t][d]
    BY <1>12 DEF ArchiveCommit, TypeOK
  <2>2. \A t \in Schedules, d \in Dates : Keeps(occ[t][d], occ'[t][d])
    <3>1. ASSUME NEW t \in Schedules, NEW d \in Dates PROVE Keeps(occ[t][d], occ'[t][d])
      <4>1. occ[t][d] \in OccurrenceRow
        BY DEF TypeOK
      <4>2. t = s /\ d \in held[s] => occ[t][d].status = "planned"
        BY DEF ArchivesHold
      <4>3. QED
        BY ZenonT(30), <2>1, <4>1, <4>2, RowEffects DEF Keeps
    <3>2. QED
      BY <3>1
  <2>3. \A w \in Workers, d \in Dates : <<s, d>> \in locked[w] => d \notin held[s] /\ d \notin seen[s]
    BY <1>12 DEF ArchiveCommit, Settled, LocksHold
  <2>4. \A t \in Schedules : t # s => sched'[t] = sched[t] /\ held'[t] = held[t]
    BY <1>12 DEF ArchiveCommit, TypeOK
  <2>5. held'[s] = {} /\ seen' = seen /\ locked' = locked /\ pc' = pc /\ txns' = txns
        /\ archiving' = archiving \ {s}
    BY <1>12 DEF ArchiveCommit, TypeOK
  <2>6. LocksKept
    <3>1. ASSUME NEW w \in Workers, NEW t \in Schedules, NEW d \in Dates, <<t, d>> \in locked[w]
          PROVE  /\ occ'[t][d].status = occ[t][d].status /\ d \notin held'[t]
                 /\ sched'[t].status = "archived" => d \notin seen'[t]
      <4>1. occ'[t][d].status = occ[t][d].status
        BY <2>1, <2>3, <3>1
      <4>2. CASE t = s
        BY <2>3, <2>5, <3>1, <4>1, <4>2
      <4>3. CASE t # s
        BY <2>4, <2>5, <3>1, <4>1, <4>3 DEF LocksHold
      <4>4. QED
        BY <4>2, <4>3
    <3>2. QED
      BY <2>5, <3>1 DEF LocksKept
  <2>7. ArchivesHold'
    <3>1. ASSUME NEW t \in Schedules, t # s
          PROVE  /\ t \in archiving' => sched'[t].status \in {"active", "paused"}
                 /\ t \notin archiving' => held'[t] = {}
                 /\ \A d \in held'[t] : occ'[t][d].status = "planned"
      <4>1. \A d \in held[t] : d \in Dates
        BY DEF TypeOK
      <4>2. \A d \in held'[t] : occ'[t][d] = occ[t][d]
        BY <2>1, <2>4, <3>1, <4>1
      <4>3. t \in archiving' <=> t \in archiving
        BY <2>5, <3>1
      <4>4. QED
        BY <2>4, <3>1, <4>2, <4>3 DEF ArchivesHold
    <3>2. /\ s \in archiving' => sched'[s].status \in {"active", "paused"}
          /\ s \notin archiving' => held'[s] = {}
          /\ \A d \in held'[s] : occ'[s][d].status = "planned"
      BY <2>5
    <3>3. QED
      BY <3>1, <3>2 DEF ArchivesHold
  <2>8. QED
    BY <2>2, <2>5, <2>6, <2>7, LocksStep DEF RowsKept
<1>14. ASSUME NEW s \in Schedules, ArchiveBegin(s) \/ ArchiveSkip(s) \/ ArchiveFails(s)
       PROVE  LocksHold' /\ ArchivesHold' /\ RowsKept
  <2>1. UNCHANGED <<occ, txns, sched, locked, pc>>
    BY <1>14 DEF ArchiveBegin, ArchiveSkip, ArchiveFails
  <2>2. \A t \in Schedules : t # s =>
          held'[t] = held[t] /\ seen'[t] = seen[t] /\ (t \in archiving' <=> t \in archiving)
    <3>1. CASE ArchiveBegin(s)
      BY <3>1 DEF ArchiveBegin, TypeOK
    <3>2. CASE ArchiveSkip(s)
      <4>1. PICK d \in seen[s] : held' = [held EXCEPT ![s] = @ \cup {d}]
        BY <3>2 DEF ArchiveSkip
      <4>2. QED
        BY <3>2, <4>1 DEF ArchiveSkip, TypeOK
    <3>3. CASE ArchiveFails(s)
      BY <3>3 DEF ArchiveFails, TypeOK
    <3>4. QED
      BY <1>14, <3>1, <3>2, <3>3
  <2>3. sched[s].status \in {"active", "paused"}
    BY <1>14 DEF ArchiveBegin, ArchiveSkip, ArchiveFails, ArchivesHold
  <2>4. /\ s \notin archiving' => held'[s] = {}
        /\ \A d \in held'[s] : d \in Dates /\ occ[s][d].status = "planned"
        /\ \A w \in Workers, d \in held'[s] : <<s, d>> \notin locked[w]
    <3>1. CASE ArchiveBegin(s)
      BY <3>1 DEF ArchiveBegin, ArchivesHold, TypeOK
    <3>2. CASE ArchiveSkip(s)
      <4>1. PICK d \in seen[s] :
              /\ occ[s][d].status = "planned" /\ \A w \in Workers : <<s, d>> \notin locked[w]
              /\ held' = [held EXCEPT ![s] = @ \cup {d}]
        BY <3>2 DEF ArchiveSkip
      <4>2. held'[s] = held[s] \cup {d} /\ s \in archiving' /\ d \in Dates /\ held[s] \subseteq Dates
        BY <3>2, <4>1 DEF ArchiveSkip, TypeOK
      <4>3. \A w \in Workers, e \in held[s] : <<s, e>> \notin locked[w]
        BY <4>2 DEF LocksHold
      <4>4. QED
        BY <4>1, <4>2, <4>3 DEF ArchivesHold
    <3>3. CASE ArchiveFails(s)
      BY <3>3 DEF ArchiveFails, TypeOK
    <3>4. QED
      BY <1>14, <3>1, <3>2, <3>3
  <2>5. LocksKept
    <3>1. ASSUME NEW w \in Workers, NEW t \in Schedules, NEW d \in Dates, <<t, d>> \in locked[w]
          PROVE  /\ d \notin held'[t]
                 /\ sched'[t].status = "archived" => d \notin seen'[t]
      BY <2>1, <2>2, <2>3, <2>4, <3>1 DEF LocksHold
    <3>2. QED
      BY <2>1, <3>1 DEF LocksKept
  <2>6. ArchivesHold'
    BY <2>1, <2>2, <2>3, <2>4 DEF ArchivesHold
  <2>7. QED
    BY <2>1, <2>5, <2>6, LocksStep DEF RowsKept, Keeps
<1> HIDE DEF IInv
<1>13. QED
  BY <1>1, <1>2, <1>3, <1>4, <1>5, <1>6, <1>7, <1>8, <1>9, <1>10, <1>11, <1>12, <1>14
     DEF Next, WorkerStep, RequestStep, ArchiveStep, Procs

(* A commit of PostDue posts what it holds: planned rows, never booked     *)
(* before.                                                                 *)
LEMMA CommitStep ==
    ASSUME IInv, NEW w \in Workers, PostCommit(w)
    PROVE  /\ LocksHold' /\ ArchivesHold' /\ TxnLinks' /\ PostedExactlyOnce'
           /\ \A s \in Schedules, d \in Dates :
                occ[s][d].txn = "deleted" => occ'[s][d].txn = "deleted"
<1> USE DEF IInv
<1>1. \A s \in Schedules, d \in Dates :
        <<s, d>> \in locked[w] =>
          /\ occ[s][d].status = "planned" /\ occ[s][d].txn = "none" /\ txns[s][d] = 0
          /\ occ'[s][d].status = "posted" /\ occ'[s][d].txn = "booked" /\ txns'[s][d] = 1
  <2>1. ASSUME NEW s \in Schedules, NEW d \in Dates, <<s, d>> \in locked[w]
        PROVE  /\ occ[s][d].status = "planned" /\ occ[s][d].txn = "none" /\ txns[s][d] = 0
               /\ occ'[s][d].status = "posted" /\ occ'[s][d].txn = "booked" /\ txns'[s][d] = 1
    <3>1. occ[s][d].status = "planned" /\ occ[s][d].txn = "none" /\ txns[s][d] = 0
      BY <2>1 DEF LocksHold, TxnLinks, PostedExactlyOnce
    <3>2. txns'[s][d] = 1
      BY <2>1, <3>1 DEF PostCommit, Inserts
    <3>3. occ[s][d] \in OccurrenceRow /\ occ'[s][d] = Posted(occ[s][d])
      BY <2>1 DEF PostCommit, TypeOK
    <3>4. occ'[s][d].status = "posted" /\ occ'[s][d].txn = "booked"
      BY <3>3 DEF Posted, OccurrenceRow
    <3>5. QED
      BY <3>1, <3>2, <3>4
  <2>2. QED
    BY <2>1
<1>2. \A s \in Schedules, d \in Dates :
        <<s, d>> \notin locked[w] => occ'[s][d] = occ[s][d] /\ txns'[s][d] = txns[s][d]
  BY DEF PostCommit
<1>3. TxnLinks' /\ PostedExactlyOnce'
  <2>1. ASSUME NEW s \in Schedules, NEW d \in Dates
        PROVE  /\ occ'[s][d].status # "posted" => occ'[s][d].txn = "none"
               /\ txns'[s][d] = IF occ'[s][d].status = "posted" THEN 1 ELSE 0
    <3>1. CASE <<s, d>> \in locked[w]
      BY <1>1, <3>1
    <3>2. CASE <<s, d>> \notin locked[w]
      BY <1>2, <3>2 DEF TxnLinks, PostedExactlyOnce
    <3>3. QED
      BY <3>1, <3>2
  <2>2. QED
    BY <2>1 DEF TxnLinks, PostedExactlyOnce
<1>4. LocksHold'
  <2>1. \A v \in Workers : locked'[v] = IF v = w THEN {} ELSE locked[v]
    BY DEF PostCommit, TypeOK, Procs
  <2>2. \A v \in Workers : v # w => pc'[v] = pc[v]
    BY DEF PostCommit, TypeOK, Procs
  <2>3. \A v \in Workers, s \in Schedules, d \in Dates :
          v # w /\ <<s, d>> \in locked[v] => occ'[s][d] = occ[s][d]
    BY <1>2 DEF LocksHold
  <2>4. sched' = sched /\ archiveVars' = archiveVars
    BY DEF PostCommit
  <2>5. QED
    BY <2>1, <2>2, <2>3, <2>4 DEF LocksHold, archiveVars
<1>5. ASSUME NEW s \in Schedules, NEW d \in Dates, occ[s][d].txn = "deleted"
      PROVE  occ'[s][d].txn = "deleted"
  <2>1. <<s, d>> \notin locked[w]
    BY <1>1, <1>5
  <2>2. QED
    BY <1>2, <1>5, <2>1
<1>6. ArchivesHold'
  <2>1. \A s \in Schedules : \A d \in held[s] : <<s, d>> \notin locked[w] /\ d \in Dates
    BY DEF LocksHold, TypeOK
  <2>2. \A s \in Schedules : \A d \in held[s] : occ'[s][d].status = occ[s][d].status
    BY <1>2, <2>1
  <2>3. QED
    BY <2>2, ArchivesLast DEF PostCommit
<1>7. QED
  BY <1>3, <1>4, <1>5, <1>6

LEMMA InductiveStep == IInv /\ [Next]_vars => IInv'
<1> SUFFICES ASSUME IInv, [Next]_vars PROVE IInv'
  OBVIOUS
<1>1. TypeOK' /\ Defined' /\ Known'
  BY TypedStep DEF Typed, IInv, Begun, ArchivesHold, TypeOK
<1>2. CASE \E w \in Workers : PostCommit(w)
  BY <1>1, <1>2, CommitStep DEF IInv
<1>3. CASE ~ \E w \in Workers : PostCommit(w)
  BY <1>1, <1>3, OtherSteps, BookKept DEF IInv
<1>4. QED
  BY <1>2, <1>3

LEMMA InductiveInit == Init => IInv
  BY InitTyped DEF Init, IInv, Typed, LocksHold, ArchivesHold, TxnLinks, PostedExactlyOnce, NoRow, Procs

THEOREM Inductive == Spec => []IInv
  BY InductiveInit, InductiveStep, PTL DEF Spec

(* No date of a schedule is ever booked twice or lost once it was posted.  *)
THEOREM PostedOnce == Spec => []PostedExactlyOnce
<1>1. IInv => PostedExactlyOnce
  BY DEF IInv
<1>2. QED
  BY <1>1, Inductive, PTL

(* What a posting batch holds is planned and its alone, and no archive has *)
(* come to it: if its schedule was archived meanwhile, the row was         *)
(* inserted after the archive had looked which ones to skip.               *)
THEOREM LocksProtect == Spec => []LocksHold
<1>1. IInv => LocksHold
  BY DEF IInv
<1>2. QED
  BY <1>1, Inductive, PTL

(* A scheduled transaction the user deleted stays deleted.                 *)
THEOREM DeletionFinal == Spec => DeletedStaysDeleted
<1>1. ASSUME IInv, [Next]_vars
      PROVE  \A s \in Schedules, d \in Dates :
               occ[s][d].txn = "deleted" => occ'[s][d].txn = "deleted"
  <2>1. CASE \E w \in Workers : PostCommit(w)
    BY <1>1, <2>1, CommitStep
  <2>2. CASE ~ \E w \in Workers : PostCommit(w)
    BY <1>1, <2>2, OtherSteps DEF RowsKept, Keeps
  <2>3. QED
    BY <2>1, <2>2
<1>2. IInv /\ [Next]_vars =>
        [\A s \in Schedules, d \in Dates :
           occ[s][d].txn = "deleted" => occ'[s][d].txn = "deleted"]_vars
  BY <1>1
<1>3. QED
  BY <1>2, Inductive, PTL DEF Spec, DeletedStaysDeleted

-------------------------------------------------------------------------------
(* The replicas and requests implement the ledger *)

SameStanding == \A s \in Schedules : Standing'[s] = Standing[s]

(* Pausing, resuming, editing and marking leave a schedule open.           *)
LEMMA OpenStaysOpen ==
    ASSUME IInv, [Next]_vars,
           ~ \E s \in Schedules : ArchiveCommit(s),
           ~ \E c \in Clients, s \in Schedules, d \in Definitions : Create(c, s, d)
    PROVE  SameStanding
<1> USE DEF IInv
<1>1. ASSUME \A s \in Schedules :
               \/ sched'[s].status = sched[s].status
               \/ sched[s].status \in {"active", "paused"} /\ sched'[s].status \in {"active", "paused"}
      PROVE  SameStanding
  BY <1>1 DEF SameStanding, Standing
<1>2. CASE sched' = sched
  BY <1>1, <1>2
<1>3. ASSUME NEW p \in Procs, NEW item \in todo[p], Mark(p, item) PROVE SameStanding
  <2>1. item.id \in Schedules
    BY DEF TypeOK, Item
  <2>2. \A s \in Schedules : sched'[s].status = sched[s].status
    BY <1>3, <2>1 DEF Mark, TypeOK, ScheduleRow
  <2>3. QED
    BY <1>1, <2>2
<1>4. ASSUME NEW c \in Clients, CommitUpdate(c) PROVE SameStanding
  <2>1. PICK item \in todo[c] :
          sched' = [sched EXCEPT ![item.id] = [@ EXCEPT !.def = item.def, !.mt = item.mt]]
    BY <1>4 DEF CommitUpdate
  <2>2. \A s \in Schedules : sched'[s].status = sched[s].status
    BY <2>1 DEF TypeOK, ScheduleRow
  <2>3. QED
    BY <1>1, <2>2
<1>5. ASSUME NEW c \in Clients, CommitPause(c) \/ CommitResume(c) PROVE SameStanding
  <2>1. PICK item \in todo[c], status \in {"active", "paused"} :
          /\ sched[item.id].status # "archived"
          /\ sched' = [sched EXCEPT ![item.id].status = status]
    BY <1>5 DEF CommitPause, CommitResume
  <2>2. item.id \in Schedules /\ sched[item.id].status \in {"active", "paused"}
    BY <2>1 DEF TypeOK, Item, Known, ScheduleRow, Procs
  <2>3. \A s \in Schedules :
          \/ sched'[s].status = sched[s].status
          \/ sched[s].status \in {"active", "paused"} /\ sched'[s].status \in {"active", "paused"}
    BY <2>1, <2>2 DEF TypeOK, ScheduleRow
  <2>4. QED
    BY <1>1, <2>3
<1>6. ASSUME NEW w \in Workers, WorkerStep(w), ~ Materialize(w) PROVE SameStanding
  BY <1>2, <1>6 DEF WorkerStep, ListActive, PostSelect, PostCommit, QueueReminders
<1>7. ASSUME NEW p \in Procs, Materialize(p) PROVE SameStanding
  BY <1>2, <1>3, <1>7 DEF Materialize, Skip, Upsert
<1>8. ASSUME NEW c \in Clients, Request(c) PROVE SameStanding
  BY <1>2, <1>8 DEF Request, BeginUpdate, BeginSetStatus, DeleteTransaction, SetPreference
<1>9. ASSUME NEW c \in Clients, RequestStep(c), ~ Materialize(c) PROVE SameStanding
  BY <1>2, <1>4, <1>5, <1>9 DEF RequestStep, NotFound
<1>10. CASE Tick \/ UNCHANGED vars \/ \E p \in Procs : Fail(p)
  BY <1>2, <1>10 DEF Tick, vars, Fail
<1>12. ASSUME NEW s \in Schedules, ArchiveBegin(s) \/ ArchiveSkip(s) \/ ArchiveFails(s)
       PROVE  SameStanding
  BY <1>2, <1>12 DEF ArchiveBegin, ArchiveSkip, ArchiveFails
<1> HIDE DEF IInv
<1>11. QED
  BY <1>6, <1>7, <1>8, <1>9, <1>10, <1>12 DEF Next, ArchiveStep, Procs

(* Only the beginning and the failure of an archive change what it saw.    *)
LEMMA SeenStays ==
    ASSUME [Next]_vars, ~ \E r \in Schedules : ArchiveBegin(r) \/ ArchiveFails(r)
    PROVE  seen' = seen
<1>1. ASSUME NEW c \in Clients, Request(c) \/ RequestStep(c) PROVE seen' = seen
  BY <1>1 DEF Request, RequestStep, Materialize, Skip, Upsert, Mark, Create, BeginUpdate,
              BeginSetStatus, DeleteTransaction, SetPreference, CommitUpdate, CommitPause,
              CommitResume, NotFound, archiveVars
<1>2. ASSUME NEW w \in Workers, WorkerStep(w) PROVE seen' = seen
  BY <1>2 DEF WorkerStep, Materialize, Skip, Upsert, Mark, ListActive, PostSelect, PostCommit,
              QueueReminders, archiveVars
<1>3. ASSUME NEW s \in Schedules, ArchiveStep(s) PROVE seen' = seen
  BY <1>3 DEF ArchiveStep, ArchiveSkip, ArchiveCommit
<1>4. CASE Tick \/ UNCHANGED vars \/ \E p \in Procs : Fail(p)
  BY <1>4 DEF Tick, vars, Fail, archiveVars
<1>5. QED
  BY <1>1, <1>2, <1>3, <1>4 DEF Next

(* What was struck off stays so: no archive begins or fails once one has   *)
(* been committed.                                                         *)
LEMMA StruckStays ==
    ASSUME IInv, [Next]_vars, ~ \E s \in Schedules : ArchiveCommit(s), SameStanding
    PROVE  Struck' = Struck
<1>1. ASSUME NEW s \in Schedules, sched[s].status = "archived" PROVE seen'[s] = seen[s]
  <2>1. ASSUME NEW r \in Schedules, ArchiveBegin(r) \/ ArchiveFails(r) PROVE seen'[s] = seen[s]
    <3>1. r # s
      BY <1>1, <2>1 DEF ArchiveBegin, ArchiveFails, IInv, ArchivesHold
    <3>2. QED
      BY <2>1, <3>1 DEF ArchiveBegin, ArchiveFails, IInv, TypeOK
  <2>2. ASSUME ~ \E r \in Schedules : ArchiveBegin(r) \/ ArchiveFails(r) PROVE seen' = seen
    BY <2>2, SeenStays
  <2>3. QED
    BY <2>1, <2>2
<1>2. \A s \in Schedules : (sched'[s].status = "archived") <=> (sched[s].status = "archived")
  <2>1. ASSUME NEW s \in Schedules
        PROVE  (sched'[s].status = "archived") <=> (sched[s].status = "archived")
    <3>1. Standing'[s] = Standing[s]
      BY DEF SameStanding
    <3>2. (Standing[s] = "closed") <=> (sched[s].status = "archived")
      BY DEF Standing
    <3>3. (Standing'[s] = "closed") <=> (sched'[s].status = "archived")
      BY DEF Standing
    <3>4. QED
      BY <3>1, <3>2, <3>3
  <2>2. QED
    BY <2>1
<1>3. QED
  BY <1>1, <1>2 DEF Struck

(* Steps of replicas and requests other than these three change no lock.   *)
LEMMA TakenStays ==
    ASSUME [Next]_vars,
           ~ \E w \in Workers : PostSelect(w) \/ PostCommit(w),
           ~ \E p \in Procs : Fail(p)
    PROVE  locked' = locked
<1>1. ASSUME NEW c \in Clients, Request(c) \/ RequestStep(c) PROVE locked' = locked
  BY <1>1 DEF Request, RequestStep, Materialize, Skip, Upsert, Mark, Create, BeginUpdate,
              BeginSetStatus, DeleteTransaction, SetPreference, CommitUpdate, CommitPause,
              CommitResume, NotFound
<1>2. ASSUME NEW w \in Workers, WorkerStep(w) PROVE locked' = locked
  BY <1>2 DEF WorkerStep, Materialize, Skip, Upsert, Mark, ListActive, QueueReminders
<1>3. ASSUME NEW s \in Schedules, ArchiveBegin(s) \/ ArchiveStep(s) \/ ArchiveFails(s)
      PROVE  locked' = locked
  BY <1>3 DEF ArchiveBegin, ArchiveStep, ArchiveSkip, ArchiveCommit, ArchiveFails
<1>4. CASE Tick \/ UNCHANGED vars
  BY <1>4 DEF Tick, vars
<1>5. QED
  BY <1>1, <1>2, <1>3, <1>4 DEF Next

(* Every step is a step of the ledger or none.                             *)
LEMMA LedgerStep ==
    ASSUME IInv, [Next]_vars
    PROVE  [Ledger!LedgerNext]_(Ledger!ledgerVars)
<1>1. ASSUME NEW w \in Workers, PostCommit(w) PROVE Ledger!Book
  <2>1. /\ UNCHANGED <<Standing, Struck>>
        /\ locked' = [locked EXCEPT ![w] = {}]
        /\ locked[w] \subseteq Schedules \X Dates
        /\ \A v \in Workers : v # w => locked[v] \cap locked[w] = {}
    BY <1>1 DEF PostCommit, Standing, Struck, IInv, TypeOK, LocksHold, Procs, archiveVars
  <2>2. Taken' \subseteq Taken /\ Taken \ Taken' = locked[w]
    <3>1. \A v \in Workers : locked'[v] = IF v = w THEN {} ELSE locked[v]
      BY <2>1 DEF IInv, TypeOK, Procs
    <3>2. QED
      BY <2>1, <3>1 DEF Taken
  <2>3. ASSUME NEW r \in locked[w]
        PROVE  /\ r[2] \notin Struck[r[1]] /\ txns[r[1]][r[2]] = 0
               /\ Inserts(occ[r[1]][r[2]])
    <3>1. PICK s \in Schedules, d \in Dates : r = <<s, d>>
      BY <2>1
    <3>2. sched[s].status = "archived" => d \notin seen[s]
      BY <3>1 DEF IInv, LocksHold
    <3>3. txns[s][d] = 0 /\ Inserts(occ[s][d])
      BY <3>1 DEF IInv, LocksHold, PostedExactlyOnce, TxnLinks, Inserts
    <3>4. QED
      BY <3>1, <3>2, <3>3 DEF Struck
  <2>4. txns' = [s \in Schedules |-> [d \in Dates |->
                   IF <<s, d>> \in Taken \ Taken' THEN 1 ELSE txns[s][d]]]
    <3>1. \A s \in Schedules, d \in Dates :
            (IF <<s, d>> \in locked[w] /\ Inserts(occ[s][d])
             THEN txns[s][d] + 1 ELSE txns[s][d])
            = IF <<s, d>> \in locked[w] THEN 1 ELSE txns[s][d]
      <4>1. ASSUME NEW s \in Schedules, NEW d \in Dates, <<s, d>> \in locked[w]
            PROVE  Inserts(occ[s][d]) /\ txns[s][d] + 1 = 1
        BY <2>3, <4>1
      <4>2. QED
        BY <4>1
    <3>2. QED
      BY <1>1, <2>2, <3>1 DEF PostCommit
  <2>5. QED
    BY <2>1, <2>2, <2>3, <2>4 DEF Ledger!Book
<1>2. ASSUME NEW w \in Workers, PostSelect(w) PROVE Ledger!Take
  <2>1. PICK batch \in Oldest(Free(Due(TRUE, now[w])), PostLimit) :
          locked' = [locked EXCEPT ![w] = batch]
    BY <1>2 DEF PostSelect
  <2>2. batch \subseteq Schedules \X Dates
        /\ \A r \in batch : occ[r[1]][r[2]].status = "planned" /\ sched[r[1]].status = "active"
    BY OldestSubset DEF Free, Due
  <2>3. locked[w] = {}
    BY <1>2, OnlyPostingHolds DEF PostSelect, IInv
  <2>4. \A v \in Workers : locked'[v] = IF v = w THEN batch ELSE locked[v]
    BY <2>1 DEF IInv, TypeOK, Procs
  <2>5. Taken' = Taken \cup batch /\ Taken \subseteq Schedules \X Dates
    <3>1. \A v \in Workers : locked[v] \subseteq Schedules \X Dates
      BY DEF IInv, TypeOK, Procs
    <3>2. QED
      BY <2>3, <2>4, <3>1 DEF Taken
  <2>6. ASSUME NEW r \in batch PROVE Standing[r[1]] = "open" /\ txns[r[1]][r[2]] = 0
    BY <2>2 DEF Standing, IInv, PostedExactlyOnce
  <2>7. UNCHANGED <<txns, Standing, Struck>>
    BY <1>2 DEF PostSelect, Standing, Struck, archiveVars
  <2>8. QED
    BY <2>2, <2>5, <2>6, <2>7 DEF Ledger!Take
<1>3. ASSUME NEW p \in Procs, Fail(p) PROVE Ledger!GiveBack
  <2>1. \A v \in Workers : locked'[v] \subseteq locked[v]
    BY <1>3 DEF Fail, IInv, TypeOK, Procs
  <2>2. Taken' \subseteq Taken
    BY <2>1 DEF Taken
  <2>3. UNCHANGED <<txns, Standing, Struck>>
    BY <1>3 DEF Fail, Standing, Struck, archiveVars
  <2>4. QED
    BY <2>2, <2>3 DEF Ledger!GiveBack
<1>4. ASSUME NEW c \in Clients, NEW s \in Schedules, NEW d \in Definitions, Create(c, s, d)
      PROVE  Ledger!Open(s)
  <2>1. Standing' = [Standing EXCEPT ![s] = "open"] /\ Standing[s] = "absent"
    BY <1>4 DEF Create, Standing, IInv, TypeOK, ScheduleRow
  <2>2. \A t \in Schedules : (sched'[t].status = "archived") <=> (sched[t].status = "archived")
    BY <1>4 DEF Create, IInv, TypeOK, ScheduleRow
  <2>3. Struck' = Struck /\ Taken' = Taken /\ txns' = txns
    BY <1>4, <2>2 DEF Create, Struck, Taken, archiveVars
  <2>4. QED
    BY <2>1, <2>3 DEF Ledger!Open
<1>5. ASSUME NEW s \in Schedules, ArchiveCommit(s)
      PROVE  Ledger!Close(s)
  <2>1. sched' = [sched EXCEPT ![s].status = "archived"] /\ sched[s].status \in {"active", "paused"}
    BY <1>5 DEF ArchiveCommit, IInv, ArchivesHold
  <2>2. \A t \in Schedules : sched'[t].status = IF t = s THEN "archived" ELSE sched[t].status
    BY <2>1 DEF IInv, TypeOK, ScheduleRow
  <2>3. Standing' = [Standing EXCEPT ![s] = "closed"] /\ Standing[s] = "open"
    <3>1. \A t \in Schedules : Standing'[t] = IF t = s THEN "closed" ELSE Standing[t]
      BY <2>2 DEF Standing
    <3>2. Standing[s] = "open"
      BY <2>1 DEF Standing
    <3>3. Standing' = [t \in Schedules |-> IF t = s THEN "closed" ELSE Standing[t]]
      BY <3>1 DEF Standing
    <3>4. QED
      BY <3>2, <3>3 DEF Standing
  <2>4. Struck' = [Struck EXCEPT ![s] = seen[s]]
    BY <1>5, <2>2 DEF ArchiveCommit, Struck
  <2>5. ASSUME NEW d \in seen[s] PROVE <<s, d>> \notin Taken
    <3>1. d \in Dates
      BY DEF IInv, TypeOK
    <3>2. d \in held[s] \/ occ[s][d].status # "planned"
      BY <1>5 DEF ArchiveCommit, Settled
    <3>3. QED
      BY <3>1, <3>2 DEF IInv, LocksHold, Taken
  <2>6. txns' = txns /\ Taken' = Taken /\ seen[s] \in SUBSET Dates
    BY <1>5 DEF ArchiveCommit, Taken, IInv, TypeOK
  <2>7. QED
    BY <2>3, <2>4, <2>5, <2>6 DEF Ledger!Close
<1>6. CASE /\ ~ \E w \in Workers : PostSelect(w) \/ PostCommit(w)
           /\ ~ \E p \in Procs : Fail(p)
           /\ ~ \E s \in Schedules : ArchiveCommit(s)
           /\ ~ \E c \in Clients, s \in Schedules, d \in Definitions : Create(c, s, d)
  <2>1. txns' = txns
    BY <1>6, OtherSteps DEF RowsKept
  <2>2. SameStanding
    BY <1>6, OpenStaysOpen
  <2>3. Standing' = Standing
    BY <2>2 DEF SameStanding, Standing
  <2>4. Taken' = Taken
    BY <1>6, TakenStays DEF Taken
  <2>5. Struck' = Struck
    BY <1>6, <2>2, StruckStays
  <2>6. QED
    BY <2>1, <2>3, <2>4, <2>5 DEF Ledger!ledgerVars
<1>7. QED
  BY <1>1, <1>2, <1>3, <1>4, <1>5, <1>6 DEF Ledger!LedgerNext

LEMMA LedgerStart == Init => Ledger!LedgerInit
  BY DEF Init, Ledger!LedgerInit, Standing, Taken, Struck, NoSchedule, Procs

(* Whatever replicas and requests do is the taking or the booking of a     *)
(* batch, giving one back, an opening, a closing, or invisible.            *)
THEOREM LedgerImplemented == Spec => LedgerRefined
  BY LedgerStart, LedgerStep, Inductive, PTL DEF Spec, LedgerRefined, Ledger!LedgerSpec

-------------------------------------------------------------------------------
(* No date is lost. NoDateLost says nothing of a schedule that is paused,  *)
(* nor of what a run has read, so the proof needs more: the watermark is   *)
(* right whatever the status is (Covered); a run works from a definition   *)
(* that still holds and a watermark that was only moved on since (Listed); *)
(* and what it has inserted and not yet marked is there, whoever inserted  *)
(* it first (Inserted).                                                    *)

(* Up to the watermark every date from today on has its row.               *)
Covered ==
    \A s \in Schedules \ edited : sched[s].status # "none" =>
        \A d \in sched[s].def.dates :
            LocalDate(sched[s].def, day) <= d /\ d <= sched[s].mt =>
                occ[s][d].status # "none"

(* What a process p has read of a schedule that nobody edits; an edit is of *)
(* one schedule.                                                           *)
Listed(p) ==
    /\ pc[p] # "update" =>
         \A item \in todo[p] : item.id \notin edited =>
            item.def = sched[item.id].def /\ item.mt <= sched[item.id].mt
    /\ pc[p] = "update" => \A item, other \in todo[p] : item = other

(* What it has inserted.                                                   *)
Inserted(p) ==
    \A item \in stored[p] :
        /\ pc[p] = "materialize" /\ item \in todo[p]
        /\ item.id \notin edited =>
             \A d \in DatesToInsert(item, LocalDate(item.def, now[p])) :
                occ[item.id][d].status # "none"

(* Nobody has a date of the future.                                        *)
Working(p) == now[p] <= day /\ Listed(p) /\ Inserted(p)

DatesKept == Covered /\ \A p \in Procs : Working(p)

-------------------------------------------------------------------------------
(* What a step leaves alone *)

(* Rows of schedules nobody edits are not deleted, definitions stay and    *)
(* watermarks only rise.                                                   *)
Kept ==
    /\ edited \subseteq edited' /\ day <= day'
    /\ \A s \in Schedules \ edited', d \in Dates :
         occ[s][d].status # "none" => occ'[s][d].status # "none"
    /\ \A s \in Schedules \ edited' : sched[s].status # "none" =>
         /\ sched'[s].status # "none" /\ sched'[s].def = sched[s].def
         /\ sched[s].mt <= sched'[s].mt

(* Only a mark moves the watermark.                                        *)
MarkedOrSame ==
    \A s \in Schedules \ edited' :
        \/ sched'[s].mt = sched[s].mt /\ sched[s].status # "none"
        \/ sched'[s].mt = Null \/ sched'[s].status = "none"
        \/ \E p \in Procs : \E item \in todo[p] : Mark(p, item) /\ item.id = s

(* At most is transitive.                                                  *)
LEMMA Rising ==
    ASSUME NEW a \in Int, NEW b \in Int, NEW c \in Int, a <= b, b <= c
    PROVE  a <= c
  OBVIOUS

(* A watermark that is null is a number here.                              *)
LEMMA WatermarksAreNumbers ==
    ASSUME Typed
    PROVE  \A s \in Schedules : sched[s].mt \in Int
  BY DEF Typed, TypeOK, ScheduleRow, Null

(* Watermarks and days are numbers, dates to insert are dates.             *)
LEMMA Numbers ==
    ASSUME Typed, NEW p \in Procs
    PROVE  /\ day \in Int /\ now[p] \in Int
           /\ \A s \in Schedules : sched[s].mt \in Int
           /\ \A item \in todo[p] \cup stored[p] :
                /\ item.id \in Schedules /\ item.mt \in Int /\ item.def \in Definitions
                /\ \A today : DatesToInsert(item, today) \subseteq Dates
           /\ \A item \in todo[p] : sched[item.id].status # "none"
<1>1. day \in Int /\ now[p] \in Int
  BY DEF Typed, TypeOK
<1>2. \A s \in Schedules : sched[s].mt \in Int
  BY WatermarksAreNumbers
<1>3. \A item \in todo[p] \cup stored[p] : item \in Item
  BY DEF Typed, TypeOK
<1>4. \A item \in Item : item.id \in Schedules /\ item.mt \in Int /\ item.def \in Definitions
  BY DEF Item, Null
<1>5. \A d \in Definitions : d.dates \subseteq Dates
  BY DEF Definition
<1>6. \A item \in Item : \A today : DatesToInsert(item, today) \subseteq Dates
  BY <1>4, <1>5 DEF DatesToInsert
<1>7. QED
  BY <1>1, <1>2, <1>3, <1>4, <1>6 DEF Typed, Known

(* Whoever takes no part in a step goes on from the same facts.            *)
LEMMA Bystander ==
    ASSUME Typed, Typed', Kept, NEW p \in Procs, Working(p),
           pc'[p] = pc[p], todo'[p] = todo[p], stored'[p] = stored[p], now'[p] = now[p]
    PROVE  Working(p)'
<1>1. now'[p] <= day'
  <2>1. day' \in Int
    BY DEF Typed, TypeOK
  <2>2. now[p] <= day /\ day <= day'
    BY DEF Working, Kept
  <2>3. QED
    BY <2>1, <2>2, Numbers, Rising
<1>2. ASSUME pc'[p] # "update", NEW item \in todo'[p], item.id \notin edited'
      PROVE  item.def = sched'[item.id].def /\ item.mt <= sched'[item.id].mt
  <2>1. item.def = sched[item.id].def /\ item.mt <= sched[item.id].mt
    BY <1>2 DEF Working, Listed, Kept
  <2>2. item.id \in Schedules \ edited' /\ sched[item.id].status # "none"
    BY <1>2, Numbers
  <2>3. sched'[item.id].def = sched[item.id].def /\ sched[item.id].mt <= sched'[item.id].mt
    BY <2>2 DEF Kept
  <2>4. item.mt \in Int /\ sched[item.id].mt \in Int
    BY <1>2, <2>2, Numbers
  <2>5. sched'[item.id].mt \in Int
    BY <2>2 DEF Typed, TypeOK, ScheduleRow, Null
  <2>6. QED
    BY <2>1, <2>3, <2>4, <2>5, Rising
<1>3. Listed(p)'
  BY <1>2 DEF Working, Listed
<1>4. ASSUME NEW item \in stored'[p]
      PROVE  pc'[p] = "materialize" /\ item \in todo'[p]
  BY <1>4 DEF Working, Inserted
<1>5. ASSUME NEW item \in stored'[p], item.id \notin edited',
             NEW d \in DatesToInsert(item, LocalDate(item.def, now'[p]))
      PROVE  occ'[item.id][d].status # "none"
  <2>1. item.id \in Schedules \ edited' /\ d \in Dates
    BY <1>5, Numbers
  <2>2. occ[item.id][d].status # "none"
    BY <1>5, <2>1 DEF Working, Inserted, Kept
  <2>3. QED
    BY <2>1, <2>2 DEF Kept
<1>6. QED
  BY <1>1, <1>3, <1>4, <1>5 DEF Working, Inserted

(* Who holds no more than before and has inserted nothing.                 *)
LEMMA Sheds ==
    ASSUME Typed, Typed', Kept, NEW p \in Procs, Working(p),
           todo'[p] \subseteq todo[p], pc'[p] # "update",
           pc[p] # "update" \/ todo'[p] = {},
           stored'[p] = {}, now'[p] <= day'
    PROVE  Working(p)'
<1>1. ASSUME NEW item \in todo'[p], item.id \notin edited'
      PROVE  item.def = sched'[item.id].def /\ item.mt <= sched'[item.id].mt
  <2>1. item \in todo[p] /\ pc[p] # "update"
    BY <1>1
  <2>2. item.def = sched[item.id].def /\ item.mt <= sched[item.id].mt
    BY <1>1, <2>1 DEF Working, Listed, Kept
  <2>3. item.id \in Schedules \ edited' /\ sched[item.id].status # "none"
    BY <1>1, <2>1, Numbers
  <2>4. sched'[item.id].def = sched[item.id].def /\ sched[item.id].mt <= sched'[item.id].mt
    BY <2>3 DEF Kept
  <2>5. item.mt \in Int /\ sched[item.id].mt \in Int
    BY <2>1, <2>3, Numbers
  <2>6. sched'[item.id].mt \in Int
    BY <2>3 DEF Typed, TypeOK, ScheduleRow, Null
  <2>7. QED
    BY <2>2, <2>4, <2>5, <2>6, Rising
<1>2. QED
  BY <1>1 DEF Working, Listed, Inserted

(* Nobody has inserted anything outside of materialisation.                *)
LEMMA StoredWhileMaterializing ==
    ASSUME NEW p, Working(p), pc[p] # "materialize"
    PROVE  stored[p] = {}
  BY DEF Working, Inserted

-------------------------------------------------------------------------------
(* What each step does *)

(* A step that leaves schedules, the day and the edits alone, and deletes  *)
(* no row.                                                                 *)
LEMMA Leaves ==
    ASSUME Typed, sched' = sched, edited' = edited, day' = day,
           \A s \in Schedules, d \in Dates :
              occ[s][d].status # "none" => occ'[s][d].status # "none"
    PROVE  Kept /\ MarkedOrSame
<1>1. \A s \in Schedules : sched[s].mt <= sched[s].mt
  BY WatermarksAreNumbers
<1>2. day <= day
  BY DEF Typed, TypeOK
<1>3. QED
  BY <1>1, <1>2 DEF Kept, MarkedOrSame

(* A step that gives a schedule another status.                            *)
LEMMA Restates ==
    ASSUME Typed, NEW s \in Schedules, NEW status \in {"active", "paused", "archived"},
           sched' = [sched EXCEPT ![s].status = status],
           sched[s].status # "none",
           edited' = edited, day' = day,
           \A r \in Schedules, d \in Dates :
              occ[r][d].status # "none" => occ'[r][d].status # "none"
    PROVE  Kept /\ MarkedOrSame
<1>1. \A r \in Schedules : /\ sched'[r].mt = sched[r].mt /\ sched'[r].def = sched[r].def
                           /\ sched[r].status # "none" => sched'[r].status # "none"
                           /\ sched[r].status = "none" => sched'[r].status = "none"
  BY DEF Typed, TypeOK, ScheduleRow
<1>2. \A r \in Schedules : sched[r].mt \in Int /\ sched[r].mt <= sched[r].mt
  <2>1. \A r \in Schedules : sched[r].mt \in Int
    BY WatermarksAreNumbers
  <2>2. QED
    BY <2>1
<1>3. day <= day
  BY DEF Typed, TypeOK
<1>4. QED
  BY <1>1, <1>2, <1>3 DEF Kept, MarkedOrSame

(* A row that is inserted or kept is a row.                                *)
LEMMA InsertedIsRow ==
    ASSUME NEW row, NEW d
    PROVE  InsertOrKeep(row, d).status # "none"
  BY DEF InsertOrKeep, PlannedRow

(* The rows of an upsert are there after it, and the others as before.     *)
LEMMA UpsertRows ==
    ASSUME Typed, NEW p \in Procs, NEW item \in todo[p], Upsert(p, item)
    PROVE  /\ \A s \in Schedules, d \in Dates :
                occ[s][d].status # "none" => occ'[s][d].status # "none"
           /\ \A d \in DatesToInsert(item, LocalDate(item.def, now[p])) :
                occ'[item.id][d].status # "none"
<1> DEFINE new == DatesToInsert(item, LocalDate(item.def, now[p]))
<1>1. item.id \in Schedules /\ new \subseteq Dates
  BY Numbers
<1>2. occ' = [occ EXCEPT ![item.id] = [d \in Dates |->
        IF d \in new THEN InsertOrKeep(occ[item.id][d], item.def) ELSE occ[item.id][d]]]
  BY DEF Upsert
<1> HIDE DEF new
<1>3. occ \in [Schedules -> [Dates -> OccurrenceRow]]
  BY DEF Typed, TypeOK
<1>4. \A d \in Dates : occ'[item.id][d] =
        IF d \in new THEN InsertOrKeep(occ[item.id][d], item.def) ELSE occ[item.id][d]
  BY <1>1, <1>2, <1>3
<1>5. \A s \in Schedules \ {item.id} : occ'[s] = occ[s]
  BY <1>1, <1>2, <1>3
<1>6. \A d \in new : occ'[item.id][d].status # "none"
  BY <1>1, <1>4, InsertedIsRow
<1>7. ASSUME NEW s \in Schedules, NEW d \in Dates, occ[s][d].status # "none"
      PROVE  occ'[s][d].status # "none"
  BY <1>4, <1>5, <1>7, InsertedIsRow
<1>8. QED
  BY <1>6, <1>7 DEF new

(* A mark moves the watermark of one active schedule, and only up.         *)
LEMMA MarkMoves ==
    ASSUME Typed, NEW p \in Procs, NEW item \in todo[p], Mark(p, item)
    PROVE  Kept /\ MarkedOrSame
<1> DEFINE through == Through(LocalDate(item.def, now[p]))
<1>1. item.id \in Schedules /\ item.def \in Definitions
  BY Numbers
<1>2. through \in Int /\ now[p] \in 1 .. MaxDay
  BY <1>1, LocalDateType DEF Through, Typed, TypeOK
<1>3. sched[item.id].mt \in Int /\ \A r \in Schedules : sched[r].mt \in Int
  BY <1>1, Numbers
<1>4. sched[item.id].mt <= Advance(sched[item.id].mt, through)
  BY <1>2, <1>3 DEF Advance
<1>5. sched' = sched \/ sched' = [sched EXCEPT ![item.id].mt = Advance(sched[item.id].mt, through)]
  BY DEF Mark
<1> HIDE DEF through
<1>6. \A r \in Schedules : /\ sched'[r].status = sched[r].status
                           /\ sched'[r].def = sched[r].def
                           /\ sched'[r].mt = sched[r].mt \/ r = item.id
                           /\ sched[r].mt <= sched'[r].mt
  <2>1. \A r \in Schedules : sched[r].mt <= sched[r].mt
    BY <1>3
  <2>2. \A r \in Schedules \ {item.id} : sched'[r] = sched[r]
    BY <1>1, <1>5 DEF Typed, TypeOK
  <2>3. sched[item.id] \in ScheduleRow
    BY <1>1 DEF Typed, TypeOK
  <2>4. sched'[item.id] = sched[item.id]
          \/ sched'[item.id] = [sched[item.id] EXCEPT !.mt = Advance(sched[item.id].mt, through)]
    BY <1>1, <1>5 DEF Typed, TypeOK
  <2>5. /\ sched'[item.id].status = sched[item.id].status
        /\ sched'[item.id].def = sched[item.id].def
        /\ sched[item.id].mt <= sched'[item.id].mt
    BY <1>4, <2>1, <2>3, <2>4, <1>1 DEF ScheduleRow
  <2>6. QED
    BY <2>1, <2>2, <2>5
<1>7. edited' = edited /\ day' = day /\ occ' = occ /\ day <= day
  BY DEF Mark, Typed, TypeOK
<1>8. Kept
  BY <1>6, <1>7 DEF Kept
<1>9. MarkedOrSame
  BY <1>6 DEF MarkedOrSame
<1>10. QED
  BY <1>8, <1>9

(* Everybody but p is a bystander.                                         *)
OthersRest(p) ==
    \A q \in Procs \ {p} :
        pc'[q] = pc[q] /\ todo'[q] = todo[q] /\ stored'[q] = stored[q] /\ now'[q] = now[q]

(* So a step keeps what all work from if it keeps what its own actor does. *)
LEMMA Everybody ==
    ASSUME Typed, Typed', DatesKept, Kept, NEW p \in Procs, OthersRest(p), Working(p)'
    PROVE  \A q \in Procs : Working(q)'
<1>1. ASSUME NEW q \in Procs \ {p} PROVE Working(q)'
  BY <1>1, Bystander DEF OthersRest, DatesKept
<1>2. QED
  BY <1>1

(* A step that is no run's and no request's.                               *)
LEMMA Nobody ==
    ASSUME Typed, Typed', DatesKept, Kept,
           pc' = pc, todo' = todo, stored' = stored, now' = now
    PROVE  \A q \in Procs : Working(q)'
  BY Bystander DEF DatesKept

(* All that is to be shown of a step.                                      *)
Good == Kept /\ MarkedOrSame /\ \A q \in Procs : Working(q)'

(* The date of a run that is over is the first day.                        *)
LEMMA NowStays ==
    ASSUME Typed, Typed', NEW p \in Procs, Working(p), ForgetNow(p), day' = day
    PROVE  now'[p] <= day' /\ \A q \in Procs \ {p} : now'[q] = now[q]
<1>1. now \in [Procs -> 1 .. MaxDay] /\ day \in 1 .. MaxDay
  BY DEF Typed, TypeOK
<1>2. CASE now' = now
  BY <1>1, <1>2 DEF Working
<1>3. CASE now' = [now EXCEPT ![p] = 1]
  BY <1>1, <1>3
<1>4. QED
  BY <1>2, <1>3 DEF ForgetNow

(* Materialisation, of a run or a request.                                 *)
LEMMA MaterializeSteps ==
    ASSUME Typed, Typed', DatesKept, NEW p \in Procs, Materialize(p)
    PROVE  Good
<1>1. PICK item \in todo[p] : Skip(p, item) \/ Upsert(p, item) \/ Mark(p, item)
  BY DEF Materialize
<1>2. Working(p)
  BY DEF DatesKept
<1>3. CASE Skip(p, item)
  <2>1. Kept /\ MarkedOrSame
    BY <1>3, Leaves DEF Skip
  <2>2. now'[p] <= day' /\ \A q \in Procs \ {p} : now'[q] = now[q]
    BY <1>2, <1>3, NowStays DEF Skip
  <2>3. OthersRest(p)
    BY <1>3, <2>2 DEF Skip, OthersRest, Typed, TypeOK
  <2>4. pc'[p] # "update" /\ pc[p] # "update" /\ todo'[p] \subseteq todo[p] /\ stored'[p] = {}
    BY <1>3, AfterMaterializeType DEF Skip, Typed, TypeOK
  <2>5. Working(p)'
    BY <1>2, <2>1, <2>2, <2>4, Sheds
  <2>6. QED
    BY <2>1, <2>3, <2>5, Everybody DEF Good
<1>4. CASE Mark(p, item)
  <2>1. Kept /\ MarkedOrSame
    BY <1>4, MarkMoves
  <2>2. now'[p] <= day' /\ \A q \in Procs \ {p} : now'[q] = now[q]
    BY <1>2, <1>4, NowStays DEF Mark
  <2>3. OthersRest(p)
    BY <1>4, <2>2 DEF Mark, OthersRest, Typed, TypeOK
  <2>4. pc'[p] # "update" /\ pc[p] # "update" /\ todo'[p] \subseteq todo[p] /\ stored'[p] = {}
    BY <1>4, AfterMaterializeType DEF Mark, Typed, TypeOK
  <2>5. Working(p)'
    BY <1>2, <2>1, <2>2, <2>4, Sheds
  <2>6. QED
    BY <2>1, <2>3, <2>5, Everybody DEF Good
<1>5. CASE Upsert(p, item)
  <2>1. Kept /\ MarkedOrSame
    BY <1>5, UpsertRows, Leaves DEF Upsert
  <2>2. OthersRest(p)
    BY <1>5 DEF Upsert, OthersRest, Typed, TypeOK
  <2>3. Listed(p)'
    BY <1>2, <1>5 DEF Upsert, Working, Listed
  <2>4. Inserted(p)'
    <3>1. stored'[p] = {item} /\ pc'[p] = "materialize" /\ item \in todo'[p] /\ now'[p] = now[p]
      BY <1>5 DEF Upsert, Typed, TypeOK
    <3>2. QED
      BY <1>5, <3>1, UpsertRows DEF Inserted
  <2>5. now'[p] <= day'
    BY <1>2, <1>5 DEF Upsert, Working
  <2>6. QED
    BY <2>1, <2>2, <2>3, <2>4, <2>5, Everybody DEF Good, Working
<1>6. QED
  BY <1>1, <1>3, <1>4, <1>5

(* The rest of a run, and whatever stops it.                               *)
LEMMA RunSteps ==
    ASSUME Typed, Typed', DatesKept, NEW w \in Procs,
           ListActive(w) \/ PostSelect(w) \/ PostCommit(w) \/ QueueReminders(w) \/ Fail(w)
    PROVE  Good
<1>1. Working(w)
  BY DEF DatesKept
<1>2. CASE ListActive(w)
  <2>1. Kept /\ MarkedOrSame
    BY <1>2, Leaves DEF ListActive
  <2>2. OthersRest(w)
    BY <1>2 DEF ListActive, OthersRest, Typed, TypeOK
  <2>3. stored[w] = {}
    BY <1>1, <1>2, StoredWhileMaterializing DEF ListActive
  <2>4. now'[w] = day /\ day' = day /\ stored'[w] = {}
    BY <1>2, <2>3 DEF ListActive, Typed, TypeOK
  <2>5. todo'[w] = {Snapshot(s) : s \in {s \in Schedules : sched[s].status = "active"}}
    BY <1>2 DEF ListActive, Typed, TypeOK
  <2>6. \A item \in todo'[w] : item.def = sched'[item.id].def /\ item.mt = sched'[item.id].mt
                               /\ item.id \in Schedules
    BY <1>2, <2>5 DEF ListActive, Snapshot
  <2>7. pc'[w] # "update"
    BY <1>2, AfterMaterializeType DEF ListActive, Typed, TypeOK
  <2>8. \A s \in Schedules : sched'[s].mt \in Int
    BY DEF Typed, TypeOK, ScheduleRow, Null
  <2>9. \A item \in todo'[w] : item.mt <= sched'[item.id].mt
    BY <2>6, <2>8
  <2>10. Listed(w)'
    BY <2>6, <2>7, <2>9 DEF Listed
  <2>11. Working(w)'
    BY <2>4, <2>10 DEF Working, Inserted, Typed, TypeOK
  <2>12. QED
    BY <2>1, <2>2, <2>11, Everybody DEF Good
<1>3. CASE PostSelect(w)
  <2>1. Kept /\ MarkedOrSame
    BY <1>3, Leaves DEF PostSelect
  <2>2. OthersRest(w)
    BY <1>3 DEF PostSelect, OthersRest, Typed, TypeOK
  <2>3. stored[w] = {}
    BY <1>1, <1>3, StoredWhileMaterializing DEF PostSelect
  <2>4. pc[w] # "update" /\ pc'[w] # "update" /\ todo'[w] = todo[w] /\ stored'[w] = {}
        /\ now'[w] <= day'
    BY <1>1, <1>3, <2>3 DEF PostSelect, Typed, TypeOK, Working
  <2>5. QED
    BY <1>1, <2>1, <2>2, <2>4, Sheds, Everybody DEF Good
<1>4. CASE PostCommit(w)
  <2>1. \A s \in Schedules, d \in Dates :
           occ[s][d].status # "none" => occ'[s][d].status # "none"
    <3>1. \A s \in Schedules, d \in Dates : occ'[s][d] =
            IF <<s, d>> \in locked[w] THEN Posted(occ[s][d]) ELSE occ[s][d]
      BY <1>4 DEF PostCommit
    <3>2. \A row \in OccurrenceRow : Posted(row).status = "posted"
      BY DEF Posted, OccurrenceRow
    <3>3. \A s \in Schedules, d \in Dates : occ[s][d] \in OccurrenceRow
      BY DEF Typed, TypeOK
    <3>4. QED
      BY <3>1, <3>2, <3>3
  <2>2. Kept /\ MarkedOrSame
    BY <1>4, <2>1, Leaves DEF PostCommit
  <2>3. OthersRest(w)
    BY <1>4 DEF PostCommit, OthersRest, Typed, TypeOK
  <2>4. stored[w] = {}
    BY <1>1, <1>4, StoredWhileMaterializing DEF PostCommit
  <2>5. pc[w] # "update" /\ pc'[w] # "update" /\ todo'[w] = todo[w] /\ stored'[w] = {}
        /\ now'[w] <= day'
    BY <1>1, <1>4, <2>4 DEF PostCommit, Typed, TypeOK, Working
  <2>6. QED
    BY <1>1, <2>2, <2>3, <2>5, Sheds, Everybody DEF Good
<1>5. CASE QueueReminders(w)
  <2>1. \A s \in Schedules, d \in Dates :
           occ[s][d].status # "none" => occ'[s][d].status # "none"
    <3>1. PICK batch : occ' = [s \in Schedules |-> [d \in Dates |->
                   IF wanted /\ <<s, d>> \in batch
                   THEN [occ[s][d] EXCEPT !.events = @ \cup {"due"}] ELSE occ[s][d]]]
      BY <1>5 DEF QueueReminders
    <3>2. \A row \in OccurrenceRow : [row EXCEPT !.events = @ \cup {"due"}].status = row.status
      BY DEF OccurrenceRow
    <3>3. \A s \in Schedules, d \in Dates : occ[s][d] \in OccurrenceRow
      BY DEF Typed, TypeOK
    <3>4. \A s \in Schedules, d \in Dates : occ'[s][d] =
            IF wanted /\ <<s, d>> \in batch
            THEN [occ[s][d] EXCEPT !.events = @ \cup {"due"}] ELSE occ[s][d]
      BY <3>1
    <3>5. QED
      BY <3>2, <3>3, <3>4
  <2>2. Kept /\ MarkedOrSame
    BY <1>5, <2>1, Leaves DEF QueueReminders
  <2>3. now'[w] <= day' /\ \A q \in Procs \ {w} : now'[q] = now[q]
    BY <1>1, <1>5, NowStays DEF QueueReminders
  <2>4. OthersRest(w)
    BY <1>5, <2>3 DEF QueueReminders, OthersRest, Typed, TypeOK
  <2>5. stored[w] = {}
    BY <1>1, <1>5, StoredWhileMaterializing DEF QueueReminders
  <2>6. pc[w] # "update" /\ pc'[w] # "update" /\ todo'[w] = todo[w] /\ stored'[w] = {}
    BY <1>5, <2>5 DEF QueueReminders, Typed, TypeOK
  <2>7. QED
    BY <1>1, <2>2, <2>3, <2>4, <2>6, Sheds, Everybody DEF Good
<1>6. CASE Fail(w)
  <2>1. Kept /\ MarkedOrSame
    BY <1>6, Leaves DEF Fail
  <2>2. now'[w] <= day' /\ \A q \in Procs \ {w} : now'[q] = now[q]
    BY <1>1, <1>6, NowStays DEF Fail
  <2>3. OthersRest(w)
    BY <1>6, <2>2 DEF Fail, OthersRest, Typed, TypeOK
  <2>4. pc'[w] # "update" /\ todo'[w] = {} /\ stored'[w] = {}
    BY <1>6 DEF Fail, Typed, TypeOK
  <2>5. QED
    BY <1>1, <2>1, <2>2, <2>3, <2>4, Sheds, Everybody DEF Good
<1>7. QED
  BY <1>2, <1>3, <1>4, <1>5, <1>6

(* Requests that begin.                                                    *)
LEMMA RequestSteps ==
    ASSUME Typed, Typed', DatesKept, NEW c \in Clients, Request(c)
    PROVE  Good
<1>0. c \in Procs
  BY DEF Procs
<1>1. Working(c)
  BY <1>0 DEF DatesKept
<1>2. ASSUME NEW s \in Schedules, NEW d \in Definitions, Create(c, s, d) PROVE Good
  <2> DEFINE row == [status |-> "active", def |-> d, mt |-> Null]
  <2>1. sched' = [sched EXCEPT ![s] = row] /\ sched[s].status = "none"
        /\ edited' = edited /\ day' = day /\ occ' = occ /\ day <= day
    BY <1>2 DEF Create, Typed, TypeOK
  <2>2. sched'[s] = row /\ \A r \in Schedules \ {s} : sched'[r] = sched[r]
    BY <2>1 DEF Typed, TypeOK
  <2>3. \A r \in Schedules : sched[r].mt <= sched[r].mt
    BY WatermarksAreNumbers
  <2>4. Kept
    BY <2>1, <2>2, <2>3 DEF Kept
  <2>5. MarkedOrSame
    BY <2>1, <2>2 DEF MarkedOrSame
  <2>6. OthersRest(c)
    BY <1>0, <1>2 DEF Create, OthersRest, Typed, TypeOK
  <2>7. stored[c] = {}
    BY <1>1, <1>2, StoredWhileMaterializing DEF Create, MayRequest
  <2>8. /\ now'[c] = day /\ stored'[c] = {} /\ pc'[c] = "materialize"
        /\ todo'[c] = {[id |-> s, def |-> d, mt |-> Null]}
    BY <1>0, <1>2, <2>7 DEF Create, Typed, TypeOK
  <2>9. Null <= Null
    BY DEF Null
  <2>10. Working(c)'
    BY <2>1, <2>2, <2>8, <2>9 DEF Working, Listed, Inserted
  <2>11. QED
    BY <1>0, <2>4, <2>5, <2>6, <2>10, Everybody DEF Good
<1>3. ASSUME NEW s \in Schedules, NEW d \in Definitions, BeginUpdate(c, s, d) PROVE Good
  <2>1. Kept /\ MarkedOrSame
    BY <1>3, Leaves DEF BeginUpdate
  <2>2. OthersRest(c)
    BY <1>0, <1>3 DEF BeginUpdate, OthersRest, Typed, TypeOK
  <2>3. stored[c] = {}
    BY <1>1, <1>3, StoredWhileMaterializing DEF BeginUpdate, MayRequest
  <2>4. /\ now'[c] = day /\ day' = day /\ stored'[c] = {} /\ pc'[c] = "update"
        /\ \E item : todo'[c] = {item}
    BY <1>0, <1>3, <2>3 DEF BeginUpdate, Typed, TypeOK
  <2>5. Working(c)'
    BY <2>4 DEF Working, Listed, Inserted, Typed, TypeOK
  <2>6. QED
    BY <1>0, <2>1, <2>2, <2>5, Everybody DEF Good
<1>4. ASSUME NEW s \in Schedules, NEW target \in {"pause", "resume"}, BeginSetStatus(c, s, target)
      PROVE  Good
  <2>1. Kept /\ MarkedOrSame
    BY <1>4, Leaves DEF BeginSetStatus
  <2>2. OthersRest(c)
    BY <1>0, <1>4 DEF BeginSetStatus, OthersRest, Typed, TypeOK
  <2>3. stored[c] = {}
    BY <1>1, <1>4, StoredWhileMaterializing DEF BeginSetStatus, MayRequest
  <2>4. /\ now'[c] <= day' /\ sched' = sched /\ stored'[c] = {} /\ pc'[c] # "update"
        /\ todo'[c] = {Snapshot(s)}
    BY <1>0, <1>1, <1>4, <2>3 DEF BeginSetStatus, Typed, TypeOK, Working
  <2>5. sched[s].mt <= sched[s].mt
    BY WatermarksAreNumbers
  <2>6. Working(c)'
    BY <2>4, <2>5 DEF Working, Listed, Inserted, Snapshot
  <2>7. QED
    BY <1>0, <2>1, <2>2, <2>6, Everybody DEF Good
<1>5. ASSUME NEW s \in Schedules, NEW d \in Dates, DeleteTransaction(c, s, d) PROVE Good
  <2>1. \A r \in Schedules, e \in Dates : occ'[r][e].status = occ[r][e].status
    BY <1>5, RowEffects DEF DeleteTransaction, Typed, TypeOK
  <2>2. Kept /\ MarkedOrSame
    BY <1>5, <2>1, Leaves DEF DeleteTransaction
  <2>3. QED
    BY <1>5, <2>2, Nobody DEF DeleteTransaction, Good
<1>6. CASE SetPreference(c)
  BY <1>6, Leaves, Nobody DEF SetPreference, Good
<1>7. QED
  BY <1>2, <1>3, <1>4, <1>5, <1>6 DEF Request

(* Requests that go on.                                                    *)
LEMMA RequestGoesOn ==
    ASSUME Typed, Typed', DatesKept, NEW c \in Clients,
           CommitUpdate(c) \/ CommitPause(c) \/ CommitResume(c) \/ NotFound(c)
    PROVE  Good
<1>0. c \in Procs
  BY DEF Procs
<1>1. Working(c)
  BY <1>0 DEF DatesKept
<1>2. stored[c] = {}
  <2>1. pc[c] # "materialize"
    BY DEF CommitUpdate, CommitPause, CommitResume, NotFound
  <2>2. QED
    BY <1>1, <2>1, StoredWhileMaterializing
<1>3. CASE CommitPause(c)
  <2>1. PICK item \in todo[c] : sched' = [sched EXCEPT ![item.id].status = "paused"]
    BY <1>3 DEF CommitPause
  <2>2. item.id \in Schedules /\ sched[item.id].status # "none"
    BY <1>0, Numbers
  <2>3. Kept /\ MarkedOrSame
    BY <1>3, <2>1, <2>2, Restates DEF CommitPause
  <2>4. now'[c] <= day' /\ \A q \in Procs \ {c} : now'[q] = now[q]
    BY <1>0, <1>1, <1>3, NowStays DEF CommitPause
  <2>5. OthersRest(c)
    BY <1>0, <1>3, <2>4 DEF CommitPause, Finish, OthersRest, Typed, TypeOK
  <2>6. todo'[c] = {} /\ pc'[c] # "update" /\ stored'[c] = {}
    BY <1>0, <1>2, <1>3 DEF CommitPause, Finish, Typed, TypeOK
  <2>7. QED
    BY <1>0, <1>1, <2>3, <2>4, <2>5, <2>6, Sheds, Everybody DEF Good
<1>4. CASE CommitResume(c)
  <2>1. PICK item \in todo[c] : sched' = [sched EXCEPT ![item.id].status = "active"]
    BY <1>4 DEF CommitResume
  <2>2. item.id \in Schedules /\ sched[item.id].status # "none"
    BY <1>0, Numbers
  <2>3. Kept /\ MarkedOrSame
    BY <1>4, <2>1, <2>2, Restates DEF CommitResume
  <2>4. OthersRest(c)
    BY <1>0, <1>4 DEF CommitResume, OthersRest, Typed, TypeOK
  <2>5. /\ todo'[c] = todo[c] /\ pc[c] # "update" /\ pc'[c] # "update"
        /\ stored'[c] = {} /\ now'[c] <= day'
    BY <1>0, <1>2, <1>4 DEF CommitResume, Typed, TypeOK
  <2>6. QED
    BY <1>0, <1>1, <2>3, <2>4, <2>5, Sheds, Everybody DEF Good
<1>5. CASE NotFound(c)
  <2>1. Kept /\ MarkedOrSame
    BY <1>5, Leaves DEF NotFound
  <2>2. now'[c] <= day' /\ \A q \in Procs \ {c} : now'[q] = now[q]
    BY <1>0, <1>1, <1>5, NowStays DEF NotFound
  <2>3. OthersRest(c)
    BY <1>0, <1>5, <2>2 DEF NotFound, Finish, OthersRest, Typed, TypeOK
  <2>4. todo'[c] = {} /\ pc'[c] # "update" /\ stored'[c] = {}
    BY <1>0, <1>2, <1>5 DEF NotFound, Finish, Typed, TypeOK
  <2>5. QED
    BY <1>0, <1>1, <2>1, <2>2, <2>3, <2>4, Sheds, Everybody DEF Good
<1>6. CASE CommitUpdate(c)
  <2>1. PICK item \in todo[c] :
          /\ sched' = [sched EXCEPT ![item.id] = [@ EXCEPT !.def = item.def, !.mt = item.mt]]
          /\ edited' = edited \cup {item.id}
          /\ occ' = [occ EXCEPT ![item.id] = [d \in Dates |->
                IF d \in {e \in Dates : Replaceable(occ[item.id][e], e, LocalDate(item.def, now[c]))}
                THEN NoRow ELSE @[d]]]
          /\ IF sched[item.id].status = "active"
             THEN pc' = [pc EXCEPT ![c] = "materialize"] /\ UNCHANGED todo
             ELSE Finish(c)
    BY <1>6 DEF CommitUpdate
  <2>2. item.id \in Schedules
    BY <1>0, Numbers
  <2>3. \A s \in Schedules \ {item.id} : sched'[s] = sched[s] /\ occ'[s] = occ[s]
    BY <2>1, <2>2 DEF Typed, TypeOK
  <2>4. \A s \in Schedules : sched[s].mt <= sched[s].mt
    BY WatermarksAreNumbers
  <2>5. day' = day /\ day <= day
    <3>1. day' = day
      BY <1>6 DEF CommitUpdate
    <3>2. day <= day
      BY DEF Typed, TypeOK
    <3>3. QED
      BY <3>1, <3>2
  <2>6. Kept
    BY <2>1, <2>3, <2>4, <2>5 DEF Kept
  <2>7. MarkedOrSame
    <3>1. ASSUME NEW s \in Schedules \ edited'
          PROVE  \/ sched'[s].mt = sched[s].mt /\ sched[s].status # "none"
                 \/ sched'[s].status = "none"
      BY <2>1, <2>3
    <3>2. QED
      BY <3>1 DEF MarkedOrSame
  <2>8. now'[c] <= day' /\ \A q \in Procs \ {c} : now'[q] = now[q]
    BY <1>0, <1>1, <1>6, NowStays DEF CommitUpdate
  <2>9. pc'[c] # "update" /\ todo'[c] \subseteq todo[c]
        /\ \A q \in Procs \ {c} : pc'[q] = pc[q] /\ todo'[q] = todo[q]
    BY <1>0, <2>1 DEF Finish, Typed, TypeOK
  <2>10. stored' = stored
    BY <1>6 DEF CommitUpdate
  <2>11. OthersRest(c)
    BY <2>8, <2>9, <2>10 DEF OthersRest
  <2>12. \A other \in todo'[c] : other.id \in edited'
    <3>1. pc[c] = "update"
      BY <1>6 DEF CommitUpdate
    <3>2. \A other \in todo[c] : other = item
      BY <1>1, <3>1 DEF Working, Listed
    <3>3. QED
      BY <2>1, <2>9, <3>2
  <2>13. Working(c)'
    BY <1>2, <2>8, <2>9, <2>10, <2>12 DEF Working, Listed, Inserted
  <2>14. QED
    BY <1>0, <2>6, <2>7, <2>11, <2>13, Everybody DEF Good
<1>7. QED
  BY <1>3, <1>4, <1>5, <1>6

(* Archiving, and the clock.                                               *)
LEMMA OtherChanges ==
    ASSUME Typed, Typed', DatesKept,
           (\E s \in Schedules : ArchiveBegin(s) \/ ArchiveStep(s) \/ ArchiveFails(s)) \/ Tick \/ UNCHANGED vars
    PROVE  Good
<1>1. ASSUME NEW s \in Schedules, ArchiveCommit(s) PROVE Good
  <2>1. sched[s].status # "none" /\ sched' = [sched EXCEPT ![s].status = "archived"]
    BY <1>1 DEF ArchiveCommit, Typed, Begun
  <2>2. \A r \in Schedules, d \in Dates :
           occ[r][d].status # "none" => occ'[r][d].status # "none"
    <3>1. occ' = [occ EXCEPT ![s] = [d \in Dates |->
                 IF d \in held[s]
                 THEN [occ[s][d] EXCEPT !.status = "skipped"] ELSE occ[s][d]]]
      BY <1>1 DEF ArchiveCommit
    <3>2. \A r \in Schedules \ {s} : occ'[r] = occ[r]
      BY <3>1 DEF Typed, TypeOK
    <3>3. \A d \in Dates :
            occ'[s][d] = [occ[s][d] EXCEPT !.status = "skipped"] \/ occ'[s][d] = occ[s][d]
      BY <3>1 DEF Typed, TypeOK
    <3>4. \A d \in Dates : occ[s][d] \in OccurrenceRow
      BY DEF Typed, TypeOK
    <3>5. \A d \in Dates : occ[s][d].status # "none" => occ'[s][d].status # "none"
      BY <3>3, <3>4, RowEffects
    <3>6. QED
      BY <3>2, <3>5
  <2>3. Kept /\ MarkedOrSame
    BY <1>1, <2>1, <2>2, Restates DEF ArchiveCommit
  <2>4. QED
    BY <1>1, <2>3, Nobody DEF ArchiveCommit, Good
<1>5. ASSUME NEW s \in Schedules, ArchiveBegin(s) \/ ArchiveSkip(s) \/ ArchiveFails(s) PROVE Good
  BY <1>5, Leaves, Nobody DEF ArchiveBegin, ArchiveSkip, ArchiveFails, Good
<1>2. CASE Tick
  <2>1. day <= day' /\ sched' = sched /\ edited' = edited /\ occ' = occ
    BY <1>2 DEF Tick, Typed, TypeOK
  <2>2. \A s \in Schedules : sched[s].mt <= sched[s].mt
    BY WatermarksAreNumbers
  <2>3. Kept /\ MarkedOrSame
    BY <2>1, <2>2 DEF Kept, MarkedOrSame
  <2>4. QED
    BY <1>2, <2>3, Nobody DEF Tick, Good
<1>3. CASE UNCHANGED vars
  BY <1>3, Leaves, Nobody DEF vars, Good
<1>4. QED
  BY <1>1, <1>2, <1>3, <1>5 DEF ArchiveStep

-------------------------------------------------------------------------------
(* The watermark stays right *)

(* A local date never goes back, and comes after the local dates of runs.  *)
LEMMA LocalDates ==
    ASSUME NEW d \in Definitions, NEW a \in Int, NEW b \in Int, a <= b
    PROVE  /\ LocalDate(d, a) \in Int /\ LocalDate(d, b) \in Int
           /\ LocalDate(d, a) <= LocalDate(d, b)
  BY DEF LocalDate, Definition

(* A date up to where a run marks is one it has inserted, one before its   *)
(* own today, or one behind the watermark it began from.                   *)
LEMMA Windowed ==
    ASSUME NEW item \in Item, NEW today \in Int, NEW d \in item.def.dates,
           today <= d, d <= Through(today)
    PROVE  d \in DatesToInsert(item, today) \/ (item.mt # Null /\ d <= item.mt)
<1>1. item.def \in Definitions /\ item.mt \in Int /\ d \in Int
  BY DEF Item, Definition, Dates, Null
<1>2. item.def.start \in Int /\ item.def.start <= d
  BY <1>1, StartsFirst DEF Definition, Dates
<1>3. CASE item.mt = Null
  BY <1>1, <1>2, <1>3 DEF DatesToInsert, From
<1>4. CASE item.mt # Null
  BY <1>1, <1>4 DEF DatesToInsert, From
<1>5. QED
  BY <1>3, <1>4

(* The mark of a run covers what it moves the watermark past.              *)
LEMMA MarkCovers ==
    ASSUME Typed, DatesKept, NEW p \in Procs, NEW item \in todo[p], Mark(p, item),
           item.id \notin edited, NEW d \in sched[item.id].def.dates,
           LocalDate(sched[item.id].def, day) <= d, d <= sched'[item.id].mt
    PROVE  occ[item.id][d].status # "none"
<1> DEFINE s == item.id
           today == LocalDate(item.def, now[p])
<1>1. /\ s \in Schedules /\ sched[s].status # "none" /\ item.mt \in Int /\ item.def \in Definitions
      /\ day \in Int /\ now[p] \in Int /\ sched[s].mt \in Int
  BY Numbers
<1>2. item.def = sched[s].def /\ item.mt <= sched[s].mt /\ now[p] <= day /\ item \in stored[p]
      /\ \A e \in DatesToInsert(item, today) : occ[s][e].status # "none"
  <2>1. Working(p) /\ pc[p] # "update" /\ item \in stored[p]
    BY DEF DatesKept, Mark, ReadyToMark
  <2>2. QED
    BY <2>1 DEF Working, Listed, Inserted
<1>3. \A e \in sched[s].def.dates :
        LocalDate(sched[s].def, day) <= e /\ e <= sched[s].mt => occ[s][e].status # "none"
  BY <1>1 DEF DatesKept, Covered
<1>4. today \in Int /\ today <= LocalDate(item.def, day) /\ LocalDate(item.def, day) \in Int
  BY <1>1, <1>2, LocalDates
<1>5. d \in Int /\ d \in item.def.dates
  BY <1>1, <1>2 DEF Definition, Dates
<1>6. today <= d
  BY <1>2, <1>4, <1>5, Rising
<1>7. sched'[s].mt = sched[s].mt \/ sched'[s].mt = Advance(sched[s].mt, Through(today))
  BY <1>1 DEF Mark, Typed, TypeOK
<1>8. CASE d <= sched[s].mt
  BY <1>3, <1>8
<1>9. CASE ~(d <= sched[s].mt)
  <2>1. d <= Through(today)
    BY <1>7, <1>9 DEF Advance
  <2>2. item \in Item
    BY DEF Typed, TypeOK
  <2>3. ~(d <= item.mt)
    BY <1>1, <1>2, <1>5, <1>9, Rising
  <2>4. QED
    BY <1>2, <1>4, <1>5, <1>6, <2>1, <2>2, <2>3, Windowed
<1>10. QED
  BY <1>8, <1>9

(* Every step keeps rows up to the watermark.                              *)
LEMMA CoveredStep ==
    ASSUME Typed, Typed', DatesKept, Good
    PROVE  Covered'
<1> SUFFICES ASSUME NEW s \in Schedules \ edited', sched'[s].status # "none",
                    NEW d \in sched'[s].def.dates,
                    LocalDate(sched'[s].def, day') <= d, d <= sched'[s].mt
             PROVE  occ'[s][d].status # "none"
  BY DEF Covered
<1>1. sched'[s].def \in Definitions
  BY DEF Typed, Defined
<1>2. d \in Dates /\ d \in Int
  BY <1>1 DEF Definition, Dates
<1>3. sched'[s].mt # Null
  BY <1>2 DEF Null, Dates
<1>4. /\ s \notin edited /\ sched'[s].def = sched[s].def /\ sched[s].status # "none"
      /\ sched'[s].mt = sched[s].mt
           \/ \E p \in Procs : \E item \in todo[p] : Mark(p, item) /\ item.id = s
  <2>1. \/ sched'[s].mt = sched[s].mt /\ sched[s].status # "none"
        \/ \E p \in Procs : \E item \in todo[p] : Mark(p, item) /\ item.id = s
    BY <1>3 DEF Good, MarkedOrSame
  <2>2. sched[s].status # "none"
    BY <2>1, Numbers
  <2>3. QED
    BY <2>1, <2>2 DEF Good, Kept
<1>5. LocalDate(sched[s].def, day) <= d
  <2>1. day \in Int /\ day' \in Int /\ day <= day'
    BY DEF Typed, TypeOK, Good, Kept
  <2>2. QED
    BY <1>1, <1>2, <1>4, <2>1, LocalDates, Rising
<1>6. occ[s][d].status # "none"
  <2>1. CASE sched'[s].mt = sched[s].mt
    BY <1>4, <1>5, <2>1 DEF DatesKept, Covered
  <2>2. CASE \E p \in Procs : \E item \in todo[p] : Mark(p, item) /\ item.id = s
    BY <1>4, <1>5, <2>2, MarkCovers
  <2>3. QED
    BY <1>4, <2>1, <2>2
<1>7. QED
  BY <1>2, <1>6 DEF Good, Kept

-------------------------------------------------------------------------------

(* The invariant is inductive.                                             *)
LEMMA DatesStep == Typed /\ DatesKept /\ [Next]_vars => DatesKept'
<1> SUFFICES ASSUME Typed, DatesKept, [Next]_vars PROVE DatesKept'
  OBVIOUS
<1>1. Typed'
  BY TypedStep
<1>2. Good
  BY <1>1, MaterializeSteps, RunSteps, RequestSteps, RequestGoesOn, OtherChanges
     DEF Next, WorkerStep, RequestStep, Procs
<1>3. QED
  BY <1>1, <1>2, CoveredStep DEF DatesKept, Good

(* It holds of empty tables.                                               *)
LEMMA DatesStart == Init => DatesKept
  BY DEF Init, DatesKept, Covered, Working, Listed, Inserted, NoSchedule

(* Every recurrence date of an active schedule nobody has edited has its   *)
(* row, from today to the watermark: no run that stops half-way, no        *)
(* replica that works from an older list and no pause leaves a hole that   *)
(* later runs would pass over.                                             *)
THEOREM NoDateIsLost == Spec => []NoDateLost
<1>1. DatesKept => NoDateLost
  BY DEF DatesKept, Covered, NoDateLost, NoHole
<1>2. QED
  BY InitTyped, TypedStep, DatesStart, DatesStep, <1>1, PTL DEF Spec

===============================================================================
