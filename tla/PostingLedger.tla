---------------------------- MODULE PostingLedger ----------------------------
(***************************************************************************)
(* What the scheduled-money machinery promises to a user, with no worker,  *)
(* transaction boundary or snapshot in sight. A date of a schedule is      *)
(* taken for booking first, by one batch at a time and only while the      *)
(* schedule is open, and booked into the ledger at most once, a batch      *)
(* atomically. Closing a schedule strikes off dates nobody has taken, for  *)
(* good. A date that is taken and not struck off may still be booked after *)
(* the schedule is closed: no more than that is true of the code.          *)
(* ScheduledMoney is shown to implement this.                              *)
(***************************************************************************)
EXTENDS Naturals

CONSTANTS Schedules, Dates

VARIABLES
    booked,     \* booked[s][d]: how many transactions were ever made for date d
    standing,   \* standing[s]: is the schedule absent, open or closed
    taken,      \* the dates, <<s, d>>, that are about to be booked
    struck      \* struck[s]: the dates struck off when it was closed

ledgerVars == <<booked, standing, taken, struck>>

LedgerInit ==
    /\ booked = [s \in Schedules |-> [d \in Dates |-> 0]]
    /\ standing = [s \in Schedules |-> "absent"]
    /\ taken = {}
    /\ struck = [s \in Schedules |-> {}]

Open(s) ==
    /\ standing[s] = "absent"
    /\ standing' = [standing EXCEPT ![s] = "open"]
    /\ UNCHANGED <<booked, taken, struck>>

Close(s) ==
    /\ standing[s] = "open"
    /\ standing' = [standing EXCEPT ![s] = "closed"]
    /\ \E dates \in SUBSET Dates :
         /\ \A d \in dates : <<s, d>> \notin taken
         /\ struck' = [struck EXCEPT ![s] = dates]
    /\ UNCHANGED <<booked, taken>>

(* A batch, the dates in which taken' is larger, is taken ...              *)
Take ==
    /\ taken' \in SUBSET (Schedules \X Dates) /\ taken \subseteq taken'
    /\ \A r \in taken' \ taken : standing[r[1]] = "open" /\ booked[r[1]][r[2]] = 0
    /\ UNCHANGED <<booked, standing, struck>>

(* ... and, as the dates in which it is smaller, booked or given back.     *)
Book ==
    /\ taken' \subseteq taken
    /\ \A r \in taken \ taken' : r[2] \notin struck[r[1]] /\ booked[r[1]][r[2]] = 0
    /\ booked' = [s \in Schedules |-> [d \in Dates |->
                    IF <<s, d>> \in taken \ taken' THEN 1 ELSE booked[s][d]]]
    /\ UNCHANGED <<standing, struck>>

GiveBack ==
    /\ taken' \subseteq taken
    /\ UNCHANGED <<booked, standing, struck>>

LedgerNext ==
    \/ Take
    \/ Book
    \/ GiveBack
    \/ \E s \in Schedules : Open(s) \/ Close(s)

LedgerSpec == LedgerInit /\ [][LedgerNext]_ledgerVars
==============================================================================
