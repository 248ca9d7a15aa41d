----------------------- MODULE OpenBankingAuthorization -----------------------
(***************************************************************************)
(* How a user's bank connections come and go: an authorization is started  *)
(* at the provider, the browser brings its callback, the callback opens a  *)
(* session at the provider and stores a connection for it; the user        *)
(* disconnects a bank or deletes the account, which closes the sessions    *)
(* first. The sessions live at the provider and outlive what this server   *)
(* forgets.                                                                *)
(*                                                                         *)
(* One user, who has not more than the authorizations a in Auths; the      *)
(* session and the connection that come of an authorization have its name. *)
(***************************************************************************)
EXTENDS Naturals, FiniteSets

CONSTANTS
    Auths,          \* authorizations the user may start
    Callbacks,      \* callback requests at work at once, on any replica
    Clients,        \* requests of the user at work at once
    MaxRequests,    \* bound: requests of the user to disconnect or delete
    MaxFaults       \* bound: provider and database errors, cancelled requests

ASSUME AuthorizationAssumption ==
    /\ "none" \notin Auths /\ "user" \notin Auths
    /\ MaxRequests \in Nat /\ MaxFaults \in Nat

VARIABLES
    user,           \* whether the user's row exists
    start,          \* where StartOpenBankingAuthorization is
    row,            \* status of the row of open_banking_authorizations
    named,          \* rows that have the provider's authorization_id
    link,           \* authorizations whose URL the user was given
    expired,        \* those with expires_at in the past
    session,        \* the session at the provider
    conn,           \* status of the row of open_banking_connections
    pc, at,         \* where a callback is, and with which authorization
    alive,          \* whether its request context is not cancelled
    goal, todo,     \* what a request removes, and the sessions to close first
    exchanges,      \* history: how often the code was exchanged
    lost,           \* history: sessions no answer told of, or not reachable
    abandoned,      \* history: authorizations whose callback was cut off
    requests, faults

vars == <<user, start, row, named, link, expired, session, conn, pc, at, alive,
          goal, todo, exchanges, lost, abandoned, requests, faults>>

rows    == <<user, row, named, conn>>
callers == <<pc, at, alive, goal, todo>>
history == <<exchanges, lost, abandoned>>

Connected(a) == conn[a] \in {"authorized", "ended"}

Fault == faults < MaxFaults /\ faults' = faults + 1

-------------------------------------------------------------------------------
(* StartOpenBankingAuthorization: a row with the hash of a fresh state,    *)
(* the provider's URL, the provider's id                                   *)

Create(a) ==
    /\ user /\ start[a] = "none"
    /\ start' = [start EXCEPT ![a] = "asking"]
    /\ row' = [row EXCEPT ![a] = "pending"]
    /\ UNCHANGED <<user, named, conn, link, expired, session, callers, history,
                   requests, faults>>

Started(a) ==
    /\ start[a] = "asking"
    /\ start' = [start EXCEPT ![a] = "naming"]
    /\ UNCHANGED <<rows, link, expired, session, callers, history, requests, faults>>

MutantFailed(a) == [row EXCEPT ![a] = "failed"]

(* FailOpenBankingAuthorization: nothing happens to a row that is over.    *)
Failed(a) ==
    IF row[a] \in {"pending", "processing"} THEN [row EXCEPT ![a] = "failed"] ELSE row

(* The provider refuses or its answer is no valid URL. That the failure    *)
(* could not be recorded is ignored.                                       *)
NotStarted(a) ==
    /\ start[a] = "asking" /\ Fault
    /\ start' = [start EXCEPT ![a] = "over"]
    /\ row' \in {row, Failed(a)}
    /\ UNCHANGED <<user, named, conn, link, expired, session, callers, history, requests>>

(* The user gets the URL after its id is stored, which a row deleted with  *)
(* its user no longer takes.                                               *)
Name(a) ==
    /\ start[a] = "naming"
    /\ start' = [start EXCEPT ![a] = "over"]
    /\ IF row[a] = "pending"
       THEN named' = named \cup {a} /\ link' = link \cup {a}
       ELSE UNCHANGED <<named, link>>
    /\ UNCHANGED <<user, row, conn, expired, session, callers, history, requests, faults>>

NotNamed(a) ==
    /\ start[a] = "naming" /\ Fault
    /\ start' = [start EXCEPT ![a] = "over"]
    /\ named' \in {named, named \cup ({a} \cap {b \in Auths : row[b] = "pending"})}
    /\ UNCHANGED <<user, row, conn, link, expired, session, callers, history, requests>>

Expire(a) ==
    /\ row[a] = "pending" /\ a \notin expired
    /\ expired' = expired \cup {a}
    /\ UNCHANGED <<rows, start, link, session, callers, history, requests, faults>>

-------------------------------------------------------------------------------
(* CompleteOpenBankingAuthorization, for a callback h *)

MutantClaimable(a) == a \notin expired

(* UPDATE ... SET status='processing' WHERE the hash of the state is the   *)
(* row's: one of the callbacks with the same state gets it.                *)
Claimable(a) == row[a] = "pending" /\ a \notin expired

Claim(h, a) ==
    /\ pc[h] = "idle" /\ a \in link /\ Claimable(a)
    /\ pc' = [pc EXCEPT ![h] = "claimed"]
    /\ at' = [at EXCEPT ![h] = a]
    /\ row' = [row EXCEPT ![a] = "processing"]
    /\ UNCHANGED <<user, named, conn, start, link, expired, session, alive, goal, todo,
                   history, requests, faults>>

Go(h, place) == pc' = [pc EXCEPT ![h] = place]

MutantReturn(h) ==
    /\ pc' = pc
    /\ at' = [at EXCEPT ![h] = "none"]
    /\ alive' = [alive EXCEPT ![h] = TRUE]

(* The callback answers. *)
Return(h) ==
    /\ Go(h, "idle")
    /\ at' = [at EXCEPT ![h] = "none"]
    /\ alive' = [alive EXCEPT ![h] = TRUE]

(* The user declined, or there is no code: nothing was opened.             *)
Declined(h) ==
    /\ pc[h] = "claimed" /\ Go(h, "fail")
    /\ UNCHANGED <<rows, start, link, expired, session, at, alive, goal, todo, history,
                   requests, faults>>

(* AuthorizeSession: the code becomes a session. An answer that is lost    *)
(* leaves a session whose id nobody knows.                                 *)
Exchange(h) ==
    /\ pc[h] = "claimed" /\ alive[h] /\ Go(h, "store")
    /\ session' = [session EXCEPT ![at[h]] = "live"]
    /\ exchanges' = [exchanges EXCEPT ![at[h]] = @ + 1]
    /\ UNCHANGED <<rows, start, link, expired, at, alive, goal, todo, lost, abandoned,
                   requests, faults>>

Trouble(h) == IF alive[h] THEN Fault ELSE UNCHANGED faults

ExchangeFails(h) ==
    /\ pc[h] = "claimed" /\ Trouble(h) /\ Go(h, "fail")
    /\ \/ UNCHANGED <<session, exchanges, lost>>
       \/ /\ session' = [session EXCEPT ![at[h]] = "live"]
          /\ exchanges' = [exchanges EXCEPT ![at[h]] = @ + 1]
          /\ lost' = lost \cup {at[h]}
    /\ UNCHANGED <<rows, start, link, expired, at, alive, goal, todo, abandoned, requests>>

(* StoreOpenBankingConnection: one transaction. The row of the user and    *)
(* the authorization it updates must still be there.                       *)
Storable(a) == user /\ row[a] = "processing"

Stored(a) ==
    /\ conn' = [conn EXCEPT ![a] = "authorized"]
    /\ row' = [row EXCEPT ![a] = "completed"]

Store(h) ==
    /\ pc[h] = "store" /\ alive[h] /\ Storable(at[h])
    /\ Stored(at[h]) /\ Return(h)
    /\ UNCHANGED <<user, named, start, link, expired, session, goal, todo, history,
                   requests, faults>>

(* It fails, or its commit succeeds and the answer is lost.                *)
StoreFails(h) ==
    /\ pc[h] = "store" /\ Go(h, "cleanup")
    /\ \/ ~Storable(at[h]) /\ UNCHANGED <<conn, row, faults>>
       \/ Trouble(h) /\ UNCHANGED <<conn, row>>
       \/ Storable(at[h]) /\ Trouble(h) /\ Stored(at[h])
    /\ UNCHANGED <<user, named, start, link, expired, session, at, alive, goal, todo,
                   history, requests>>

MutantCanCleanUp(h) == alive[h]

(* DeleteSession with a context of its own, so that a cancelled request    *)
(* closes its session too.                                                 *)
CanCleanUp(h) == TRUE

Closed(a) == IF session[a] = "live" THEN [session EXCEPT ![a] = "closed"] ELSE session

CleanUp(h) ==
    /\ pc[h] = "cleanup" /\ CanCleanUp(h) /\ Go(h, "fail")
    /\ session' = Closed(at[h])
    /\ UNCHANGED <<rows, start, link, expired, at, alive, goal, todo, history, requests,
                   faults>>

CleanUpFails(h) ==
    /\ pc[h] = "cleanup" /\ Go(h, "fail")
    /\ IF CanCleanUp(h) THEN Fault /\ lost' = lost \cup {at[h]}
       ELSE UNCHANGED <<faults, lost>>
    /\ UNCHANGED <<rows, start, link, expired, session, at, alive, goal, todo, exchanges,
                   abandoned, requests>>

(* The failure is recorded with the request's own context, and an error of *)
(* that is ignored.                                                        *)
Fail(h) ==
    /\ pc[h] = "fail" /\ alive[h] /\ Return(h)
    /\ row' = Failed(at[h])
    /\ UNCHANGED <<user, named, conn, start, link, expired, session, goal, todo, history,
                   requests, faults>>

FailIgnored(h) ==
    /\ pc[h] = "fail" /\ Trouble(h) /\ Return(h)
    /\ abandoned' = abandoned \cup {at[h]}
    /\ UNCHANGED <<rows, start, link, expired, session, goal, todo, exchanges, lost,
                   requests>>

(* The browser goes away: the calls of the request fail from now on.       *)
Cancel(h) ==
    /\ pc[h] # "idle" /\ alive[h] /\ Fault
    /\ alive' = [alive EXCEPT ![h] = FALSE]
    /\ UNCHANGED <<rows, start, link, expired, session, pc, at, goal, todo, history,
                   requests>>

(* The replica dies: what it had in hand is forgotten.                     *)
Stop(h) ==
    /\ pc[h] # "idle" /\ Fault /\ Return(h)
    /\ abandoned' = abandoned \cup {at[h]}
    /\ lost' = lost \cup (IF pc[h] \in {"store", "cleanup"} THEN {at[h]} ELSE {})
    /\ UNCHANGED <<rows, start, link, expired, session, goal, todo, exchanges, requests>>

-------------------------------------------------------------------------------
(* DeleteOpenBankingConnection and DeleteMe of a request c: close the      *)
(* sessions, then delete the row                                           *)

Asked(c) ==
    /\ goal[c] = "none" /\ user /\ requests < MaxRequests
    /\ requests' = requests + 1
    /\ UNCHANGED <<rows, start, link, expired, session, pc, at, alive, history, faults>>

Disconnect(c, a) ==
    /\ Asked(c) /\ Connected(a)
    /\ goal' = [goal EXCEPT ![c] = a]
    /\ todo' = [todo EXCEPT ![c] = {a}]

(* ListOpenBankingProviderSessions. *)
DeleteMe(c) ==
    /\ Asked(c)
    /\ goal' = [goal EXCEPT ![c] = "user"]
    /\ todo' = [todo EXCEPT ![c] = {a \in Auths : Connected(a)}]

MutantAlreadyGone(a) == FALSE

(* The provider has no such session any more: it was closed, or is over.   *)
AlreadyGone(a) == session[a] # "live"

(* DeleteSession; an error that says that it is already gone is none.      *)
Close(c, a) ==
    /\ goal[c] # "none" /\ a \in todo[c]
    /\ session' = Closed(a)
    /\ LET ok == session[a] = "live" \/ AlreadyGone(a) IN
       /\ todo' = [todo EXCEPT ![c] = IF ok THEN @ \ {a} ELSE {}]
       /\ goal' = IF ok THEN goal ELSE [goal EXCEPT ![c] = "none"]
    /\ UNCHANGED <<rows, start, link, expired, pc, at, alive, history, requests, faults>>

(* A request ends early, with some of the sessions closed: the provider    *)
(* refuses, its answer is lost, or the row cannot be deleted. Also of a    *)
(* request that was cancelled or whose replica died.                       *)
RequestFails(c) ==
    /\ goal[c] # "none" /\ Fault
    /\ goal' = [goal EXCEPT ![c] = "none"]
    /\ todo' = [todo EXCEPT ![c] = {}]
    /\ session' \in {session} \cup {Closed(a) : a \in todo[c]}
    /\ UNCHANGED <<rows, start, link, expired, pc, at, alive, history, requests>>

MayRemove(c) == todo[c] = {}

RemoveConnection(c, a) ==
    /\ goal[c] = a /\ MayRemove(c)
    /\ goal' = [goal EXCEPT ![c] = "none"]
    /\ todo' = [todo EXCEPT ![c] = {}]
    /\ conn' = IF Connected(a) THEN [conn EXCEPT ![a] = "gone"] ELSE conn
    /\ UNCHANGED <<user, row, named, start, link, expired, session, pc, at, alive, history,
                   requests, faults>>

(* DELETE FROM users, and the rows that refer to it.                       *)
RemoveUser(c) ==
    /\ goal[c] = "user" /\ MayRemove(c)
    /\ goal' = [goal EXCEPT ![c] = "none"]
    /\ todo' = [todo EXCEPT ![c] = {}]
    /\ user' = FALSE /\ named' = {}
    /\ row' = [a \in Auths |-> IF row[a] = "none" THEN "none" ELSE "gone"]
    /\ conn' = [a \in Auths |-> IF conn[a] = "none" THEN "none" ELSE "gone"]
    /\ UNCHANGED <<start, link, expired, session, pc, at, alive, history, requests, faults>>

(* At the provider: the consent of a session ends.                         *)
ConsentEnds(a) ==
    /\ session[a] = "live"
    /\ session' = [session EXCEPT ![a] = "ended"]
    /\ UNCHANGED <<rows, start, link, expired, callers, history, requests, faults>>

(* GetOpenBankingConnection: the status is the provider's.                 *)
Refresh(a) ==
    /\ conn[a] = "authorized" /\ session[a] # "live"
    /\ conn' = [conn EXCEPT ![a] = "ended"]
    /\ UNCHANGED <<user, row, named, start, link, expired, session, callers, history,
                   requests, faults>>

-------------------------------------------------------------------------------
Init ==
    /\ user = TRUE
    /\ start = [a \in Auths |-> "none"] /\ row = [a \in Auths |-> "none"]
    /\ named = {} /\ link = {} /\ expired = {}
    /\ session = [a \in Auths |-> "none"] /\ conn = [a \in Auths |-> "none"]
    /\ pc = [h \in Callbacks |-> "idle"] /\ at = [h \in Callbacks |-> "none"]
    /\ alive = [h \in Callbacks |-> TRUE]
    /\ goal = [c \in Clients |-> "none"] /\ todo = [c \in Clients |-> {}]
    /\ exchanges = [a \in Auths |-> 0] /\ lost = {} /\ abandoned = {}
    /\ requests = 0 /\ faults = 0

Complete(h) ==
    \/ Declined(h) \/ Exchange(h) \/ ExchangeFails(h)
    \/ Store(h) \/ StoreFails(h)
    \/ CleanUp(h) \/ CleanUpFails(h)
    \/ Fail(h) \/ FailIgnored(h)

Remove(c) ==
    \/ \E a \in Auths : Close(c, a) \/ RemoveConnection(c, a)
    \/ RemoveUser(c)

Next ==
    \/ \E a \in Auths : \/ Create(a) \/ Started(a) \/ NotStarted(a)
                        \/ Name(a) \/ NotNamed(a) \/ Expire(a)
                        \/ ConsentEnds(a) \/ Refresh(a)
    \/ \E h \in Callbacks : \/ Complete(h) \/ Cancel(h) \/ Stop(h)
                            \/ \E a \in Auths : Claim(h, a)
    \/ \E c \in Clients : \/ Remove(c) \/ RequestFails(c) \/ DeleteMe(c)
                          \/ \E a \in Auths : Disconnect(c, a)

Spec == Init /\ [][Next]_vars

(* Every call a handler makes has a timeout, so a handler goes on.         *)
FairSpec ==
    /\ Spec
    /\ \A h \in Callbacks : WF_vars(Complete(h))
    /\ \A c \in Clients : WF_vars(Remove(c))

-------------------------------------------------------------------------------
(* Properties *)

TypeOK ==
    /\ user \in BOOLEAN
    /\ start \in [Auths -> {"none", "asking", "naming", "over"}]
    /\ row \in [Auths -> {"none", "pending", "processing", "completed", "failed", "gone"}]
    /\ named \subseteq Auths /\ link \subseteq Auths /\ expired \subseteq Auths
    /\ session \in [Auths -> {"none", "live", "ended", "closed"}]
    /\ conn \in [Auths -> {"none", "authorized", "ended", "gone"}]
    /\ pc \in [Callbacks -> {"idle", "claimed", "store", "cleanup", "fail"}]
    /\ at \in [Callbacks -> Auths \cup {"none"}]
    /\ \A h \in Callbacks : pc[h] # "idle" => at[h] \in Auths
    /\ alive \in [Callbacks -> BOOLEAN]
    /\ goal \in [Clients -> Auths \cup {"none", "user"}]
    /\ todo \in [Clients -> SUBSET Auths]
    /\ exchanges \in [Auths -> Nat]
    /\ lost \subseteq Auths /\ abandoned \subseteq Auths
    /\ requests \in 0 .. MaxRequests /\ faults \in 0 .. MaxFaults

Holds(h, a) == at[h] = a /\ pc[h] \in {"store", "cleanup"}

(* "The server validates and consumes the state once": however often the   *)
(* browser brings the callback and to whichever replica, the code of an    *)
(* authorization is exchanged once, and by one callback at a time.         *)
ExchangedOnce ==
    /\ \A a \in Auths : exchanges[a] <= 1
    /\ \A h, g \in Callbacks : h # g /\ pc[h] # "idle" => at[h] # at[g]

(* What the rows say: an authorization is completed exactly when its       *)
(* connection was stored, and then the provider's id of it is known; it is *)
(* processing only as long as a callback is at work with it, unless that   *)
(* was cut off.                                                            *)
StatusTrue ==
    \A a \in Auths :
        /\ row[a] = "completed" => conn[a] # "none" /\ a \in named
        /\ row[a] \in {"pending", "processing", "failed"} => conn[a] = "none"
        /\ row[a] = "processing" =>
             a \in abandoned \/ \E h \in Callbacks : at[h] = a /\ pc[h] # "idle"

(* No session stays open at the provider that the server has forgotten: as *)
(* long as the user exists, a live session has its connection, or a        *)
(* callback that will store or close it. Left over are those no answer     *)
(* told of, those the provider did not close, and those of a replica that  *)
(* died with them in hand; a cancelled request leaves none.                *)
NoForgottenSession ==
    user => \A a \in Auths :
        session[a] = "live" =>
            Connected(a) \/ a \in lost \/ \E h \in Callbacks : Holds(h, a)

(* A request of the user ends, and has done what it was for unless it met  *)
(* trouble: sessions that an earlier request closed before it failed, that *)
(* another request closes meanwhile or that are over do not stop it. A     *)
(* callback ends its authorization unless it was cut off.                  *)
EventuallyOver ==
    /\ [][\A c \in Clients :
            goal[c] # "none" /\ goal'[c] = "none" /\ faults' = faults =>
               IF goal[c] = "user" THEN ~user' ELSE conn'[goal[c]] = "gone"]_vars
    /\ \A c \in Clients : goal[c] # "none" ~> goal[c] = "none"
    /\ \A a \in Auths : row[a] = "processing" ~> row[a] # "processing" \/ a \in abandoned

(* service/open_banking_test.go:560, a test by the name of                 *)
(* DeleteMeRevokesProviderSessionsBeforeDeletingUser: when the user is     *)
(* gone, the provider has no live session of any connection that was       *)
(* stored.                                                                 *)
RevokedFirst ==
    ~user => \A a \in Auths : conn[a] = "gone" /\ a \notin lost => session[a] # "live"
==============================================================================
