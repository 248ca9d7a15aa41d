-------------------- MODULE OpenBankingAuthorizationProofs ---------------------
(***************************************************************************)
(* Proofs about OpenBankingAuthorization. The inductive invariant adds to  *)
(* the properties what makes the claim of a callback exclusive and what    *)
(* ties sessions to the rows: an authorization that is not claimed yet has *)
(* nothing at the provider, a callback that has not exchanged its code     *)
(* finds no session, and a request to disconnect has closed the session    *)
(* when it comes to the row.                                               *)
(***************************************************************************)
EXTENDS OpenBankingAuthorization, TLAPS

(* Nothing has happened yet with an authorization that may be claimed.     *)
Fresh ==
    \A a \in Auths :
        row[a] \in {"none", "pending"} =>
            /\ session[a] = "none" /\ exchanges[a] = 0 /\ conn[a] = "none"
            /\ \A h \in Callbacks : at[h] # a

(* Only an authorization whose URL was given out goes on, and its id is    *)
(* stored by then.                                                         *)
Linked ==
    \A a \in Auths :
        /\ start[a] = "none" => row[a] = "none"
        /\ row[a] \in {"processing", "completed"} => a \in link
        /\ a \in link =>
             /\ start[a] = "over"
             /\ row[a] \in {"pending", "processing", "completed"} => a \in named

(* Where a callback is tells what there is at the provider.                *)
AtWork ==
    \A h \in Callbacks :
        /\ pc[h] = "idle" <=> at[h] = "none"
        /\ pc[h] = "claimed" => session[at[h]] = "none" /\ exchanges[at[h]] = 0
        /\ pc[h] \in {"claimed", "store"} => row[at[h]] \in {"processing", "gone"}
        /\ pc[h] \in {"store", "cleanup"} => session[at[h]] # "none"

(* A connection that was stored has had its session.                       *)
Opened == \A a \in Auths : conn[a] # "none" => session[a] # "none"

(* A request to disconnect has a session to close, or has closed it.       *)
Closing ==
    \A c \in Clients :
        goal[c] \in Auths =>
            /\ session[goal[c]] # "none"
            /\ goal[c] \notin todo[c] => session[goal[c]] # "live"

Order == Fresh /\ Linked /\ AtWork /\ Opened /\ Closing

IInv == TypeOK /\ ExchangedOnce /\ StatusTrue /\ NoForgottenSession /\ Order

-------------------------------------------------------------------------------
(* A new row is fresh, and no callback knows it.                           *)
LEMMA CreateStep ==
    ASSUME IInv, NEW a \in Auths, Create(a)
    PROVE  IInv'
<1>1. TypeOK'
  BY DEF IInv, TypeOK, callers, history, Create
<1>2. StatusTrue'
  BY DEF IInv, Order, StatusTrue, Fresh, Linked, callers, history, Create
<1>3. Fresh'
  BY DEF IInv, Order, Fresh, Linked, callers, history, Create
<1>4. Linked'
  BY DEF IInv, Order, TypeOK, Linked, callers, history, Create
<1>5. AtWork'
  BY DEF IInv, Order, Linked, AtWork, callers, history, Create
<1>6. ExchangedOnce' /\ NoForgottenSession' /\ Opened' /\ Closing'
  BY DEF IInv, Order, ExchangedOnce, NoForgottenSession, Opened, Closing, callers,
        history, Connected, Holds, Create
<1> QED BY <1>1, <1>2, <1>3, <1>4, <1>5, <1>6 DEF IInv, Order

(* The answer of the provider changes no row.                              *)
LEMMA StartedStep ==
    ASSUME IInv, NEW a \in Auths, Started(a)
    PROVE  IInv'
<1>1. TypeOK'
  BY DEF IInv, TypeOK, rows, callers, history, Started
<1>2. Linked'
  BY DEF IInv, Order, Linked, rows, callers, history, Started
<1>3. /\ ExchangedOnce'
      /\ StatusTrue'
      /\ NoForgottenSession'
      /\ Fresh'
      /\ AtWork'
      /\ Opened'
      /\ Closing'
  BY DEF IInv, Order, ExchangedOnce, StatusTrue, NoForgottenSession, Fresh, AtWork,
        Opened, Closing, rows, callers, history, Connected, Holds, Started
<1> QED BY <1>1, <1>2, <1>3 DEF IInv, Order

(* A row that fails at the start was never claimed.                        *)
LEMMA NotStartedStep ==
    ASSUME IInv, NEW a \in Auths, NotStarted(a)
    PROVE  IInv'
<1>1. TypeOK'
  BY AuthorizationAssumption DEF IInv, TypeOK, callers, history, Fault, Failed,
        NotStarted
<1>2. StatusTrue'
  BY DEF IInv, TypeOK, StatusTrue, callers, history, Fault, Failed, NotStarted
<1>3. Fresh'
  BY DEF IInv, Order, TypeOK, Fresh, callers, history, Fault, Failed, NotStarted
<1>4. Linked'
  BY DEF IInv, Order, TypeOK, Linked, callers, history, Fault, Failed, NotStarted
<1>5. AtWork'
  BY DEF IInv, Order, TypeOK, Linked, AtWork, callers, history, Fault, Failed,
        NotStarted
<1>6. ExchangedOnce' /\ NoForgottenSession' /\ Opened' /\ Closing'
  BY DEF IInv, Order, ExchangedOnce, NoForgottenSession, Opened, Closing, callers,
        history, Connected, Fault, Failed, Holds, NotStarted
<1> QED BY <1>1, <1>2, <1>3, <1>4, <1>5, <1>6 DEF IInv, Order

(* The URL is given out with the id stored.                                *)
LEMMA NameStep ==
    ASSUME IInv, NEW a \in Auths, Name(a)
    PROVE  IInv'
<1>1. TypeOK'
  BY DEF IInv, TypeOK, callers, history, Name
<1>2. StatusTrue'
  BY DEF IInv, StatusTrue, callers, history, Name
<1>3. Linked'
  BY DEF IInv, Order, TypeOK, Linked, callers, history, Name
<1>4. /\ ExchangedOnce'
      /\ NoForgottenSession'
      /\ Fresh'
      /\ AtWork'
      /\ Opened'
      /\ Closing'
  BY DEF IInv, Order, ExchangedOnce, NoForgottenSession, Fresh, AtWork, Opened,
        Closing, callers, history, Connected, Holds, Name
<1> QED BY <1>1, <1>2, <1>3, <1>4 DEF IInv, Order

(* An id may be stored for nothing; the URL is not given out.              *)
LEMMA NotNamedStep ==
    ASSUME IInv, NEW a \in Auths, NotNamed(a)
    PROVE  IInv'
<1>1. TypeOK'
  BY AuthorizationAssumption DEF IInv, TypeOK, callers, history, Fault, NotNamed
<1>2. StatusTrue'
  BY DEF IInv, StatusTrue, callers, history, Fault, NotNamed
<1>3. Linked'
  BY DEF IInv, Order, Linked, callers, history, Fault, NotNamed
<1>4. /\ ExchangedOnce'
      /\ NoForgottenSession'
      /\ Fresh'
      /\ AtWork'
      /\ Opened'
      /\ Closing'
  BY DEF IInv, Order, ExchangedOnce, NoForgottenSession, Fresh, AtWork, Opened,
        Closing, callers, history, Connected, Fault, Holds, NotNamed
<1> QED BY <1>1, <1>2, <1>3, <1>4 DEF IInv, Order

(* Time only takes away the right to claim.                                *)
LEMMA ExpireStep ==
    ASSUME IInv, NEW a \in Auths, Expire(a)
    PROVE  IInv'
<1>1. TypeOK'
  BY DEF IInv, TypeOK, rows, callers, history, Expire
<1>2. /\ ExchangedOnce'
      /\ StatusTrue'
      /\ NoForgottenSession'
      /\ Fresh'
      /\ Linked'
      /\ AtWork'
      /\ Opened'
      /\ Closing'
  BY DEF IInv, Order, ExchangedOnce, StatusTrue, NoForgottenSession, Fresh, Linked,
        AtWork, Opened, Closing, rows, callers, history, Connected, Holds, Expire
<1> QED BY <1>1, <1>2 DEF IInv, Order

(* What is claimed was fresh, so no other callback has it and nothing is   *)
(* at the provider yet.                                                    *)
LEMMA ClaimStep ==
    ASSUME IInv, NEW h \in Callbacks, NEW a \in Auths, Claim(h, a)
    PROVE  IInv'
<1>1. TypeOK'
  BY DEF IInv, TypeOK, history, Claimable, Claim
<1>2. ExchangedOnce'
  BY DEF IInv, Order, TypeOK, ExchangedOnce, Fresh, history, Claimable, Claim
<1>3. StatusTrue'
  BY DEF IInv, TypeOK, StatusTrue, history, Claimable, Claim
<1>4. NoForgottenSession'
  BY DEF IInv, NoForgottenSession, history, Connected, Claimable, Holds, Claim
<1>5. Fresh'
  BY DEF IInv, Order, TypeOK, Fresh, history, Claimable, Claim
<1>6. Linked'
  BY DEF IInv, Order, Linked, history, Claimable, Claim
<1>7. AtWork'
  BY DEF IInv, Order, TypeOK, Fresh, AtWork, history, Claimable, Claim
<1>8. Opened' /\ Closing'
  BY DEF IInv, Order, Opened, Closing, history, Claimable, Claim
<1> QED BY <1>1, <1>2, <1>3, <1>4, <1>5, <1>6, <1>7, <1>8 DEF IInv, Order

(* A callback without a code goes on to record that.                       *)
LEMMA DeclinedStep ==
    ASSUME IInv, NEW h \in Callbacks, Declined(h)
    PROVE  IInv'
<1>1. TypeOK'
  BY DEF IInv, TypeOK, rows, history, Go, Declined
<1>2. ExchangedOnce'
  BY DEF IInv, ExchangedOnce, rows, history, Go, Declined
<1>3. StatusTrue'
  BY DEF IInv, StatusTrue, rows, history, Go, Declined
<1>4. NoForgottenSession'
  BY DEF IInv, NoForgottenSession, rows, history, Connected, Go, Holds, Declined
<1>5. AtWork'
  BY DEF IInv, Order, AtWork, rows, history, Go, Declined
<1>6. Fresh' /\ Linked' /\ Opened' /\ Closing'
  BY DEF IInv, Order, Fresh, Linked, Opened, Closing, rows, history, Go, Declined
<1> QED BY <1>1, <1>2, <1>3, <1>4, <1>5, <1>6 DEF IInv, Order

(* The session that is opened is held by its callback, and is the first of *)
(* the authorization.                                                      *)
LEMMA ExchangeStep ==
    ASSUME IInv, NEW h \in Callbacks, Exchange(h)
    PROVE  IInv'
<1>1. TypeOK'
  BY DEF IInv, TypeOK, rows, Go, Exchange
<1>2. ExchangedOnce'
  BY DEF IInv, Order, ExchangedOnce, AtWork, rows, Go, Exchange
<1>3. StatusTrue'
  BY DEF IInv, StatusTrue, rows, Go, Exchange
<1>4. NoForgottenSession'
  BY DEF IInv, TypeOK, NoForgottenSession, rows, Connected, Go, Holds, Exchange
<1>5. Fresh'
  BY DEF IInv, Order, Fresh, rows, Go, Exchange
<1>6. AtWork'
  BY DEF IInv, Order, TypeOK, ExchangedOnce, AtWork, rows, Go, Exchange
<1>7. Opened'
  BY DEF IInv, Order, Opened, rows, Go, Exchange
<1>8. Closing'
  BY DEF IInv, Order, AtWork, Closing, rows, Go, Exchange
<1>9. Linked'
  BY DEF IInv, Order, Linked, rows, Go, Exchange
<1> QED BY <1>1, <1>2, <1>3, <1>4, <1>5, <1>6, <1>7, <1>8, <1>9 DEF IInv, Order

(* A session nobody was told of is lost.                                   *)
LEMMA ExchangeFailsStep ==
    ASSUME IInv, NEW h \in Callbacks, ExchangeFails(h)
    PROVE  IInv'
<1>1. TypeOK'
  BY AuthorizationAssumption DEF IInv, TypeOK, rows, Fault, Go, Trouble,
        ExchangeFails
<1>2. ExchangedOnce'
  BY DEF IInv, Order, TypeOK, ExchangedOnce, AtWork, rows, Fault, Go, Trouble,
        ExchangeFails
<1>3. StatusTrue'
  BY DEF IInv, StatusTrue, rows, Fault, Go, Trouble, ExchangeFails
<1>4. NoForgottenSession'
  BY DEF IInv, TypeOK, NoForgottenSession, rows, Connected, Fault, Go, Trouble,
        Holds, ExchangeFails
<1>5. Fresh'
  BY DEF IInv, Order, TypeOK, Fresh, rows, Fault, Go, Trouble, ExchangeFails
<1>6. AtWork'
  BY DEF IInv, Order, TypeOK, ExchangedOnce, AtWork, rows, Fault, Go, Trouble,
        ExchangeFails
<1>7. Opened'
  BY DEF IInv, Order, TypeOK, Opened, rows, Fault, Go, Trouble, ExchangeFails
<1>8. Closing'
  BY DEF IInv, Order, TypeOK, AtWork, Closing, rows, Fault, Go, Trouble,
        ExchangeFails
<1>9. Linked'
  BY DEF IInv, Order, Linked, rows, Fault, Go, Trouble, ExchangeFails
<1> QED BY <1>1, <1>2, <1>3, <1>4, <1>5, <1>6, <1>7, <1>8, <1>9 DEF IInv, Order

(* The connection takes the session over from its callback.                *)
LEMMA StoreStep ==
    ASSUME IInv, NEW h \in Callbacks, Store(h)
    PROVE  IInv'
<1>1. TypeOK'
  BY DEF IInv, TypeOK, history, Go, Return, Storable, Stored, Store
<1>2. ExchangedOnce'
  BY AuthorizationAssumption DEF IInv, TypeOK, ExchangedOnce, history, Go, Return,
        Storable, Stored, Store
<1>3. StatusTrue'
  BY DEF IInv, Order, TypeOK, StatusTrue, Linked, history, Go, Return, Storable,
        Stored, Store
<1>4. NoForgottenSession'
  BY DEF IInv, TypeOK, NoForgottenSession, history, Connected, Go, Return, Storable,
        Stored, Holds, Store
<1>5. Fresh'
  BY AuthorizationAssumption DEF IInv, Order, Fresh, history, Go, Return, Storable,
        Stored, Store
<1>6. Linked'
  BY DEF IInv, Order, Linked, history, Go, Return, Storable, Stored, Store
<1>7. AtWork'
  BY DEF IInv, Order, TypeOK, ExchangedOnce, AtWork, history, Go, Return, Storable,
        Stored, Store
<1>8. Opened'
  BY DEF IInv, Order, AtWork, Opened, history, Go, Return, Storable, Stored, Store
<1>9. Closing'
  BY DEF IInv, Order, Closing, history, Go, Return, Storable, Stored, Store
<1> QED BY <1>1, <1>2, <1>3, <1>4, <1>5, <1>6, <1>7, <1>8, <1>9 DEF IInv, Order

(* Stored or not, the callback keeps the session until it has cleaned up.  *)
LEMMA StoreFailsStep ==
    ASSUME IInv, NEW h \in Callbacks, StoreFails(h)
    PROVE  IInv'
<1>1. TypeOK'
  BY AuthorizationAssumption DEF IInv, TypeOK, history, Fault, Go, Trouble, Storable,
        Stored, StoreFails
<1>2. ExchangedOnce'
  BY DEF IInv, ExchangedOnce, history, Fault, Go, Trouble, Storable, Stored,
        StoreFails
<1>3. StatusTrue'
  BY DEF IInv, Order, TypeOK, StatusTrue, Linked, history, Fault, Go, Trouble,
        Storable, Stored, StoreFails
<1>4. NoForgottenSession'
  BY DEF IInv, TypeOK, NoForgottenSession, history, Connected, Fault, Go, Trouble,
        Storable, Stored, Holds, StoreFails
<1>5. Fresh'
  BY DEF IInv, Order, TypeOK, Fresh, history, Fault, Go, Trouble, Storable, Stored,
        StoreFails
<1>6. Linked'
  BY DEF IInv, Order, TypeOK, Linked, history, Fault, Go, Trouble, Storable, Stored,
        StoreFails
<1>7. AtWork'
  BY DEF IInv, Order, TypeOK, ExchangedOnce, AtWork, history, Fault, Go, Trouble,
        Storable, Stored, StoreFails
<1>8. Opened'
  BY DEF IInv, Order, TypeOK, AtWork, Opened, history, Fault, Go, Trouble, Storable,
        Stored, StoreFails
<1>9. Closing'
  BY DEF IInv, Order, Closing, history, Fault, Go, Trouble, Storable, Stored,
        StoreFails
<1> QED BY <1>1, <1>2, <1>3, <1>4, <1>5, <1>6, <1>7, <1>8, <1>9 DEF IInv, Order

(* A callback that could not store closes the session, cancelled or not.   *)
LEMMA CleanUpStep ==
    ASSUME IInv, NEW h \in Callbacks, CleanUp(h)
    PROVE  IInv'
<1>1. TypeOK'
  BY DEF IInv, TypeOK, rows, history, Go, CanCleanUp, Closed, CleanUp
<1>2. ExchangedOnce'
  BY DEF IInv, ExchangedOnce, rows, history, Go, CanCleanUp, Closed, CleanUp
<1>3. StatusTrue'
  BY DEF IInv, StatusTrue, rows, history, Go, CanCleanUp, Closed, CleanUp
<1>4. NoForgottenSession'
  BY DEF IInv, TypeOK, NoForgottenSession, rows, history, Connected, Go, CanCleanUp,
        Closed, Holds, CleanUp
<1>5. Fresh'
  BY DEF IInv, Order, Fresh, rows, history, Go, CanCleanUp, Closed, CleanUp
<1>6. AtWork'
  BY DEF IInv, Order, AtWork, rows, history, Go, CanCleanUp, Closed, CleanUp
<1>7. Opened'
  BY DEF IInv, Order, Opened, rows, history, Go, CanCleanUp, Closed, CleanUp
<1>8. Closing'
  BY DEF IInv, Order, Closing, rows, history, Go, CanCleanUp, Closed, CleanUp
<1>9. Linked'
  BY DEF IInv, Order, Linked, rows, history, Go, CanCleanUp, Closed, CleanUp
<1> QED BY <1>1, <1>2, <1>3, <1>4, <1>5, <1>6, <1>7, <1>8, <1>9 DEF IInv, Order

(* A session the provider did not close is lost.                           *)
LEMMA CleanUpFailsStep ==
    ASSUME IInv, NEW h \in Callbacks, CleanUpFails(h)
    PROVE  IInv'
<1>1. TypeOK'
  BY AuthorizationAssumption DEF IInv, TypeOK, rows, Fault, Go, CanCleanUp,
        CleanUpFails
<1>2. ExchangedOnce'
  BY DEF IInv, ExchangedOnce, rows, Fault, Go, CanCleanUp, CleanUpFails
<1>3. StatusTrue'
  BY DEF IInv, StatusTrue, rows, Fault, Go, CanCleanUp, CleanUpFails
<1>4. NoForgottenSession'
  BY DEF IInv, NoForgottenSession, rows, Connected, Fault, Go, CanCleanUp, Holds,
        CleanUpFails
<1>5. AtWork'
  BY DEF IInv, Order, AtWork, rows, Fault, Go, CanCleanUp, CleanUpFails
<1>6. Fresh' /\ Linked' /\ Opened' /\ Closing'
  BY DEF IInv, Order, Fresh, Linked, Opened, Closing, rows, Fault, Go, CanCleanUp,
        CleanUpFails
<1> QED BY <1>1, <1>2, <1>3, <1>4, <1>5, <1>6 DEF IInv, Order

(* A failure is recorded only on what is not completed.                    *)
LEMMA FailStep ==
    ASSUME IInv, NEW h \in Callbacks, Fail(h)
    PROVE  IInv'
<1>1. TypeOK'
  BY DEF IInv, TypeOK, history, Failed, Go, Return, Fail
<1>2. ExchangedOnce'
  BY AuthorizationAssumption DEF IInv, TypeOK, ExchangedOnce, history, Failed, Go,
        Return, Fail
<1>3. StatusTrue'
  BY DEF IInv, TypeOK, StatusTrue, history, Failed, Go, Return, Fail
<1>4. NoForgottenSession'
  BY DEF IInv, NoForgottenSession, history, Connected, Failed, Go, Return, Holds,
        Fail
<1>5. Fresh'
  BY AuthorizationAssumption DEF IInv, Order, Fresh, history, Failed, Go, Return,
        Fail
<1>6. Linked'
  BY DEF IInv, Order, Linked, history, Failed, Go, Return, Fail
<1>7. AtWork'
  BY DEF IInv, Order, TypeOK, ExchangedOnce, AtWork, history, Failed, Go, Return,
        Fail
<1>8. Opened' /\ Closing'
  BY DEF IInv, Order, Opened, Closing, history, Failed, Go, Return, Fail
<1> QED BY <1>1, <1>2, <1>3, <1>4, <1>5, <1>6, <1>7, <1>8 DEF IInv, Order

(* Where the failure is not recorded, the callback was cut off.            *)
LEMMA FailIgnoredStep ==
    ASSUME IInv, NEW h \in Callbacks, FailIgnored(h)
    PROVE  IInv'
<1>1. TypeOK'
  BY AuthorizationAssumption DEF IInv, TypeOK, rows, Fault, Go, Return, Trouble,
        FailIgnored
<1>2. ExchangedOnce'
  BY AuthorizationAssumption DEF IInv, TypeOK, ExchangedOnce, rows, Fault, Go,
        Return, Trouble, FailIgnored
<1>3. StatusTrue'
  BY DEF IInv, StatusTrue, rows, Fault, Go, Return, Trouble, FailIgnored
<1>4. NoForgottenSession'
  BY DEF IInv, NoForgottenSession, rows, Connected, Fault, Go, Return, Trouble,
        Holds, FailIgnored
<1>5. Fresh'
  BY AuthorizationAssumption DEF IInv, Order, Fresh, rows, Fault, Go, Return,
        Trouble, FailIgnored
<1>6. AtWork'
  BY DEF IInv, Order, TypeOK, AtWork, rows, Fault, Go, Return, Trouble, FailIgnored
<1>7. Linked' /\ Opened' /\ Closing'
  BY DEF IInv, Order, Linked, Opened, Closing, rows, Fault, Go, Return, Trouble,
        FailIgnored
<1> QED BY <1>1, <1>2, <1>3, <1>4, <1>5, <1>6, <1>7 DEF IInv, Order

(* A cancelled request still has its callback.                             *)
LEMMA CancelStep ==
    ASSUME IInv, NEW h \in Callbacks, Cancel(h)
    PROVE  IInv'
<1>1. TypeOK'
  BY AuthorizationAssumption DEF IInv, TypeOK, rows, history, Fault, Cancel
<1>2. /\ ExchangedOnce'
      /\ StatusTrue'
      /\ NoForgottenSession'
      /\ Fresh'
      /\ Linked'
      /\ AtWork'
      /\ Opened'
      /\ Closing'
  BY DEF IInv, Order, ExchangedOnce, StatusTrue, NoForgottenSession, Fresh, Linked,
        AtWork, Opened, Closing, rows, history, Connected, Fault, Holds, Cancel
<1> QED BY <1>1, <1>2 DEF IInv, Order

(* A callback that stops gives up its session and its authorization.       *)
LEMMA StopStep ==
    ASSUME IInv, NEW h \in Callbacks, Stop(h)
    PROVE  IInv'
<1>1. TypeOK'
  BY AuthorizationAssumption DEF IInv, TypeOK, rows, Fault, Go, Return, Stop
<1>2. ExchangedOnce'
  BY AuthorizationAssumption DEF IInv, TypeOK, ExchangedOnce, rows, Fault, Go,
        Return, Stop
<1>3. StatusTrue'
  BY DEF IInv, StatusTrue, rows, Fault, Go, Return, Stop
<1>4. NoForgottenSession'
  BY DEF IInv, NoForgottenSession, rows, Connected, Fault, Go, Return, Holds, Stop
<1>5. Fresh'
  BY AuthorizationAssumption DEF IInv, Order, Fresh, rows, Fault, Go, Return, Stop
<1>6. AtWork'
  BY DEF IInv, Order, TypeOK, AtWork, rows, Fault, Go, Return, Stop
<1>7. Linked' /\ Opened' /\ Closing'
  BY DEF IInv, Order, Linked, Opened, Closing, rows, Fault, Go, Return, Stop
<1> QED BY <1>1, <1>2, <1>3, <1>4, <1>5, <1>6, <1>7 DEF IInv, Order

(* A connection that may be disconnected has had its session.              *)
LEMMA DisconnectStep ==
    ASSUME IInv, NEW c \in Clients, NEW a \in Auths, Disconnect(c, a)
    PROVE  IInv'
<1>1. TypeOK'
  BY AuthorizationAssumption DEF IInv, TypeOK, rows, history, Connected, Asked,
        Disconnect
<1>2. Closing'
  BY DEF IInv, Order, TypeOK, Opened, Closing, rows, history, Connected, Asked,
        Disconnect
<1>3. /\ ExchangedOnce'
      /\ StatusTrue'
      /\ NoForgottenSession'
      /\ Fresh'
      /\ Linked'
      /\ AtWork'
      /\ Opened'
  BY DEF IInv, Order, ExchangedOnce, StatusTrue, NoForgottenSession, Fresh, Linked,
        AtWork, Opened, rows, history, Connected, Asked, Holds, Disconnect
<1> QED BY <1>1, <1>2, <1>3 DEF IInv, Order

(* The list of sessions is no row of a connection.                         *)
LEMMA DeleteMeStep ==
    ASSUME IInv, NEW c \in Clients, DeleteMe(c)
    PROVE  IInv'
<1>1. TypeOK'
  BY AuthorizationAssumption DEF IInv, TypeOK, rows, history, Connected, Asked,
        DeleteMe
<1>2. Closing'
  BY AuthorizationAssumption DEF IInv, Order, Closing, rows, history, Connected,
        Asked, DeleteMe
<1>3. /\ ExchangedOnce'
      /\ StatusTrue'
      /\ NoForgottenSession'
      /\ Fresh'
      /\ Linked'
      /\ AtWork'
      /\ Opened'
  BY DEF IInv, Order, ExchangedOnce, StatusTrue, NoForgottenSession, Fresh, Linked,
        AtWork, Opened, rows, history, Connected, Asked, Holds, DeleteMe
<1> QED BY <1>1, <1>2, <1>3 DEF IInv, Order

(* A session is closed before it is struck off.                            *)
LEMMA CloseStep ==
    ASSUME IInv, NEW c \in Clients, NEW a \in Auths, Close(c, a)
    PROVE  IInv'
<1>1. TypeOK'
  BY DEF IInv, TypeOK, rows, history, Closed, AlreadyGone, Close
<1>2. NoForgottenSession'
  BY DEF IInv, NoForgottenSession, rows, history, Connected, Closed, AlreadyGone,
        Holds, Close
<1>3. Fresh'
  BY DEF IInv, Order, Fresh, rows, history, Closed, AlreadyGone, Close
<1>4. AtWork'
  BY DEF IInv, Order, AtWork, rows, history, Closed, AlreadyGone, Close
<1>5. Opened'
  BY DEF IInv, Order, Opened, rows, history, Closed, AlreadyGone, Close
<1>6. Closing'
  BY DEF IInv, Order, TypeOK, Closing, rows, history, Closed, AlreadyGone, Close
<1>7. ExchangedOnce' /\ StatusTrue' /\ Linked'
  BY DEF IInv, Order, ExchangedOnce, StatusTrue, Linked, rows, history, Closed,
        AlreadyGone, Close
<1> QED BY <1>1, <1>2, <1>3, <1>4, <1>5, <1>6, <1>7 DEF IInv, Order

(* A request that ends early has closed some sessions and removed nothing. *)
LEMMA RequestFailsStep ==
    ASSUME IInv, NEW c \in Clients, RequestFails(c)
    PROVE  IInv'
<1>1. TypeOK'
  BY AuthorizationAssumption DEF IInv, TypeOK, rows, history, Fault, Closed,
        RequestFails
<1>2. NoForgottenSession'
  BY DEF IInv, TypeOK, NoForgottenSession, rows, history, Connected, Fault, Closed,
        Holds, RequestFails
<1>3. Fresh'
  BY DEF IInv, Order, TypeOK, Fresh, rows, history, Fault, Closed, RequestFails
<1>4. AtWork'
  BY DEF IInv, Order, TypeOK, AtWork, rows, history, Fault, Closed, RequestFails
<1>5. Opened'
  BY DEF IInv, Order, TypeOK, Opened, rows, history, Fault, Closed, RequestFails
<1>6. Closing'
  BY AuthorizationAssumption DEF IInv, Order, TypeOK, Closing, rows, history, Fault,
        Closed, RequestFails
<1>7. ExchangedOnce' /\ StatusTrue' /\ Linked'
  BY DEF IInv, Order, ExchangedOnce, StatusTrue, Linked, rows, history, Fault,
        Closed, RequestFails
<1> QED BY <1>1, <1>2, <1>3, <1>4, <1>5, <1>6, <1>7 DEF IInv, Order

(* The session of a connection that is removed is closed by then.          *)
LEMMA RemoveConnectionStep ==
    ASSUME IInv, NEW c \in Clients, NEW a \in Auths, RemoveConnection(c, a)
    PROVE  IInv'
<1>1. TypeOK'
  BY DEF IInv, TypeOK, history, Connected, MayRemove, RemoveConnection
<1>2. StatusTrue'
  BY DEF IInv, StatusTrue, history, Connected, MayRemove, RemoveConnection
<1>3. NoForgottenSession'
  BY DEF IInv, Order, NoForgottenSession, Closing, history, Connected, MayRemove,
        Holds, RemoveConnection
<1>4. Fresh'
  BY DEF IInv, Order, Fresh, history, Connected, MayRemove, RemoveConnection
<1>5. Opened'
  BY DEF IInv, Order, Opened, history, Connected, MayRemove, RemoveConnection
<1>6. Closing'
  BY AuthorizationAssumption DEF IInv, Order, Closing, history, Connected, MayRemove,
        RemoveConnection
<1>7. ExchangedOnce' /\ Linked' /\ AtWork'
  BY DEF IInv, Order, ExchangedOnce, Linked, AtWork, history, Connected, MayRemove,
        RemoveConnection
<1> QED BY <1>1, <1>2, <1>3, <1>4, <1>5, <1>6, <1>7 DEF IInv, Order

(* Without the user no session needs its connection.                       *)
LEMMA RemoveUserStep ==
    ASSUME IInv, NEW c \in Clients, RemoveUser(c)
    PROVE  IInv'
<1>1. TypeOK'
  BY AuthorizationAssumption DEF IInv, Order, TypeOK, ExchangedOnce, StatusTrue,
        NoForgottenSession, Fresh, Linked, AtWork, Opened, Closing, history,
        Connected, MayRemove, Holds, RemoveUser
<1>2. StatusTrue'
  BY DEF IInv, StatusTrue, history, MayRemove, RemoveUser
<1>3. NoForgottenSession'
  BY DEF IInv, NoForgottenSession, history, Connected, MayRemove, Holds, RemoveUser
<1>4. Fresh'
  BY DEF IInv, Order, Fresh, history, MayRemove, RemoveUser
<1>5. Linked'
  BY DEF IInv, Order, Linked, history, MayRemove, RemoveUser
<1>6. AtWork'
  BY DEF IInv, Order, TypeOK, AtWork, history, MayRemove, RemoveUser
<1>7. Opened'
  BY DEF IInv, Order, Opened, history, MayRemove, RemoveUser
<1>8. Closing'
  BY AuthorizationAssumption DEF IInv, Order, Closing, history, MayRemove,
        RemoveUser
<1>9. ExchangedOnce'
  BY DEF IInv, ExchangedOnce, history, MayRemove, RemoveUser
<1> QED BY <1>1, <1>2, <1>3, <1>4, <1>5, <1>6, <1>7, <1>8, <1>9 DEF IInv, Order

(* A session that is over is not live.                                     *)
LEMMA ConsentEndsStep ==
    ASSUME IInv, NEW a \in Auths, ConsentEnds(a)
    PROVE  IInv'
<1>1. TypeOK'
  BY DEF IInv, TypeOK, rows, callers, history, ConsentEnds
<1>2. NoForgottenSession'
  BY DEF IInv, NoForgottenSession, rows, callers, history, Connected, Holds,
        ConsentEnds
<1>3. Fresh'
  BY DEF IInv, Order, Fresh, rows, callers, history, ConsentEnds
<1>4. AtWork'
  BY DEF IInv, Order, AtWork, rows, callers, history, ConsentEnds
<1>5. Opened'
  BY DEF IInv, Order, Opened, rows, callers, history, ConsentEnds
<1>6. Closing'
  BY DEF IInv, Order, Closing, rows, callers, history, ConsentEnds
<1>7. ExchangedOnce' /\ StatusTrue' /\ Linked'
  BY DEF IInv, Order, ExchangedOnce, StatusTrue, Linked, rows, callers, history,
        ConsentEnds
<1> QED BY <1>1, <1>2, <1>3, <1>4, <1>5, <1>6, <1>7 DEF IInv, Order

(* The status of a connection follows its session.                         *)
LEMMA RefreshStep ==
    ASSUME IInv, NEW a \in Auths, Refresh(a)
    PROVE  IInv'
<1>1. TypeOK'
  BY DEF IInv, TypeOK, callers, history, Refresh
<1>2. StatusTrue'
  BY DEF IInv, StatusTrue, callers, history, Refresh
<1>3. NoForgottenSession'
  BY DEF IInv, NoForgottenSession, callers, history, Connected, Holds, Refresh
<1>4. Fresh'
  BY DEF IInv, Order, Fresh, callers, history, Refresh
<1>5. Opened'
  BY DEF IInv, Order, Opened, callers, history, Refresh
<1>6. ExchangedOnce' /\ Linked' /\ AtWork' /\ Closing'
  BY DEF IInv, Order, ExchangedOnce, Linked, AtWork, Closing, callers, history,
        Refresh
<1> QED BY <1>1, <1>2, <1>3, <1>4, <1>5, <1>6 DEF IInv, Order

-------------------------------------------------------------------------------
(* The strengthened invariant holds at the start, and every step keeps it. *)
LEMMA Inductive == Spec => []IInv
<1>1. Init => IInv
  BY AuthorizationAssumption
  DEF Init, IInv, TypeOK, ExchangedOnce, StatusTrue, NoForgottenSession, Order, Fresh,
      Linked, AtWork, Opened, Closing
<1>2. IInv /\ [Next]_vars => IInv'
  <2> SUFFICES ASSUME IInv, [Next]_vars
               PROVE  IInv'
    OBVIOUS
  <2>1. ASSUME NEW a \in Auths,
               \/ Create(a) \/ Started(a) \/ NotStarted(a) \/ Name(a) \/ NotNamed(a)
               \/ Expire(a) \/ ConsentEnds(a) \/ Refresh(a)
        PROVE  IInv'
    BY <2>1, CreateStep, StartedStep, NotStartedStep, NameStep, NotNamedStep, ExpireStep,
       ConsentEndsStep, RefreshStep
  <2>2. ASSUME NEW h \in Callbacks, Complete(h)
        PROVE  IInv'
    BY <2>2, DeclinedStep, ExchangeStep, ExchangeFailsStep, StoreStep, StoreFailsStep,
       CleanUpStep, CleanUpFailsStep, FailStep, FailIgnoredStep DEF Complete
  <2>3. ASSUME NEW h \in Callbacks,
               Cancel(h) \/ Stop(h) \/ \E a \in Auths : Claim(h, a)
        PROVE  IInv'
    BY <2>3, CancelStep, StopStep, ClaimStep
  <2>4. ASSUME NEW c \in Clients, Remove(c)
        PROVE  IInv'
    BY <2>4, CloseStep, RemoveConnectionStep, RemoveUserStep DEF Remove
  <2>5. ASSUME NEW c \in Clients,
               RequestFails(c) \/ DeleteMe(c) \/ \E a \in Auths : Disconnect(c, a)
        PROVE  IInv'
    BY <2>5, RequestFailsStep, DeleteMeStep, DisconnectStep
  <2>6. CASE UNCHANGED vars
    BY <2>6 DEF vars, IInv, TypeOK, ExchangedOnce, StatusTrue, NoForgottenSession, Order,
       Fresh, Linked, AtWork, Opened, Closing, Connected, Holds
  <2> QED BY <2>1, <2>2, <2>3, <2>4, <2>5, <2>6 DEF Next
<1> QED BY <1>1, <1>2, PTL DEF Spec

(* Every variable keeps its type, for any number of authorizations,        *)
(* callbacks and requests, however many calls fail.                        *)
THEOREM TypeCorrect == Spec => []TypeOK
<1>1. IInv => TypeOK
  BY DEF IInv
<1> QED BY <1>1, Inductive, PTL

(* However often and to however many replicas a callback comes, its code   *)
(* is exchanged once.                                                      *)
THEOREM CodesAreUsedOnce == Spec => []ExchangedOnce
<1>1. IInv => ExchangedOnce
  BY DEF IInv
<1> QED BY <1>1, Inductive, PTL

(* The status of an authorization says what became of it, whatever was     *)
(* lost on the way.                                                        *)
THEOREM RowsAreTrue == Spec => []StatusTrue
<1>1. IInv => StatusTrue
  BY DEF IInv
<1> QED BY <1>1, Inductive, PTL

(* As long as the user exists, no live session is forgotten but for the    *)
(* faults NoForgottenSession names.                                        *)
THEOREM SessionsAreKept == Spec => []NoForgottenSession
<1>1. IInv => NoForgottenSession
  BY DEF IInv
<1> QED BY <1>1, Inductive, PTL
================================================================================
