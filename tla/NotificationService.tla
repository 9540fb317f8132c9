------------------------- MODULE NotificationService -------------------------
(***************************************************************************)
(* The notification_service: a POST /notifications request resolves the    *)
(* routes of the event's type, inserts one record per route in a single    *)
(* transaction, dispatches the records it inserted itself, one channel     *)
(* after the other, and writes the outcome of each.                        *)
(*                                                                         *)
(* Requests for the same event overlap: a caller that gave up, or lost the *)
(* answer, sends the event again while the first request is still running, *)
(* in the same process or in another one. They meet in PostgreSQL only, on *)
(* the row locks of the unique index over (event_id, channel).             *)
(***************************************************************************)
EXTENDS Router, FiniteSets

CONSTANTS
    EventIDs,
    Requests,     \* the POST /notifications requests
    None,
    TypeOf,       \* per event: its type
    PayloadOf,    \* per event: the recipient keys its payload holds
    MaxRetries,   \* cfg.DispatchMaxRetries: attempts after the first
    MaxFaults     \* bound: infrastructure faults in one behaviour

ASSUME NoneAssumption == None \notin EventIDs /\ None \notin Requests

ASSUME BoundAssumption == MaxRetries \in Nat /\ MaxFaults \in Nat

ASSUME EventAssumption ==
    /\ DOMAIN TypeOf = EventIDs
    /\ PayloadOf \in [EventIDs -> SUBSET {"email", "webhook_url"}]

Keys == EventIDs \X Channels

VARIABLES
    table,      \* committed status of each notification, "none" without a row
    lock,       \* the request whose open transaction holds the row, or None
    req,        \* per request: where its handler is
    faults,     \* faults so far
    senders,    \* history: the requests that began to dispatch a notification
    delivered,  \* history: has the provider confirmed a delivery?
    errors      \* history: how many sends the provider answered with an error

vars == <<table, lock, req, faults, senders, delivered, errors>>
history == <<senders, delivered, errors>>

\* k is the position in the route list, inserted the channels whose record
\* this request has inserted, gone whether its context is cancelled.
IdleRequest ==
    [pc |-> "idle", ev |-> None, k |-> 1, inserted |-> {}, attempt |-> 0,
     outcome |-> "pending", answer |-> "none", gone |-> FALSE]

Init ==
    /\ table     = [n \in Keys |-> "none"]
    /\ lock      = [n \in Keys |-> None]
    /\ req       = [r \in Requests |-> IdleRequest]
    /\ faults    = 0
    /\ senders   = [n \in Keys |-> {}]
    /\ delivered = [n \in Keys |-> FALSE]
    /\ errors    = [n \in Keys |-> 0]

Faulty ==
    /\ faults < MaxFaults
    /\ faults' = faults + 1

Routes(e) == Resolve(TypeOf[e])
ChannelsOf == [e \in EventIDs |-> {Routes(e)[k] : k \in 1..Len(Routes(e))}]

At(r, pc)    == req[r].pc = pc
More(r)      == req[r].k <= Len(Routes(req[r].ev))
Channel(r)   == Routes(req[r].ev)[req[r].k]
Key(r)       == <<req[r].ev, Channel(r)>>
Active(r)    == req[r].pc \notin {"idle", "done"}
Unlocked(S)  == [n \in Keys |-> IF lock[n] \in S THEN None ELSE lock[n]]

\* A statement fails because the context is cancelled, or by a fault.
CallFails(r) == \/ req[r].gone /\ UNCHANGED faults
                \/ Faulty

\* Mutant: the handler answers 201 whatever error the service returns.
RespondCreated(r, code) ==
    req' = [req EXCEPT ![r].pc = "done",
                       ![r].answer = IF code = "500" THEN "201" ELSE code]

Respond(r, code) == req' = [req EXCEPT ![r].pc = "done", ![r].answer = code]

(***************************************************************************)
(* Validation and routing                                                  *)
(***************************************************************************)
\* The body is not valid, or the payload lacks the recipient of some route.
Refuse(r, e) ==
    /\ At(r, "idle")
    /\ e \in {None} \cup {f \in EventIDs : ~HasRecipients(TypeOf[f], PayloadOf[f])}
    /\ req' = [req EXCEPT ![r].pc = "done", ![r].answer = "400", ![r].ev = e]
    /\ UNCHANGED <<table, lock, faults, history>>

Receive(r, e) ==
    /\ At(r, "idle")
    /\ HasRecipients(TypeOf[e], PayloadOf[e])
    /\ req' = [req EXCEPT ![r].pc = "save", ![r].ev = e]
    /\ UNCHANGED <<table, lock, faults, history>>

(***************************************************************************)
(* SaveAll: one transaction with an upsert per route                       *)
(***************************************************************************)
\* INSERT ... ON CONFLICT waits for the row while another transaction holds it.
\* The row is new (xmax = 0) if no transaction has committed one.
\* Mutant: a row that is still pending counts as new.
IsNewOrPending(r) == table[Key(r)] \in {"none", "pending"}

IsNew(r) == table[Key(r)] = "none"

Upsert(r) ==
    /\ At(r, "save") /\ More(r)
    /\ ~req[r].gone
    /\ lock[Key(r)] = None
    /\ lock' = [lock EXCEPT ![Key(r)] = r]
    /\ req' = [req EXCEPT ![r].k = @ + 1,
                          ![r].inserted = IF IsNew(r) THEN @ \cup {Channel(r)} ELSE @]
    /\ UNCHANGED <<table, faults, history>>

InsertedKeys(r) == {req[r].ev} \X req[r].inserted

\* Mutant: ON CONFLICT resets the status of a row that exists.
WriteAll(r) ==
    table' = [n \in Keys |-> IF n \in {req[r].ev} \X ChannelsOf[req[r].ev]
                             THEN "pending" ELSE table[n]]

WriteInserted(r) ==
    table' = [n \in Keys |-> IF n \in InsertedKeys(r) THEN "pending" ELSE table[n]]

\* Mutant: without the deferred Rollback.
KeepLocks(r) == UNCHANGED lock

EndTransaction(r) == lock' = Unlocked({r})

Commit(r) ==
    /\ At(r, "save") /\ ~More(r)
    /\ ~req[r].gone
    /\ WriteInserted(r)
    /\ EndTransaction(r)
    /\ req' = [req EXCEPT ![r].pc = "dispatch", ![r].k = 1]
    /\ UNCHANGED <<faults, history>>

\* BEGIN, an upsert or COMMIT fails and the transaction is rolled back.
SaveFails(r) ==
    /\ At(r, "save")
    /\ CallFails(r)
    /\ EndTransaction(r)
    /\ Respond(r, "500")
    /\ UNCHANGED <<table, history>>

\* COMMIT takes effect, but its answer is lost.
CommitUnheard(r) ==
    /\ At(r, "save") /\ ~More(r)
    /\ Faulty
    /\ WriteInserted(r)
    /\ EndTransaction(r)
    /\ Respond(r, "500")
    /\ UNCHANGED history

(***************************************************************************)
(* The dispatch loop                                                       *)
(***************************************************************************)
\* Mutant: the loop starts at the second route.
IsMineNotFirst(r) == Channel(r) \in req[r].inserted /\ req[r].k > 1

IsMine(r) == Channel(r) \in req[r].inserted

\* A record that some other request inserted is not dispatched.
Skip(r) ==
    /\ At(r, "dispatch") /\ More(r)
    /\ ~IsMine(r)
    /\ req' = [req EXCEPT ![r].k = @ + 1]
    /\ UNCHANGED <<table, lock, faults, history>>

StartDispatch(r) ==
    /\ At(r, "dispatch") /\ More(r)
    /\ IsMine(r)
    /\ req' = [req EXCEPT ![r].pc = "send", ![r].attempt = 0]
    /\ senders' = [senders EXCEPT ![Key(r)] = @ \cup {r}]
    /\ UNCHANGED <<table, lock, faults, delivered, errors>>

Dispatched(r, outcome) ==
    req' = [req EXCEPT ![r].pc = "mark", ![r].outcome = outcome]

\* Mutant: one attempt too few.
HasFewerAttempts(r) == req[r].attempt + 1 < MaxRetries

\* Mutant: attempts are not counted.
HasAlwaysAttempts(r) == At(r, "send")

HasAttempts(r) == req[r].attempt < MaxRetries

\* One attempt of RetryingDispatcher.Send: the provider answers with success
\* or with an error, and after an error it is tried again while attempts remain.
Send(r) ==
    /\ At(r, "send")
    /\ \/ /\ delivered' = [delivered EXCEPT ![Key(r)] = TRUE]
          /\ Dispatched(r, "sent")
          /\ UNCHANGED errors
       \/ /\ errors' = [errors EXCEPT ![Key(r)] = @ + 1]
          /\ IF HasAttempts(r)
             THEN req' = [req EXCEPT ![r].attempt = @ + 1]
             ELSE Dispatched(r, "failed")
          /\ UNCHANGED delivered
    /\ UNCHANGED <<table, lock, faults, senders>>

\* The context is done before the backoff is over.
BackoffCancelled(r) ==
    /\ At(r, "send")
    /\ req[r].attempt > 0
    /\ req[r].gone
    /\ Dispatched(r, "failed")
    /\ UNCHANGED <<table, lock, faults, history>>

\* The UPDATE waits for a transaction that holds the row.
UpdateStatus(r) ==
    /\ At(r, "mark")
    /\ ~req[r].gone
    /\ lock[Key(r)] = None
    /\ table' = [table EXCEPT ![Key(r)] = req[r].outcome]
    /\ req' = [req EXCEPT ![r].pc = "dispatch", ![r].k = @ + 1]
    /\ UNCHANGED <<lock, faults, history>>

\* The UPDATE returns an error, with or without effect: the request ends here,
\* whatever channels are left.
UpdateFails(r) ==
    /\ At(r, "mark")
    /\ CallFails(r)
    /\ \/ UNCHANGED table
       \/ /\ lock[Key(r)] = None
          /\ table' = [table EXCEPT ![Key(r)] = req[r].outcome]
    /\ Respond(r, "500")
    /\ UNCHANGED <<lock, history>>

Created(r) ==
    /\ At(r, "dispatch") /\ ~More(r)
    /\ Respond(r, "201")
    /\ UNCHANGED <<table, lock, faults, history>>

SendNotification(r) ==
    \/ Upsert(r) \/ Commit(r) \/ SaveFails(r) \/ CommitUnheard(r)
    \/ Skip(r) \/ StartDispatch(r) \/ Send(r) \/ BackoffCancelled(r)
    \/ UpdateStatus(r) \/ UpdateFails(r) \/ Created(r)

(***************************************************************************)
(* The environment                                                         *)
(***************************************************************************)
\* The caller disconnects: the client timeout of the worker, which is no fault,
\* or its crash.
ClientGone(r) ==
    /\ Active(r)
    /\ ~req[r].gone
    /\ req' = [req EXCEPT ![r].gone = TRUE]
    /\ UNCHANGED <<table, lock, faults, history>>

\* A process dies with the requests S it was serving; PostgreSQL rolls back.
Crash(S) ==
    /\ Faulty
    /\ req' = [r \in Requests |->
                  IF r \in S THEN [req[r] EXCEPT !.pc = "done", !.answer = "lost"]
                  ELSE req[r]]
    /\ lock' = Unlocked(S)
    /\ UNCHANGED <<table, history>>

Next ==
    \/ \E r \in Requests :
          \/ \E e \in EventIDs : Receive(r, e)
          \/ \E e \in EventIDs \cup {None} : Refuse(r, e)
          \/ SendNotification(r)
          \/ ClientGone(r)
    \/ \E S \in SUBSET {r \in Requests : Active(r)} \ {{}} : Crash(S)

Spec == Init /\ [][Next]_vars

-----------------------------------------------------------------------------
(***************************************************************************)
(* Properties                                                              *)
(***************************************************************************)
RequestStates ==
    [pc : {"idle", "save", "dispatch", "send", "mark", "done"},
     ev : EventIDs \cup {None},
     k : 1..3,
     inserted : SUBSET Channels,
     attempt : 0..MaxRetries,
     outcome : {"pending", "sent", "failed"},
     answer : {"none", "201", "400", "500", "lost"},
     gone : BOOLEAN]

\* Every variable keeps to its type, and a handler past validation has an event.
TypeOK ==
    /\ table \in [Keys -> {"none", "pending", "sent", "failed"}]
    /\ lock \in [Keys -> Requests \cup {None}]
    /\ req \in [Requests -> RequestStates]
    /\ \A r \in Requests : Active(r) => req[r].ev \in EventIDs
    /\ faults \in 0..MaxFaults
    /\ senders \in [Keys -> SUBSET Requests]
    /\ delivered \in [Keys -> BOOLEAN]
    /\ errors \in [Keys -> Nat]

\* Dispatch is idempotent per (event_id, channel): of all the requests for an
\* event, overlapping, repeated after a lost answer or after a crash, at most
\* one ever calls the dispatcher of a channel.
OneDispatcher == \A n \in Keys : Cardinality(senders[n]) <= 1

\* The provider of a notification is called at most MaxRetries + 1 times in all,
\* however often its event is sent again: retries of the caller never multiply
\* with those of the dispatcher, even when a call that delivered answers with
\* an error.
BoundedCalls ==
    \A n \in Keys : errors[n] + (IF delivered[n] THEN 1 ELSE 0) <= MaxRetries + 1

\* The record exists before the side effect, and a record tells the truth about
\* it: sent only after a confirmed delivery, failed only when every attempt
\* was answered with an error or the caller went away during the backoff.
RecordIsTruthful ==
    \A n \in Keys :
       /\ senders[n] # {} => table[n] # "none"
       /\ table[n] = "sent" => delivered[n]
       /\ table[n] = "failed" =>
             /\ ~delivered[n]
             /\ errors[n] > MaxRetries \/ \E r \in senders[n] : req[r].gone

\* 201 means that every routed channel of the event has a record, and that those
\* this request inserted have their outcome. 400 leaves no record behind.
CreatedIsHonest ==
    \A r \in Requests :
       /\ req[r].answer = "201" =>
             /\ \A c \in ChannelsOf[req[r].ev] : table[<<req[r].ev, c>>] # "none"
             /\ \A n \in InsertedKeys(r) : table[n] \in {"sent", "failed"}
       /\ req[r].answer = "400" /\ req[r].ev # None =>
             \A c \in Channels : table[<<req[r].ev, c>>] = "none"

\* A record is left pending for good only by a request that ended with 500 or
\* with no answer at all: as long as it is pending, the request that inserted
\* it is running or ended so.
PendingHasReason ==
    \A n \in Keys :
       table[n] = "pending" =>
          \E r \in Requests :
             /\ n \in InsertedKeys(r)
             /\ Active(r) \/ req[r].answer \in {"500", "lost"}

\* Each event's records appear together, are dispatched once and settled once.
Ledger == INSTANCE NotificationLedger
             WITH record <- table, dispatched <- [n \in Keys |-> senders[n] # {}]
ImplementsLedger == Ledger!Spec

\* r waits for a row that the open transaction of s holds.
Awaits(r, s) ==
    /\ r # s
    /\ (At(r, "save") /\ More(r)) \/ At(r, "mark")
    /\ lock[Key(r)] = s

\* Requests that wait for one another never deadlock: all transactions take the
\* rows in route order, so that whoever is waited for is further on its way to
\* COMMIT, and nobody who has been answered holds a row.
WaitsAreOrdered ==
    \A r, s \in Requests :
       Awaits(r, s) => At(s, "save") /\ req[s].k > req[r].k
=============================================================================
