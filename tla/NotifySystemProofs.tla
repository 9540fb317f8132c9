------------------------- MODULE NotifySystemProofs -------------------------
(***************************************************************************)
(* Theorems about both services together, for any number of events,        *)
(* clients, instances and POSTs, any bounds and any number of faults.      *)
(*                                                                         *)
(* The two services take their steps in turn, so that the invariants of    *)
(* each, proved in the modules of its own, hold side by side. What is      *)
(* proved here is what connects them: the answers that the workers count   *)
(* are answers that were given.                                            *)
(***************************************************************************)
EXTENDS NotifySystem, TLAPS

\* The theorems about each service, for its place in the system.
EPP == INSTANCE EventProcessorSingleProofs
          WITH Requests <- Clients

NSP == INSTANCE NotificationServiceProofs
          WITH Requests <- Posts, MaxRetries <- DispatchMaxRetries

\* event_processor finds its assumptions on the constants met.
LEMMA EventAssumptions ==
    EPP!NoneAssumption /\ EPP!FiniteAssumption /\ EPP!BoundAssumption
<1>1. EPP!NoneAssumption
  BY SystemAssumption
<1>2. EPP!FiniteAssumption
  BY SystemAssumption DEF IsFiniteSet, EPP!IsFiniteSet
<1>3. EPP!BoundAssumption
  BY SystemAssumption
<1> QED
  BY <1>1, <1>2, <1>3

\* So does notification_service.
LEMMA NotificationAssumptions ==
    NSP!NoneAssumption /\ NSP!BoundAssumption /\ NSP!EventAssumption
BY SystemAssumption

(***************************************************************************)
(* Steps of event_processor                                                *)
(***************************************************************************)
\* The instance EP of NotifySystem and the instance EPP, which brings the theorems
\* about event_processor, define the same: here how many rows there are.
LEMMA SameCardinality ==
    ASSUME NEW S
    PROVE  EP!Cardinality(S) = EPP!Cardinality(S)
BY DEF EP!Cardinality, EPP!Cardinality

\* The same INSERT.
LEMMA SameInsert ==
    ASSUME NEW r, NEW e
    PROVE  EP!Insert(r, e) <=> EPP!Insert(r, e)
BY SameCardinality DEF EP!Insert, EP!Persisted, EPP!Insert, EPP!Persisted

\* The same moves of a handler.
LEMMA SameAnswer ==
    ASSUME NEW r
    PROVE  /\ \A a : EP!Answer(r, a) <=> EPP!Answer(r, a)
           /\ \A e : EP!ToEnqueue(r, e) <=> EPP!ToEnqueue(r, e)
BY DEF EP!Answer, EP!ToEnqueue, EP!HandlerState, EPP!Answer, EPP!ToEnqueue, EPP!HandlerState

\* The same count of faults.
LEMMA SameFaulty ==
    ASSUME NEW n
    PROVE  EP!Faulty(n) <=> EPP!Faulty(n)
BY DEF EP!Faulty, EPP!Faulty

\* The same LPUSH.
LEMMA SamePush ==
    ASSUME NEW e
    PROVE  /\ EP!Pushed(e) <=> EPP!Pushed(e)
           /\ EP!NotPushed(e) <=> EPP!NotPushed(e)
<1>1. \A n : EP!LeftPush(e, n) <=> EPP!LeftPush(e, n)
  BY DEF EP!LeftPush, EP!Copies, EPP!LeftPush, EPP!Copies
<1> QED
  BY <1>1, SameFaulty DEF EP!Pushed, EP!NotPushed, EPP!Pushed, EPP!NotPushed

\* The same steps of a POST /events handler.
LEMMA SameIngest ==
    ASSUME NEW r \in Clients, EP!IngestEvent(r)
    PROVE  EPP!IngestEvent(r)
<1>1. EP!IdFor(r) = EPP!IdFor(r)
  BY DEF EP!IdFor, EP!Persisted, EPP!IdFor, EPP!Persisted
<1>2. EP!Save(r) => EPP!Save(r)
  BY <1>1, SameInsert, SameAnswer DEF EP!Save, EP!history, EPP!Save, EPP!history
<1>3. EP!SaveDuplicate(r) => EPP!SaveDuplicate(r)
  BY SameAnswer DEF EP!SaveDuplicate, EP!Persisted, EP!db, EP!history,
                    EPP!SaveDuplicate, EPP!Persisted, EPP!db, EPP!history
<1>4. EP!SaveError(r) => EPP!SaveError(r)
  BY <1>1, SameInsert, SameAnswer, SameFaulty
     DEF EP!SaveError, EP!db, EP!history, EPP!SaveError, EPP!db, EPP!history
<1>5. EP!SaveResent(r) => EPP!SaveResent(r)
  BY <1>1, SameInsert, SameFaulty DEF EP!SaveResent, EP!db, EP!history,
                                      EPP!SaveResent, EPP!db, EPP!history
<1>6. EP!Enqueue(r) => EPP!Enqueue(r)
  BY SamePush, SameAnswer DEF EP!Enqueue, EP!db, EP!history, EPP!Enqueue, EPP!db, EPP!history
<1>7. EP!EnqueueFailed(r) => EPP!EnqueueFailed(r)
  BY SamePush, SameAnswer
     DEF EP!EnqueueFailed, EP!db, EP!history, EPP!EnqueueFailed, EPP!db, EPP!history
<1> QED
  BY <1>2, <1>3, <1>4, <1>5, <1>6, <1>7 DEF EP!IngestEvent, EPP!IngestEvent

\* The same steps of a worker between its attempts.
LEMMA SameProcess ==
    ASSUME NEW i \in Instances, EP!Process(i)
    PROVE  EPP!Process(i)
BY SameFaulty
   DEF EP!Process, EP!Dequeue, EP!DequeueLost, EP!Load, EP!Forwards, EP!LoadError,
       EP!UpdateStatus, EP!UpdateStatusError, EP!SetStatus, EP!IdleWorker, EP!Sending,
       EP!WorkerState, EP!db, EP!history,
       EPP!Process, EPP!Dequeue, EPP!DequeueLost, EPP!Load, EPP!Forwards, EPP!LoadError,
       EPP!UpdateStatus, EPP!UpdateStatusError, EPP!SetStatus, EPP!IdleWorker, EPP!Sending,
       EPP!WorkerState, EPP!db, EPP!history

\* The same answers to an attempt.
LEMMA SamePost ==
    ASSUME NEW i \in Instances
    PROVE  /\ EP!PostAccepted(i) => EPP!PostAccepted(i)
           /\ EP!PostRejected(i) => EPP!PostRejected(i)
           /\ EP!PostTransient(i) => EPP!PostTransient(i)
<1>1. \A w : EP!Attempted(i, w) <=> EPP!Attempted(i, w)
  BY DEF EP!Attempted, EP!db, EPP!Attempted, EPP!db
<1>2. /\ \A w, s : EP!Decided(w, s) = EPP!Decided(w, s)
      /\ \A w : EP!AfterRejection(w) = EPP!AfterRejection(w)
      /\ \A w : EP!AfterTransient(w) = EPP!AfterTransient(w)
  BY DEF EP!Decided, EP!AfterRejection, EP!AfterTransient, EP!Sending, EP!WorkerState,
         EPP!Decided, EPP!AfterRejection, EPP!AfterTransient, EPP!Sending, EPP!WorkerState
<1> QED
  BY <1>1, <1>2 DEF EP!PostAccepted, EP!PostRejected, EP!PostTransient,
                    EPP!PostAccepted, EPP!PostRejected, EPP!PostTransient

\* The same steps of the reconciler.
LEMMA SameReconciler ==
    ASSUME NEW i \in Instances, EP!RequeueStalePending(i)
    PROVE  EPP!RequeueStalePending(i)
<1>1. EP!Stale = EPP!Stale
  BY DEF EP!Stale, EPP!Stale
<1>2. \A S, e : EP!Before(S, e) = EPP!Before(S, e)
  BY DEF EP!Before, EPP!Before
<1>3. EP!PendingOlderThan = EPP!PendingOlderThan
  BY <1>1, <1>2, SameCardinality DEF EP!PendingOlderThan, EPP!PendingOlderThan
<1>4. EP!ListStale(i) => EPP!ListStale(i)
  BY <1>1, <1>3 DEF EP!ListStale, EP!db, EP!history, EPP!ListStale, EPP!db, EPP!history
<1>5. EP!Requeue(i) => EPP!Requeue(i)
  BY <1>2, SamePush DEF EP!Requeue, EP!db, EP!history, EPP!Requeue, EPP!db, EPP!history
<1> QED
  BY <1>4, <1>5 DEF EP!RequeueStalePending, EPP!RequeueStalePending

\* The same requests, passing of time, crashes and initial states.
LEMMA SameOther ==
    /\ \A r \in Clients : EP!Refuse(r) => EPP!Refuse(r)
    /\ \A r \in Clients, i \in Instances, id \in EventIDs \cup {None} :
          EP!Receive(r, i, id) => EPP!Receive(r, i, id)
    /\ EP!TimePasses => EPP!TimePasses
    /\ \A i \in Instances : EP!Crash(i) => EPP!Crash(i)
    /\ EP!Init => EPP!Init
<1>1. \A r \in Clients : EP!Refuse(r) => EPP!Refuse(r)
  BY SameAnswer DEF EP!Refuse, EP!db, EP!history, EPP!Refuse, EPP!db, EPP!history
<1>2. \A r \in Clients, i \in Instances, id \in EventIDs \cup {None} :
         EP!Receive(r, i, id) => EPP!Receive(r, i, id)
  BY DEF EP!Receive, EP!HandlerState, EP!db, EP!history,
         EPP!Receive, EPP!HandlerState, EPP!db, EPP!history
<1>3. EP!TimePasses => EPP!TimePasses
  BY SameCardinality DEF EP!TimePasses, EP!Persisted, EP!db, EP!history,
         EPP!TimePasses, EPP!Persisted, EPP!db, EPP!history
<1>4. \A i \in Instances : EP!Crash(i) => EPP!Crash(i)
  BY SameFaulty
     DEF EP!Crash, EP!HandlerState, EP!IdleWorker, EP!WorkerState, EP!db, EP!history,
         EPP!Crash, EPP!HandlerState, EPP!IdleWorker, EPP!WorkerState, EPP!db, EPP!history
<1>5. EP!Init => EPP!Init
  BY DEF EP!Init, EP!HandlerState, EP!IdleHandler, EP!IdleWorker, EP!WorkerState,
         EPP!Init, EPP!HandlerState, EPP!IdleHandler, EPP!IdleWorker, EPP!WorkerState
<1> QED
  BY <1>1, <1>2, <1>3, <1>4, <1>5

(***************************************************************************)
(* Steps of notification_service                                           *)
(***************************************************************************)
\* The instances NS and NSP of notification_service: the same routing.
LEMMA SameRoutes ==
    /\ \A e : NS!Routes(e) = NSP!Routes(e)
    /\ NS!ChannelsOf = NSP!ChannelsOf
    /\ NS!Keys = NSP!Keys
    /\ \A t, p : NS!HasRecipients(t, p) <=> NSP!HasRecipients(t, p)
<1>1. \A t : NS!Resolve(t) = NSP!Resolve(t)
  BY DEF NS!Resolve, NS!routes, NSP!Resolve, NSP!routes
<1>2. \A e : NS!Routes(e) = NSP!Routes(e)
  BY <1>1 DEF NS!Routes, NSP!Routes
<1>3. NS!ChannelsOf = NSP!ChannelsOf
  BY <1>2 DEF NS!ChannelsOf, NSP!ChannelsOf
<1>4. NS!Keys = NSP!Keys
  BY DEF NS!Keys, NS!Channels, NSP!Keys, NSP!Channels
<1>5. \A t, p : NS!HasRecipients(t, p) <=> NSP!HasRecipients(t, p)
  BY <1>1 DEF NS!HasRecipients, NS!RecipientKey, NSP!HasRecipients, NSP!RecipientKey
<1> QED
  BY <1>2, <1>3, <1>4, <1>5

\* The same view of a handler, and the same parts of its steps.
LEMMA SameState ==
    ASSUME NEW r
    PROVE  /\ \A pc : NS!At(r, pc) <=> NSP!At(r, pc)
           /\ NS!More(r) <=> NSP!More(r)
           /\ NS!Channel(r) = NSP!Channel(r)
           /\ NS!Key(r) = NSP!Key(r)
           /\ NS!Active(r) <=> NSP!Active(r)
           /\ NS!InsertedKeys(r) = NSP!InsertedKeys(r)
           /\ NS!IsNew(r) <=> NSP!IsNew(r)
           /\ NS!IsMine(r) <=> NSP!IsMine(r)
           /\ NS!HasAttempts(r) <=> NSP!HasAttempts(r)
           /\ NS!Faulty <=> NSP!Faulty
           /\ NS!CallFails(r) <=> NSP!CallFails(r)
           /\ \A code : NS!Respond(r, code) <=> NSP!Respond(r, code)
           /\ \A outcome : NS!Dispatched(r, outcome) <=> NSP!Dispatched(r, outcome)
           /\ NS!WriteInserted(r) <=> NSP!WriteInserted(r)
           /\ NS!EndTransaction(r) <=> NSP!EndTransaction(r)
<1>1. \A pc : NS!At(r, pc) <=> NSP!At(r, pc)
  BY DEF NS!At, NSP!At
<1>2. NS!More(r) <=> NSP!More(r)
  BY SameRoutes DEF NS!More, NSP!More
<1>3. NS!Channel(r) = NSP!Channel(r)
  BY SameRoutes DEF NS!Channel, NSP!Channel
<1>4. NS!Key(r) = NSP!Key(r)
  BY <1>3 DEF NS!Key, NSP!Key
<1>5. NS!Active(r) <=> NSP!Active(r)
  BY DEF NS!Active, NSP!Active
<1>6. NS!InsertedKeys(r) = NSP!InsertedKeys(r)
  BY DEF NS!InsertedKeys, NSP!InsertedKeys
<1>7. NS!IsNew(r) <=> NSP!IsNew(r)
  BY <1>4 DEF NS!IsNew, NSP!IsNew
<1>8. NS!IsMine(r) <=> NSP!IsMine(r)
  BY <1>3 DEF NS!IsMine, NSP!IsMine
<1>9. NS!HasAttempts(r) <=> NSP!HasAttempts(r)
  BY DEF NS!HasAttempts, NSP!HasAttempts
<1>10. NS!Faulty <=> NSP!Faulty
  BY DEF NS!Faulty, NSP!Faulty
<1>11. NS!CallFails(r) <=> NSP!CallFails(r)
  BY <1>10 DEF NS!CallFails, NSP!CallFails
<1>12. \A code : NS!Respond(r, code) <=> NSP!Respond(r, code)
  BY DEF NS!Respond, NSP!Respond
<1>13. \A outcome : NS!Dispatched(r, outcome) <=> NSP!Dispatched(r, outcome)
  BY DEF NS!Dispatched, NSP!Dispatched
<1>14. NS!WriteInserted(r) <=> NSP!WriteInserted(r)
  BY <1>6, SameRoutes DEF NS!WriteInserted, NSP!WriteInserted
<1>15. NS!EndTransaction(r) <=> NSP!EndTransaction(r)
  BY SameRoutes DEF NS!EndTransaction, NS!Unlocked, NSP!EndTransaction, NSP!Unlocked
<1> QED
  BY <1>1, <1>2, <1>3, <1>4, <1>5, <1>6, <1>7, <1>8, <1>9, <1>10, <1>11, <1>12, <1>13,
     <1>14, <1>15

\* The same steps of a POST /notifications handler.
LEMMA SameSend ==
    ASSUME NEW r \in Posts, NS!SendNotification(r)
    PROVE  NSP!SendNotification(r)
<1>1. NS!Upsert(r) => NSP!Upsert(r)
  BY SameState DEF NS!Upsert, NS!history, NSP!Upsert, NSP!history
<1>2. NS!Commit(r) => NSP!Commit(r)
  BY SameState DEF NS!Commit, NS!history, NSP!Commit, NSP!history
<1>3. NS!SaveFails(r) => NSP!SaveFails(r)
  BY SameState DEF NS!SaveFails, NS!history, NSP!SaveFails, NSP!history
<1>4. NS!CommitUnheard(r) => NSP!CommitUnheard(r)
  BY SameState DEF NS!CommitUnheard, NS!history, NSP!CommitUnheard, NSP!history
<1>5. NS!Skip(r) => NSP!Skip(r)
  BY SameState DEF NS!Skip, NS!history, NSP!Skip, NSP!history
<1>6. NS!StartDispatch(r) => NSP!StartDispatch(r)
  BY SameState DEF NS!StartDispatch, NSP!StartDispatch
<1>7. NS!Send(r) => NSP!Send(r)
  BY SameState DEF NS!Send, NSP!Send
<1>8. NS!BackoffCancelled(r) => NSP!BackoffCancelled(r)
  BY SameState DEF NS!BackoffCancelled, NS!history, NSP!BackoffCancelled, NSP!history
<1>9. NS!UpdateStatus(r) => NSP!UpdateStatus(r)
  BY SameState DEF NS!UpdateStatus, NS!history, NSP!UpdateStatus, NSP!history
<1>10. NS!UpdateFails(r) => NSP!UpdateFails(r)
  BY SameState DEF NS!UpdateFails, NS!history, NSP!UpdateFails, NSP!history
<1>11. NS!Created(r) => NSP!Created(r)
  BY SameState DEF NS!Created, NS!history, NSP!Created, NSP!history
<1> QED
  BY <1>1, <1>2, <1>3, <1>4, <1>5, <1>6, <1>7, <1>8, <1>9, <1>10, <1>11
     DEF NS!SendNotification, NSP!SendNotification

\* The same arrivals, disconnections, crashes and initial states.
LEMMA SamePosts ==
    /\ \A r \in Posts : \A e : NS!Receive(r, e) => NSP!Receive(r, e)
    /\ \A r \in Posts : \A e : NS!Refuse(r, e) => NSP!Refuse(r, e)
    /\ \A r \in Posts : NS!ClientGone(r) => NSP!ClientGone(r)
    /\ \A S : NS!Crash(S) => NSP!Crash(S)
    /\ NS!Init => NSP!Init
<1>1. \A r \in Posts : \A e : NS!Receive(r, e) => NSP!Receive(r, e)
  BY SameRoutes, SameState DEF NS!Receive, NS!history, NSP!Receive, NSP!history
<1>2. \A r \in Posts : \A e : NS!Refuse(r, e) => NSP!Refuse(r, e)
  BY SameRoutes, SameState DEF NS!Refuse, NS!history, NSP!Refuse, NSP!history
<1>3. \A r \in Posts : NS!ClientGone(r) => NSP!ClientGone(r)
  BY SameState DEF NS!ClientGone, NS!history, NSP!ClientGone, NSP!history
<1>4. \A S : NS!Crash(S) => NSP!Crash(S)
  <2>1. NS!Faulty <=> NSP!Faulty
    BY SameState
  <2>2. \A S : NS!Unlocked(S) = NSP!Unlocked(S)
    BY SameRoutes DEF NS!Unlocked, NSP!Unlocked
  <2> QED
    BY <2>1, <2>2 DEF NS!Crash, NS!history, NSP!Crash, NSP!history
<1>5. NS!Init => NSP!Init
  BY SameRoutes DEF NS!Init, NS!IdleRequest, NSP!Init, NSP!IdleRequest
<1> QED
  BY <1>1, <1>2, <1>3, <1>4, <1>5

(***************************************************************************)
(* The two services keep their invariants side by side                     *)
(***************************************************************************)
\* A step of one service leaves the other alone, except that both count faults.
EventMoves == EPP!Next /\ UNCHANGED postVars
PostMoves  == NSP!Next /\ UNCHANGED eventVars

\* What notification_service does for requests that have begun.
Serve ==
    \/ \E p \in Posts : NSP!SendNotification(p) \/ NSP!ClientGone(p)
    \/ \E S \in SUBSET {p \in Posts : NSP!Active(p)} : NSP!Crash(S)

\* Every step belongs to one service.
LEMMA PostBeginsMoves ==
    ASSUME NEW i \in Instances, NEW p \in Posts, PostBegins(i, p), EPP!TypeOK
    PROVE  /\ worker[i].ev \in EventIDs
           /\ NSP!Receive(p, worker[i].ev) \/ NSP!Refuse(p, worker[i].ev)
           /\ PostMoves
<1>1. worker[i].ev \in EventIDs
  BY DEF PostBegins, EPP!TypeOK
<1>2. NSP!Receive(p, worker[i].ev) \/ NSP!Refuse(p, worker[i].ev)
  BY SamePosts DEF PostBegins
<1>3. NSP!Next
  BY <1>1, <1>2 DEF NSP!Next
<1> QED
  BY <1>1, <1>2, <1>3 DEF PostMoves, PostBegins

\* So do the steps of the requests that have begun.
LEMMA ServeMoves ==
    /\ \A p \in Posts : SendNotification(p) \/ CallerGone(p) => Serve /\ PostMoves /\ PostOnly
    /\ NotificationCrash => Serve /\ PostMoves /\ PostOnly
<1>1. ASSUME NEW p \in Posts, SendNotification(p) \/ CallerGone(p)
      PROVE  Serve /\ PostMoves /\ PostOnly
  <2>1. NSP!SendNotification(p) \/ NSP!ClientGone(p)
    BY <1>1, SameSend, SamePosts DEF SendNotification, CallerGone
  <2> QED
    BY <1>1, <2>1 DEF Serve, PostMoves, NSP!Next, SendNotification, CallerGone, PostOnly
<1>2. ASSUME NotificationCrash
      PROVE  Serve /\ PostMoves /\ PostOnly
  <2>1. \A p : NS!Active(p) <=> NSP!Active(p)
    BY SameState
  <2>2. PICK S \in SUBSET {p \in Posts : NS!Active(p)} \ {{}} : NS!Crash(S)
    BY <1>2 DEF NotificationCrash
  <2>3. S \in SUBSET {p \in Posts : NSP!Active(p)} \ {{}} /\ NSP!Crash(S)
    BY <2>1, <2>2, SamePosts
  <2>4. Serve
    BY <2>3 DEF Serve
  <2>5. NSP!Next
    BY <2>3 DEF NSP!Next
  <2> QED
    BY <1>2, <2>4, <2>5 DEF PostMoves, NotificationCrash, PostOnly
<1> QED
  BY <1>1, <1>2

\* A worker that reads an answer, or gets none, takes a step of event_processor.
LEMMA AnswerMoves ==
    ASSUME NEW i \in Instances, PostEnds(i) \/ PostFails(i)
    PROVE  EventMoves
<1>1. EPP!Post(i)
  BY SamePost DEF PostEnds, PostFails, EPP!Post
<1> QED
  BY <1>1 DEF EventMoves, EPP!Next, EPP!Run, PostEnds, PostFails

\* So does an instance that crashes.
LEMMA EventCrashMoves ==
    ASSUME NEW i \in Instances, EventCrash(i)
    PROVE  EventMoves
BY SameOther DEF EventMoves, EPP!Next, EventCrash

\* And so do the steps that have nothing to do with a POST.
LEMMA EventOnlyMoves ==
    /\ \A r \in Clients : Request(r) \/ IngestEvent(r) => EventMoves /\ EventOnly
    /\ \A i \in Instances : Process(i) \/ RequeueStalePending(i) => EventMoves /\ EventOnly
    /\ TimePasses => EventMoves /\ EventOnly
<1>1. ASSUME NEW r \in Clients, Request(r) \/ IngestEvent(r)
      PROVE  EPP!Next /\ EventOnly
  BY <1>1, SameOther, SameIngest, SystemAssumption DEF Request, IngestEvent, EPP!Next
<1>2. ASSUME NEW i \in Instances, Process(i) \/ RequeueStalePending(i)
      PROVE  EPP!Next /\ EventOnly
  BY <1>2, SameProcess, SameReconciler DEF Process, RequeueStalePending, EPP!Next, EPP!Run
<1>3. TimePasses => EPP!Next /\ EventOnly
  BY SameOther DEF TimePasses, EPP!Next
<1> QED
  BY <1>1, <1>2, <1>3 DEF EventMoves, EventOnly

\* Every step is a step of one of the services.
LEMMA Moves == EPP!TypeOK /\ Next => EventMoves \/ PostMoves
BY PostBeginsMoves, ServeMoves, AnswerMoves, EventCrashMoves, EventOnlyMoves
   DEF Next, Post

\* Each service keeps its invariant, by its own steps and by those of the other.
LEMMA ServicesStep ==
    ASSUME EPP!EventInv, NSP!ServiceInv, [Next]_vars
    PROVE  EPP!EventInv' /\ NSP!ServiceInv' /\ faults' >= faults
<1>1. EPP!TypeOK /\ NSP!TypeOK /\ faults \in Nat
  BY SystemAssumption DEF EPP!EventInv, NSP!ServiceInv, NSP!TypeOK
<1>2. CASE EventMoves
  <2>1. EPP!EventInv'
    BY <1>2, EPP!EventStep, EventAssumptions DEF EventMoves
  <2>2. faults' >= faults
    BY <1>1, <1>2, EPP!FaultsGrow, EventAssumptions DEF EventMoves
  <2>3. faults' \in 0..MaxFaults
    BY <2>1 DEF EPP!EventInv, EPP!TypeOK
  <2>4. NSP!ServiceInv'
    BY <1>2, <2>2, <2>3, NSP!ServiceIdle, NotificationAssumptions DEF EventMoves, postVars
  <2> QED
    BY <2>1, <2>2, <2>4
<1>3. CASE PostMoves
  <2>1. NSP!ServiceInv'
    BY <1>3, NSP!ServiceStep, NotificationAssumptions DEF PostMoves
  <2>2. faults' >= faults
    BY <1>1, <1>3, NSP!FaultsRise, NotificationAssumptions DEF PostMoves
  <2>3. faults' \in 0..MaxFaults
    BY <2>1 DEF NSP!ServiceInv, NSP!TypeOK
  <2>4. EPP!EventInv'
    BY <1>3, <2>3, EPP!EventIdle, EventAssumptions DEF PostMoves, eventVars
  <2> QED
    BY <2>1, <2>2, <2>4
<1>4. CASE UNCHANGED vars
  <2>1. faults' \in 0..MaxFaults /\ faults' >= faults
    BY <1>1, <1>4 DEF vars, NSP!TypeOK
  <2>2. NSP!ServiceInv'
    BY <1>4, <2>1, NSP!ServiceIdle, NotificationAssumptions DEF vars
  <2>3. EPP!EventInv'
    BY <1>4, <2>1, EPP!EventIdle, EventAssumptions DEF vars
  <2> QED
    BY <2>1, <2>2, <2>3
<1> QED
  BY <1>1, <1>2, <1>3, <1>4, Moves

\* Both begin with their invariants.
LEMMA ServicesInit == Init => EPP!EventInv /\ NSP!ServiceInv
<1>1. Init => EPP!EventInv
  BY SameOther, EPP!EventInit, EventAssumptions DEF Init
<1>2. Init => NSP!ServiceInv
  BY SamePosts, NSP!ServiceInit, NotificationAssumptions DEF Init
<1> QED
  BY <1>1, <1>2

(***************************************************************************)
(* What connects the two services                                          *)
(***************************************************************************)
\* An open POST has begun, and is of the event that its worker is forwarding.
WaitInv == TypeOK /\ \A i \in Instances : Waiting(i) => ~NSP!At(call[i], "idle")

\* Every acceptance that a worker has counted is the 201 of some request.
AcceptInv ==
    \A e \in EventIDs : accepts[e] > 0 =>
       \E p \in Posts : req[p].answer = "201" /\ req[p].ev = e

\* An event is rejected only if it lacks a recipient.
RejectInv == \A e \in rejected : ~NSP!Valid(e)

\* As long as nothing fails, every request that runs has its worker waiting or
\* was given up, and an event of which no attempt was given up has had no
\* transient answer.
CalledInv == NoFault =>
    \A p \in Posts : NSP!Active(p) =>
       \/ \E i \in Instances : call[i] = p
       \/ req[p].ev \in unanswered

TransientInv == NoFault => \A e \in EventIDs \ unanswered : transients[e] = 0

\* Nor does a request notice that its caller has gone unless its attempt was given up.
GoneInv == NoFault =>
    \A p \in Posts : req[p].gone => ~NSP!At(p, "idle") /\ req[p].ev \in unanswered

LinkInv == WaitInv /\ AcceptInv /\ RejectInv /\ CalledInv /\ TransientInv /\ GoneInv

\* At the start nothing is open, counted or answered.
LEMMA LinkInit == Init => LinkInv
<1> SUFFICES ASSUME Init
             PROVE  LinkInv
  OBVIOUS
<1>1. /\ call = [i \in Instances |-> None] /\ unanswered = {}
      /\ \A p \in Posts : req[p].pc = "idle" /\ ~req[p].gone
      /\ \A e \in EventIDs : accepts[e] = 0 /\ transients[e] = 0
      /\ rejected = {}
  BY DEF Init, EP!Init, NS!Init, NS!IdleRequest
<1> QED
  BY <1>1 DEF LinkInv, WaitInv, AcceptInv, RejectInv, CalledInv, TransientInv, GoneInv,
     TypeOK, Waiting, NSP!Active

\* An open POST is a request that has begun, of the event of its worker.
LEMMA OpenPost ==
    ASSUME WaitInv, NEW i \in Instances, Waiting(i)
    PROVE  /\ call[i] \in Posts /\ ~NSP!At(call[i], "idle")
           /\ worker[i].pc = "send" /\ req[call[i]].ev = worker[i].ev
BY DEF WaitInv, TypeOK, Waiting

\* An answered request does not run, and stays as it is.
LEMMA Answered ==
    ASSUME NSP!ServiceInv, NEW p \in Posts, req[p].answer # "none"
    PROVE  /\ NSP!At(p, "done") /\ ~NSP!At(p, "idle") /\ ~NSP!Active(p)
           /\ PostMoves => req'[p] = req[p]
<1>1. NSP!TypeOK /\ NSP!PositionInv
  BY DEF NSP!ServiceInv
<1>2. NSP!At(p, "done")
  BY <1>1 DEF NSP!PositionInv, NSP!Positioned
<1>3. ~NSP!At(p, "idle") /\ ~NSP!Active(p)
  BY <1>2 DEF NSP!At, NSP!Active
<1>4. PostMoves => req'[p] = req[p]
  BY <1>1, <1>2, <1>3, NSP!CallerStep, NotificationAssumptions DEF PostMoves
<1> QED
  BY <1>2, <1>3, <1>4

\* A step of event_processor alone leaves a worker that is sending where it is.
LEMMA SendersStay ==
    ASSUME EPP!TypeOK, NEW i \in Instances, worker[i].pc = "send",
           \/ \E r \in Clients : Request(r) \/ IngestEvent(r)
           \/ \E j \in Instances : Process(j) \/ RequeueStalePending(j)
           \/ TimePasses
    PROVE  worker'[i] = worker[i]
<1>1. ASSUME NEW r \in Clients, Request(r) \/ IngestEvent(r)
      PROVE  worker' = worker
  BY <1>1 DEF Request, IngestEvent, EP!Refuse, EP!Receive, EP!IngestEvent, EP!Save,
     EP!SaveDuplicate, EP!SaveError, EP!SaveResent, EP!Enqueue, EP!EnqueueFailed
<1>2. ASSUME NEW j \in Instances, Process(j)
      PROVE  worker'[i] = worker[i]
  BY <1>2 DEF Process, EP!Process, EP!Dequeue, EP!DequeueLost, EP!Load, EP!LoadError,
     EP!UpdateStatus, EP!UpdateStatusError, EPP!TypeOK
<1>3. ASSUME NEW j \in Instances, RequeueStalePending(j)
      PROVE  worker' = worker
  BY <1>3 DEF RequeueStalePending, EP!RequeueStalePending, EP!ListStale, EP!Requeue
<1>4. TimePasses => worker' = worker
  BY DEF TimePasses, EP!TimePasses
<1> QED
  BY <1>1, <1>2, <1>3, <1>4

\* It gives no answer either.
LEMMA NoAnswers ==
    ASSUME \/ \E r \in Clients : Request(r) \/ IngestEvent(r)
           \/ \E j \in Instances : Process(j) \/ RequeueStalePending(j)
           \/ TimePasses
    PROVE  UNCHANGED <<accepts, rejected, transients>>
<1>1. ASSUME NEW r \in Clients, Request(r) \/ IngestEvent(r)
      PROVE  UNCHANGED <<accepts, rejected, transients>>
  BY <1>1 DEF Request, IngestEvent, EP!Refuse, EP!Receive, EP!IngestEvent, EP!Save,
     EP!SaveDuplicate, EP!SaveError, EP!SaveResent, EP!Enqueue, EP!EnqueueFailed, EP!history
<1>2. ASSUME NEW j \in Instances, Process(j)
      PROVE  UNCHANGED <<accepts, rejected, transients>>
  BY <1>2 DEF Process, EP!Process, EP!Dequeue, EP!DequeueLost, EP!Load, EP!LoadError,
     EP!UpdateStatus, EP!UpdateStatusError, EP!history
<1>3. ASSUME NEW j \in Instances, RequeueStalePending(j)
      PROVE  UNCHANGED <<accepts, rejected, transients>>
  BY <1>3 DEF RequeueStalePending, EP!RequeueStalePending, EP!ListStale, EP!Requeue, EP!history
<1>4. TimePasses => UNCHANGED <<accepts, rejected, transients>>
  BY DEF TimePasses, EP!TimePasses, EP!history
<1> QED
  BY <1>1, <1>2, <1>3, <1>4

\* A worker that hangs up waits no more; the others go on as before.
LEMMA HangUpEffect ==
    ASSUME TypeOK, NEW i \in Instances, HangUp(i)
    PROVE  /\ call' \in [Instances -> Posts \cup {None}]
           /\ call'[i] = None
           /\ \A j \in Instances : j # i => call'[j] = call[j]
BY DEF TypeOK, HangUp

\* What the steps keep that one service takes alone.
LEMMA LinkEventOnly ==
    ASSUME EPP!EventInv, LinkInv, EventOnly, faults' >= faults, faults \in Nat,
           \/ \E r \in Clients : Request(r) \/ IngestEvent(r)
           \/ \E j \in Instances : Process(j) \/ RequeueStalePending(j)
           \/ TimePasses
    PROVE  LinkInv'
<1>1. /\ UNCHANGED <<accepts, rejected, transients, call, unanswered, req>>
      /\ \A i \in Instances : worker[i].pc = "send" => worker'[i] = worker[i]
      /\ \A pc, p : NSP!At(p, pc)' <=> NSP!At(p, pc)
      /\ \A p : NSP!Active(p)' <=> NSP!Active(p)
      /\ NoFault' => NoFault
  BY NoAnswers, SendersStay
     DEF EPP!EventInv, EventOnly, postVars, NSP!At, NSP!Active, NoFault
<1>2. WaitInv'
  <2>1. \A i \in Instances : Waiting(i)' => Waiting(i) /\ worker'[i] = worker[i]
    BY <1>1, OpenPost DEF LinkInv, Waiting
  <2> QED
    BY <1>1, <2>1 DEF LinkInv, WaitInv, TypeOK
<1>3. AcceptInv' /\ RejectInv'
  BY <1>1 DEF LinkInv, AcceptInv, RejectInv, NSP!Valid
<1>4. CalledInv' /\ TransientInv' /\ GoneInv'
  BY <1>1 DEF LinkInv, CalledInv, TransientInv, GoneInv
<1> QED
  BY <1>2, <1>3, <1>4 DEF LinkInv

\* A request notices that its caller has gone only while it runs, and only if no
\* worker waits for it.
LEMMA GoneByCaller ==
    ASSUME NSP!ServiceInv, NEW q \in Posts, ~req[q].gone, req'[q].gone,
           (\E p \in Posts : SendNotification(p) \/ CallerGone(p)) \/ NotificationCrash
    PROVE  Abandoned(q) /\ NSP!Active(q)
<1>1. NSP!TypeOK /\ NSP!PositionInv
  BY DEF NSP!ServiceInv
<1>2. ASSUME NEW p \in Posts, SendNotification(p)
      PROVE  FALSE
  <2>1. NSP!SendNotification(p)
    BY <1>2, SameSend DEF SendNotification
  <2>2. NSP!Only(p)
    BY <1>1, <2>1, NSP!PositionedStep, NotificationAssumptions
  <2>3. req'[p].gone = req[p].gone
    BY <1>1, <2>1, NSP!SendKeeps, NotificationAssumptions
  <2> QED
    BY <2>2, <2>3 DEF NSP!Only
<1>3. ASSUME NEW p \in Posts, CallerGone(p)
      PROVE  Abandoned(q) /\ NSP!Active(q)
  <2>1. NSP!ClientGone(p)
    BY <1>3, SamePosts DEF CallerGone
  <2>2. NSP!Only(p)
    BY <1>1, <2>1, NSP!PositionedStep, NotificationAssumptions
  <2>3. p = q
    BY <2>2 DEF NSP!Only
  <2> QED
    BY <1>3, <2>1, <2>3 DEF CallerGone, NSP!ClientGone
<1>4. ASSUME NotificationCrash
      PROVE  FALSE
  <2>1. PICK S : NSP!Crash(S)
    BY <1>4, SamePosts DEF NotificationCrash
  <2> QED
    BY <1>1, <2>1, NSP!CrashEffect, NotificationAssumptions
<1> QED
  BY <1>2, <1>3, <1>4

\* A request that goes on, or whose caller or process dies, stays of its event, and
\* keeps the answer that it has been given.
LEMMA LinkServe ==
    ASSUME NSP!ServiceInv, LinkInv, Serve, PostMoves, PostOnly, faults' >= faults, faults \in Nat,
           \A q \in Posts : ~req[q].gone /\ req'[q].gone => Abandoned(q) /\ NSP!Active(q)
    PROVE  LinkInv'
<1>1. /\ UNCHANGED <<accepts, rejected, transients, call, unanswered, worker>>
      /\ NoFault' => NoFault
  BY DEF PostOnly, eventVars, NoFault
<1>2. NSP!TypeOK /\ NSP!PositionInv
  BY DEF NSP!ServiceInv
<1>3. ASSUME NEW p \in Posts, ~NSP!At(p, "idle")
      PROVE  /\ ~NSP!At(p, "idle")' /\ req'[p].ev = req[p].ev
             /\ NSP!Active(p)' => NSP!Active(p)
  BY <1>2, <1>3, NSP!CallerStep, NotificationAssumptions DEF PostMoves
<1>4. ASSUME NEW p \in Posts, NSP!At(p, "idle")
      PROVE  ~NSP!Active(p)'
  <2>1. req'[p] = req[p]
    BY <1>2, <1>4, NSP!IdleStays, NotificationAssumptions DEF Serve
  <2> QED
    BY <1>4, <2>1 DEF NSP!At, NSP!Active
<1>5. WaitInv'
  <2>1. \A i \in Instances : Waiting(i)' => Waiting(i)
    BY <1>1 DEF Waiting
  <2>2. \A i \in Instances : Waiting(i) =>
           req'[call[i]].pc # "idle" /\ req'[call[i]].ev = req[call[i]].ev
    BY <1>3, OpenPost DEF LinkInv, NSP!At
  <2>3. \A i \in Instances : Waiting(i)' => req'[call[i]].pc # "idle"
    BY <2>1, <2>2
  <2>4. TypeOK'
    BY <1>1, <2>1, <2>2 DEF LinkInv, WaitInv, TypeOK
  <2> QED
    BY <1>1, <2>3, <2>4 DEF WaitInv, NSP!At
<1>6. AcceptInv'
  BY <1>1, Answered DEF LinkInv, AcceptInv
<1>7. RejectInv'
  BY <1>1 DEF LinkInv, RejectInv, NSP!Valid
<1>8. CalledInv'
  <2>1. \A p \in Posts : NSP!Active(p)' => NSP!Active(p) /\ req'[p].ev = req[p].ev
    BY <1>3, <1>4
  <2> QED
    BY <1>1, <2>1 DEF LinkInv, CalledInv
<1>9. TransientInv'
  BY <1>1 DEF LinkInv, TransientInv
<1>10. GoneInv'
  <2> SUFFICES ASSUME NoFault', NEW q \in Posts, req'[q].gone
               PROVE  ~NSP!At(q, "idle")' /\ req'[q].ev \in unanswered'
    BY DEF GoneInv
  <2>1. ~NSP!At(q, "idle") /\ req[q].ev \in unanswered
    <3>1. CASE req[q].gone
      BY <1>1, <3>1 DEF LinkInv, GoneInv
    <3>2. CASE ~req[q].gone
      BY <1>1, <3>2 DEF LinkInv, CalledInv, Abandoned, NSP!Active, NSP!At
    <3> QED
      BY <3>1, <3>2
  <2> QED
    BY <1>1, <1>3, <2>1
<1> QED
  BY <1>5, <1>6, <1>7, <1>8, <1>9, <1>10 DEF LinkInv

\* A POST that begins is one that had not, and is of the event of its worker.
LEMMA LinkPostBegins ==
    ASSUME EPP!EventInv, NSP!ServiceInv, LinkInv,
           NEW i \in Instances, NEW p \in Posts, PostBegins(i, p)
    PROVE  LinkInv'
<1>1. /\ UNCHANGED <<accepts, rejected, transients, unanswered, worker, faults>>
      /\ NoFault' => NoFault
      /\ worker[i].pc = "send" /\ ~Waiting(i)
      /\ call' = [call EXCEPT ![i] = p]
  <2>1. UNCHANGED faults
    BY DEF PostBegins, NS!Receive, NS!Refuse
  <2> QED
    BY <2>1 DEF PostBegins, eventVars, NoFault
<1>2. NSP!TypeOK /\ NSP!PositionInv
  BY DEF NSP!ServiceInv
<1>3. /\ NSP!At(p, "idle")
      /\ req'[p].ev = worker[i].ev /\ ~NSP!At(p, "idle")' /\ req'[p].gone = req[p].gone
      /\ \A q \in Posts : q # p => req'[q] = req[q]
  <2>1. /\ worker[i].ev \in EventIDs
        /\ NSP!Receive(p, worker[i].ev) \/ NSP!Refuse(p, worker[i].ev)
    BY PostBeginsMoves DEF EPP!EventInv
  <2>2. PICK e \in EventIDs : e = worker[i].ev
    BY <2>1
  <2>3. NSP!At(p, "idle")
    BY <2>1 DEF NSP!Receive, NSP!Refuse
  <2>4. /\ NSP!Only(p) /\ req'[p].ev = e /\ req'[p].pc \in {"save", "done"}
        /\ req'[p].gone = req[p].gone
    <3>1. CASE NSP!Receive(p, e)
      BY <1>2, <3>1, NSP!ReceiveEffect, NotificationAssumptions
    <3>2. CASE NSP!Refuse(p, e)
      BY <1>2, <3>2, NSP!RefuseEffect, NotificationAssumptions
    <3> QED
      BY <2>1, <2>2, <3>1, <3>2
  <2> QED
    BY <2>2, <2>3, <2>4 DEF NSP!Only, NSP!At
<1>4. /\ call' \in [Instances -> Posts \cup {None}]
      /\ call'[i] = p
      /\ \A j \in Instances : j # i => call'[j] = call[j]
  BY <1>1 DEF LinkInv, WaitInv, TypeOK
<1>5. ASSUME NEW j \in Instances, j # i, Waiting(j)
      PROVE  call[j] \in Posts /\ call[j] # p /\ req'[call[j]] = req[call[j]]
  BY <1>3, <1>5, OpenPost DEF LinkInv
<1>6. WaitInv'
  <2>1. \A j \in Instances : j # i /\ Waiting(j)' => Waiting(j)
    BY <1>4 DEF Waiting
  <2>2. ASSUME NEW j \in Instances, Waiting(j)'
        PROVE  /\ req'[call'[j]].pc # "idle"
               /\ worker'[j].pc = "send" /\ req'[call'[j]].ev = worker'[j].ev
    <3>1. CASE j = i
      BY <1>1, <1>3, <1>4, <3>1 DEF NSP!At
    <3>2. CASE j # i
      BY <1>1, <1>4, <1>5, <2>1, <2>2, <3>2, OpenPost DEF LinkInv, NSP!At
    <3> QED
      BY <3>1, <3>2
  <2> QED
    BY <1>1, <1>4, <2>2 DEF WaitInv, TypeOK, LinkInv, NSP!At
<1>7. AcceptInv'
  <2>1. \A q \in Posts : req[q].answer = "201" => req'[q] = req[q]
    BY <1>3, Answered
  <2> QED
    BY <1>1, <2>1 DEF LinkInv, AcceptInv
<1>8. RejectInv'
  BY <1>1 DEF LinkInv, RejectInv, NSP!Valid
<1>9. CalledInv'
  <2> SUFFICES ASSUME NoFault', NEW q \in Posts, NSP!Active(q)', req'[q].ev \notin unanswered'
               PROVE  \E j \in Instances : call'[j] = q
    BY DEF CalledInv
  <2>1. CASE q = p
    BY <1>4, <2>1
  <2>2. CASE q # p
    <3>1. NSP!Active(q) /\ req[q].ev \notin unanswered
      BY <1>1, <1>3, <2>2 DEF NSP!Active
    <3>2. PICK j \in Instances : call[j] = q
      BY <1>1, <3>1 DEF LinkInv, CalledInv
    <3>3. j # i
      BY <1>1, <3>2, SystemAssumption DEF Waiting
    <3> QED
      BY <1>4, <3>2, <3>3
  <2> QED
    BY <2>1, <2>2
<1>10. TransientInv'
  BY <1>1 DEF LinkInv, TransientInv
<1>11. GoneInv'
  BY <1>1, <1>3 DEF LinkInv, GoneInv, NSP!At
<1> QED
  BY <1>6, <1>7, <1>8, <1>9, <1>10, <1>11 DEF LinkInv

\* A worker that stops waiting leaves the link of the others as it is. Its own
\* request has ended, or the event is known to be without an answer.
LEMMA LinkHangUp ==
    ASSUME LinkInv, NEW i \in Instances, HangUp(i), UNCHANGED req,
           \A j \in Instances : j # i => worker'[j] = worker[j],
           unanswered \subseteq unanswered', unanswered' \subseteq EventIDs,
           NoFault' =>
              /\ NoFault
              /\ Waiting(i) =>
                    \/ ~NSP!Active(call[i])
                    \/ req[call[i]].ev \in unanswered'
    PROVE  WaitInv' /\ CalledInv' /\ GoneInv'
<1>1. /\ call' \in [Instances -> Posts \cup {None}]
      /\ call'[i] = None
      /\ \A j \in Instances : j # i => call'[j] = call[j]
  BY HangUpEffect DEF LinkInv, WaitInv
<1>2. WaitInv'
  <2>1. ASSUME NEW j \in Instances, Waiting(j)'
        PROVE  /\ req'[call'[j]].pc # "idle"
               /\ worker'[j].pc = "send" /\ req'[call'[j]].ev = worker'[j].ev
    <3>1. j # i /\ Waiting(j)
      BY <1>1, <2>1 DEF Waiting
    <3> QED
      BY <1>1, <3>1, OpenPost DEF LinkInv, NSP!At
  <2> QED
    BY <1>1, <2>1 DEF WaitInv, TypeOK, NSP!At
<1>3. CalledInv'
  <2> SUFFICES ASSUME NoFault', NEW q \in Posts, NSP!Active(q)', req'[q].ev \notin unanswered'
               PROVE  \E j \in Instances : call'[j] = q
    BY DEF CalledInv
  <2>1. NSP!Active(q) /\ req[q].ev \notin unanswered'
    BY DEF NSP!Active
  <2>2. PICK j \in Instances : call[j] = q
    BY <2>1 DEF LinkInv, CalledInv
  <2>3. Waiting(j)
    BY <2>2, SystemAssumption DEF Waiting
  <2>4. j # i
    BY <2>1, <2>2, <2>3
  <2> QED
    BY <1>1, <2>2, <2>4
<1>4. GoneInv'
  BY DEF LinkInv, GoneInv, NSP!At
<1> QED
  BY <1>2, <1>3, <1>4

\* The answer that a worker reads is the one of its request, and means the same
\* to both services.
LEMMA LinkPostEnds ==
    ASSUME EPP!EventInv, NSP!ServiceInv, LinkInv, NEW i \in Instances, PostEnds(i)
    PROVE  LinkInv'
<1>1. PICK p \in Posts : p = call[i]
  BY OpenPost DEF PostEnds, LinkInv
<1>2. PICK e \in EventIDs : e = worker[i].ev
  BY DEF EPP!EventInv, EPP!TypeOK, PostEnds, EP!PostAccepted, EP!PostRejected,
     EP!PostTransient, EP!Attempted
<1>3. /\ Waiting(i) /\ req[p].answer # "none" /\ req[p].ev = e
      /\ UNCHANGED <<req, unanswered>> /\ HangUp(i)
  BY <1>1, <1>2, OpenPost DEF PostEnds, LinkInv, postVars
<1>4. UNCHANGED faults /\ \A j \in Instances : j # i => worker'[j] = worker[j]
  BY DEF PostEnds, EP!PostAccepted, EP!PostRejected, EP!PostTransient, EP!Attempted,
     EPP!EventInv, EPP!TypeOK
<1>5. NoFault' => NoFault
  BY <1>4 DEF NoFault
<1>6. WaitInv' /\ CalledInv' /\ GoneInv'
  <2>1. ~NSP!Active(p)
    BY <1>3, Answered
  <2> QED
    BY <1>1, <1>3, <1>4, <1>5, <2>1, LinkHangUp DEF LinkInv, WaitInv, TypeOK
<1>7. accepts \in [EventIDs -> Nat] /\ transients \in [EventIDs -> Nat]
  BY DEF EPP!EventInv, EPP!TypeOK
<1>8. CASE req[p].answer = "201" /\ EP!PostAccepted(i)
  <2>1. accepts' = [accepts EXCEPT ![e] = @ + 1] /\ UNCHANGED <<rejected, transients>>
    BY <1>2, <1>8 DEF EP!PostAccepted
  <2>2. AcceptInv'
    <3> SUFFICES ASSUME NEW f \in EventIDs, accepts'[f] > 0
                 PROVE  \E q \in Posts : req[q].answer = "201" /\ req[q].ev = f
      BY <1>3 DEF AcceptInv
    <3>1. CASE f = e
      BY <1>3, <1>8, <3>1
    <3>2. CASE f # e
      BY <1>7, <2>1, <3>2 DEF LinkInv, AcceptInv
    <3> QED
      BY <3>1, <3>2
  <2> QED
    BY <1>3, <1>5, <1>6, <2>1, <2>2 DEF LinkInv, RejectInv, TransientInv, NSP!Valid
<1>9. CASE req[p].answer = "400" /\ EP!PostRejected(i)
  <2>1. rejected' = rejected \cup {e} /\ UNCHANGED <<accepts, transients>>
    BY <1>2, <1>9 DEF EP!PostRejected
  <2>2. ~NSP!Valid(e)
    BY <1>3, <1>9, SystemAssumption DEF NSP!ServiceInv, NSP!AnswerInv, NSP!Routed
  <2>3. RejectInv'
    BY <2>1, <2>2 DEF LinkInv, RejectInv, NSP!Valid
  <2> QED
    BY <1>3, <1>5, <1>6, <2>1, <2>3 DEF LinkInv, AcceptInv, TransientInv
<1>10. CASE req[p].answer \notin {"none", "201", "400"} /\ EP!PostTransient(i)
  <2>1. UNCHANGED <<accepts, rejected>> /\ transients' = [transients EXCEPT ![e] = @ + 1]
    BY <1>2, <1>10 DEF EP!PostTransient
  <2>2. TransientInv'
    <3>1. req[p].answer \in {"500", "lost"}
      BY <1>10, NSP!StateType, NotificationAssumptions DEF NSP!ServiceInv
    <3>2. NoFault => req[p].gone
      BY <3>1 DEF NSP!ServiceInv, NSP!CalmInv, NSP!Calm, NoFault
    <3>3. NoFault => e \in unanswered
      BY <1>3, <3>2 DEF LinkInv, GoneInv
    <3> QED
      BY <1>3, <1>5, <1>7, <2>1, <3>3 DEF LinkInv, TransientInv
  <2> QED
    BY <1>3, <1>6, <2>1, <2>2 DEF LinkInv, AcceptInv, RejectInv, NSP!Valid
<1> QED
  BY <1>1, <1>3, <1>8, <1>9, <1>10 DEF PostEnds, IsSuccess, IsPermanent

\* A worker without an answer gives the attempt up, which is remembered.
LEMMA LinkPostFails ==
    ASSUME EPP!EventInv, LinkInv, NEW i \in Instances, PostFails(i)
    PROVE  LinkInv'
<1>1. PICK e \in EventIDs : e = worker[i].ev
  BY DEF EPP!EventInv, EPP!TypeOK, PostFails, EP!PostTransient, EP!Attempted
<1>2. /\ UNCHANGED <<req, accepts, rejected, faults>> /\ HangUp(i)
      /\ unanswered' = unanswered \cup {e}
      /\ transients' = [transients EXCEPT ![e] = @ + 1]
      /\ \A j \in Instances : j # i => worker'[j] = worker[j]
  BY <1>1 DEF PostFails, EP!PostTransient, EP!Attempted, postVars, EPP!EventInv, EPP!TypeOK
<1>3. NoFault' => NoFault
  BY <1>2 DEF NoFault
<1>4. WaitInv' /\ CalledInv' /\ GoneInv'
  <2>1. Waiting(i) => req[call[i]].ev = e
    BY <1>1, OpenPost DEF LinkInv
  <2> QED
    BY <1>2, <1>3, <2>1, LinkHangUp DEF LinkInv, WaitInv, TypeOK
<1>5. AcceptInv' /\ RejectInv'
  BY <1>2 DEF LinkInv, AcceptInv, RejectInv, NSP!Valid
<1>6. TransientInv'
  <2>1. transients \in [EventIDs -> Nat]
    BY DEF EPP!EventInv, EPP!TypeOK
  <2> QED
    BY <1>2, <1>3, <2>1 DEF LinkInv, TransientInv
<1> QED
  BY <1>4, <1>5, <1>6 DEF LinkInv

\* A crash abandons the POST of its worker, and is a fault.
LEMMA LinkEventCrash ==
    ASSUME EPP!EventInv, LinkInv, NEW i \in Instances, EventCrash(i)
    PROVE  LinkInv'
<1>1. /\ UNCHANGED <<req, accepts, rejected, transients, unanswered>> /\ HangUp(i)
      /\ faults' = faults + 1
      /\ \A j \in Instances : j # i => worker'[j] = worker[j]
  BY DEF EventCrash, EP!Crash, EP!Faulty, EP!history, postVars, EPP!EventInv, EPP!TypeOK
<1>2. ~NoFault'
  BY <1>1, SystemAssumption DEF EPP!EventInv, EPP!TypeOK, NoFault
<1>3. WaitInv' /\ GoneInv'
  BY <1>1, <1>2, LinkHangUp DEF LinkInv, WaitInv, TypeOK
<1>4. AcceptInv' /\ RejectInv'
  BY <1>1 DEF LinkInv, AcceptInv, RejectInv, NSP!Valid
<1> QED
  BY <1>2, <1>3, <1>4 DEF LinkInv, CalledInv, TransientInv

\* Every step keeps what connects the services.
LEMMA LinkStep ==
    ASSUME EPP!EventInv, NSP!ServiceInv, LinkInv, [Next]_vars
    PROVE  LinkInv'
<1>1. faults \in Nat /\ faults' >= faults
  BY ServicesStep, SystemAssumption DEF EPP!EventInv, EPP!TypeOK
<1>2. CASE UNCHANGED vars
  BY <1>2 DEF vars, LinkInv, WaitInv, TypeOK, Waiting, AcceptInv, RejectInv, CalledInv,
     TransientInv, GoneInv, NoFault, NSP!At, NSP!Active, NSP!Valid
<1>3. ASSUME \/ \E r \in Clients : Request(r) \/ IngestEvent(r)
             \/ \E j \in Instances : Process(j) \/ RequeueStalePending(j)
             \/ TimePasses
      PROVE  LinkInv'
  <2>1. EventOnly
    BY <1>3, EventOnlyMoves
  <2> QED
    BY <1>1, <1>3, <2>1, LinkEventOnly
<1>4. ASSUME (\E p \in Posts : SendNotification(p) \/ CallerGone(p)) \/ NotificationCrash
      PROVE  LinkInv'
  <2>1. Serve /\ PostMoves /\ PostOnly
    BY <1>4, ServeMoves
  <2>2. \A q \in Posts : ~req[q].gone /\ req'[q].gone => Abandoned(q) /\ NSP!Active(q)
    BY <1>4, GoneByCaller
  <2> QED
    BY <1>1, <2>1, <2>2, LinkServe
<1> QED
  BY <1>2, <1>3, <1>4, LinkPostBegins, LinkPostEnds, LinkPostFails, LinkEventCrash
     DEF Next, Post

(***************************************************************************)
(* The theorems                                                            *)
(***************************************************************************)
SystemInv == EPP!EventInv /\ NSP!ServiceInv /\ LinkInv

\* The inductive invariant of the whole system.
LEMMA SystemCorrect == Spec => []SystemInv
<1>1. Init => SystemInv
  BY ServicesInit, LinkInit DEF SystemInv
<1>2. SystemInv /\ [Next]_vars => SystemInv'
  BY ServicesStep, LinkStep DEF SystemInv
<1> QED
  BY <1>1, <1>2, PTL DEF Spec

\* An open POST is always of the event that its worker is forwarding, for any
\* number of instances and POSTs.
THEOREM TypeCorrect == Spec => []TypeOK
<1>1. SystemInv => TypeOK
  BY DEF SystemInv, LinkInv, WaitInv
<1> QED
  BY <1>1, SystemCorrect, PTL

\* A request that was answered with 201 was of a valid event, each of whose
\* channels has a record.
LEMMA CreatedRecords ==
    ASSUME NSP!ServiceInv, NEW p \in Posts, req[p].answer = "201"
    PROVE  /\ req[p].ev \in EventIDs /\ NSP!Valid(req[p].ev)
           /\ \A c \in NSP!ChannelsOf[req[p].ev] : table[<<req[p].ev, c>>] # "none"
<1>1. /\ req[p].ev \in EventIDs
      /\ \A c \in NSP!ChannelsOf[req[p].ev] : table[<<req[p].ev, c>>] # "none"
  BY DEF NSP!ServiceInv, NSP!AnswerInv, NSP!Served
<1>2. PICK e \in EventIDs : e = req[p].ev
  BY <1>1
<1>3. PICK c \in Channels : c \in NSP!ChannelsOf[e]
  <2>1. \A k \in 1..Len(NSP!Routes(e)) : NSP!Routes(e)[k] \in Channels
    BY NSP!RouteFacts, NotificationAssumptions DEF Channels, NSP!Channels
  <2>2. PICK l \in 1..2 : l = Len(NSP!Routes(e))
    BY NSP!RouteFacts, NotificationAssumptions
  <2>3. 1 \in 1..l
    BY <2>2
  <2> QED
    BY <2>1, <2>2, <2>3 DEF NSP!ChannelsOf
<1>4. <<e, c>> \in NSP!Keys /\ table[<<e, c>>] # "none" /\ <<e, c>>[1] = e
  BY <1>1, <1>2, <1>3 DEF NSP!Keys, Channels, NSP!Channels
<1>5. NSP!Valid(e)
  BY <1>4 DEF NSP!ServiceInv, NSP!AnswerInv
<1> QED
  BY <1>1, <1>2, <1>5

\* An event that was rejected leaves nothing behind: no record, no dispatch, and
\* never an acceptance, whichever attempts, crashes and repetitions there were.
THEOREM RejectedAlwaysLeavesNothing == Spec => []RejectedLeavesNothing
<1>1. ASSUME SystemInv
      PROVE  RejectedLeavesNothing
  <2> SUFFICES ASSUME NEW e \in rejected
               PROVE  /\ accepts[e] = 0
                      /\ \A n \in {e} \X Channels : table[n] = "none" /\ senders[n] = {}
    BY DEF RejectedLeavesNothing
  <2>1. e \in EventIDs /\ accepts[e] \in Nat /\ ~NSP!Valid(e)
    BY <1>1 DEF SystemInv, EPP!EventInv, EPP!TypeOK, LinkInv, RejectInv
  <2>2. accepts[e] = 0
    <3>1. ASSUME NEW p \in Posts, req[p].answer = "201", req[p].ev = e
          PROVE  FALSE
      BY <1>1, <2>1, <3>1, CreatedRecords DEF SystemInv
    <3> QED
      BY <1>1, <2>1, <3>1 DEF SystemInv, LinkInv, AcceptInv
  <2>3. ASSUME NEW n \in {e} \X Channels
        PROVE  table[n] = "none" /\ senders[n] = {}
    <3>1. n \in NSP!Keys /\ n[1] = e
      BY <2>1 DEF NSP!Keys, Channels, NSP!Channels
    <3>2. table[n] = "none"
      BY <1>1, <2>1, <3>1 DEF SystemInv, NSP!ServiceInv, NSP!AnswerInv
    <3> QED
      BY <1>1, <3>1, <3>2 DEF SystemInv, NSP!ServiceInv, NSP!OwnerInv, NSP!SentOnce
  <2> QED
    BY <2>2, <2>3
<1> QED
  BY <1>1, SystemCorrect, PTL

\* In the whole system each service keeps what it promises alone: however often
\* the workers send an event again, at most one request dispatches a channel, the
\* provider is called at most DispatchMaxRetries + 1 times, the records tell the
\* truth, and requests never wait for each other in a circle. The retries of the
\* two services do not multiply.
THEOREM PromisesKept ==
    Spec => [](/\ NS!OneDispatcher /\ NS!BoundedCalls /\ NS!RecordIsTruthful
               /\ NS!CreatedIsHonest /\ NS!WaitsAreOrdered /\ EP!OutcomeIsEarned)
<1>1. NS!Keys = NSP!Keys /\ NS!ChannelsOf = NSP!ChannelsOf
  BY SameRoutes
<1>2. \A S : NS!Cardinality(S) = NSP!Cardinality(S)
  BY DEF NS!Cardinality, NSP!Cardinality
<1>3. ASSUME NSP!ServiceInv
      PROVE  /\ NS!OneDispatcher /\ NS!BoundedCalls /\ NS!RecordIsTruthful
             /\ NS!CreatedIsHonest /\ NS!WaitsAreOrdered
  <2>1. /\ NSP!OneDispatcher /\ NSP!BoundedCalls /\ NSP!RecordIsTruthful
        /\ NSP!CreatedIsHonest /\ NSP!WaitsAreOrdered
    BY <1>3, NSP!ServiceImplies, NotificationAssumptions
  <2>2. NS!OneDispatcher
    BY <1>1, <1>2, <2>1 DEF NS!OneDispatcher, NSP!OneDispatcher
  <2>3. NS!BoundedCalls
    BY <1>1, <2>1 DEF NS!BoundedCalls, NSP!BoundedCalls
  <2>4. NS!RecordIsTruthful
    BY <1>1, <2>1 DEF NS!RecordIsTruthful, NSP!RecordIsTruthful
  <2>5. NS!CreatedIsHonest
    <3>1. NS!Channels = NSP!Channels /\ \A p : NS!InsertedKeys(p) = NSP!InsertedKeys(p)
      BY SameState DEF NS!Channels, NSP!Channels
    <3> QED
      BY <1>1, <2>1, <3>1 DEF NS!CreatedIsHonest, NSP!CreatedIsHonest
  <2>6. NS!WaitsAreOrdered
    <3>1. \A p, q : NS!Awaits(p, q) <=> NSP!Awaits(p, q)
      BY SameState DEF NS!Awaits, NSP!Awaits
    <3> QED
      BY <2>1, <3>1, SameState DEF NS!WaitsAreOrdered, NSP!WaitsAreOrdered
  <2> QED
    BY <2>2, <2>3, <2>4, <2>5, <2>6
<1>4. EPP!EventInv => EP!OutcomeIsEarned
  BY DEF EPP!EventInv, EPP!EarnedInv, EPP!OutcomeIsEarned, EP!OutcomeIsEarned, EPP!GivenUp,
     EP!GivenUp
<1>5. SystemInv => /\ NS!OneDispatcher /\ NS!BoundedCalls /\ NS!RecordIsTruthful
                   /\ NS!CreatedIsHonest /\ NS!WaitsAreOrdered /\ EP!OutcomeIsEarned
  BY <1>3, <1>4 DEF SystemInv
<1> QED
  BY <1>5, SystemCorrect, PTL

\* In the whole system, too, an event's records appear together, are dispatched
\* once and settled once.
THEOREM SystemImplementsLedger == Spec => NS!ImplementsLedger
<1>1. /\ NSP!Ledger!Init => NS!Ledger!Init
      /\ NSP!Ledger!Next => NS!Ledger!Next
      /\ UNCHANGED NSP!Ledger!vars => UNCHANGED NS!Ledger!vars
  <2>1. /\ NS!Keys = NSP!Keys /\ NS!ChannelsOf = NSP!ChannelsOf
        /\ NS!Ledger!Keys = NSP!Ledger!Keys
    BY SameRoutes DEF NS!Ledger!Keys, NSP!Ledger!Keys, NS!Channels, NSP!Channels
  <2>2. NSP!Ledger!Init => NS!Ledger!Init
    BY <2>1 DEF NS!Ledger!Init, NSP!Ledger!Init
  <2>3. \A e : NSP!Ledger!Record(e) => NS!Ledger!Record(e)
    BY <2>1 DEF NS!Ledger!Record, NSP!Ledger!Record
  <2>4. \A n : NSP!Ledger!Dispatch(n) => NS!Ledger!Dispatch(n)
    BY <2>1 DEF NS!Ledger!Dispatch, NSP!Ledger!Dispatch
  <2>5. \A n, outcome : NSP!Ledger!Settle(n, outcome) => NS!Ledger!Settle(n, outcome)
    BY <2>1 DEF NS!Ledger!Settle, NSP!Ledger!Settle
  <2>6. UNCHANGED NSP!Ledger!vars => UNCHANGED NS!Ledger!vars
    BY <2>1 DEF NS!Ledger!vars, NSP!Ledger!vars
  <2> QED
    BY <2>1, <2>2, <2>3, <2>4, <2>5, <2>6 DEF NS!Ledger!Next, NSP!Ledger!Next
<1>2. Init => NS!Ledger!Init
  BY <1>1, SamePosts, NSP!LedgerInit, NotificationAssumptions DEF Init
<1>3. ASSUME SystemInv, [Next]_vars
      PROVE  [NS!Ledger!Next]_NS!Ledger!vars
  <2>1. CASE PostMoves
    <3>1. [NSP!Ledger!Next]_NSP!Ledger!vars
      BY <1>3, <2>1, NSP!ServiceLedger, NotificationAssumptions DEF SystemInv, PostMoves
    <3> QED
      BY <1>1, <3>1
  <2>2. CASE EventMoves \/ UNCHANGED vars
    <3>1. UNCHANGED <<table, senders>>
      BY <2>2 DEF EventMoves, postVars, vars
    <3> QED
      BY <3>1 DEF NS!Ledger!vars
  <2> QED
    BY <1>3, <2>1, <2>2, Moves DEF SystemInv, EPP!EventInv
<1> QED
  BY <1>2, <1>3, SystemCorrect, PTL DEF Spec, NS!ImplementsLedger, NS!Ledger!Spec

(***************************************************************************)
(* One instance                                                            *)
(***************************************************************************)
SingleInstance == \A i, j \in Instances : i = j

\* With one instance, a worker forwards pending events only, in the whole system.
LEMMA InFlightCorrect ==
    ASSUME SingleInstance
    PROVE  Spec => []EPP!InFlightIsPending
<1>1. EPP!SingleInstance
  BY DEF SingleInstance, EPP!SingleInstance
<1>2. Init => EPP!InFlightIsPending
  BY SameOther, EPP!InFlightInit, EventAssumptions DEF Init
<1>3. ASSUME SystemInv, EPP!InFlightIsPending, [Next]_vars
      PROVE  EPP!InFlightIsPending'
  <2>1. EPP!TypeOK
    BY <1>3 DEF SystemInv, EPP!EventInv
  <2>2. CASE EventMoves
    BY <1>1, <1>3, <2>1, <2>2, EPP!InFlightStep, EventAssumptions DEF EventMoves
  <2>3. CASE PostMoves \/ UNCHANGED vars
    BY <1>3, <2>3 DEF PostMoves, eventVars, vars, EPP!InFlightIsPending
  <2> QED
    BY <1>3, <2>1, <2>2, <2>3, Moves
<1> QED
  BY <1>2, <1>3, SystemCorrect, PTL DEF Spec

\* The channels of an event are its routes, in both services.
LEMMA RoutedKeys ==
    ASSUME NEW e \in EventIDs, NEW n \in Routed(e)
    PROVE  /\ n \in NSP!Keys
           /\ \E c \in NSP!ChannelsOf[e] : n = <<e, c>>
<1>1. NS!ChannelsOf = NSP!ChannelsOf
  BY SameRoutes
<1>2. PICK c \in NSP!ChannelsOf[e] : n = <<e, c>>
  BY <1>1 DEF Routed
<1>3. n \in NSP!Keys
  BY <1>2, NSP!ChannelKeys, NotificationAssumptions
<1> QED
  BY <1>2, <1>3

\* With one instance, a processed event has a record for each of its channels,
\* and one that stays pending for good was inserted by a request whose answer the
\* worker did not get, or which was 500.
LEMMA LossReason ==
    ASSUME SystemInv, EPP!InFlightIsPending
    PROVE  LossHasReason
<1> SUFFICES ASSUME NEW e \in EventIDs, NEW n \in Routed(e), status[e] = "processed"
             PROVE  /\ table[n] # "none"
                    /\ table[n] = "pending" =>
                          \E p \in Posts :
                             /\ n \in NS!InsertedKeys(p)
                             /\ Abandoned(p)
                             /\ NS!Active(p) \/ req[p].answer \in {"500", "lost"}
  BY DEF LossHasReason
<1>1. n \in NSP!Keys /\ \E c \in NSP!ChannelsOf[e] : n = <<e, c>>
  BY RoutedKeys
<1>2. table[n] # "none"
  <2>1. accepts[e] > 0
    BY DEF SystemInv, EPP!EventInv, EPP!EarnedInv, EPP!OutcomeIsEarned
  <2>2. PICK p \in Posts : req[p].answer = "201" /\ req[p].ev = e
    BY <2>1 DEF SystemInv, LinkInv, AcceptInv
  <2> QED
    BY <1>1, <2>2, CreatedRecords DEF SystemInv
<1>3. ASSUME table[n] = "pending"
      PROVE  \E p \in Posts :
                /\ n \in NS!InsertedKeys(p)
                /\ Abandoned(p)
                /\ NS!Active(p) \/ req[p].answer \in {"500", "lost"}
  <2>1. PICK p \in Posts : /\ n \in NSP!InsertedKeys(p)
                           /\ NSP!Active(p) \/ req[p].answer \in {"500", "lost"}
    BY <1>1, <1>3 DEF SystemInv, NSP!ServiceInv, NSP!PendingHasReason
  <2>2. n \in NS!InsertedKeys(p) /\ (NS!Active(p) <=> NSP!Active(p))
    BY <2>1, SameState
  <2>3. req[p].ev = e
    BY <1>1, <2>1 DEF NSP!InsertedKeys
  <2>4. ASSUME NEW i \in Instances, call[i] = p
        PROVE  FALSE
    <3>1. Waiting(i)
      BY <2>4, SystemAssumption DEF Waiting
    <3>2. worker[i].pc = "send" /\ worker[i].ev = e
      BY <2>3, <2>4, <3>1, OpenPost DEF SystemInv, LinkInv
    <3> QED
      BY <3>2 DEF EPP!InFlightIsPending
  <2> QED
    BY <2>1, <2>2, <2>4 DEF Abandoned
<1> QED
  BY <1>2, <1>3

\* With one instance, a processed event has a record for each of its channels,
\* whatever timeouts, crashes and repeated requests came in between, and a record
\* that stays pending for good is the one of a request that its worker abandoned.
THEOREM LossAlwaysHasReason ==
    ASSUME SingleInstance
    PROVE  Spec => []LossHasReason
<1>1. SystemInv /\ EPP!InFlightIsPending => LossHasReason
  BY LossReason
<1>2. Spec => []EPP!InFlightIsPending
  BY InFlightCorrect
<1> QED
  BY <1>1, <1>2, SystemCorrect, PTL

\* With one instance, and as long as nothing fails and every attempt is answered,
\* the two tables agree: a processed event has its outcome on every channel, and
\* a failed one was rejected.
THEOREM TablesAlwaysAgree ==
    ASSUME SingleInstance
    PROVE  Spec => []TablesAgree
<1>1. ASSUME SystemInv, EPP!InFlightIsPending
      PROVE  TablesAgree
  <2> SUFFICES ASSUME NoFault, NEW e \in EventIDs \ unanswered
               PROVE  /\ status[e] = "processed" => \A n \in Routed(e) : Settled(n)
                      /\ status[e] = "failed" => e \in rejected
    BY DEF TablesAgree
  <2>1. ASSUME status[e] = "processed", NEW n \in Routed(e)
        PROVE  Settled(n)
    <3>1. /\ table[n] # "none"
          /\ table[n] = "pending" =>
                \E p \in Posts :
                   /\ n \in NS!InsertedKeys(p)
                   /\ Abandoned(p)
                   /\ NS!Active(p) \/ req[p].answer \in {"500", "lost"}
      BY <1>1, <2>1, LossReason DEF LossHasReason
    <3>2. ASSUME NEW p \in Posts, n \in NS!InsertedKeys(p), Abandoned(p), NS!Active(p)
          PROVE  FALSE
      <4>1. NSP!Active(p)
        BY <3>2, SameState
      <4>2. req[p].ev = e
        BY <2>1, <3>2 DEF NS!InsertedKeys, Routed
      <4> QED
        BY <1>1, <3>2, <4>1, <4>2 DEF SystemInv, LinkInv, CalledInv, Abandoned
    <3>3. ASSUME NEW p \in Posts, n \in NS!InsertedKeys(p), req[p].answer \in {"500", "lost"}
          PROVE  FALSE
      <4>1. req[p].gone
        BY <1>1, <3>3 DEF SystemInv, NSP!ServiceInv, NSP!CalmInv, NSP!Calm, NoFault
      <4>2. req[p].ev = e
        BY <2>1, <3>3 DEF NS!InsertedKeys, Routed
      <4> QED
        BY <1>1, <4>1, <4>2 DEF SystemInv, LinkInv, GoneInv
    <3>4. table[n] \in {"none", "pending", "sent", "failed"}
      <4>1. n \in NSP!Keys
        BY <2>1, RoutedKeys
      <4> QED
        BY <1>1, <4>1 DEF SystemInv, NSP!ServiceInv, NSP!TypeOK
    <3> QED
      BY <3>1, <3>2, <3>3, <3>4 DEF Settled
  <2>2. ASSUME status[e] = "failed"
        PROVE  e \in rejected
    <3>1. e \in rejected \/ transients[e] > MaxRetries
      BY <1>1, <2>2 DEF SystemInv, EPP!EventInv, EPP!EarnedInv, EPP!OutcomeIsEarned, EPP!GivenUp
    <3>2. transients[e] = 0
      BY <1>1 DEF SystemInv, LinkInv, TransientInv
    <3> QED
      BY <3>1, <3>2, SystemAssumption
  <2> QED
    BY <2>1, <2>2
<1>2. Spec => []EPP!InFlightIsPending
  BY InFlightCorrect
<1> QED
  BY <1>1, <1>2, SystemCorrect, PTL

\* With one instance, an event still has the life of EventLifecycle when its
\* acceptances and rejections come from notification_service: saved once,
\* forwarded while pending, settled once, by an answer that was given.
THEOREM SystemImplementsLifecycle ==
    ASSUME SingleInstance
    PROVE  Spec => EP!ImplementsLifecycle
<1>1. {e \in EventIDs : EP!GivenUp(e)} = {e \in EventIDs : EPP!GivenUp(e)}
  BY DEF EP!GivenUp, EPP!GivenUp
<1>2. /\ EPP!Lifecycle!Init => EP!Lifecycle!Init
      /\ EPP!Lifecycle!Next => EP!Lifecycle!Next
      /\ UNCHANGED EPP!Mapped => UNCHANGED EP!Lifecycle!vars
  <2>1. {e \in EventIDs : EP!GivenUp(e)}' = {e \in EventIDs : EPP!GivenUp(e)}'
    BY DEF EP!GivenUp, EPP!GivenUp
  <2>2. EPP!Lifecycle!Init => EP!Lifecycle!Init
    BY <1>1 DEF EP!Lifecycle!Init, EPP!Lifecycle!Init
  <2>3. EPP!Lifecycle!Next => EP!Lifecycle!Next
    BY <1>1, <2>1
       DEF EP!Lifecycle!Next, EP!Lifecycle!Persist, EP!Lifecycle!Accept, EP!Lifecycle!GiveUp,
           EP!Lifecycle!Settle, EPP!Lifecycle!Next, EPP!Lifecycle!Persist,
           EPP!Lifecycle!Accept, EPP!Lifecycle!GiveUp, EPP!Lifecycle!Settle
  <2>4. UNCHANGED EPP!Mapped => UNCHANGED EP!Lifecycle!vars
    BY <1>1, <2>1 DEF EPP!Mapped, EPP!refused, EP!Lifecycle!vars
  <2> QED
    BY <2>2, <2>3, <2>4
<1>3. Init => EP!Lifecycle!Init
  BY <1>2, SameOther, EPP!LifecycleInit, EventAssumptions DEF Init
<1>4. ASSUME SystemInv, EPP!InFlightIsPending, [Next]_vars
      PROVE  [EP!Lifecycle!Next]_EP!Lifecycle!vars
  <2>1. CASE EventMoves
    <3>1. EPP!Lifecycle!Next \/ UNCHANGED EPP!Mapped
      BY <1>4, <2>1, EPP!LifecycleStep, EventAssumptions DEF SystemInv, EPP!EventInv, EventMoves
    <3> QED
      BY <1>2, <3>1
  <2>2. CASE PostMoves \/ UNCHANGED vars
    <3>1. UNCHANGED <<status, accepts, rejected, transients>>
      BY <2>2 DEF PostMoves, eventVars, vars
    <3>2. \A e : EP!GivenUp(e)' <=> EP!GivenUp(e)
      BY <3>1 DEF EP!GivenUp
    <3> QED
      BY <3>1, <3>2 DEF EP!Lifecycle!vars
  <2> QED
    BY <1>4, <2>1, <2>2, Moves DEF SystemInv, EPP!EventInv
<1>5. Spec => []EPP!InFlightIsPending
  BY InFlightCorrect
<1> QED
  BY <1>3, <1>4, <1>5, SystemCorrect, PTL DEF Spec, EP!ImplementsLifecycle, EP!Lifecycle!Spec
=============================================================================
