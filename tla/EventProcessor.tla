--------------------------- MODULE EventProcessor ---------------------------
(***************************************************************************)
(* The event_processor service: POST /events handlers persist an event and *)
(* push its id onto a Redis list; each instance runs one worker, which     *)
(* pops ids and forwards the events to the notification service, and one   *)
(* reconciler, which pushes stale pending events again.                    *)
(*                                                                         *)
(* The PostgreSQL table and the Redis list are shared by all instances.    *)
(* The notification service is seen from here as the answer to a POST:     *)
(* accepted (2xx), rejected (4xx) or transient (anything else).            *)
(***************************************************************************)
EXTENDS Integers, Sequences, FiniteSets

CONSTANTS
    EventIDs,    \* the primary keys of table events
    Requests,    \* the POST /events requests, each with its own X-Request-ID
    Instances,   \* the running copies of event_processor
    None,        \* no event id, no request, no instance
    MaxRetries,  \* cfg.MaxRetries: attempts after the first
    MaxResends,  \* how often go-redis sends a command again (its MaxRetries)
    Limit,       \* how many stale events one reconciler pass lists
    MaxQueue,    \* the list length at which Redis answers LPUSH with an error
    MaxFaults    \* bound: infrastructure faults in one behaviour

ASSUME NoneAssumption ==
    /\ None \notin EventIDs
    /\ None \notin Requests
    /\ None \notin Instances

\* Ids are UUIDs, of which there are finitely many.
ASSUME FiniteAssumption == IsFiniteSet(EventIDs) /\ IsFiniteSet(Instances)

ASSUME BoundAssumption ==
    /\ MaxRetries \in Nat
    /\ MaxResends \in Nat
    /\ Limit \in Nat \ {0}
    /\ MaxQueue \in Nat
    /\ MaxFaults \in Nat

VARIABLES
    status,      \* events.status, "absent" where there is no row
    creator,     \* events.request_id
    createdAt,   \* the rank of the row's updated_at among all inserts; a row
                 \* keeps it while it is pending, and only pending rows are listed
    aged,        \* the rows with createdAt <= aged are older than staleAfter
    queue,       \* the Redis list "events:queue", its head on the left
    handler,     \* per request: where its handler is and what it answered
    worker,      \* per instance: Processor.Run and processOne
    batch,       \* per instance: what requeueStalePending has still to push
    faults,      \* faults so far: errors with a doubtful effect, crashes
    accepts,     \* history: 2xx answers per event
    rejected,    \* history: the events with a 4xx answer
    transients   \* history: transient answers per event

db      == <<status, creator, createdAt>>
history == <<accepts, rejected, transients>>
vars    == <<status, creator, createdAt, aged, queue, handler, worker, batch,
             faults, accepts, rejected, transients>>

Terminal  == {"processed", "failed"}
Persisted == {e \in EventIDs : status[e] # "absent"}

HandlerState(pc, id, at, answer) ==
    [pc |-> pc, id |-> id, at |-> at, answer |-> answer]

WorkerState(pc, ev, attempt, to) ==
    [pc |-> pc, ev |-> ev, attempt |-> attempt, to |-> to]

IdleHandler == HandlerState("idle", None, None, "none")
IdleWorker  == WorkerState("idle", None, 0, "pending")

Init ==
    /\ status     = [e \in EventIDs |-> "absent"]
    /\ creator    = [e \in EventIDs |-> None]
    /\ createdAt  = [e \in EventIDs |-> 0]
    /\ aged       = 0
    /\ queue      = << >>
    /\ handler    = [r \in Requests |-> IdleHandler]
    /\ worker     = [i \in Instances |-> IdleWorker]
    /\ batch      = [i \in Instances |-> {}]
    /\ faults     = 0
    /\ accepts    = [e \in EventIDs |-> 0]
    /\ rejected   = {}
    /\ transients = [e \in EventIDs |-> 0]

(***************************************************************************)
(* Faults and the Redis list                                               *)
(***************************************************************************)
Faulty(n) ==
    /\ faults + n <= MaxFaults
    /\ faults' = faults + n

Copies(e, n) == [j \in 1..n |-> e]

\* n copies of e enter on the left, if Redis has room for them.
LeftPush(e, n) ==
    /\ Len(queue) + n <= MaxQueue
    /\ queue' = Copies(e, n) \o queue

\* LPUSH answers with success. A command whose reply was lost has been sent
\* again, so an id may have been pushed several times.
Pushed(e) ==
    \E n \in 1..(1 + MaxResends) : LeftPush(e, n) /\ Faulty(n - 1)

\* LPUSH answers with an error: the list is full, or the call failed, and then
\* each of the attempts may have pushed all the same.
NotPushed(e) ==
    \/ Len(queue) >= MaxQueue /\ UNCHANGED <<queue, faults>>
    \/ Faulty(1) /\ UNCHANGED queue
    \/ \E n \in 1..(1 + MaxResends) : LeftPush(e, n) /\ Faulty(n)

(***************************************************************************)
(* POST /events                                                            *)
(***************************************************************************)
\* Mutant: errors of Save and of Enqueue are only logged.
AnswerAccepted(r, a) ==
    handler' = [handler EXCEPT ![r] = HandlerState("done", handler[r].id, handler[r].at,
                   IF a \in {"409", "503"} THEN "202" ELSE a)]

Answer(r, a) ==
    handler' = [handler EXCEPT ![r] =
                   HandlerState("done", handler[r].id, handler[r].at, a)]

ToEnqueue(r, e) ==
    handler' = [handler EXCEPT ![r] = HandlerState("enqueue", e, handler[r].at, "none")]

\* The request body is not valid: bad JSON, id, type or payload.
Refuse(r) ==
    /\ handler[r].pc = "idle"
    /\ Answer(r, "400")
    /\ UNCHANGED <<db, aged, queue, worker, batch, faults, history>>

\* A valid request, with the client's id or without one, reaches an instance.
Receive(r, i, id) ==
    /\ handler[r].pc = "idle"
    /\ handler' = [handler EXCEPT ![r] = HandlerState("save", id, i, "none")]
    /\ UNCHANGED <<db, aged, queue, worker, batch, faults, history>>

\* The ids an INSERT may use: the client's, or one that gen_random_uuid draws.
IdFor(r) == IF handler[r].id = None THEN EventIDs \ Persisted ELSE {handler[r].id}

Insert(r, e) ==
    /\ status[e] = "absent"
    /\ status'    = [status EXCEPT ![e] = "pending"]
    /\ creator'   = [creator EXCEPT ![e] = r]
    /\ createdAt' = [createdAt EXCEPT ![e] = Cardinality(Persisted) + 1]

Save(r) ==
    /\ handler[r].pc = "save"
    /\ \E e \in IdFor(r) :
          /\ Insert(r, e)
          /\ ToEnqueue(r, e)
    /\ UNCHANGED <<aged, queue, worker, batch, faults, history>>

SaveDuplicate(r) ==
    /\ handler[r].pc = "save"
    /\ handler[r].id \in Persisted
    /\ Answer(r, "409")
    /\ UNCHANGED <<db, aged, queue, worker, batch, faults, history>>

\* Mutant: the error of Save is logged, and the event is pushed all the same.
SaveErrorIgnored(r) ==
    /\ handler[r].pc = "save"
    /\ handler[r].id \in EventIDs
    /\ ToEnqueue(r, handler[r].id)
    /\ Faulty(1)
    /\ UNCHANGED <<db, aged, queue, worker, batch, history>>

\* The INSERT returns another error; it may have been committed.
SaveError(r) ==
    /\ handler[r].pc = "save"
    /\ \/ UNCHANGED db
       \/ \E e \in IdFor(r) : Insert(r, e)
    /\ Answer(r, "500")
    /\ Faulty(1)
    /\ UNCHANGED <<aged, queue, worker, batch, history>>

\* The INSERT is committed, but the connection ends before its answer, and
\* database/sql sends the statement again (driver.ErrBadConn): it will meet its
\* own row, or draw another id.
SaveResent(r) ==
    /\ handler[r].pc = "save"
    /\ \E e \in IdFor(r) : Insert(r, e)
    /\ Faulty(1)
    /\ UNCHANGED <<aged, queue, handler, worker, batch, history>>

Enqueue(r) ==
    /\ handler[r].pc = "enqueue"
    /\ Pushed(handler[r].id)
    /\ Answer(r, "202")
    /\ UNCHANGED <<db, aged, worker, batch, history>>

EnqueueFailed(r) ==
    /\ handler[r].pc = "enqueue"
    /\ NotPushed(handler[r].id)
    /\ Answer(r, "503")
    /\ UNCHANGED <<db, aged, worker, batch, history>>

IngestEvent(r) ==
    \/ Save(r) \/ SaveDuplicate(r) \/ SaveError(r) \/ SaveResent(r)
    \/ Enqueue(r) \/ EnqueueFailed(r)

(***************************************************************************)
(* The worker                                                              *)
(***************************************************************************)
\* BLPOP takes the id on the left: the one pushed last.
Dequeue(i) ==
    /\ worker[i].pc = "idle"
    /\ queue # << >>
    /\ worker' = [worker EXCEPT ![i] = WorkerState("load", Head(queue), 0, "pending")]
    /\ queue' = Tail(queue)
    /\ UNCHANGED <<db, aged, handler, batch, faults, history>>

\* Redis pops the id but its reply does not reach Run, which polls again.
DequeueLost(i) ==
    /\ worker[i].pc = "idle"
    /\ queue # << >>
    /\ queue' = Tail(queue)
    /\ Faulty(1)
    /\ UNCHANGED <<db, aged, handler, worker, batch, history>>

Sending(e, attempt) == WorkerState("send", e, attempt, "pending")

\* Mutant: without the guard on the status.
ForwardsAlways(e) == e \in EventIDs

\* Mutant: the guard knows one terminal status only.
ForwardsUnprocessed(e) == status[e] # "processed"

\* processOne goes on with a row that is neither processed nor failed.
Forwards(e) == status[e] = "pending"

\* FindByID and the guards on its result.
Load(i) ==
    /\ worker[i].pc = "load"
    /\ worker' = [worker EXCEPT ![i] =
                     IF Forwards(worker[i].ev)
                     THEN Sending(worker[i].ev, 0)
                     ELSE IdleWorker]
    /\ UNCHANGED <<db, aged, queue, handler, batch, faults, history>>

LoadError(i) ==
    /\ worker[i].pc = "load"
    /\ worker' = [worker EXCEPT ![i] = IdleWorker]
    /\ Faulty(1)
    /\ UNCHANGED <<db, aged, queue, handler, batch, history>>

Decided(w, s) == WorkerState("mark", w.ev, w.attempt, s)

\* Mutant: attempts are not counted.
AfterTransientForever(w) == Sending(w.ev, w.attempt + 1)

\* Mutant: one attempt too few (attempt < maxRetries in the loop).
AfterTransientTooFew(w) ==
    IF w.attempt + 1 < MaxRetries
    THEN Sending(w.ev, w.attempt + 1)
    ELSE Decided(w, "failed")

\* A transient answer: try again while attempts remain.
AfterTransient(w) ==
    IF w.attempt < MaxRetries
    THEN Sending(w.ev, w.attempt + 1)
    ELSE Decided(w, "failed")

\* Mutant: processOne returns on a permanent error before it marks the row.
AfterRejectionReturns(w) == IdleWorker

\* Mutant: every answer that is not 5xx counts as success.
AfterRejectionAccepted(w) == Decided(w, "processed")

AfterRejection(w) == Decided(w, "failed")

Attempted(i, w) ==
    /\ worker[i].pc = "send"
    /\ worker' = [worker EXCEPT ![i] = w]
    /\ UNCHANGED <<db, aged, queue, handler, batch, faults>>

PostAccepted(i) ==
    /\ Attempted(i, Decided(worker[i], "processed"))
    /\ accepts' = [accepts EXCEPT ![worker[i].ev] = @ + 1]
    /\ UNCHANGED <<rejected, transients>>

PostRejected(i) ==
    /\ Attempted(i, AfterRejection(worker[i]))
    /\ rejected' = rejected \cup {worker[i].ev}
    /\ UNCHANGED <<accepts, transients>>

PostTransient(i) ==
    /\ Attempted(i, AfterTransient(worker[i]))
    /\ transients' = [transients EXCEPT ![worker[i].ev] = @ + 1]
    /\ UNCHANGED <<accepts, rejected>>

\* One attempt of sendToNotificationService, up to what its answer decides.
Post(i) == PostAccepted(i) \/ PostRejected(i) \/ PostTransient(i)

\* The UPDATE does not look at the status it overwrites.
SetStatus(i) == status' = [status EXCEPT ![worker[i].ev] = worker[i].to]

UpdateStatus(i) ==
    /\ worker[i].pc = "mark"
    /\ SetStatus(i)
    /\ worker' = [worker EXCEPT ![i] = IdleWorker]
    /\ UNCHANGED <<creator, createdAt, aged, queue, handler, batch, faults, history>>

\* The UPDATE returns an error, which is logged; it may have been committed.
UpdateStatusError(i) ==
    /\ worker[i].pc = "mark"
    /\ SetStatus(i) \/ UNCHANGED status
    /\ worker' = [worker EXCEPT ![i] = IdleWorker]
    /\ Faulty(1)
    /\ UNCHANGED <<creator, createdAt, aged, queue, handler, batch, history>>

\* What Run and processOne do between the attempts.
Process(i) ==
    \/ Dequeue(i) \/ DequeueLost(i) \/ Load(i) \/ LoadError(i)
    \/ UpdateStatus(i) \/ UpdateStatusError(i)

Run(i) == Process(i) \/ Post(i)

(***************************************************************************)
(* The reconciler                                                          *)
(***************************************************************************)
\* Another row becomes older than staleAfter.
TimePasses ==
    /\ aged < Cardinality(Persisted)
    /\ aged' = aged + 1
    /\ UNCHANGED <<db, queue, handler, worker, batch, faults, history>>

\* Mutant: off by one, the newest row never becomes stale.
StaleOffByOne == {e \in EventIDs : status[e] = "pending" /\ createdAt[e] < aged}

Stale == {e \in EventIDs : status[e] = "pending" /\ createdAt[e] <= aged}

Before(S, e) == {f \in S : createdAt[f] < createdAt[e]}

\* The first Limit of the stale pending rows by updated_at.
PendingOlderThan == {e \in Stale : Cardinality(Before(Stale, e)) < Limit}

ListStale(i) ==
    /\ batch[i] = {}
    /\ Stale # {}
    /\ batch' = [batch EXCEPT ![i] = PendingOlderThan]
    /\ UNCHANGED <<db, aged, queue, handler, worker, faults, history>>

\* Push the oldest listed event, whatever its row says by now.
Requeue(i) ==
    /\ \E e \in batch[i] :
          /\ Before(batch[i], e) = {}
          /\ Pushed(e) \/ NotPushed(e)
          /\ batch' = [batch EXCEPT ![i] = @ \ {e}]
    /\ UNCHANGED <<db, aged, handler, worker, history>>

RequeueStalePending(i) == ListStale(i) \/ Requeue(i)

(***************************************************************************)
(* An instance stops without finishing what it does, and is started again. *)
(***************************************************************************)
Crash(i) ==
    /\ handler' = [r \in Requests |->
                      IF handler[r].at = i /\ handler[r].pc \in {"save", "enqueue"}
                      THEN HandlerState("done", handler[r].id, i, "lost")
                      ELSE handler[r]]
    /\ worker' = [worker EXCEPT ![i] = IdleWorker]
    /\ batch'  = [batch EXCEPT ![i] = {}]
    /\ Faulty(1)
    /\ UNCHANGED <<db, aged, queue, history>>

Next ==
    \/ \E r \in Requests :
          \/ Refuse(r)
          \/ \E i \in Instances, id \in EventIDs \cup {None} : Receive(r, i, id)
          \/ IngestEvent(r)
    \/ \E i \in Instances : Run(i) \/ RequeueStalePending(i) \/ Crash(i)
    \/ TimePasses

Fairness ==
    /\ \A r \in Requests : WF_vars(IngestEvent(r))
    /\ \A i \in Instances : WF_vars(Run(i)) /\ WF_vars(RequeueStalePending(i))
    /\ WF_vars(TimePasses)

Spec == Init /\ [][Next]_vars

FairSpec == Spec /\ Fairness

-----------------------------------------------------------------------------
(***************************************************************************)
(* Properties                                                              *)
(***************************************************************************)
Statuses == {"absent", "pending"} \cup Terminal

HandlerStates ==
    [pc : {"idle", "save", "enqueue", "done"},
     id : EventIDs \cup {None},
     at : Instances \cup {None},
     answer : {"none", "202", "400", "409", "500", "503", "lost"}]

WorkerStates ==
    [pc : {"idle", "load", "send", "mark"},
     ev : EventIDs \cup {None},
     attempt : 0..MaxRetries,
     to : {"pending"} \cup Terminal]

\* Every variable keeps to its type; the worker makes no more attempts than
\* sendToNotificationService counts, and names an event whenever it is busy.
TypeOK ==
    /\ status \in [EventIDs -> Statuses]
    /\ creator \in [EventIDs -> Requests \cup {None}]
    /\ createdAt \in [EventIDs -> Nat]
    /\ aged \in Nat
    /\ queue \in Seq(EventIDs)
    /\ handler \in [Requests -> HandlerStates]
    /\ worker \in [Instances -> WorkerStates]
    /\ \A i \in Instances : worker[i].pc # "idle" => worker[i].ev \in EventIDs
    /\ \A r \in Requests : handler[r].pc = "enqueue" => handler[r].id \in EventIDs
    /\ batch \in [Instances -> SUBSET EventIDs]
    /\ faults \in 0..MaxFaults
    /\ accepts \in [EventIDs -> Nat]
    /\ rejected \subseteq EventIDs
    /\ transients \in [EventIDs -> Nat]

\* An id in the Redis list, in a worker or in a reconciler's batch has a row:
\* events are saved before they are pushed, so the branch of processOne for
\* an event that is not in the database is never taken.
QueuedIsPersisted ==
    /\ queue \in Seq(Persisted)
    /\ \A i \in Instances :
          /\ worker[i].pc # "idle" => worker[i].ev \in Persisted
          /\ batch[i] \subseteq Persisted

\* The status code tells the client whose event the row is: after 202 and 503
\* it is the request's own, after 409 another's, and 400 leaves no row. Only a
\* fault can make a request meet the row of its own first INSERT.
AnswersMatchRow ==
    \A r \in Requests : LET h == handler[r] IN
       /\ h.answer \in {"202", "503"} => creator[h.id] = r
       /\ h.answer = "409" => creator[h.id] \in Requests /\ (creator[h.id] = r => faults > 0)
       /\ h.answer = "400" => \A e \in EventIDs : creator[e] # r

GivenUp(e) == e \in rejected \/ transients[e] > MaxRetries

\* A row is marked processed only after a 2xx answer, and failed only after a
\* 4xx answer or MaxRetries + 1 transient ones, whatever crashes, redeliveries
\* and failed updates came in between.
OutcomeIsEarned ==
    \A e \in EventIDs :
       /\ status[e] = "processed" => accepts[e] > 0
       /\ status[e] = "failed" => GivenUp(e)

\* The workers read a 2xx for an event at most once per instance plus once per
\* fault: the guard of processOne on the status stops the copies
\* that the reconciler adds to the queue, however many they are.
BoundedRedelivery ==
    \A e \in EventIDs : accepts[e] <= faults + Cardinality(Instances)

Queued(e) == \E k \in 1..Len(queue) : queue[k] = e

Held(e) ==
    \/ \E i \in Instances : worker[i].pc # "idle" /\ worker[i].ev = e
    \/ \E r \in Requests : handler[r].pc = "enqueue" /\ handler[r].id = e

\* Without faults, a pending event is in the queue, in the hands of its handler
\* or of a worker, or its client was told 503: no return of processOne drops it.
PendingIsAccounted ==
    faults = 0 =>
       \A e \in EventIDs : status[e] = "pending" =>
          Queued(e) \/ Held(e) \/ handler[creator[e]].answer = "503"

\* The guard makes duplicate queue entries safe: a worker that is forwarding an
\* event, or about to mark it, works on a row that is still pending. True of
\* one instance.
InFlightIsPending ==
    \A i \in Instances :
       worker[i].pc \in {"send", "mark"} => status[worker[i].ev] = "pending"

\* A terminal status is never changed again. True of one instance.
TerminalIsFinal ==
    [][\A e \in EventIDs : status[e] \in Terminal => status'[e] = status[e]]_vars

\* Every persisted event ends up processed or failed, although a handler may
\* fail between INSERT and LPUSH and the queue may lose ids: the reconciler
\* finds it, even when it lists one event at a time and the queue is full.
EventuallyTerminal ==
    \A e \in EventIDs : status[e] = "pending" ~> status[e] \in Terminal

\* One instance implements the life of an event that EventLifecycle describes.
Lifecycle == INSTANCE EventLifecycle
                WITH refused <- {e \in EventIDs : GivenUp(e)}
ImplementsLifecycle == Lifecycle!Spec
=============================================================================
