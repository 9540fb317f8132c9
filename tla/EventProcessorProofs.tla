------------------------ MODULE EventProcessorProofs ------------------------
(***************************************************************************)
(* Theorems about EventProcessor, for any number of events, requests and   *)
(* instances, any bounds and any number of faults.                         *)
(***************************************************************************)
EXTENDS EventProcessor, SequenceTheorems, FiniteSetTheorems, TLAPS

(***************************************************************************)
(* The Redis list                                                          *)
(***************************************************************************)
\* Pushing copies of an element of S keeps a sequence over S, for LeftPush,
\* the LPUSH of Enqueue and of requeueStalePending.
LEMMA LeftPushSeq ==
    ASSUME NEW S, queue \in Seq(S), NEW e \in S, NEW n \in Nat, LeftPush(e, n)
    PROVE  queue' \in Seq(S)
<1>1. Copies(e, n) \in Seq(S)
  BY DEF Copies
<1> QED
  BY <1>1, ConcatProperties DEF LeftPush

\* A push that succeeds: the list stays over S, the faults within the bound.
LEMMA PushedSeq ==
    ASSUME NEW S, queue \in Seq(S), NEW e \in S, Pushed(e), faults \in 0..MaxFaults
    PROVE  queue' \in Seq(S) /\ faults' \in 0..MaxFaults /\ faults' >= faults
<1>1. PICK n \in 1..(1 + MaxResends) : LeftPush(e, n) /\ Faulty(n - 1)
  BY DEF Pushed
<1>2. n \in Nat /\ n - 1 \in Nat
  BY BoundAssumption
<1>3. queue' \in Seq(S)
  BY <1>1, <1>2, LeftPushSeq
<1> QED
  BY <1>1, <1>2, <1>3, BoundAssumption DEF Faulty

\* A push that is answered with an error: the same.
LEMMA NotPushedSeq ==
    ASSUME NEW S, queue \in Seq(S), NEW e \in S, NotPushed(e), faults \in 0..MaxFaults
    PROVE  queue' \in Seq(S) /\ faults' \in 0..MaxFaults /\ faults' >= faults
<1>1. CASE Len(queue) >= MaxQueue /\ UNCHANGED <<queue, faults>>
  BY <1>1, BoundAssumption
<1>2. CASE Faulty(1) /\ UNCHANGED queue
  BY <1>2, BoundAssumption DEF Faulty
<1>3. CASE \E n \in 1..(1 + MaxResends) : LeftPush(e, n) /\ Faulty(n)
  <2>1. PICK n \in 1..(1 + MaxResends) : LeftPush(e, n) /\ Faulty(n)
    BY <1>3
  <2>2. n \in Nat
    BY BoundAssumption
  <2>3. queue' \in Seq(S)
    BY <2>1, <2>2, LeftPushSeq
  <2> QED
    BY <2>1, <2>2, <2>3, BoundAssumption DEF Faulty
<1> QED
  BY <1>1, <1>2, <1>3 DEF NotPushed

(***************************************************************************)
(* Types                                                                   *)
(***************************************************************************)
\* The rows of table events can be counted: an INSERT ranks its row by that count.
LEMMA PersistedCount ==
    Cardinality(Persisted) \in Nat
BY FiniteAssumption, FS_Subset, FS_CardinalityType DEF Persisted

\* A row that Insert adds keeps the types of the table.
LEMMA InsertType ==
    ASSUME TypeOK, NEW r \in Requests, NEW e \in EventIDs, Insert(r, e)
    PROVE  /\ status' \in [EventIDs -> Statuses]
           /\ creator' \in [EventIDs -> Requests \cup {None}]
           /\ createdAt' \in [EventIDs -> Nat]
BY PersistedCount DEF Insert, TypeOK, Statuses

\* A handler moved to state h, which names an event if it is to enqueue one,
\* keeps the handlers' type.
LEMMA HandlerType ==
    ASSUME TypeOK, NEW r \in Requests, NEW h \in HandlerStates,
           h.pc = "enqueue" => h.id \in EventIDs,
           handler' = [handler EXCEPT ![r] = h]
    PROVE  /\ handler' \in [Requests -> HandlerStates]
           /\ \A q \in Requests : handler'[q].pc = "enqueue" => handler'[q].id \in EventIDs
BY DEF TypeOK

\* A handler that answers, with any of its status codes, is a handler state.
LEMMA AnswerType ==
    ASSUME TypeOK, NEW r \in Requests, NEW a \in {"202", "400", "409", "500", "503"},
           Answer(r, a)
    PROVE  /\ handler' \in [Requests -> HandlerStates]
           /\ \A q \in Requests : handler'[q].pc = "enqueue" => handler'[q].id \in EventIDs
<1> DEFINE h == HandlerState("done", handler[r].id, handler[r].at, a)
<1>1. h \in HandlerStates /\ h.pc # "enqueue"
  BY DEF TypeOK, HandlerStates, HandlerState
<1>2. handler' = [handler EXCEPT ![r] = h]
  BY DEF Answer
<1> HIDE DEF h
<1> QED
  BY <1>1, <1>2, HandlerType

\* A handler on its way from INSERT to LPUSH names the event it pushes.
LEMMA ToEnqueueType ==
    ASSUME TypeOK, NEW r \in Requests, NEW e \in EventIDs, ToEnqueue(r, e)
    PROVE  /\ handler' \in [Requests -> HandlerStates]
           /\ \A q \in Requests : handler'[q].pc = "enqueue" => handler'[q].id \in EventIDs
<1> DEFINE h == HandlerState("enqueue", e, handler[r].at, "none")
<1>1. h \in HandlerStates /\ h.id \in EventIDs
  BY DEF TypeOK, HandlerStates, HandlerState
<1>2. handler' = [handler EXCEPT ![r] = h]
  BY DEF ToEnqueue
<1> HIDE DEF h
<1> QED
  BY <1>1, <1>2, HandlerType

\* The ids that an INSERT may use are ids.
LEMMA IdForType ==
    ASSUME TypeOK, NEW r \in Requests
    PROVE  IdFor(r) \subseteq EventIDs
<1>1. handler[r].id \in EventIDs \cup {None}
  BY DEF TypeOK, HandlerStates
<1> QED
  BY <1>1 DEF IdFor

\* An INSERT that succeeds adds one row and sends its handler on to LPUSH.
LEMMA SaveInserts ==
    ASSUME TypeOK, NEW r \in Requests, Save(r)
    PROVE  \E e \in EventIDs : Insert(r, e) /\ ToEnqueue(r, e)
BY IdForType DEF Save

\* Every step of a POST /events request keeps every variable in its type.
LEMMA IngestType ==
    ASSUME TypeOK, NEW r \in Requests, IngestEvent(r)
    PROVE  TypeOK'
<1>1. CASE Save(r)
  <2>1. PICK e \in EventIDs : Insert(r, e) /\ ToEnqueue(r, e)
    BY <1>1, SaveInserts
  <2>2. /\ status' \in [EventIDs -> Statuses]
        /\ creator' \in [EventIDs -> Requests \cup {None}]
        /\ createdAt' \in [EventIDs -> Nat]
    BY <2>1, InsertType
  <2> QED
    BY <1>1, <2>1, <2>2, ToEnqueueType DEF TypeOK, Save, history
<1>2. CASE SaveDuplicate(r)
  BY <1>2, AnswerType DEF TypeOK, SaveDuplicate, db, history
<1>3. CASE SaveError(r)
  <2>1. /\ status' \in [EventIDs -> Statuses]
        /\ creator' \in [EventIDs -> Requests \cup {None}]
        /\ createdAt' \in [EventIDs -> Nat]
    <3>1. CASE UNCHANGED db
      BY <3>1 DEF db, TypeOK
    <3>2. CASE \E e \in IdFor(r) : Insert(r, e)
      BY <1>3, <3>2, InsertType, IdForType DEF SaveError
    <3> QED
      BY <1>3, <3>1, <3>2 DEF SaveError
  <2>2. faults' \in 0..MaxFaults
    BY <1>3, BoundAssumption DEF SaveError, Faulty, TypeOK
  <2> QED
    BY <1>3, <2>1, <2>2, AnswerType DEF TypeOK, SaveError, history
<1>4. CASE Enqueue(r)
  <2>1. queue' \in Seq(EventIDs) /\ faults' \in 0..MaxFaults
    BY <1>4, PushedSeq DEF Enqueue, TypeOK
  <2> QED
    BY <1>4, <2>1, AnswerType DEF TypeOK, Enqueue, db, history
<1>5. CASE EnqueueFailed(r)
  <2>1. queue' \in Seq(EventIDs) /\ faults' \in 0..MaxFaults
    BY <1>5, NotPushedSeq DEF EnqueueFailed, TypeOK
  <2> QED
    BY <1>5, <2>1, AnswerType DEF TypeOK, EnqueueFailed, db, history
<1>6. CASE SaveResent(r)
  <2>1. /\ status' \in [EventIDs -> Statuses]
        /\ creator' \in [EventIDs -> Requests \cup {None}]
        /\ createdAt' \in [EventIDs -> Nat]
    BY <1>6, InsertType, IdForType DEF SaveResent
  <2>2. faults' \in 0..MaxFaults
    BY <1>6, BoundAssumption DEF SaveResent, Faulty, TypeOK
  <2> QED
    BY <1>6, <2>1, <2>2 DEF TypeOK, SaveResent, history
<1> QED
  BY <1>1, <1>2, <1>3, <1>4, <1>5, <1>6 DEF IngestEvent

(***************************************************************************)
(* The worker                                                              *)
(***************************************************************************)
\* A worker moved to state w, which names an event if it is busy, keeps the
\* workers' type.
LEMMA WorkerType ==
    ASSUME TypeOK, NEW i \in Instances, NEW w \in WorkerStates,
           w.pc # "idle" => w.ev \in EventIDs,
           worker' = [worker EXCEPT ![i] = w]
    PROVE  /\ worker' \in [Instances -> WorkerStates]
           /\ \A j \in Instances : worker'[j].pc # "idle" => worker'[j].ev \in EventIDs
BY DEF TypeOK

\* What a busy worker goes on to: another attempt within the bound, a decision,
\* or nothing.
LEMMA NextWork ==
    ASSUME TypeOK, NEW i \in Instances, worker[i].pc # "idle"
    PROVE  /\ IdleWorker \in WorkerStates /\ IdleWorker.pc = "idle"
           /\ \A n \in 0..MaxRetries : LET w == Sending(worker[i].ev, n) IN
                 w \in WorkerStates /\ w.pc = "send" /\ w.ev = worker[i].ev
           /\ \A s \in Terminal : LET w == Decided(worker[i], s) IN
                 w \in WorkerStates /\ w.pc = "mark" /\ w.ev = worker[i].ev
BY BoundAssumption
   DEF TypeOK, WorkerStates, WorkerState, IdleWorker, Sending, Decided, Terminal

\* Every step of a worker keeps every variable in its type.
LEMMA RunType ==
    ASSUME TypeOK, NEW i \in Instances, Run(i)
    PROVE  TypeOK'
<1>1. CASE Dequeue(i)
  <2> DEFINE w == WorkerState("load", Head(queue), 0, "pending")
  <2>1. Head(queue) \in EventIDs /\ queue' \in Seq(EventIDs)
    BY <1>1, HeadTailProperties DEF Dequeue, TypeOK
  <2>2. w \in WorkerStates /\ w.ev \in EventIDs
    BY <2>1, BoundAssumption DEF WorkerState, WorkerStates
  <2>3. worker' = [worker EXCEPT ![i] = w]
    BY <1>1 DEF Dequeue
  <2> HIDE DEF w
  <2>4. /\ worker' \in [Instances -> WorkerStates]
        /\ \A j \in Instances : worker'[j].pc # "idle" => worker'[j].ev \in EventIDs
    BY <2>2, <2>3, WorkerType
  <2> QED
    BY <1>1, <2>1, <2>4 DEF Dequeue, TypeOK, db, history
<1>2. CASE DequeueLost(i)
  <2>1. queue' \in Seq(EventIDs) /\ faults' \in 0..MaxFaults
    BY <1>2, HeadTailProperties, BoundAssumption DEF DequeueLost, TypeOK, Faulty
  <2> QED
    BY <1>2, <2>1 DEF DequeueLost, TypeOK, db, history
<1>3. CASE Load(i)
  <2>1. PICK w \in WorkerStates : /\ w.pc # "idle" => w.ev = worker[i].ev
                                  /\ worker' = [worker EXCEPT ![i] = w]
    <3>1. CASE status[worker[i].ev] = "pending"
      <4>1. 0 \in 0..MaxRetries
        BY BoundAssumption
      <4> QED
        BY <1>3, <3>1, <4>1, NextWork DEF Load, Forwards
    <3>2. CASE status[worker[i].ev] # "pending"
      BY <1>3, <3>2, NextWork DEF Load, Forwards
    <3> QED
      BY <3>1, <3>2
  <2>2. worker[i].ev \in EventIDs
    BY <1>3 DEF Load, Forwards, TypeOK
  <2>3. /\ worker' \in [Instances -> WorkerStates]
        /\ \A j \in Instances : worker'[j].pc # "idle" => worker'[j].ev \in EventIDs
    BY <2>1, <2>2, WorkerType
  <2> QED
    BY <1>3, <2>3 DEF Load, Forwards, TypeOK, db, history
<1>4. CASE LoadError(i)
  <2>1. /\ worker' \in [Instances -> WorkerStates]
        /\ \A j \in Instances : worker'[j].pc # "idle" => worker'[j].ev \in EventIDs
    BY <1>4, NextWork, WorkerType DEF LoadError
  <2>2. faults' \in 0..MaxFaults
    BY <1>4, BoundAssumption DEF LoadError, Faulty, TypeOK
  <2> QED
    BY <1>4, <2>1, <2>2 DEF LoadError, TypeOK, db, history
<1>5. CASE Post(i)
  <2>1. worker[i].ev \in EventIDs
    BY <1>5 DEF Post, PostAccepted, PostRejected, PostTransient, Attempted, TypeOK
  <2>2. PICK w \in WorkerStates : /\ w.ev = worker[i].ev
                                  /\ worker' = [worker EXCEPT ![i] = w]
    <3>1. AfterTransient(worker[i]) \in WorkerStates
          /\ AfterTransient(worker[i]).ev = worker[i].ev
      <4>1. worker[i].attempt \in 0..MaxRetries
        BY DEF TypeOK, WorkerStates
      <4>2. CASE worker[i].attempt < MaxRetries
        <5>1. worker[i].attempt + 1 \in 0..MaxRetries
          BY <4>1, <4>2, BoundAssumption
        <5> QED
          BY <1>5, <4>2, <5>1, NextWork DEF Post, PostAccepted, PostRejected,
               PostTransient, Attempted, AfterTransient
      <4>3. CASE ~(worker[i].attempt < MaxRetries)
        BY <1>5, <4>3, NextWork DEF Post, PostAccepted, PostRejected,
             PostTransient, Attempted, AfterTransient, Terminal
      <4> QED
        BY <4>2, <4>3
    <3>2. /\ Decided(worker[i], "processed") \in WorkerStates
          /\ Decided(worker[i], "processed").ev = worker[i].ev
      BY <1>5, NextWork DEF Post, PostAccepted, PostRejected, PostTransient,
           Attempted, Terminal
    <3>3. /\ AfterRejection(worker[i]) \in WorkerStates
          /\ AfterRejection(worker[i]).ev = worker[i].ev
      BY <1>5, NextWork DEF Post, PostAccepted, PostRejected, PostTransient,
           Attempted, AfterRejection, Terminal
    <3> QED
      BY <1>5, <3>1, <3>2, <3>3 DEF Post, PostAccepted, PostRejected,
           PostTransient, Attempted
  <2>3. /\ worker' \in [Instances -> WorkerStates]
        /\ \A j \in Instances : worker'[j].pc # "idle" => worker'[j].ev \in EventIDs
    BY <2>1, <2>2, WorkerType
  <2>4. /\ accepts' \in [EventIDs -> Nat]
        /\ rejected' \subseteq EventIDs
        /\ transients' \in [EventIDs -> Nat]
    <3>0. accepts \in [EventIDs -> Nat] /\ transients \in [EventIDs -> Nat]
      BY DEF TypeOK
    <3>1. \/ UNCHANGED rejected
          \/ rejected' = rejected \cup {worker[i].ev}
      BY <1>5 DEF Post, PostAccepted, PostRejected, PostTransient, Attempted
    <3>2. rejected' \subseteq EventIDs
      BY <2>1, <3>1 DEF TypeOK
    <3>3. \/ UNCHANGED accepts
          \/ accepts' = [accepts EXCEPT ![worker[i].ev] = @ + 1]
      BY <1>5 DEF Post, PostAccepted, PostRejected, PostTransient, Attempted
    <3>4. accepts' \in [EventIDs -> Nat]
      BY <2>1, <3>0, <3>3
    <3>5. \/ UNCHANGED transients
          \/ transients' = [transients EXCEPT ![worker[i].ev] = @ + 1]
      BY <1>5 DEF Post, PostAccepted, PostRejected, PostTransient, Attempted
    <3>6. transients' \in [EventIDs -> Nat]
      BY <2>1, <3>0, <3>5
    <3> QED
      BY <3>2, <3>4, <3>6
  <2> QED
    BY <1>5, <2>3, <2>4 DEF Post, PostAccepted, PostRejected, PostTransient,
         Attempted, TypeOK, db
<1>6. CASE UpdateStatus(i) \/ UpdateStatusError(i)
  <2>1. worker[i].pc = "mark" /\ worker' = [worker EXCEPT ![i] = IdleWorker]
    BY <1>6 DEF UpdateStatus, UpdateStatusError
  <2>2. /\ worker' \in [Instances -> WorkerStates]
        /\ \A j \in Instances : worker'[j].pc # "idle" => worker'[j].ev \in EventIDs
    BY <2>1, NextWork, WorkerType
  <2>3. status' \in [EventIDs -> Statuses]
    BY <1>6 DEF UpdateStatus, UpdateStatusError, SetStatus, TypeOK, WorkerStates,
         Statuses
  <2>4. faults' \in 0..MaxFaults
    BY <1>6, BoundAssumption DEF UpdateStatus, UpdateStatusError, Faulty, TypeOK
  <2> QED
    BY <1>6, <2>2, <2>3, <2>4 DEF UpdateStatus, UpdateStatusError, TypeOK, history
<1> QED
  BY <1>1, <1>2, <1>3, <1>4, <1>5, <1>6 DEF Run, Process

\* Every step of a reconciler keeps every variable in its type.
LEMMA RequeueType ==
    ASSUME TypeOK, NEW i \in Instances, RequeueStalePending(i)
    PROVE  TypeOK'
<1>1. CASE ListStale(i)
  <2>1. batch' \in [Instances -> SUBSET EventIDs]
    BY <1>1 DEF ListStale, PendingOlderThan, Stale, TypeOK
  <2> QED
    BY <1>1, <2>1 DEF ListStale, TypeOK, db, history
<1>2. CASE Requeue(i)
  <2>1. PICK e \in batch[i] : /\ Pushed(e) \/ NotPushed(e)
                              /\ batch' = [batch EXCEPT ![i] = @ \ {e}]
    BY <1>2 DEF Requeue
  <2>2. e \in EventIDs
    BY <2>1 DEF TypeOK
  <2>3. queue' \in Seq(EventIDs) /\ faults' \in 0..MaxFaults
    BY <2>1, <2>2, PushedSeq, NotPushedSeq DEF TypeOK
  <2>4. batch' \in [Instances -> SUBSET EventIDs]
    BY <2>1 DEF TypeOK
  <2> QED
    BY <1>2, <2>3, <2>4 DEF Requeue, TypeOK, db, history
<1> QED
  BY <1>1, <1>2 DEF RequeueStalePending

\* A crash keeps every variable in its type.
LEMMA CrashType ==
    ASSUME TypeOK, NEW i \in Instances, Crash(i)
    PROVE  TypeOK'
<1>1. /\ handler' \in [Requests -> HandlerStates]
      /\ \A r \in Requests : handler'[r].pc = "enqueue" => handler'[r].id \in EventIDs
  <2> SUFFICES ASSUME NEW r \in Requests
               PROVE  /\ handler'[r] \in HandlerStates
                      /\ handler'[r].pc = "enqueue" => handler'[r].id \in EventIDs
    BY DEF Crash
  <2>1. handler'[r] = IF handler[r].at = i /\ handler[r].pc \in {"save", "enqueue"}
                      THEN HandlerState("done", handler[r].id, i, "lost")
                      ELSE handler[r]
    BY DEF Crash
  <2>2. HandlerState("done", handler[r].id, i, "lost") \in HandlerStates
    BY DEF TypeOK, HandlerStates, HandlerState
  <2> QED
    BY <2>1, <2>2 DEF TypeOK, HandlerState
<1>2. /\ worker' \in [Instances -> WorkerStates]
      /\ \A j \in Instances : worker'[j].pc # "idle" => worker'[j].ev \in EventIDs
  <2>1. IdleWorker \in WorkerStates /\ IdleWorker.pc = "idle"
    BY BoundAssumption DEF IdleWorker, WorkerState, WorkerStates
  <2> QED
    BY <2>1, WorkerType DEF Crash
<1>3. batch' \in [Instances -> SUBSET EventIDs] /\ faults' \in 0..MaxFaults
  BY BoundAssumption DEF Crash, Faulty, TypeOK
<1> QED
  BY <1>1, <1>2, <1>3 DEF Crash, TypeOK, db, history

\* Every step of the service keeps every variable in its type.
LEMMA TypeStep == TypeOK /\ [Next]_vars => TypeOK'
<1> SUFFICES ASSUME TypeOK, [Next]_vars PROVE TypeOK'
  OBVIOUS
<1>1. ASSUME NEW r \in Requests, Refuse(r) PROVE TypeOK'
  BY <1>1, AnswerType DEF Refuse, TypeOK, db, history
<1>2. ASSUME NEW r \in Requests, NEW i \in Instances, NEW id \in EventIDs \cup {None},
             Receive(r, i, id)
      PROVE  TypeOK'
  <2> DEFINE h == HandlerState("save", id, i, "none")
  <2>1. h \in HandlerStates /\ h.pc # "enqueue"
    BY DEF HandlerState, HandlerStates
  <2>2. handler' = [handler EXCEPT ![r] = h]
    BY <1>2 DEF Receive
  <2> HIDE DEF h
  <2>3. /\ handler' \in [Requests -> HandlerStates]
        /\ \A q \in Requests : handler'[q].pc = "enqueue" => handler'[q].id \in EventIDs
    BY <2>1, <2>2, HandlerType
  <2> QED
    BY <1>2, <2>3 DEF Receive, TypeOK, db, history
<1>3. CASE TimePasses
  BY <1>3 DEF TimePasses, TypeOK, db, history
<1>4. CASE UNCHANGED vars
  BY <1>4 DEF vars, TypeOK
<1> QED
  BY <1>1, <1>2, <1>3, <1>4, IngestType, RunType, RequeueType, CrashType DEF Next

\* The empty table and the idle handlers and workers have their types.
LEMMA TypeInit == Init => TypeOK
<1> SUFFICES ASSUME Init PROVE TypeOK
  OBVIOUS
<1>1. IdleHandler \in HandlerStates /\ IdleHandler.pc = "idle"
  BY DEF IdleHandler, HandlerState, HandlerStates
<1>2. IdleWorker \in WorkerStates /\ IdleWorker.pc = "idle"
  BY BoundAssumption DEF IdleWorker, WorkerState, WorkerStates
<1>3. queue \in Seq(EventIDs)
  BY EmptySeq DEF Init
<1> QED
  BY <1>1, <1>2, <1>3, BoundAssumption DEF Init, TypeOK, Statuses

\* Every variable of event_processor keeps to its type: the worker of
\* sendToNotificationService never counts beyond maxRetries, and a busy worker
\* and an enqueueing handler name an event.
THEOREM TypeCorrect == Spec => []TypeOK
BY TypeInit, TypeStep, PTL DEF Spec

(***************************************************************************)
(* Effects: what a step leaves in the handler or the worker it moves       *)
(***************************************************************************)
\* A handler that answers no longer holds an event to push; the others stay.
LEMMA AnswerEffect ==
    ASSUME TypeOK, NEW r \in Requests, NEW a, Answer(r, a)
    PROVE  /\ \A q \in Requests \ {r} : handler'[q] = handler[q]
           /\ handler'[r].pc = "done"
           /\ handler'[r].answer = a
           /\ handler'[r].id = handler[r].id
BY DEF Answer, HandlerState, TypeOK

\* A handler sent on to LPUSH holds the event it saved; the others stay.
LEMMA ToEnqueueEffect ==
    ASSUME TypeOK, NEW r \in Requests, NEW e, ToEnqueue(r, e)
    PROVE  /\ \A q \in Requests \ {r} : handler'[q] = handler[q]
           /\ handler'[r].pc = "enqueue"
           /\ handler'[r].answer = "none"
           /\ handler'[r].id = e
BY DEF ToEnqueue, HandlerState, TypeOK

\* A worker that is moved to w is there, and no other one moves.
LEMMA WorkerEffect ==
    ASSUME TypeOK, NEW i \in Instances, NEW w, worker' = [worker EXCEPT ![i] = w]
    PROVE  worker'[i] = w /\ \A j \in Instances \ {i} : worker'[j] = worker[j]
BY DEF TypeOK

\* processOne goes on with a pending row only.
LEMMA LoadEffect ==
    ASSUME TypeOK, NEW i \in Instances, Load(i)
    PROVE  \/ worker'[i].pc = "idle"
           \/ /\ worker'[i].pc = "send"
              /\ worker'[i].ev = worker[i].ev
              /\ worker'[i].attempt = 0
              /\ status[worker[i].ev] = "pending"
<1> DEFINE w == IF status[worker[i].ev] = "pending"
                THEN Sending(worker[i].ev, 0) ELSE IdleWorker
<1>1. worker' = [worker EXCEPT ![i] = w]
  BY DEF Load, Forwards
<1>2. worker'[i] = w
  <2> HIDE DEF w
  <2> QED
    BY <1>1, WorkerEffect
<1> QED
  BY <1>2 DEF Sending, IdleWorker, WorkerState

\* One attempt ends in a decision, with its evidence, or in the next attempt.
LEMMA PostEffect ==
    ASSUME TypeOK, NEW i \in Instances, Post(i)
    PROVE  LET e == worker[i].ev IN
           /\ worker'[i].ev = e
           /\ \/ /\ worker'[i].pc = "mark" /\ worker'[i].to = "processed"
                 /\ accepts' = [accepts EXCEPT ![e] = @ + 1]
                 /\ UNCHANGED <<rejected, transients>>
              \/ /\ worker'[i].pc = "mark" /\ worker'[i].to = "failed"
                 /\ rejected' = rejected \cup {e}
                 /\ UNCHANGED <<accepts, transients>>
              \/ /\ transients' = [transients EXCEPT ![e] = @ + 1]
                 /\ \/ /\ worker'[i].pc = "send"
                       /\ worker'[i].attempt = worker[i].attempt + 1
                    \/ /\ worker'[i].pc = "mark" /\ worker'[i].to = "failed"
                       /\ worker[i].attempt >= MaxRetries
                 /\ UNCHANGED <<accepts, rejected>>
<1>1. CASE worker' = [worker EXCEPT ![i] = Decided(worker[i], "processed")]
           /\ accepts' = [accepts EXCEPT ![worker[i].ev] = @ + 1]
           /\ UNCHANGED <<rejected, transients>>
  <2>1. worker'[i] = Decided(worker[i], "processed")
    BY <1>1, WorkerEffect
  <2> QED
    BY <1>1, <2>1 DEF Decided, WorkerState
<1>2. CASE worker' = [worker EXCEPT ![i] = AfterRejection(worker[i])]
           /\ rejected' = rejected \cup {worker[i].ev}
           /\ UNCHANGED <<accepts, transients>>
  <2>1. worker'[i] = Decided(worker[i], "failed")
    BY <1>2, WorkerEffect DEF AfterRejection
  <2> QED
    BY <1>2, <2>1 DEF Decided, WorkerState
<1>3. CASE worker' = [worker EXCEPT ![i] = AfterTransient(worker[i])]
           /\ transients' = [transients EXCEPT ![worker[i].ev] = @ + 1]
           /\ UNCHANGED <<accepts, rejected>>
  <2>1. worker'[i] = AfterTransient(worker[i])
    BY <1>3, WorkerEffect
  <2>2. worker[i].attempt \in 0..MaxRetries
    BY DEF TypeOK, WorkerStates
  <2>3. CASE worker[i].attempt < MaxRetries
    <3>1. worker'[i] = Sending(worker[i].ev, worker[i].attempt + 1)
      BY <2>1, <2>3 DEF AfterTransient
    <3> QED
      BY <1>3, <3>1 DEF Sending, WorkerState
  <2>4. CASE ~(worker[i].attempt < MaxRetries)
    <3>1. worker'[i] = Decided(worker[i], "failed")
      BY <2>1, <2>4 DEF AfterTransient
    <3>2. worker[i].attempt >= MaxRetries
      BY <2>2, <2>4, BoundAssumption
    <3> QED
      BY <1>3, <3>1, <3>2 DEF Decided, WorkerState
  <2> QED
    BY <2>3, <2>4
<1> QED
  BY <1>1, <1>2, <1>3 DEF Post, PostAccepted, PostRejected, PostTransient, Attempted

\* No step of a worker but its own changes it.
LEMMA RunEffect ==
    ASSUME TypeOK, NEW i \in Instances, Run(i)
    PROVE  \A j \in Instances \ {i} : worker'[j] = worker[j]
BY DEF Run, Process, Dequeue, DequeueLost, Load, Forwards, LoadError, Post,
     PostAccepted, PostRejected, PostTransient, Attempted, UpdateStatus,
     UpdateStatusError, TypeOK

(***************************************************************************)
(* What is queued has a row                                                *)
(***************************************************************************)
PersistInv ==
    /\ QueuedIsPersisted
    /\ \A r \in Requests : handler[r].pc = "enqueue" => handler[r].id \in Persisted

\* No step deletes a row.
LEMMA PersistedGrows == TypeOK /\ [Next]_vars => Persisted \subseteq Persisted'
<1> SUFFICES ASSUME TypeOK, [Next]_vars, NEW e \in EventIDs, status[e] # "absent"
             PROVE  status'[e] # "absent"
  BY DEF Persisted
<1>1. CASE UNCHANGED status
  BY <1>1
<1>2. ASSUME NEW r \in Requests, NEW f \in EventIDs, Insert(r, f)
      PROVE  status'[e] # "absent"
  BY <1>2 DEF Insert, TypeOK
<1>3. ASSUME NEW i \in Instances, SetStatus(i)
      PROVE  status'[e] # "absent"
  BY <1>3 DEF SetStatus, TypeOK, WorkerStates, Terminal
<1>4. \/ UNCHANGED status
      \/ \E r \in Requests, f \in EventIDs : Insert(r, f)
      \/ \E i \in Instances : SetStatus(i)
  <2>1. ASSUME NEW r \in Requests, IngestEvent(r)
        PROVE  UNCHANGED status \/ \E f \in EventIDs : Insert(r, f)
    BY <2>1, IdForType
       DEF IngestEvent, Save, SaveDuplicate, SaveError, SaveResent,
      Enqueue, EnqueueFailed, db
  <2>2. ASSUME NEW i \in Instances, Run(i)
        PROVE  UNCHANGED status \/ SetStatus(i)
    BY <2>2 DEF Run, Process, Dequeue, DequeueLost, Load, Forwards, LoadError,
         Post, PostAccepted, PostRejected, PostTransient, Attempted,
         UpdateStatus, UpdateStatusError, db
  <2>3. ASSUME NEW i \in Instances, RequeueStalePending(i) \/ Crash(i)
        PROVE  UNCHANGED status
    BY <2>3 DEF RequeueStalePending, ListStale, Requeue, Crash, db
  <2>4. ASSUME NEW r \in Requests, NEW i \in Instances, NEW id \in EventIDs \cup {None},
               Refuse(r) \/ Receive(r, i, id)
        PROVE  UNCHANGED status
    BY <2>4 DEF Refuse, Receive, db
  <2>5. ASSUME NEW r \in Requests, Refuse(r)
        PROVE  UNCHANGED status
    BY <2>5 DEF Refuse, db
  <2>6. CASE TimePasses \/ UNCHANGED vars
    BY <2>6 DEF TimePasses, vars, db
  <2> QED
    BY <2>1, <2>2, <2>3, <2>4, <2>5, <2>6 DEF Next
<1> QED
  BY <1>1, <1>2, <1>3, <1>4

\* One step keeps the ids in the list, the workers and the batches among the
\* rows: the worker and the reconciler take them from there, and the handler
\* reaches LPUSH only after its INSERT.
LEMMA PersistStep == TypeOK /\ PersistInv /\ [Next]_vars => PersistInv'
<1> SUFFICES ASSUME TypeOK, PersistInv, [Next]_vars PROVE PersistInv'
  OBVIOUS
<1> DEFINE P == Persisted
<1>1. P \subseteq P'
  BY PersistedGrows
<1>2. /\ queue \in Seq(P)
      /\ \A i \in Instances : worker[i].pc # "idle" => worker[i].ev \in P
      /\ \A i \in Instances : batch[i] \subseteq P
      /\ \A r \in Requests : handler[r].pc = "enqueue" => handler[r].id \in P
  BY DEF PersistInv, QueuedIsPersisted
<1>3. SUFFICES /\ queue' \in Seq(P)
               /\ \A i \in Instances : worker'[i].pc # "idle" => worker'[i].ev \in P
               /\ \A i \in Instances : batch'[i] \subseteq P
               /\ \A r \in Requests : handler'[r].pc = "enqueue" => handler'[r].id \in P'
  <2> HIDE DEF P
  <2>1. queue' \in Seq(P')
    BY <1>1, <1>3, SeqMonotonic
  <2> QED
    BY <1>1, <1>3, <2>1 DEF P, PersistInv, QueuedIsPersisted
<1> HIDE DEF P
<1>4. ASSUME NEW r \in Requests, IngestEvent(r)
      PROVE  /\ queue' \in Seq(P) /\ UNCHANGED <<worker, batch>>
             /\ \A q \in Requests : handler'[q].pc = "enqueue" => handler'[q].id \in P'
  <2>1. CASE Save(r)
    <3>1. PICK e \in EventIDs : Insert(r, e) /\ ToEnqueue(r, e)
      BY <2>1, SaveInserts
    <3>2. e \in P'
      BY <3>1 DEF Insert, P, Persisted, TypeOK
    <3> QED
      BY <1>1, <1>2, <2>1, <3>1, <3>2
         DEF Save, ToEnqueue, HandlerState, TypeOK
  <2>2. CASE SaveDuplicate(r) \/ SaveError(r)
    BY <1>1, <1>2, <2>2, AnswerEffect DEF SaveDuplicate, SaveError
  <2>3. CASE Enqueue(r) \/ EnqueueFailed(r)
    <3>1. handler[r].id \in P
      BY <1>2, <2>3 DEF Enqueue, EnqueueFailed
    <3>2. queue' \in Seq(P)
      BY <1>2, <2>3, <3>1, PushedSeq, NotPushedSeq DEF Enqueue, EnqueueFailed,
           TypeOK
    <3> QED
      BY <1>1, <1>2, <2>3, <3>2, AnswerEffect DEF Enqueue, EnqueueFailed
  <2>4. CASE SaveResent(r)
    BY <1>1, <1>2, <2>4 DEF SaveResent
  <2> QED
    BY <1>4, <2>1, <2>2, <2>3, <2>4 DEF IngestEvent
<1>5. ASSUME NEW i \in Instances, Run(i)
      PROVE  /\ queue' \in Seq(P) /\ UNCHANGED <<handler, batch>>
             /\ \A j \in Instances : worker'[j].pc # "idle" => worker'[j].ev \in P
  <2>1. CASE Dequeue(i)
    <3>1. Head(queue) \in P /\ Tail(queue) \in Seq(P)
      BY <1>2, <2>1, HeadTailProperties DEF Dequeue
    <3> QED
      BY <1>2, <2>1, <3>1 DEF Dequeue, WorkerState, TypeOK
  <2>2. CASE DequeueLost(i)
    BY <1>2, <2>2, HeadTailProperties DEF DequeueLost
  <2>3. CASE LoadError(i) \/ UpdateStatus(i) \/ UpdateStatusError(i)
    <3>1. worker'[i].pc = "idle"
      BY <2>3, WorkerEffect
         DEF LoadError, UpdateStatus, UpdateStatusError, IdleWorker, WorkerState
    <3> QED
      BY <1>2, <1>5, <2>3, <3>1, RunEffect DEF LoadError, UpdateStatus,
           UpdateStatusError
  <2>4. CASE Load(i)
    <3>1. worker'[i].pc # "idle" => worker'[i].ev \in P
      BY <1>2, <2>4, LoadEffect DEF Load, Forwards
    <3> QED
      BY <1>2, <1>5, <2>4, <3>1, RunEffect DEF Load, Forwards
  <2>5. CASE Post(i)
    <3>1. worker'[i].ev \in P
      BY <1>2, <2>5, PostEffect DEF Post, PostAccepted, PostRejected,
           PostTransient, Attempted
    <3> QED
      BY <1>2, <1>5, <2>5, <3>1, RunEffect DEF Post, PostAccepted, PostRejected,
           PostTransient, Attempted
  <2> QED
    BY <1>5, <2>1, <2>2, <2>3, <2>4, <2>5 DEF Run, Process
<1>6. ASSUME NEW i \in Instances, RequeueStalePending(i)
      PROVE  /\ queue' \in Seq(P) /\ UNCHANGED <<handler, worker>>
             /\ \A j \in Instances : batch'[j] \subseteq P
  <2>1. CASE ListStale(i)
    BY <1>2, <2>1 DEF ListStale, PendingOlderThan, Stale, P, Persisted, TypeOK
  <2>2. CASE Requeue(i)
    <3>1. PICK e \in batch[i] : /\ Pushed(e) \/ NotPushed(e)
                                /\ batch' = [batch EXCEPT ![i] = @ \ {e}]
      BY <2>2 DEF Requeue
    <3>2. queue' \in Seq(P)
      BY <1>2, <3>1, PushedSeq, NotPushedSeq DEF TypeOK
    <3> QED
      BY <1>2, <2>2, <3>1, <3>2 DEF Requeue, TypeOK
  <2> QED
    BY <1>6, <2>1, <2>2 DEF RequeueStalePending
<1>7. ASSUME NEW i \in Instances, Crash(i)
      PROVE  /\ UNCHANGED queue
             /\ \A r \in Requests : handler'[r].pc = "enqueue" => handler'[r] = handler[r]
             /\ \A j \in Instances : worker'[j].pc # "idle" => worker'[j] = worker[j]
             /\ \A j \in Instances : batch'[j] \subseteq batch[j]
  BY <1>7 DEF Crash, HandlerState, IdleWorker, WorkerState, TypeOK
<1>8. ASSUME NEW r \in Requests,
             Refuse(r) \/ \E i \in Instances, id \in EventIDs \cup {None} : Receive(r, i, id)
      PROVE  /\ UNCHANGED <<queue, worker, batch>>
             /\ \A q \in Requests : handler'[q].pc = "enqueue" => handler'[q] = handler[q]
  BY <1>8 DEF Refuse, Receive, Answer, HandlerState, TypeOK
<1>9. CASE TimePasses \/ UNCHANGED vars
  BY <1>1, <1>2, <1>9 DEF TimePasses, vars
<1>10. ASSUME NEW i \in Instances, Run(i) \/ RequeueStalePending(i) \/ Crash(i)
       PROVE  /\ queue' \in Seq(P)
              /\ \A j \in Instances : worker'[j].pc # "idle" => worker'[j].ev \in P
              /\ \A j \in Instances : batch'[j] \subseteq P
              /\ \A r \in Requests : handler'[r].pc = "enqueue" => handler'[r].id \in P'
  <2>1. CASE Run(i)
    BY <1>1, <1>2, <1>5, <2>1
  <2>2. CASE RequeueStalePending(i)
    BY <1>1, <1>2, <1>6, <2>2
  <2>3. CASE Crash(i)
    BY <1>1, <1>2, <1>7, <2>3
  <2> QED
    BY <1>10, <2>1, <2>2, <2>3
<1>11. ASSUME NEW r \in Requests,
              \/ Refuse(r)
              \/ \E i \in Instances, id \in EventIDs \cup {None} : Receive(r, i, id)
              \/ IngestEvent(r)
       PROVE  /\ queue' \in Seq(P)
              /\ \A j \in Instances : worker'[j].pc # "idle" => worker'[j].ev \in P
              /\ \A j \in Instances : batch'[j] \subseteq P
              /\ \A q \in Requests : handler'[q].pc = "enqueue" => handler'[q].id \in P'
  <2>1. CASE IngestEvent(r)
    BY <1>1, <1>2, <1>4, <2>1
  <2>2. CASE ~IngestEvent(r)
    BY <1>1, <1>2, <1>8, <1>11, <2>2
  <2> QED
    BY <2>1, <2>2
<1> QED
  BY <1>9, <1>10, <1>11 DEF Next

\* Nothing is queued or in progress before the first request.
LEMMA PersistInit == Init => PersistInv
BY EmptySeq
   DEF Init, PersistInv, QueuedIsPersisted, IdleHandler, HandlerState, IdleWorker, WorkerState

\* Whatever is queued, being processed or about to be queued again has a row:
\* the processor never meets an id that is not in table events.
THEOREM QueuedIsAlwaysPersisted == Spec => []QueuedIsPersisted
<1>1. Init => TypeOK /\ PersistInv
  BY TypeInit, PersistInit
<1>2. TypeOK /\ PersistInv /\ [Next]_vars => (TypeOK /\ PersistInv)'
  BY TypeStep, PersistStep
<1>3. PersistInv => QueuedIsPersisted
  BY DEF PersistInv
<1> QED
  BY <1>1, <1>2, <1>3, PTL DEF Spec

(***************************************************************************)
(* A terminal status is earned                                             *)
(***************************************************************************)
\* The evidence a worker holds: the transient answers it counts were given, and
\* the status it is about to write is terminal and earned.
Evidence(i) ==
    /\ worker[i].pc = "send" => transients[worker[i].ev] >= worker[i].attempt
    /\ worker[i].pc = "mark" =>
          \/ worker[i].to = "processed" /\ accepts[worker[i].ev] > 0
          \/ worker[i].to = "failed" /\ GivenUp(worker[i].ev)

EarnedInv == OutcomeIsEarned /\ \A i \in Instances : Evidence(i)

\* Evidence is never taken back.
EvidenceGrows ==
    \A e \in EventIDs :
       /\ accepts'[e] >= accepts[e]
       /\ transients'[e] >= transients[e]
       /\ e \in rejected => e \in rejected'

\* One attempt of sendToNotificationService: whatever it decides to write, it has
\* the answer for; and no answer that was there is forgotten.
LEMMA PostEvidence ==
    ASSUME TypeOK, NEW i \in Instances, Post(i), Evidence(i)
    PROVE  EvidenceGrows /\ Evidence(i)'
<1> DEFINE e == worker[i].ev
<1>1. /\ worker[i].pc = "send" /\ e \in EventIDs
      /\ worker[i].attempt \in 0..MaxRetries
      /\ transients[e] >= worker[i].attempt
  BY DEF Post, PostAccepted, PostRejected, PostTransient, Attempted, TypeOK,
       Evidence, WorkerStates
<1>2. accepts \in [EventIDs -> Nat] /\ transients \in [EventIDs -> Nat]
  BY DEF TypeOK
<1>3. worker'[i].ev = e
  BY PostEffect
<1> HIDE DEF e
<1>4. CASE /\ worker'[i].pc = "mark" /\ worker'[i].to = "processed"
           /\ accepts' = [accepts EXCEPT ![e] = @ + 1]
           /\ UNCHANGED <<rejected, transients>>
  BY <1>1, <1>2, <1>3, <1>4 DEF EvidenceGrows, Evidence
<1>5. CASE /\ worker'[i].pc = "mark" /\ worker'[i].to = "failed"
           /\ rejected' = rejected \cup {e}
           /\ UNCHANGED <<accepts, transients>>
  BY <1>2, <1>3, <1>5 DEF EvidenceGrows, Evidence, GivenUp
<1>6. CASE /\ transients' = [transients EXCEPT ![e] = @ + 1]
           /\ \/ /\ worker'[i].pc = "send"
                 /\ worker'[i].attempt = worker[i].attempt + 1
              \/ /\ worker'[i].pc = "mark" /\ worker'[i].to = "failed"
                 /\ worker[i].attempt >= MaxRetries
           /\ UNCHANGED <<accepts, rejected>>
  <2>1. transients'[e] = transients[e] + 1
    BY <1>1, <1>2, <1>6
  <2>2. EvidenceGrows
    BY <1>1, <1>2, <1>6 DEF EvidenceGrows
  <2>3. Evidence(i)'
    BY <1>1, <1>2, <1>3, <1>6, <2>1, BoundAssumption DEF Evidence, GivenUp
  <2> QED
    BY <2>2, <2>3
<1> QED
  BY <1>4, <1>5, <1>6, PostEffect DEF e

\* Evidence stays good when it grows and the worker does not move.
LEMMA EvidenceKept ==
    ASSUME TypeOK, TypeOK', EvidenceGrows, NEW i \in Instances, Evidence(i),
           worker'[i] = worker[i]
    PROVE  Evidence(i)'
<1>1. CASE worker[i].pc \in {"send", "mark"}
  <2>1. worker[i].ev \in EventIDs /\ worker[i].attempt \in 0..MaxRetries
    BY <1>1 DEF TypeOK, WorkerStates
  <2>2. /\ accepts[worker[i].ev] \in Nat /\ accepts'[worker[i].ev] \in Nat
        /\ transients[worker[i].ev] \in Nat /\ transients'[worker[i].ev] \in Nat
    BY <2>1 DEF TypeOK
  <2> QED
    BY <2>1, <2>2, BoundAssumption DEF Evidence, EvidenceGrows, GivenUp
<1>2. CASE worker[i].pc \notin {"send", "mark"}
  BY <1>2 DEF Evidence
<1> QED
  BY <1>1, <1>2

\* So does a terminal status that does not change.
LEMMA EarnedKept ==
    ASSUME TypeOK, TypeOK', EvidenceGrows, OutcomeIsEarned, NEW e \in EventIDs,
           status'[e] \in Terminal => status'[e] = status[e]
    PROVE  /\ status'[e] = "processed" => accepts'[e] > 0
           /\ status'[e] = "failed" => GivenUp(e)'
<1>1. /\ accepts[e] \in Nat /\ accepts'[e] \in Nat
      /\ transients[e] \in Nat /\ transients'[e] \in Nat
  BY DEF TypeOK
<1> QED
  BY <1>1, BoundAssumption DEF OutcomeIsEarned, EvidenceGrows, GivenUp, Terminal

\* One step keeps every terminal status earned: a status is written from the
\* decision of a worker, and a decision is taken on an answer.
LEMMA EarnedStep == TypeOK /\ TypeOK' /\ EarnedInv /\ [Next]_vars => EarnedInv'
<1> SUFFICES ASSUME TypeOK, TypeOK', EarnedInv, [Next]_vars PROVE EarnedInv'
  OBVIOUS
<1>1. OutcomeIsEarned /\ \A i \in Instances : Evidence(i)
  BY DEF EarnedInv
<1>2. ASSUME UNCHANGED history PROVE EvidenceGrows
  <2>1. \A e \in EventIDs : accepts[e] \in Nat /\ transients[e] \in Nat
    BY DEF TypeOK
  <2> QED
    BY <1>2, <2>1 DEF history, EvidenceGrows
<1>3. ASSUME EvidenceGrows,
             \A e \in EventIDs : status'[e] \in Terminal => status'[e] = status[e],
             \A i \in Instances : worker'[i] = worker[i] \/ Evidence(i)'
      PROVE  EarnedInv'
  <2>1. OutcomeIsEarned'
    BY <1>1, <1>3, EarnedKept DEF OutcomeIsEarned
  <2>2. \A i \in Instances : Evidence(i)'
    BY <1>1, <1>3, EvidenceKept
  <2> QED
    BY <2>1, <2>2 DEF EarnedInv
<1>4. ASSUME NEW r \in Requests, IngestEvent(r) PROVE EarnedInv'
  <2>1. UNCHANGED <<worker, history>>
    BY <1>4 DEF IngestEvent, Save, SaveDuplicate, SaveError, SaveResent,
      Enqueue, EnqueueFailed
  <2>2. \A e \in EventIDs : status'[e] \in Terminal => status'[e] = status[e]
    <3>1. UNCHANGED status \/ \E f \in EventIDs : Insert(r, f)
      BY <1>4, IdForType
         DEF IngestEvent, Save, SaveDuplicate, SaveError, SaveResent,
      Enqueue, EnqueueFailed, db
    <3> QED
      BY <3>1 DEF Insert, Terminal, TypeOK
  <2> QED
    BY <1>2, <1>3, <2>1, <2>2
<1>5. ASSUME NEW i \in Instances, Run(i) PROVE EarnedInv'
  <2>1. CASE Post(i)
    <3>1. EvidenceGrows /\ Evidence(i)'
      BY <1>1, <2>1, PostEvidence
    <3>2. UNCHANGED status
      BY <2>1 DEF Post, PostAccepted, PostRejected, PostTransient, Attempted, db
    <3> QED
      BY <1>3, <1>5, <3>1, <3>2, RunEffect
  <2>2. CASE Load(i)
    <3>1. UNCHANGED <<status, history>>
      BY <2>2 DEF Load, Forwards, db
    <3>2. EvidenceGrows
      BY <1>2, <3>1
    <3>3. Evidence(i)'
      <4>1. worker[i].ev \in EventIDs
        BY <2>2 DEF Load, Forwards, TypeOK
      <4>2. transients'[worker[i].ev] \in Nat
        BY <4>1 DEF TypeOK
      <4> QED
        BY <2>2, <4>2, LoadEffect DEF Evidence
    <3> QED
      BY <1>3, <1>5, <3>1, <3>2, <3>3, RunEffect
  <2>3. CASE Dequeue(i) \/ DequeueLost(i) \/ LoadError(i)
    <3>1. UNCHANGED <<status, history>>
      BY <2>3 DEF Dequeue, DequeueLost, LoadError, db
    <3>2. EvidenceGrows
      BY <1>2, <3>1
    <3>3. worker'[i] = worker[i] \/ worker'[i].pc \in {"idle", "load"}
      BY <2>3 DEF Dequeue, DequeueLost, LoadError, IdleWorker, WorkerState, TypeOK
    <3>4. worker'[i] = worker[i] \/ Evidence(i)'
      BY <3>3 DEF Evidence
    <3> QED
      BY <1>3, <1>5, <3>1, <3>2, <3>4, RunEffect
  <2>4. CASE UpdateStatus(i) \/ UpdateStatusError(i)
    <3>1. UNCHANGED history
      BY <2>4 DEF UpdateStatus, UpdateStatusError
    <3>2. EvidenceGrows
      BY <1>2, <3>1
    <3>3. Evidence(i)'
      BY <2>4, WorkerEffect
         DEF UpdateStatus, UpdateStatusError, IdleWorker, WorkerState, Evidence
    <3>4. CASE UNCHANGED status
      BY <1>3, <1>5, <3>2, <3>3, <3>4, RunEffect
    <3>5. CASE SetStatus(i)
      <4>1. \A j \in Instances : Evidence(j)'
        BY <1>1, <1>5, <3>2, <3>3, RunEffect, EvidenceKept
      <4>2. ASSUME NEW e \in EventIDs
            PROVE  /\ status'[e] = "processed" => accepts'[e] > 0
                   /\ status'[e] = "failed" => GivenUp(e)'
        <5>1. CASE e # worker[i].ev
          <6>1. status'[e] = status[e]
            BY <3>5, <5>1 DEF SetStatus, TypeOK
          <6> QED
            BY <1>1, <3>2, <6>1, EarnedKept
        <5>2. CASE e = worker[i].ev
          <6>1. status'[e] = worker[i].to
            BY <3>5, <5>2 DEF SetStatus, TypeOK
          <6>2. worker[i].pc = "mark"
            BY <2>4 DEF UpdateStatus, UpdateStatusError
          <6> QED
            BY <1>1, <3>1, <5>2, <6>1, <6>2 DEF Evidence, GivenUp, history
        <5> QED
          BY <5>1, <5>2
      <4> QED
        BY <4>1, <4>2 DEF EarnedInv, OutcomeIsEarned
    <3> QED
      BY <2>4, <3>4, <3>5 DEF UpdateStatus, UpdateStatusError
  <2> QED
    BY <1>5, <2>1, <2>2, <2>3, <2>4 DEF Run, Process
<1>6. ASSUME NEW i \in Instances, Crash(i) PROVE EarnedInv'
  <2>1. UNCHANGED <<status, history>>
    BY <1>6 DEF Crash, db
  <2>2. EvidenceGrows
    BY <1>2, <2>1
  <2>3. worker'[i].pc = "idle" /\ \A j \in Instances \ {i} : worker'[j] = worker[j]
    BY <1>6 DEF Crash, IdleWorker, WorkerState, TypeOK
  <2>4. Evidence(i)'
    BY <2>3 DEF Evidence
  <2> QED
    BY <1>3, <2>1, <2>2, <2>3, <2>4
<1>7. ASSUME UNCHANGED <<status, worker, history>> PROVE EarnedInv'
  BY <1>2, <1>3, <1>7
<1>8. ASSUME NEW i \in Instances, RequeueStalePending(i) PROVE EarnedInv'
  BY <1>7, <1>8 DEF RequeueStalePending, ListStale, Requeue, db
<1>9. ASSUME NEW r \in Requests,
             Refuse(r) \/ \E i \in Instances, id \in EventIDs \cup {None} : Receive(r, i, id)
      PROVE  EarnedInv'
  BY <1>7, <1>9 DEF Refuse, Receive, db
<1>10. CASE TimePasses \/ UNCHANGED vars
  BY <1>7, <1>10 DEF TimePasses, vars, db, history
<1> QED
  BY <1>4, <1>5, <1>6, <1>8, <1>9, <1>10 DEF Next

\* No row has a terminal status, and no worker a decision, at the start.
LEMMA EarnedInit == Init => EarnedInv
BY DEF Init, EarnedInv, OutcomeIsEarned, Evidence, IdleWorker, WorkerState

\* Every terminal status is earned, for any number of instances and faults: no
\* interleaving of crashes, redeliveries and failed updates marks a row
\* processed without a 2xx answer, or failed before the retries are used up.
THEOREM OutcomeIsAlwaysEarned == Spec => []OutcomeIsEarned
<1>1. Init => TypeOK /\ EarnedInv
  BY TypeInit, EarnedInit
<1>2. TypeOK /\ EarnedInv /\ [Next]_vars => (TypeOK /\ EarnedInv)'
  BY TypeStep, EarnedStep
<1>3. EarnedInv => OutcomeIsEarned
  BY DEF EarnedInv
<1> QED
  BY <1>1, <1>2, <1>3, PTL DEF Spec

(***************************************************************************)
(* Whose row it is                                                         *)
(***************************************************************************)
\* What a step of a POST /events request leaves in its handler.
LEMMA IngestEffect ==
    ASSUME TypeOK, NEW r \in Requests, IngestEvent(r)
    PROVE  /\ \A q \in Requests \ {r} : handler'[q] = handler[q]
           /\ \/ /\ handler[r].pc = "save" /\ handler'[r].pc = "enqueue"
                 /\ handler'[r].id \in EventIDs /\ handler'[r].answer = "none"
                 /\ Insert(r, handler'[r].id)
              \/ /\ handler[r].pc = "save" /\ handler'[r].pc = "done"
                 /\ handler'[r].answer = "500" /\ faults' = faults + 1
                 /\ UNCHANGED db \/ \E e \in EventIDs : Insert(r, e)
              \/ /\ handler[r].pc = "save" /\ handler'[r].pc = "done"
                 /\ handler'[r].id = handler[r].id /\ handler'[r].answer = "409"
                 /\ handler'[r].id \in Persisted /\ UNCHANGED db
              \/ /\ handler[r].pc = "enqueue" /\ handler'[r].pc = "done"
                 /\ handler'[r].id = handler[r].id /\ handler'[r].answer \in {"202", "503"}
                 /\ UNCHANGED db
              \/ /\ handler[r].pc = "save" /\ handler'[r] = handler[r]
                 /\ faults' = faults + 1 /\ \E e \in EventIDs : Insert(r, e)
<1>1. CASE Save(r)
  <2>1. PICK e \in EventIDs : Insert(r, e) /\ ToEnqueue(r, e)
    BY <1>1, SaveInserts
  <2> QED
    BY <1>1, <2>1, ToEnqueueEffect DEF Save
<1>2. CASE SaveDuplicate(r)
  BY <1>2, AnswerEffect DEF SaveDuplicate
<1>3. CASE SaveError(r)
  BY <1>3, AnswerEffect, IdForType DEF SaveError, Faulty
<1>4. CASE Enqueue(r)
  BY <1>4, AnswerEffect DEF Enqueue
<1>5. CASE EnqueueFailed(r)
  BY <1>5, AnswerEffect DEF EnqueueFailed
<1>6. CASE SaveResent(r)
  BY <1>6, IdForType DEF SaveResent, Faulty
<1> QED
  BY <1>1, <1>2, <1>3, <1>4, <1>5, <1>6 DEF IngestEvent

\* What any step leaves in a handler that it moves: an answer to a request that
\* is not valid, the start of a valid one, a step of it, or the end by a crash.
LEMMA HandlerStep ==
    ASSUME TypeOK, [Next]_vars, NEW q \in Requests
    PROVE  \/ handler'[q] = handler[q]
           \/ IngestEvent(q)
           \/ /\ handler[q].pc = "idle" /\ UNCHANGED db
              /\ \/ handler'[q].pc = "done" /\ handler'[q].answer = "400"
                 \/ handler'[q].pc = "save" /\ handler'[q].answer = "none"
           \/ /\ handler[q].pc \in {"save", "enqueue"} /\ UNCHANGED db
              /\ handler'[q].pc = "done" /\ handler'[q].answer = "lost"
              /\ faults' = faults + 1
<1>1. ASSUME NEW r \in Requests, IngestEvent(r), r # q
      PROVE  handler'[q] = handler[q]
  BY <1>1, IngestEffect
<1>2. ASSUME NEW r \in Requests, Refuse(r)
      PROVE  \/ handler'[q] = handler[q]
             \/ /\ handler[q].pc = "idle" /\ UNCHANGED db
                /\ handler'[q].pc = "done" /\ handler'[q].answer = "400"
  BY <1>2, AnswerEffect DEF Refuse
<1>3. ASSUME NEW r \in Requests, NEW i \in Instances, NEW id \in EventIDs \cup {None},
             Receive(r, i, id)
      PROVE  \/ handler'[q] = handler[q]
             \/ /\ handler[q].pc = "idle" /\ UNCHANGED db
                /\ handler'[q].pc = "save" /\ handler'[q].answer = "none"
  BY <1>3 DEF Receive, HandlerState, TypeOK
<1>4. ASSUME NEW i \in Instances, Crash(i)
      PROVE  \/ handler'[q] = handler[q]
             \/ /\ handler[q].pc \in {"save", "enqueue"} /\ UNCHANGED db
                /\ handler'[q].pc = "done" /\ handler'[q].answer = "lost"
                /\ faults' = faults + 1
  BY <1>4 DEF Crash, HandlerState, Faulty
<1>5. ASSUME NEW i \in Instances, Run(i) \/ RequeueStalePending(i)
      PROVE  UNCHANGED handler
  BY <1>5 DEF Run, Process, Dequeue, DequeueLost, Load, LoadError, Post,
       PostAccepted, PostRejected, PostTransient, Attempted, UpdateStatus,
       UpdateStatusError, RequeueStalePending, ListStale, Requeue
<1>6. CASE TimePasses \/ UNCHANGED vars
  BY <1>6 DEF TimePasses, vars
<1> QED
  BY <1>1, <1>2, <1>3, <1>4, <1>5, <1>6 DEF Next

\* Only an INSERT gives a row to a request; it is never taken away. An UPDATE
\* neither makes a row, for the worker's event has one, nor deletes one.
LEMMA RowStep ==
    ASSUME TypeOK, PersistInv, [Next]_vars, NEW e \in EventIDs
    PROVE  \/ creator'[e] = creator[e] /\ (status'[e] = "absent" <=> status[e] = "absent")
           \/ \E r \in Requests : IngestEvent(r) /\ Insert(r, e)
<1>1. ASSUME UNCHANGED db
      PROVE  creator'[e] = creator[e] /\ status'[e] = status[e]
  BY <1>1 DEF db
<1>2. ASSUME NEW r \in Requests, NEW f \in EventIDs, Insert(r, f), f # e
      PROVE  creator'[e] = creator[e] /\ status'[e] = status[e]
  BY <1>2 DEF Insert, TypeOK
<1>3. ASSUME NEW r \in Requests, IngestEvent(r)
      PROVE  UNCHANGED db \/ \E f \in EventIDs : Insert(r, f)
  BY <1>3, IngestEffect
<1>4. ASSUME NEW i \in Instances, UpdateStatus(i) \/ UpdateStatusError(i)
      PROVE  creator'[e] = creator[e] /\ (status'[e] = "absent" <=> status[e] = "absent")
  <2>1. UNCHANGED creator /\ worker[i].pc = "mark" /\ (SetStatus(i) \/ UNCHANGED status)
    BY <1>4 DEF UpdateStatus, UpdateStatusError
  <2>2. worker[i].to # "absent"
    BY DEF TypeOK, WorkerStates, Terminal
  <2>3. worker[i].ev \in EventIDs /\ status[worker[i].ev] # "absent"
    BY <2>1 DEF PersistInv, QueuedIsPersisted, Persisted
  <2> QED
    BY <2>1, <2>2, <2>3 DEF SetStatus, TypeOK
<1>5. ASSUME NEW i \in Instances, Run(i), ~(UpdateStatus(i) \/ UpdateStatusError(i))
      PROVE  UNCHANGED db
  BY <1>5 DEF Run, Process, Dequeue, DequeueLost, Load, LoadError, Post,
       PostAccepted, PostRejected, PostTransient, Attempted
<1>6. ASSUME NEW i \in Instances, RequeueStalePending(i) \/ Crash(i)
      PROVE  UNCHANGED db
  BY <1>6 DEF RequeueStalePending, ListStale, Requeue, Crash
<1>7. ASSUME NEW r \in Requests,
             Refuse(r) \/ \E i \in Instances, id \in EventIDs \cup {None} : Receive(r, i, id)
      PROVE  UNCHANGED db
  BY <1>7 DEF Refuse, Receive
<1>8. CASE TimePasses \/ UNCHANGED vars
  BY <1>1, <1>8 DEF TimePasses, vars, db
<1>9. ASSUME NEW r \in Requests,
             \/ Refuse(r)
             \/ \E i \in Instances, id \in EventIDs \cup {None} : Receive(r, i, id)
             \/ IngestEvent(r)
      PROVE  \/ creator'[e] = creator[e] /\ (status'[e] = "absent" <=> status[e] = "absent")
             \/ IngestEvent(r) /\ Insert(r, e)
  <2>1. CASE IngestEvent(r)
    BY <1>1, <1>2, <1>3, <2>1
  <2> QED
    BY <1>1, <1>7, <1>9, <2>1
<1>10. ASSUME NEW i \in Instances, Run(i) \/ RequeueStalePending(i) \/ Crash(i)
       PROVE  creator'[e] = creator[e] /\ (status'[e] = "absent" <=> status[e] = "absent")
  BY <1>1, <1>4, <1>5, <1>6, <1>10
<1> QED
  BY <1>8, <1>9, <1>10 DEF Next

\* Faults are counted up only.
LEMMA FaultsGrow == TypeOK /\ [Next]_vars => faults' >= faults
<1> SUFFICES ASSUME TypeOK, [Next]_vars PROVE faults' >= faults
  OBVIOUS
<1>1. faults \in 0..MaxFaults /\ queue \in Seq(EventIDs)
  BY DEF TypeOK
<1>2. UNCHANGED faults => faults' >= faults
  BY <1>1, BoundAssumption
<1>3. Faulty(1) => faults' >= faults
  BY <1>1, BoundAssumption DEF Faulty
<1>4. ASSUME NEW r \in Requests, IngestEvent(r)
      PROVE  faults' >= faults
  <2>1. CASE Save(r) \/ SaveDuplicate(r) \/ SaveError(r) \/ SaveResent(r)
    BY <1>2, <1>3, <2>1 DEF Save, SaveDuplicate, SaveError, SaveResent
  <2>2. CASE Enqueue(r)
    BY <1>1, <2>2, PushedSeq DEF Enqueue, TypeOK
  <2>3. CASE EnqueueFailed(r)
    BY <1>1, <2>3, NotPushedSeq DEF EnqueueFailed, TypeOK
  <2> QED
    BY <1>4, <2>1, <2>2, <2>3 DEF IngestEvent
<1>5. ASSUME NEW i \in Instances, Requeue(i)
      PROVE  faults' >= faults
  <2>1. PICK e \in EventIDs : Pushed(e) \/ NotPushed(e)
    BY <1>5 DEF Requeue, TypeOK
  <2> QED
    BY <1>1, <2>1, PushedSeq, NotPushedSeq
<1>6. ASSUME NEW i \in Instances, Run(i) \/ ListStale(i) \/ Crash(i)
      PROVE  UNCHANGED faults \/ Faulty(1)
  BY <1>6 DEF Run, Process, Dequeue, DequeueLost, Load, LoadError, Post,
       PostAccepted, PostRejected, PostTransient, Attempted, UpdateStatus,
       UpdateStatusError, ListStale, Crash
<1>7. ASSUME NEW r \in Requests,
             Refuse(r) \/ \E i \in Instances, id \in EventIDs \cup {None} : Receive(r, i, id)
      PROVE  UNCHANGED faults
  BY <1>7 DEF Refuse, Receive
<1>8. CASE TimePasses \/ UNCHANGED vars
  BY <1>2, <1>8 DEF TimePasses, vars
<1> QED
  BY <1>2, <1>3, <1>4, <1>5, <1>6, <1>7, <1>8 DEF Next, RequeueStalePending

\* What an answer says of the row that it names.
Answered(r) == LET h == handler[r] IN
    /\ h.answer \in {"202", "503"} => h.id \in EventIDs /\ creator[h.id] = r
    /\ h.answer = "409" =>
          h.id \in EventIDs /\ creator[h.id] \in Requests /\ (creator[h.id] = r => faults > 0)
    /\ h.answer = "400" => \A e \in EventIDs : creator[e] # r

\* A request has no row before its INSERT, unless a fault had that sent again, and
\* pushes its own after it.
Owned(r) == LET h == handler[r] IN
    /\ h.pc # "done" => h.answer = "none"
    /\ h.pc = "idle" => \A e \in EventIDs : creator[e] # r
    /\ h.pc = "save" => \A e \in EventIDs : creator[e] = r => faults > 0
    /\ h.pc = "enqueue" => h.id \in EventIDs /\ creator[h.id] = r

RowInv ==
    /\ \A e \in EventIDs : status[e] = "absent" <=> creator[e] = None
    /\ \A r \in Requests : Owned(r) /\ Answered(r)

\* One step keeps rows, creators and answers together.
LEMMA RowsMatchStep == TypeOK /\ PersistInv /\ RowInv /\ [Next]_vars => RowInv'
<1> SUFFICES ASSUME TypeOK, PersistInv, RowInv, [Next]_vars PROVE RowInv'
  OBVIOUS
<1>1. ASSUME NEW e \in EventIDs
      PROVE  status'[e] = "absent" <=> creator'[e] = None
  <2>1. CASE creator'[e] = creator[e] /\ (status'[e] = "absent" <=> status[e] = "absent")
    BY <2>1 DEF RowInv
  <2>2. ASSUME NEW r \in Requests, Insert(r, e)
        PROVE  status'[e] = "pending" /\ creator'[e] # None
    BY <2>2, NoneAssumption DEF Insert, TypeOK
  <2> QED
    BY <2>1, <2>2, RowStep
<1>2. ASSUME NEW e \in EventIDs, creator[e] # None
      PROVE  creator'[e] = creator[e]
  BY <1>2, RowStep DEF RowInv, Insert
<1>3. ASSUME NEW e \in EventIDs, creator'[e] # creator[e]
      PROVE  \E r \in Requests : creator'[e] = r /\ IngestEvent(r) /\ Insert(r, e)
  BY <1>3, RowStep DEF Insert, TypeOK
<1>0. faults \in Nat /\ faults' \in Int /\ faults' >= faults
  BY BoundAssumption, TypeStep, FaultsGrow DEF TypeOK
<1>4. ASSUME NEW q \in Requests, handler'[q] = handler[q], ~IngestEvent(q)
      PROVE  Owned(q)' /\ Answered(q)'
  <2>1. \A e \in EventIDs : creator[e] # q => creator'[e] # q
    BY <1>3, <1>4
  <2>2. \A e \in EventIDs : creator[e] \in Requests => creator'[e] = creator[e]
    BY <1>2, NoneAssumption
  <2>3. faults > 0 => faults' > 0
    BY <1>0
  <2> QED
    BY <1>4, <2>1, <2>2, <2>3 DEF RowInv, Owned, Answered
<1>5. ASSUME NEW q \in Requests, IngestEvent(q)
      PROVE  Owned(q)' /\ Answered(q)'
  <2>1. CASE handler[q].pc = "save" /\ handler'[q].pc = "enqueue"
             /\ handler'[q].id \in EventIDs /\ handler'[q].answer = "none"
             /\ Insert(q, handler'[q].id)
    BY <2>1 DEF Owned, Answered, Insert, TypeOK
  <2>2. CASE handler'[q].pc = "done" /\ handler'[q].answer = "500"
    BY <2>2 DEF Owned, Answered
  <2>3. CASE handler[q].pc = "save" /\ handler'[q].pc = "done"
             /\ handler'[q].id = handler[q].id /\ handler'[q].answer = "409"
             /\ handler'[q].id \in Persisted /\ UNCHANGED db
    <3>1. handler'[q].id \in EventIDs /\ status[handler'[q].id] # "absent"
      BY <2>3 DEF Persisted
    <3>2. /\ creator[handler'[q].id] # None
          /\ creator[handler'[q].id] = q => faults' > 0
      BY <1>0, <2>3, <3>1 DEF RowInv, Owned
    <3>3. creator[handler'[q].id] \in Requests \cup {None}
      BY <3>1 DEF TypeOK
    <3> QED
      BY <2>3, <3>1, <3>2, <3>3 DEF Owned, Answered, db
  <2>4. CASE handler[q].pc = "enqueue" /\ handler'[q].pc = "done"
             /\ handler'[q].id = handler[q].id /\ handler'[q].answer \in {"202", "503"}
             /\ UNCHANGED db
    BY <2>4 DEF RowInv, Owned, Answered, db
  <2>5. CASE handler[q].pc = "save" /\ handler'[q] = handler[q] /\ faults' = faults + 1
    BY <1>0, <2>5 DEF RowInv, Owned, Answered
  <2> QED
    BY <1>5, <2>1, <2>2, <2>3, <2>4, <2>5, IngestEffect
<1>6. ASSUME NEW q \in Requests, handler[q].pc = "idle", UNCHANGED db,
             \/ handler'[q].pc = "done" /\ handler'[q].answer = "400"
             \/ handler'[q].pc = "save" /\ handler'[q].answer = "none"
      PROVE  Owned(q)' /\ Answered(q)'
  BY <1>6 DEF RowInv, Owned, Answered, db
<1>7. ASSUME NEW q \in Requests, handler'[q].pc = "done", handler'[q].answer = "lost"
      PROVE  Owned(q)' /\ Answered(q)'
  BY <1>7 DEF Owned, Answered
<1>8. \A q \in Requests : Owned(q)' /\ Answered(q)'
  BY <1>4, <1>5, <1>6, <1>7, HandlerStep
<1> QED
  BY <1>1, <1>8 DEF RowInv

\* No row and no answer before the first request.
LEMMA RowsMatchInit == Init => RowInv
BY NoneAssumption DEF Init, RowInv, Owned, Answered, IdleHandler, HandlerState

\* The status code tells whose row it is: IngestEvent answers 202 and 503 for a
\* row of the request itself, 409 for another's or, after a fault, for its own, and
\* 400 only without a row.
THEOREM AnswersAlwaysMatch == Spec => []AnswersMatchRow
<1>1. Init => TypeOK /\ PersistInv /\ RowInv
  BY TypeInit, PersistInit, RowsMatchInit
<1>2. TypeOK /\ PersistInv /\ RowInv /\ [Next]_vars => (TypeOK /\ PersistInv /\ RowInv)'
  BY TypeStep, PersistStep, RowsMatchStep
<1>3. RowInv => AnswersMatchRow
  BY DEF RowInv, Answered, AnswersMatchRow
<1> QED
  BY <1>1, <1>2, <1>3, PTL DEF Spec

(***************************************************************************)
(* Where a pending event is                                                *)
(***************************************************************************)
\* LPUSH keeps what is in the list and adds the id that it pushes.
LEMMA LeftPushQueued ==
    ASSUME TypeOK, NEW e \in EventIDs, NEW n \in Nat, LeftPush(e, n)
    PROVE  /\ n > 0 => Queued(e)'
           /\ \A f \in EventIDs : Queued(f) => Queued(f)'
<1>1. queue \in Seq(EventIDs) /\ Len(queue) \in Nat
  BY LenProperties DEF TypeOK
<1>2. Copies(e, n) \in Seq(EventIDs) /\ Len(Copies(e, n)) = n
      /\ \A k \in 1..n : Copies(e, n)[k] = e
  BY DEF Copies
<1>3. /\ Len(queue') = n + Len(queue)
      /\ \A k \in 1..n : queue'[k] = e
      /\ \A k \in 1..Len(queue) : queue'[k + n] = queue[k]
  <2>1. queue' = Copies(e, n) \o queue
    BY DEF LeftPush
  <2>2. /\ Len(queue') = Len(Copies(e, n)) + Len(queue)
        /\ \A k \in 1..Len(queue') :
              queue'[k] = IF k <= Len(Copies(e, n)) THEN Copies(e, n)[k]
                          ELSE queue[k - Len(Copies(e, n))]
    BY <1>1, <1>2, <2>1, ConcatProperties
  <2> QED
    BY <1>1, <1>2, <2>2
<1>4. n > 0 => Queued(e)'
  <2>1. n > 0 => 1 \in 1..Len(queue') /\ queue'[1] = e
    BY <1>1, <1>3
  <2> QED
    BY <2>1 DEF Queued
<1>5. ASSUME NEW f \in EventIDs, Queued(f)
      PROVE  Queued(f)'
  <2>1. PICK k \in 1..Len(queue) : queue[k] = f
    BY <1>5 DEF Queued
  <2>2. k + n \in 1..Len(queue') /\ queue'[k + n] = f
    BY <1>1, <1>3, <2>1
  <2> QED
    BY <2>2 DEF Queued
<1> QED
  BY <1>4, <1>5

\* BLPOP keeps everything but one id at the head.
LEMMA PopQueued ==
    ASSUME TypeOK, queue # << >>, queue' = Tail(queue), NEW f \in EventIDs, Queued(f),
           f # Head(queue)
    PROVE  Queued(f)'
<1>1. PICK k \in 1..Len(queue) : queue[k] = f
  BY DEF Queued
<1>2. /\ Len(queue) \in Nat /\ queue[1] = Head(queue) /\ Len(queue') = Len(queue) - 1
      /\ \A j \in 1..Len(queue') : queue'[j] = queue[j + 1]
  BY HeadTailProperties, LenProperties DEF TypeOK
<1>3. k - 1 \in 1..Len(queue') /\ queue'[k - 1] = f
  BY <1>1, <1>2
<1> QED
  BY <1>3 DEF Queued

\* LPUSH keeps what is in the list, whatever it answers; if it answers with
\* success, the id is there.
LEMMA PushQueued ==
    ASSUME TypeOK, NEW e \in EventIDs, Pushed(e) \/ NotPushed(e)
    PROVE  /\ \A f \in EventIDs : Queued(f) => Queued(f)'
           /\ Pushed(e) => Queued(e)'
<1>1. CASE Pushed(e)
  <2>1. PICK n \in 1..(1 + MaxResends) : LeftPush(e, n)
    BY <1>1 DEF Pushed
  <2>2. n \in Nat /\ n > 0
    BY BoundAssumption
  <2> QED
    BY <2>1, <2>2, LeftPushQueued
<1>2. CASE NotPushed(e) /\ ~Pushed(e)
  <2>1. CASE UNCHANGED queue
    BY <1>2, <2>1 DEF Queued
  <2>2. CASE \E n \in 1..(1 + MaxResends) : LeftPush(e, n)
    <3>1. PICK n \in 1..(1 + MaxResends) : LeftPush(e, n)
      BY <2>2
    <3>2. n \in Nat
      BY BoundAssumption
    <3> QED
      BY <1>2, <3>1, <3>2, LeftPushQueued
  <2> QED
    BY <1>2, <2>1, <2>2 DEF NotPushed
<1> QED
  BY <1>1, <1>2

\* An id leaves the list by BLPOP, at its head.
LEMMA QueueStep ==
    ASSUME TypeOK, [Next]_vars, NEW e \in EventIDs, Queued(e)
    PROVE  \/ Queued(e)'
           \/ \E i \in Instances : (Dequeue(i) \/ DequeueLost(i)) /\ e = Head(queue)
<1>1. UNCHANGED queue => Queued(e)'
  BY DEF Queued
<1>2. ASSUME NEW f \in EventIDs, Pushed(f) \/ NotPushed(f)
      PROVE  Queued(e)'
  BY <1>2, PushQueued
<1>3. ASSUME NEW r \in Requests, IngestEvent(r)
      PROVE  Queued(e)'
  <2>1. CASE Enqueue(r) \/ EnqueueFailed(r)
    BY <1>2, <2>1 DEF Enqueue, EnqueueFailed, TypeOK
  <2>2. CASE ~(Enqueue(r) \/ EnqueueFailed(r))
    BY <1>1, <1>3, <2>2 DEF IngestEvent, Save, SaveDuplicate, SaveError, SaveResent
  <2> QED
    BY <2>1, <2>2
<1>4. ASSUME NEW i \in Instances, RequeueStalePending(i)
      PROVE  Queued(e)'
  <2>1. CASE ListStale(i)
    BY <1>1, <2>1 DEF ListStale
  <2>2. CASE Requeue(i)
    <3>1. PICK f \in EventIDs : Pushed(f) \/ NotPushed(f)
      BY <2>2 DEF Requeue, TypeOK
    <3> QED
      BY <1>2, <3>1
  <2> QED
    BY <1>4, <2>1, <2>2 DEF RequeueStalePending
<1>5. ASSUME NEW i \in Instances, Dequeue(i) \/ DequeueLost(i), e # Head(queue)
      PROVE  Queued(e)'
  BY <1>5, PopQueued DEF Dequeue, DequeueLost
<1>6. ASSUME NEW i \in Instances, Run(i) \/ Crash(i), ~(Dequeue(i) \/ DequeueLost(i))
      PROVE  UNCHANGED queue
  BY <1>6 DEF Run, Process, Load, LoadError, Post, PostAccepted, PostRejected,
       PostTransient, Attempted, UpdateStatus, UpdateStatusError, Crash
<1>7. ASSUME NEW r \in Requests,
             Refuse(r) \/ \E i \in Instances, id \in EventIDs \cup {None} : Receive(r, i, id)
      PROVE  UNCHANGED queue
  BY <1>7 DEF Refuse, Receive
<1>8. CASE TimePasses \/ UNCHANGED vars
  BY <1>1, <1>8 DEF TimePasses, vars
<1> QED
  BY <1>1, <1>3, <1>4, <1>5, <1>6, <1>7, <1>8 DEF Next

\* A worker moves by a step of its own, or is reset by a crash.
LEMMA WorkerMoves ==
    ASSUME TypeOK, [Next]_vars, NEW i \in Instances
    PROVE  \/ worker'[i] = worker[i]
           \/ Run(i)
           \/ Crash(i)
<1>1. ASSUME NEW r \in Requests, IngestEvent(r)
      PROVE  UNCHANGED worker
  BY <1>1 DEF IngestEvent, Save, SaveDuplicate, SaveError, SaveResent,
      Enqueue, EnqueueFailed
<1>2. ASSUME NEW r \in Requests,
             Refuse(r) \/ \E j \in Instances, id \in EventIDs \cup {None} : Receive(r, j, id)
      PROVE  UNCHANGED worker
  BY <1>2 DEF Refuse, Receive
<1>3. ASSUME NEW j \in Instances, Run(j), j # i
      PROVE  worker'[i] = worker[i]
  BY <1>3, RunEffect
<1>4. ASSUME NEW j \in Instances, Crash(j), j # i
      PROVE  worker'[i] = worker[i]
  BY <1>4 DEF Crash, TypeOK
<1>5. ASSUME NEW j \in Instances, RequeueStalePending(j)
      PROVE  UNCHANGED worker
  BY <1>5 DEF RequeueStalePending, ListStale, Requeue
<1>6. CASE TimePasses \/ UNCHANGED vars
  BY <1>6 DEF TimePasses, vars
<1> QED
  BY <1>1, <1>2, <1>3, <1>4, <1>5, <1>6 DEF Next

\* A status changes by the INSERT of its row, or by an UPDATE that a worker
\* makes for the event it holds.
LEMMA StatusMoves ==
    ASSUME TypeOK, PersistInv, [Next]_vars, NEW e \in EventIDs
    PROVE  \/ status'[e] = status[e]
           \/ \E r \in Requests : IngestEvent(r) /\ Insert(r, e)
           \/ \E i \in Instances :
                 /\ UpdateStatus(i) \/ UpdateStatusError(i)
                 /\ worker[i].ev = e /\ status'[e] = worker[i].to
<1>1. UNCHANGED db => status'[e] = status[e]
  BY DEF db
<1>2. ASSUME NEW r \in Requests, IngestEvent(r)
      PROVE  status'[e] = status[e] \/ Insert(r, e)
  <2>1. UNCHANGED db \/ \E f \in EventIDs : Insert(r, f)
    BY <1>2, IngestEffect
  <2>2. ASSUME NEW f \in EventIDs, Insert(r, f), f # e
        PROVE  status'[e] = status[e]
    BY <2>2 DEF Insert, TypeOK
  <2> QED
    BY <1>1, <2>1, <2>2
<1>3. ASSUME NEW i \in Instances, UpdateStatus(i) \/ UpdateStatusError(i)
      PROVE  status'[e] = status[e] \/ (worker[i].ev = e /\ status'[e] = worker[i].to)
  BY <1>3 DEF UpdateStatus, UpdateStatusError, SetStatus, TypeOK
<1>4. ASSUME NEW i \in Instances, Run(i), ~(UpdateStatus(i) \/ UpdateStatusError(i))
      PROVE  UNCHANGED db
  BY <1>4 DEF Run, Process, Dequeue, DequeueLost, Load, LoadError, Post,
       PostAccepted, PostRejected, PostTransient, Attempted
<1>5. ASSUME NEW i \in Instances, RequeueStalePending(i) \/ Crash(i)
      PROVE  UNCHANGED db
  BY <1>5 DEF RequeueStalePending, ListStale, Requeue, Crash
<1>6. ASSUME NEW r \in Requests,
             Refuse(r) \/ \E i \in Instances, id \in EventIDs \cup {None} : Receive(r, i, id)
      PROVE  UNCHANGED db
  BY <1>6 DEF Refuse, Receive
<1>7. CASE TimePasses \/ UNCHANGED vars
  BY <1>1, <1>7 DEF TimePasses, vars, db
<1> QED
  BY <1>1, <1>2, <1>3, <1>4, <1>5, <1>6, <1>7 DEF Next

\* What a worker decides to write is an outcome.
LEMMA MarksOutcome ==
    ASSUME EarnedInv, NEW i \in Instances, worker[i].pc = "mark"
    PROVE  worker[i].to \in Terminal
BY DEF EarnedInv, Evidence, Terminal

\* One step keeps track of every pending event: the row is in a handler from its
\* INSERT to its LPUSH, in the list until its BLPOP, and in a worker until its
\* UPDATE, unless something fails.
LEMMA AccountedStep ==
    TypeOK /\ PersistInv /\ RowInv /\ EarnedInv /\ PendingIsAccounted /\ [Next]_vars
       => PendingIsAccounted'
<1> SUFFICES ASSUME TypeOK, PersistInv, RowInv, EarnedInv, PendingIsAccounted, [Next]_vars,
                    faults' = 0, NEW e \in EventIDs, status'[e] = "pending"
             PROVE  Queued(e)' \/ Held(e)' \/ handler'[creator'[e]].answer = "503"
  BY DEF PendingIsAccounted
<1>1. faults = 0
  BY FaultsGrow DEF TypeOK
<1>2. CASE \E r \in Requests : IngestEvent(r) /\ Insert(r, e)
  <2>1. PICK r \in Requests : IngestEvent(r) /\ Insert(r, e)
    BY <1>2
  <2>2. status[e] = "absent" /\ ~(UNCHANGED db)
    BY <2>1 DEF Insert, db, TypeOK
  <2>3. handler'[r].pc = "enqueue" /\ handler'[r].id \in EventIDs /\ Insert(r, handler'[r].id)
    BY <1>1, <2>1, <2>2, IngestEffect
  <2>4. handler'[r].id = e
    BY <2>1, <2>2, <2>3 DEF Insert, TypeOK
  <2> QED
    BY <2>3, <2>4 DEF Held
<1>3. CASE ~\E r \in Requests : IngestEvent(r) /\ Insert(r, e)
  <2>1. creator'[e] = creator[e]
    BY <1>3, RowStep
  <2>2. status[e] = "pending"
        /\ ~\E i \in Instances : /\ UpdateStatus(i) \/ UpdateStatusError(i)
                                 /\ worker[i].ev = e /\ status'[e] = worker[i].to
    <3>1. ASSUME NEW i \in Instances, UpdateStatus(i) \/ UpdateStatusError(i)
          PROVE  worker[i].to # "pending"
      BY <3>1, MarksOutcome DEF UpdateStatus, UpdateStatusError, Terminal
    <3> QED
      BY <1>3, <3>1, StatusMoves
  <2>3. creator[e] \in Requests
    BY <2>2 DEF RowInv, TypeOK
  <2>4. CASE handler[creator[e]].answer = "503"
    <3> DEFINE q == creator[e]
    <3>1. handler[q].pc \notin {"idle", "save", "enqueue"}
      BY <2>3, <2>4 DEF RowInv, Owned
    <3>2. ~IngestEvent(q)
      BY <2>3, <3>1, IngestEffect
    <3>3. handler'[q] = handler[q]
      BY <2>3, <3>1, <3>2, HandlerStep
    <3> QED
      BY <2>1, <2>4, <3>3
  <2>5. ASSUME NEW r \in Requests, handler[r].pc = "enqueue", handler[r].id = e
        PROVE  Queued(e)' \/ Held(e)' \/ handler'[creator'[e]].answer = "503"
    <3>1. CASE handler'[r] = handler[r]
      BY <2>5, <3>1 DEF Held
    <3>2. CASE Enqueue(r)
      <4>1. Pushed(e)
        BY <2>5, <3>2 DEF Enqueue
      <4> QED
        BY <4>1, PushQueued
    <3>3. CASE EnqueueFailed(r)
      <4>1. handler'[r].answer = "503"
        BY <3>3, AnswerEffect DEF EnqueueFailed
      <4>2. creator[e] = r
        BY <2>5 DEF RowInv, Owned
      <4> QED
        BY <2>1, <4>1, <4>2
    <3>4. IngestEvent(r) => Enqueue(r) \/ EnqueueFailed(r)
      BY <2>5 DEF IngestEvent, Save, SaveDuplicate, SaveError, SaveResent
    <3> QED
      BY <1>1, <2>5, <3>1, <3>2, <3>3, <3>4, HandlerStep
  <2>6. ASSUME NEW i \in Instances, worker[i].pc # "idle", worker[i].ev = e
        PROVE  Held(e)'
    <3>1. CASE worker'[i] = worker[i]
      BY <2>6, <3>1 DEF Held
    <3>2. CASE Crash(i)
      BY <1>1, <3>2 DEF Crash, Faulty
    <3>3. CASE Load(i)
      <4>1. worker' = [worker EXCEPT ![i] = Sending(e, 0)]
        BY <2>2, <2>6, <3>3 DEF Load, Forwards
      <4>2. worker'[i] = Sending(e, 0)
        BY <4>1, WorkerEffect
      <4> QED
        BY <4>2 DEF Held, Sending, WorkerState
    <3>4. CASE Post(i)
      BY <2>6, <3>4, PostEffect DEF Held
    <3>5. CASE LoadError(i) \/ UpdateStatusError(i)
      BY <1>1, <3>5 DEF LoadError, UpdateStatusError, Faulty
    <3>6. CASE UpdateStatus(i)
      <4>1. status'[e] = worker[i].to
        BY <2>6, <3>6 DEF UpdateStatus, SetStatus, TypeOK
      <4> QED
        BY <2>2, <2>6, <3>6, <4>1
    <3>7. CASE Dequeue(i) \/ DequeueLost(i)
      BY <2>6, <3>7 DEF Dequeue, DequeueLost
    <3> QED
      BY <3>1, <3>2, <3>3, <3>4, <3>5, <3>6, <3>7, WorkerMoves DEF Run, Process
  <2>7. CASE Queued(e)
    <3>1. ASSUME NEW i \in Instances, Dequeue(i), e = Head(queue)
          PROVE  Held(e)'
      <4> DEFINE w == WorkerState("load", Head(queue), 0, "pending")
      <4>1. worker' = [worker EXCEPT ![i] = w]
        BY <3>1 DEF Dequeue
      <4>2. worker'[i] = w
        <5> HIDE DEF w
        <5> QED
          BY <4>1, WorkerEffect
      <4> QED
        BY <3>1, <4>2 DEF Held, WorkerState
    <3>2. ASSUME NEW i \in Instances
          PROVE  ~DequeueLost(i)
      BY <1>1 DEF DequeueLost, Faulty
    <3> QED
      BY <2>7, <3>1, <3>2, QueueStep
  <2>8. Queued(e) \/ Held(e) \/ handler[creator[e]].answer = "503"
    BY <1>1, <2>2 DEF PendingIsAccounted
  <2> QED
    BY <2>4, <2>5, <2>6, <2>7, <2>8 DEF Held
<1> QED
  BY <1>2, <1>3

\* Without faults no return of IngestEvent or processOne drops a pending event:
\* it is in the list, in the hands of its handler or of a worker, or its client
\* has been told 503.
THEOREM PendingAlwaysAccounted == Spec => []PendingIsAccounted
<1>1. Init => TypeOK /\ PersistInv /\ RowInv /\ EarnedInv /\ PendingIsAccounted
  <2>1. Init => PendingIsAccounted
    BY DEF Init, PendingIsAccounted
  <2> QED
    BY <2>1, TypeInit, PersistInit, RowsMatchInit, EarnedInit
<1>2. TypeOK /\ PersistInv /\ RowInv /\ EarnedInv /\ PendingIsAccounted /\ [Next]_vars
         => (TypeOK /\ PersistInv /\ RowInv /\ EarnedInv /\ PendingIsAccounted)'
  BY TypeStep, PersistStep, RowsMatchStep, EarnedStep, AccountedStep
<1> QED
  BY <1>1, <1>2, PTL DEF Spec

(***************************************************************************)
(* How often an event is accepted                                          *)
(***************************************************************************)
\* The workers that are about to write a status for e, and those that forward e.
Marking(e)    == {i \in Instances : worker[i].pc = "mark" /\ worker[i].ev = e}
Forwarding(e) == {i \in Instances : worker[i].pc = "send" /\ worker[i].ev = e}

\* While an event is pending, each answer 2xx is a worker's that has yet to write
\* it, or one whose UPDATE was lost to a fault. Nobody begins to forward the event
\* once it is settled, so from then on only those may add an answer who forward
\* it already.
Deliveries(e) ==
    /\ status[e] = "absent" => accepts[e] = 0
    /\ status[e] = "pending" => accepts[e] <= faults + Cardinality(Marking(e))
    /\ status[e] \in Terminal =>
          accepts[e] + Cardinality(Forwarding(e)) <= faults + Cardinality(Instances)

RedeliveryInv == \A e \in EventIDs : Deliveries(e)

\* Sets of instances are finite, and smaller than all of them.
LEMMA SomeInstances ==
    ASSUME NEW S \in SUBSET Instances
    PROVE  /\ IsFiniteSet(S) /\ Cardinality(S) \in Nat
           /\ Cardinality(S) <= Cardinality(Instances) /\ Cardinality(Instances) \in Nat
BY FiniteAssumption, FS_Subset, FS_CardinalityType

\* When one instance enters or leaves, the number changes by one.
LEMMA OneMoves ==
    ASSUME NEW S \in SUBSET Instances, NEW T \in SUBSET Instances, NEW i \in Instances,
           S \ {i} = T \ {i}
    PROVE  /\ i \notin S /\ i \in T => Cardinality(T) = Cardinality(S) + 1
           /\ i \in S /\ i \notin T => Cardinality(T) = Cardinality(S) - 1
           /\ (i \in S <=> i \in T) => T = S
           /\ Cardinality(T) <= Cardinality(S) + 1 /\ Cardinality(S) <= Cardinality(T) + 1
<1>1. CASE i \notin S /\ i \in T
  <2>1. T = S \cup {i}
    BY <1>1
  <2> QED
    BY <1>1, <2>1, SomeInstances, FS_AddElement
<1>2. CASE i \in S /\ i \notin T
  <2>1. S = T \cup {i}
    BY <1>2
  <2>2. Cardinality(S) = Cardinality(T) + 1
    BY <1>2, <2>1, SomeInstances, FS_AddElement
  <2> QED
    BY <1>2, <2>2, SomeInstances
<1>3. CASE i \in S <=> i \in T
  <2>1. S = T
    BY <1>3
  <2> QED
    BY <1>3, <2>1, SomeInstances
<1> QED
  BY <1>1, <1>2, <1>3

\* A worker that marks does not forward.
LEMMA MarkingOrForwarding ==
    ASSUME NEW e
    PROVE  Cardinality(Marking(e)) + Cardinality(Forwarding(e)) <= Cardinality(Instances)
<1>1. Marking(e) \in SUBSET Instances /\ Forwarding(e) \in SUBSET Instances
      /\ Marking(e) \cap Forwarding(e) = {}
      /\ Marking(e) \cup Forwarding(e) \in SUBSET Instances
  BY DEF Marking, Forwarding
<1>2. Cardinality(Marking(e) \cup Forwarding(e))
         = Cardinality(Marking(e)) + Cardinality(Forwarding(e))
           - Cardinality(Marking(e) \cap Forwarding(e))
  BY <1>1, SomeInstances, FS_Union
<1>3. Cardinality(Marking(e) \cap Forwarding(e)) = 0
  BY <1>1, FS_EmptySet
<1> QED
  BY <1>1, <1>2, <1>3, SomeInstances

\* The bound lasts while workers, answers and the status stay.
LEMMA DeliveriesKept ==
    ASSUME TypeOK, TypeOK', NEW e \in EventIDs, Deliveries(e),
           faults' >= faults, accepts'[e] = accepts[e], status'[e] = status[e],
           Marking(e)' = Marking(e), Forwarding(e)' \subseteq Forwarding(e)
    PROVE  Deliveries(e)'
<1>1. /\ Marking(e) \in SUBSET Instances /\ Forwarding(e) \in SUBSET Instances
      /\ Forwarding(e)' \in SUBSET Instances
  BY DEF Marking, Forwarding
<1>2. Cardinality(Forwarding(e)') <= Cardinality(Forwarding(e))
  BY <1>1, SomeInstances, FS_Subset
<1>3. /\ Cardinality(Marking(e)) \in Nat /\ Cardinality(Forwarding(e)) \in Nat
      /\ Cardinality(Forwarding(e)') \in Nat /\ Cardinality(Instances) \in Nat
  BY <1>1, SomeInstances
<1>4. faults \in Nat /\ faults' \in Nat /\ accepts[e] \in Nat
  BY BoundAssumption DEF TypeOK
<1>5. status'[e] = "pending" => accepts'[e] <= faults' + Cardinality(Marking(e)')
  BY <1>3, <1>4 DEF Deliveries
<1>6. ASSUME status'[e] \in Terminal
      PROVE  accepts'[e] + Cardinality(Forwarding(e)') <= faults' + Cardinality(Instances)
  <2>1. accepts[e] + Cardinality(Forwarding(e)) <= faults + Cardinality(Instances)
    BY <1>6 DEF Deliveries
  <2> QED
    BY <1>2, <1>3, <1>4, <2>1
<1> QED
  BY <1>5, <1>6 DEF Deliveries

\* A worker that moves enters or leaves the two sets, and nobody else does.
LEMMA OthersStay ==
    ASSUME NEW i \in Instances, NEW e, \A j \in Instances \ {i} : worker'[j] = worker[j]
    PROVE  /\ Marking(e) \in SUBSET Instances /\ Marking(e)' \in SUBSET Instances
           /\ Forwarding(e) \in SUBSET Instances /\ Forwarding(e)' \in SUBSET Instances
           /\ Marking(e) \ {i} = Marking(e)' \ {i}
           /\ Forwarding(e) \ {i} = Forwarding(e)' \ {i}
BY DEF Marking, Forwarding

\* An attempt: a 2xx moves its worker from those that forward the event to those
\* that mark it, any other answer adds nothing.
LEMMA PostDelivers ==
    ASSUME TypeOK, TypeOK', PersistInv, NEW i \in Instances, Post(i),
           NEW e \in EventIDs, Deliveries(e)
    PROVE  Deliveries(e)'
<1>1. /\ worker[i].pc = "send" /\ worker[i].ev \in EventIDs /\ worker'[i].ev = worker[i].ev
      /\ UNCHANGED <<status, faults>>
  BY PostEffect DEF Post, PostAccepted, PostRejected, PostTransient, Attempted, db, TypeOK
<1>2. worker'[i].pc \in {"send", "mark"}
  BY PostEffect
<1>3. \/ UNCHANGED accepts
      \/ worker'[i].pc = "mark" /\ accepts' = [accepts EXCEPT ![worker[i].ev] = @ + 1]
  BY PostEffect
<1>4. /\ Marking(e) \in SUBSET Instances /\ Marking(e)' \in SUBSET Instances
      /\ Forwarding(e) \in SUBSET Instances /\ Forwarding(e)' \in SUBSET Instances
      /\ Marking(e) \ {i} = Marking(e)' \ {i}
      /\ Forwarding(e) \ {i} = Forwarding(e)' \ {i}
  BY OthersStay, RunEffect DEF Run
<1>5. faults \in Nat /\ faults' = faults /\ accepts[e] \in Nat
  BY <1>1, BoundAssumption DEF TypeOK
<1>6. CASE worker[i].ev # e
  <2>1. i \notin Marking(e) /\ i \notin Marking(e)'
        /\ i \notin Forwarding(e) /\ i \notin Forwarding(e)'
    BY <1>1, <1>6 DEF Marking, Forwarding
  <2>2. Marking(e)' = Marking(e) /\ Forwarding(e)' = Forwarding(e)
    BY <1>4, <2>1
  <2>3. accepts'[e] = accepts[e]
    BY <1>1, <1>3, <1>6 DEF TypeOK
  <2> QED
    BY <1>1, <1>5, <2>2, <2>3, DeliveriesKept
<1>7. CASE worker[i].ev = e
  <2>1. i \notin Marking(e) /\ i \in Forwarding(e)
        /\ (i \in Marking(e)' <=> worker'[i].pc = "mark")
        /\ (i \in Forwarding(e)' <=> worker'[i].pc = "send")
    BY <1>1, <1>7 DEF Marking, Forwarding
  <2>2. status[e] # "absent" /\ status'[e] = status[e]
    BY <1>1, <1>7 DEF PersistInv, QueuedIsPersisted, Persisted
  <2>3. CASE worker'[i].pc = "send"
    <3>1. Marking(e)' = Marking(e) /\ Forwarding(e)' = Forwarding(e)
      BY <1>4, <2>1, <2>3
    <3> QED
      BY <1>3, <1>5, <2>2, <2>3, <3>1, DeliveriesKept
  <2>4. CASE worker'[i].pc = "mark"
    <3>1. /\ Cardinality(Marking(e)') = Cardinality(Marking(e)) + 1
          /\ Cardinality(Forwarding(e)') = Cardinality(Forwarding(e)) - 1
      BY <1>4, <2>1, <2>4, OneMoves
    <3>2. accepts'[e] = accepts[e] \/ accepts'[e] = accepts[e] + 1
      BY <1>3, <1>7 DEF TypeOK
    <3>3. /\ Cardinality(Marking(e)) \in Nat /\ Cardinality(Forwarding(e)) \in Nat
          /\ Cardinality(Instances) \in Nat
      BY <1>4, SomeInstances
    <3>4. status'[e] = "pending" => accepts'[e] <= faults' + Cardinality(Marking(e)')
      BY <1>5, <2>2, <3>1, <3>2, <3>3 DEF Deliveries
    <3>5. ASSUME status'[e] \in Terminal
          PROVE  accepts'[e] + Cardinality(Forwarding(e)') <= faults' + Cardinality(Instances)
      <4>1. accepts[e] + Cardinality(Forwarding(e)) <= faults + Cardinality(Instances)
        BY <2>2, <3>5 DEF Deliveries
      <4> QED
        BY <1>5, <3>1, <3>2, <3>3, <4>1
    <3> QED
      BY <2>2, <3>4, <3>5 DEF Deliveries
  <2> QED
    BY <1>2, <2>3, <2>4
<1> QED
  BY <1>6, <1>7

\* A worker that no longer marks the event has written an outcome, or a fault
\* has kept it from that.
LEMMA MarkDelivers ==
    ASSUME TypeOK, TypeOK', PersistInv, EarnedInv, NEW i \in Instances,
           NEW e \in EventIDs, Deliveries(e),
           \A j \in Instances \ {i} : worker'[j] = worker[j], worker'[i].pc = "idle",
           accepts' = accepts, faults' >= faults,
           \/ status'[e] = status[e]
              /\ (faults' = faults + 1 \/ ~(worker[i].pc = "mark" /\ worker[i].ev = e))
           \/ worker[i].pc = "mark" /\ worker[i].ev = e /\ status'[e] = worker[i].to
    PROVE  Deliveries(e)'
<1>1. /\ Marking(e) \in SUBSET Instances /\ Marking(e)' \in SUBSET Instances
      /\ Forwarding(e) \in SUBSET Instances /\ Forwarding(e)' \in SUBSET Instances
      /\ Marking(e) \ {i} = Marking(e)' \ {i}
      /\ Forwarding(e) \ {i} = Forwarding(e)' \ {i}
  BY OthersStay
<1>2. i \notin Marking(e)' /\ i \notin Forwarding(e)'
  BY DEF Marking, Forwarding
<1>3. Forwarding(e)' \subseteq Forwarding(e)
  BY <1>1, <1>2
<1>4. Cardinality(Forwarding(e)') <= Cardinality(Forwarding(e))
  BY <1>1, <1>3, SomeInstances, FS_Subset
<1>5. Cardinality(Marking(e)) <= Cardinality(Marking(e)') + 1
  BY <1>1, OneMoves
<1>6. /\ Cardinality(Marking(e)) \in Nat /\ Cardinality(Marking(e)') \in Nat
      /\ Cardinality(Forwarding(e)) \in Nat /\ Cardinality(Forwarding(e)') \in Nat
      /\ Cardinality(Instances) \in Nat
      /\ Cardinality(Marking(e)) + Cardinality(Forwarding(e)) <= Cardinality(Instances)
  BY <1>1, SomeInstances, MarkingOrForwarding
<1>7. faults \in Nat /\ faults' \in Nat /\ accepts[e] \in Nat /\ accepts'[e] = accepts[e]
  BY BoundAssumption DEF TypeOK
<1>8. CASE status'[e] = status[e] /\ ~(worker[i].pc = "mark" /\ worker[i].ev = e)
  <2>1. i \notin Marking(e)
    BY <1>8 DEF Marking
  <2>2. Marking(e)' = Marking(e)
    BY <1>1, <1>2, <2>1
  <2> QED
    BY <1>3, <1>7, <1>8, <2>2, DeliveriesKept
<1>9. CASE status'[e] = status[e] /\ faults' = faults + 1
  <2>1. status'[e] = "pending" => accepts'[e] <= faults' + Cardinality(Marking(e)')
    BY <1>5, <1>6, <1>7, <1>9 DEF Deliveries
  <2>2. ASSUME status'[e] \in Terminal
        PROVE  accepts'[e] + Cardinality(Forwarding(e)') <= faults' + Cardinality(Instances)
    <3>1. accepts[e] + Cardinality(Forwarding(e)) <= faults + Cardinality(Instances)
      BY <1>9, <2>2 DEF Deliveries
    <3> QED
      BY <1>4, <1>6, <1>7, <3>1
  <2> QED
    BY <1>7, <1>9, <2>1, <2>2 DEF Deliveries
<1>10. CASE worker[i].pc = "mark" /\ worker[i].ev = e /\ status'[e] = worker[i].to
  <2>1. status'[e] \in Terminal
    BY <1>10, MarksOutcome
  <2>2. status[e] # "absent" /\ status[e] \in Statuses
    BY <1>10 DEF PersistInv, QueuedIsPersisted, Persisted, TypeOK
  <2>3. accepts[e] + Cardinality(Forwarding(e)) <= faults + Cardinality(Instances)
    <3>1. CASE status[e] = "pending"
      <4>1. accepts[e] <= faults + Cardinality(Marking(e))
        BY <3>1 DEF Deliveries
      <4> QED
        BY <1>6, <1>7, <4>1
    <3>2. CASE status[e] \in Terminal
      BY <3>2 DEF Deliveries
    <3> QED
      BY <2>2, <3>1, <3>2 DEF Statuses
  <2>4. accepts'[e] + Cardinality(Forwarding(e)') <= faults' + Cardinality(Instances)
    BY <1>4, <1>6, <1>7, <2>3
  <2> QED
    BY <2>1, <2>4 DEF Deliveries, Terminal
<1> QED
  BY <1>8, <1>9, <1>10

\* One step keeps the bound for every event.
LEMMA DeliveriesStep ==
    TypeOK /\ TypeOK' /\ PersistInv /\ EarnedInv /\ RedeliveryInv /\ [Next]_vars
       => RedeliveryInv'
<1> SUFFICES ASSUME TypeOK, TypeOK', PersistInv, EarnedInv, RedeliveryInv, [Next]_vars,
                    NEW e \in EventIDs
             PROVE  Deliveries(e)'
  BY DEF RedeliveryInv
<1>1. Deliveries(e) /\ faults' >= faults
  BY FaultsGrow DEF RedeliveryInv
<1>2. ASSUME UNCHANGED worker
      PROVE  Marking(e)' = Marking(e) /\ Forwarding(e)' = Forwarding(e)
  BY <1>2 DEF Marking, Forwarding
<1>3. ASSUME UNCHANGED <<status, worker, accepts>>
      PROVE  Deliveries(e)'
  BY <1>1, <1>2, <1>3, DeliveriesKept
<1>4. ASSUME NEW r \in Requests, IngestEvent(r)
      PROVE  Deliveries(e)'
  <2>1. UNCHANGED <<worker, accepts>>
    BY <1>4 DEF IngestEvent, Save, SaveDuplicate, SaveError, SaveResent,
      Enqueue, EnqueueFailed, history
  <2>2. CASE status'[e] = status[e]
    BY <1>1, <1>2, <2>1, <2>2, DeliveriesKept
  <2>3. CASE status'[e] # status[e]
    <3>1. PICK f \in EventIDs : Insert(r, f)
      BY <1>4, <2>3, IngestEffect DEF db
    <3>2. status[e] = "absent" /\ status'[e] = "pending"
      BY <2>3, <3>1 DEF Insert, TypeOK
    <3>3. accepts'[e] = 0
      BY <1>1, <2>1, <3>2 DEF Deliveries
    <3>4. faults' \in Nat /\ Cardinality(Marking(e)') \in Nat
      <4>1. Marking(e)' \in SUBSET Instances
        BY DEF Marking
      <4> QED
        BY <4>1, SomeInstances, BoundAssumption DEF TypeOK
    <3>5. accepts'[e] <= faults' + Cardinality(Marking(e)')
      BY <3>3, <3>4
    <3> QED
      BY <3>2, <3>5 DEF Deliveries, Terminal
  <2> QED
    BY <2>2, <2>3
<1>5. ASSUME NEW i \in Instances, Run(i)
      PROVE  Deliveries(e)'
  <2>1. CASE Dequeue(i) \/ DequeueLost(i) \/ LoadError(i)
    <3>1. UNCHANGED <<status, accepts>>
      BY <2>1 DEF Dequeue, DequeueLost, LoadError, db, history
    <3>2. worker[i].pc \in {"idle", "load"} /\ worker'[i].pc \in {"idle", "load"}
      <4>1. CASE Dequeue(i)
        BY <4>1 DEF Dequeue, WorkerState, TypeOK
      <4>2. CASE DequeueLost(i)
        BY <4>2 DEF DequeueLost
      <4>3. CASE LoadError(i)
        BY <4>3, WorkerEffect DEF LoadError, IdleWorker, WorkerState
      <4> QED
        BY <2>1, <4>1, <4>2, <4>3
    <3>3. Marking(e)' = Marking(e) /\ Forwarding(e)' = Forwarding(e)
      BY <1>5, <3>2, RunEffect DEF Marking, Forwarding
    <3> QED
      BY <1>1, <3>1, <3>3, DeliveriesKept
  <2>2. CASE Load(i)
    <3>1. UNCHANGED <<status, accepts, faults>>
      BY <2>2 DEF Load, db, history
    <3>2. worker[i].pc = "load" /\ worker'[i].pc \in {"idle", "send"}
      BY <2>2, LoadEffect DEF Load
    <3>3. Marking(e)' = Marking(e)
      BY <1>5, <3>2, RunEffect DEF Marking
    <3>4. CASE status[e] = "pending"
      <4>1. status'[e] = "pending" /\ accepts'[e] <= faults' + Cardinality(Marking(e)')
        BY <1>1, <3>1, <3>3, <3>4 DEF Deliveries
      <4> QED
        BY <4>1 DEF Deliveries, Terminal
    <3>5. CASE status[e] # "pending"
      <4>1. Forwarding(e)' = Forwarding(e)
        BY <1>5, <2>2, <3>2, <3>5, RunEffect, LoadEffect DEF Forwarding
      <4> QED
        BY <1>1, <3>1, <3>3, <4>1, DeliveriesKept
    <3> QED
      BY <3>4, <3>5
  <2>3. CASE Post(i)
    BY <1>1, <2>3, PostDelivers
  <2>4. CASE UpdateStatus(i) \/ UpdateStatusError(i)
    <3>1. /\ worker[i].pc = "mark" /\ worker'[i].pc = "idle" /\ accepts' = accepts
          /\ SetStatus(i) \/ (UNCHANGED status /\ faults' = faults + 1)
      BY <2>4, WorkerEffect
         DEF UpdateStatus, UpdateStatusError, IdleWorker, WorkerState, history, Faulty
    <3>2. \/ status'[e] = status[e] /\ (faults' = faults + 1 \/ worker[i].ev # e)
          \/ worker[i].ev = e /\ status'[e] = worker[i].to
      BY <3>1 DEF SetStatus, TypeOK
    <3> QED
      BY <1>1, <1>5, <3>1, <3>2, RunEffect, MarkDelivers
  <2> QED
    BY <1>5, <2>1, <2>2, <2>3, <2>4 DEF Run, Process
<1>6. ASSUME NEW i \in Instances, Crash(i)
      PROVE  Deliveries(e)'
  <2>1. UNCHANGED status /\ accepts' = accepts /\ faults' = faults + 1
    BY <1>6 DEF Crash, db, history, Faulty
  <2>2. worker'[i].pc = "idle" /\ \A j \in Instances \ {i} : worker'[j] = worker[j]
    BY <1>6 DEF Crash, IdleWorker, WorkerState, TypeOK
  <2> QED
    BY <1>1, <2>1, <2>2, MarkDelivers
<1>7. ASSUME NEW i \in Instances, RequeueStalePending(i)
      PROVE  Deliveries(e)'
  BY <1>3, <1>7 DEF RequeueStalePending, ListStale, Requeue, db, history
<1>8. ASSUME NEW r \in Requests,
             Refuse(r) \/ \E i \in Instances, id \in EventIDs \cup {None} : Receive(r, i, id)
      PROVE  Deliveries(e)'
  BY <1>3, <1>8 DEF Refuse, Receive, db, history
<1>9. CASE TimePasses \/ UNCHANGED vars
  BY <1>3, <1>9 DEF TimePasses, vars, db, history
<1> QED
  BY <1>4, <1>5, <1>6, <1>7, <1>8, <1>9 DEF Next

\* Nothing is accepted before the first event.
LEMMA DeliveriesInit == Init => RedeliveryInv
BY DEF Init, RedeliveryInv, Deliveries, Terminal

\* For any number of instances, faults and copies that the reconciler queues, an
\* event is accepted once per instance and once more per fault at most.
THEOREM RedeliveryBounded == Spec => []BoundedRedelivery
<1>1. Init => TypeOK /\ PersistInv /\ EarnedInv /\ RedeliveryInv
  BY TypeInit, PersistInit, EarnedInit, DeliveriesInit
<1>2. TypeOK /\ PersistInv /\ EarnedInv /\ RedeliveryInv /\ [Next]_vars
         => (TypeOK /\ PersistInv /\ EarnedInv /\ RedeliveryInv)'
  BY TypeStep, PersistStep, EarnedStep, DeliveriesStep
<1>3. TypeOK /\ RedeliveryInv => BoundedRedelivery
  <2> SUFFICES ASSUME TypeOK, RedeliveryInv, NEW e \in EventIDs
               PROVE  accepts[e] <= faults + Cardinality(Instances)
    BY DEF BoundedRedelivery
  <2>1. Marking(e) \in SUBSET Instances /\ Forwarding(e) \in SUBSET Instances
    BY DEF Marking, Forwarding
  <2>2. /\ Cardinality(Marking(e)) \in Nat /\ Cardinality(Forwarding(e)) \in Nat
        /\ Cardinality(Instances) \in Nat
        /\ Cardinality(Marking(e)) <= Cardinality(Instances)
    BY <2>1, SomeInstances
  <2>3. faults \in Nat /\ accepts[e] \in Nat /\ status[e] \in Statuses
    BY BoundAssumption DEF TypeOK
  <2>4. CASE status[e] = "absent"
    BY <2>2, <2>3, <2>4 DEF RedeliveryInv, Deliveries
  <2>5. CASE status[e] = "pending"
    <3>1. accepts[e] <= faults + Cardinality(Marking(e))
      BY <2>5 DEF RedeliveryInv, Deliveries
    <3> QED
      BY <2>2, <2>3, <3>1
  <2>6. CASE status[e] \in Terminal
    <3>1. accepts[e] + Cardinality(Forwarding(e)) <= faults + Cardinality(Instances)
      BY <2>6 DEF RedeliveryInv, Deliveries
    <3> QED
      BY <2>2, <2>3, <3>1
  <2> QED
    BY <2>3, <2>4, <2>5, <2>6 DEF Statuses
<1> QED
  BY <1>1, <1>2, <1>3, PTL DEF Spec

(***************************************************************************)
(* The invariants together, for a system that this service is a part of    *)
(***************************************************************************)
EventInv == TypeOK /\ EarnedInv

\* They hold at the start.
LEMMA EventInit == Init => EventInv
BY TypeInit, EarnedInit DEF EventInv

\* Every step of the service keeps them.
LEMMA EventStep == EventInv /\ [Next]_vars => EventInv'
BY TypeStep, EarnedStep DEF EventInv

\* A fault of something else that the service shares the bound with changes nothing.
LEMMA EventIdle ==
    ASSUME EventInv, faults' \in 0..MaxFaults,
           UNCHANGED <<status, creator, createdAt, aged, queue, handler, worker, batch,
                       accepts, rejected, transients>>
    PROVE  EventInv'
<1>1. TypeOK'
  BY DEF EventInv, TypeOK
<1>2. EarnedInv'
  <2>1. \A e : GivenUp(e)' <=> GivenUp(e)
    BY DEF GivenUp
  <2> QED
    BY <2>1 DEF EventInv, EarnedInv, OutcomeIsEarned, Evidence
<1> QED
  BY <1>1, <1>2 DEF EventInv
=============================================================================
