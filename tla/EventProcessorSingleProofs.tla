--------------------- MODULE EventProcessorSingleProofs ---------------------
(***************************************************************************)
(* What holds of EventProcessor as long as one instance runs, which is     *)
(* what the code assumes: the guard of processOne is then enough to make   *)
(* duplicate queue entries safe, and the service implements EventLifecycle. *)
(***************************************************************************)
EXTENDS EventProcessorProofs

SingleInstance == \A i, j \in Instances : i = j

(***************************************************************************)
(* How a step may change the status of an event                            *)
(***************************************************************************)
StatusStep ==
    \/ UNCHANGED status
    \/ \E r \in Requests, e \in EventIDs : Insert(r, e)
    \/ \E i \in Instances : /\ worker[i].pc = "mark" /\ SetStatus(i)
                            /\ worker' = [worker EXCEPT ![i] = IdleWorker]

\* Only the INSERT of a handler and the UPDATE of a worker touch the status.
LEMMA StatusSteps == TypeOK /\ [Next]_vars => StatusStep
<1> SUFFICES ASSUME TypeOK, [Next]_vars PROVE StatusStep
  OBVIOUS
<1>1. ASSUME NEW r \in Requests, IngestEvent(r) PROVE StatusStep
  BY <1>1, IdForType DEF IngestEvent, Save, SaveDuplicate, SaveError, SaveResent, Enqueue,
                         EnqueueFailed, db, StatusStep
<1>2. ASSUME NEW i \in Instances, Run(i) PROVE StatusStep
  BY <1>2 DEF Run, Process, Dequeue, DequeueLost, Load, Forwards, LoadError,
       Post, PostAccepted, PostRejected, PostTransient, Attempted, UpdateStatus,
       UpdateStatusError, db, StatusStep
<1>3. ASSUME NEW i \in Instances, RequeueStalePending(i) \/ Crash(i) PROVE StatusStep
  BY <1>3 DEF RequeueStalePending, ListStale, Requeue, Crash, db, StatusStep
<1>4. ASSUME NEW r \in Requests,
             Refuse(r) \/ \E i \in Instances, id \in EventIDs \cup {None} : Receive(r, i, id)
      PROVE  StatusStep
  BY <1>4 DEF Refuse, Receive, db, StatusStep
<1>5. CASE TimePasses \/ UNCHANGED vars
  BY <1>5 DEF TimePasses, vars, db, StatusStep
<1> QED
  BY <1>1, <1>2, <1>3, <1>4, <1>5 DEF Next

\* How a step may move a worker.
WorkerStep(i) ==
    \/ worker'[i] = worker[i]
    \/ worker'[i].pc \in {"idle", "load"}
    \/ worker[i].pc = "load" /\ Load(i)
    \/ worker[i].pc = "send" /\ Post(i)

\* A worker reaches an attempt only through Load or another attempt, and a
\* decision only through an attempt.
LEMMA WorkerSteps ==
    ASSUME TypeOK, [Next]_vars, NEW i \in Instances
    PROVE  WorkerStep(i)
<1>1. ASSUME NEW r \in Requests, IngestEvent(r) PROVE WorkerStep(i)
  BY <1>1 DEF IngestEvent, Save, SaveDuplicate, SaveError, SaveResent, Enqueue,
       EnqueueFailed, WorkerStep
<1>2. ASSUME NEW j \in Instances, Run(j) PROVE WorkerStep(i)
  <2>1. CASE i # j
    BY <1>2, <2>1, RunEffect DEF WorkerStep
  <2>2. CASE i = j
    BY <1>2, <2>2 DEF Run, Process, Dequeue, DequeueLost, Load, Forwards,
         LoadError, Post, PostAccepted, PostRejected, PostTransient, Attempted,
         UpdateStatus, UpdateStatusError, IdleWorker, WorkerState, WorkerStep,
         TypeOK
  <2> QED
    BY <2>1, <2>2
<1>3. ASSUME NEW j \in Instances, RequeueStalePending(j) \/ Crash(j) PROVE WorkerStep(i)
  BY <1>3 DEF RequeueStalePending, ListStale, Requeue, Crash, IdleWorker,
       WorkerState, WorkerStep, TypeOK
<1>4. ASSUME NEW r \in Requests,
             Refuse(r) \/ \E j \in Instances, id \in EventIDs \cup {None} : Receive(r, j, id)
      PROVE  WorkerStep(i)
  BY <1>4 DEF Refuse, Receive, WorkerStep
<1>5. CASE TimePasses \/ UNCHANGED vars
  BY <1>5 DEF TimePasses, vars, WorkerStep
<1> QED
  BY <1>1, <1>2, <1>3, <1>4, <1>5 DEF Next

(***************************************************************************)
(* The guard makes duplicate queue entries safe                            *)
(***************************************************************************)
\* With one instance, no step changes the status of an event that is being
\* forwarded: its only UPDATE comes from the worker that forwards it.
LEMMA InFlightStep ==
    ASSUME SingleInstance, TypeOK, InFlightIsPending, [Next]_vars
    PROVE  InFlightIsPending'
<1> SUFFICES ASSUME NEW i \in Instances, worker'[i].pc \in {"send", "mark"}
             PROVE  status'[worker'[i].ev] = "pending"
  BY DEF InFlightIsPending
<1>1. /\ worker'[i].ev = worker[i].ev
      /\ status[worker[i].ev] = "pending"
      /\ worker[i].ev \in EventIDs
  <2>1. CASE worker'[i] = worker[i]
    BY <2>1 DEF InFlightIsPending, TypeOK
  <2>2. CASE worker[i].pc = "load" /\ Load(i)
    BY <2>2, LoadEffect DEF TypeOK
  <2>3. CASE worker[i].pc = "send" /\ Post(i)
    BY <2>3, PostEffect DEF InFlightIsPending, TypeOK
  <2> QED
    BY <2>1, <2>2, <2>3, WorkerSteps DEF WorkerStep
<1>2. CASE UNCHANGED status
  BY <1>1, <1>2
<1>3. ASSUME NEW r \in Requests, NEW e \in EventIDs, Insert(r, e)
      PROVE  status'[worker[i].ev] = "pending"
  BY <1>1, <1>3 DEF Insert, TypeOK
<1>4. ASSUME NEW j \in Instances, worker' = [worker EXCEPT ![j] = IdleWorker]
      PROVE  FALSE
  <2>1. worker'[i].pc = "idle"
    BY <1>4 DEF SingleInstance, IdleWorker, WorkerState, TypeOK
  <2> QED
    BY <2>1
<1> QED
  BY <1>1, <1>2, <1>3, <1>4, StatusSteps DEF StatusStep

\* No event is being forwarded at the start.
LEMMA InFlightInit == Init => InFlightIsPending
BY DEF Init, InFlightIsPending, IdleWorker, WorkerState

\* With one instance, a worker forwards an event only while its row is pending,
\* whatever duplicates the reconciler and go-redis have put into the queue.
THEOREM InFlightIsAlwaysPending ==
    ASSUME SingleInstance
    PROVE  Spec => []InFlightIsPending
<1>1. Init => TypeOK /\ InFlightIsPending
  BY TypeInit, InFlightInit
<1>2. TypeOK /\ InFlightIsPending /\ [Next]_vars => (TypeOK /\ InFlightIsPending)'
  BY TypeStep, InFlightStep
<1> QED
  BY <1>1, <1>2, PTL DEF Spec

\* With one instance, the UPDATE of processOne finds the row pending although
\* its statement does not ask: a terminal status is never changed again.
THEOREM TerminalStaysFinal ==
    ASSUME SingleInstance
    PROVE  Spec => TerminalIsFinal
<1>1. TypeOK /\ InFlightIsPending /\ [Next]_vars
         => [\A e \in EventIDs : status[e] \in Terminal => status'[e] = status[e]]_vars
  <2> SUFFICES ASSUME TypeOK, InFlightIsPending, [Next]_vars,
                      NEW e \in EventIDs, status[e] \in Terminal
               PROVE  status'[e] = status[e]
    OBVIOUS
  <2>1. ASSUME NEW r \in Requests, NEW f \in EventIDs, Insert(r, f)
        PROVE  status'[e] = status[e]
    BY <2>1 DEF Insert, Terminal, TypeOK
  <2>2. ASSUME NEW i \in Instances, worker[i].pc = "mark", SetStatus(i)
        PROVE  status'[e] = status[e]
    <3>1. status[worker[i].ev] = "pending"
      BY <2>2 DEF InFlightIsPending
    <3> QED
      BY <2>2, <3>1 DEF SetStatus, Terminal, TypeOK
  <2> QED
    BY <2>1, <2>2, StatusSteps DEF StatusStep
<1>2. Spec => []TypeOK
  BY TypeCorrect
<1>3. Spec => []InFlightIsPending
  BY InFlightIsAlwaysPending
<1> QED
  BY <1>1, <1>2, <1>3, PTL DEF Spec, TerminalIsFinal

(***************************************************************************)
(* One instance implements EventLifecycle                                  *)
(***************************************************************************)
\* The abstract history of refusals.
refused == {e \in EventIDs : GivenUp(e)}

Mapped == <<status, accepts, refused>>

\* The empty table is where the abstract life of an event begins.
LEMMA LifecycleInit == Init => Lifecycle!Init
BY BoundAssumption DEF Init, Lifecycle!Init, GivenUp

\* The final answer to a POST is an Accept or a GiveUp, the other ones stutter.
LEMMA PostLifecycle ==
    ASSUME TypeOK, InFlightIsPending, NEW i \in Instances, Post(i)
    PROVE  Lifecycle!Next \/ UNCHANGED Mapped
<1>0. PICK e \in EventIDs : e = worker[i].ev
  BY DEF Post, PostAccepted, PostRejected, PostTransient, Attempted, TypeOK
<1>1. e \in EventIDs /\ status[e] = "pending" /\ UNCHANGED status
  BY <1>0 DEF Post, PostAccepted, PostRejected, PostTransient, Attempted,
       InFlightIsPending, db
<1>2. /\ accepts \in [EventIDs -> Nat] /\ transients \in [EventIDs -> Nat]
      /\ rejected \subseteq EventIDs
  BY DEF TypeOK
<1>3. CASE /\ accepts' = [accepts EXCEPT ![e] = @ + 1]
           /\ UNCHANGED <<rejected, transients>>
  <2>1. UNCHANGED refused
    BY <1>3 DEF refused, GivenUp
  <2>2. Lifecycle!Accept(e)
    BY <1>1, <1>3, <2>1 DEF Lifecycle!Accept, refused
  <2> QED
    BY <1>1, <2>2 DEF Lifecycle!Next
<1>4. ASSUME UNCHANGED accepts,
             \A f \in EventIDs : f # e => (GivenUp(f)' <=> GivenUp(f)),
             GivenUp(e) => GivenUp(e)'
      PROVE  Lifecycle!Next \/ UNCHANGED Mapped
  <2>1. CASE GivenUp(e)'
    <3>1. refused' = refused \cup {e}
      BY <1>1, <1>4, <2>1 DEF refused
    <3>2. Lifecycle!GiveUp(e)
      BY <1>1, <1>4, <3>1 DEF Lifecycle!GiveUp, refused
    <3> QED
      BY <1>1, <3>2 DEF Lifecycle!Next
  <2>2. CASE ~GivenUp(e)'
    <3>1. \A f \in EventIDs : GivenUp(f)' <=> GivenUp(f)
      BY <1>4, <2>2
    <3>2. UNCHANGED refused
      BY <3>1 DEF refused
    <3> QED
      BY <1>1, <1>4, <3>2 DEF Mapped
  <2> QED
    BY <2>1, <2>2
<1>5. CASE /\ rejected' = rejected \cup {e}
           /\ UNCHANGED <<accepts, transients>>
  BY <1>4, <1>5 DEF GivenUp
<1>6. CASE /\ transients' = [transients EXCEPT ![e] = @ + 1]
           /\ UNCHANGED <<accepts, rejected>>
  <2>1. /\ \A f \in EventIDs : f # e => transients'[f] = transients[f]
        /\ transients'[e] = transients[e] + 1
    BY <1>1, <1>2, <1>6
  <2> QED
    BY <1>1, <1>2, <1>4, <1>6, <2>1, BoundAssumption DEF GivenUp
<1> QED
  BY <1>0, <1>3, <1>5, <1>6, PostEffect

\* Every step is a step of the abstract life of an event, or leaves it alone.
LEMMA LifecycleStep ==
    ASSUME TypeOK, InFlightIsPending, EarnedInv, [Next]_vars
    PROVE  Lifecycle!Next \/ UNCHANGED Mapped
<1>1. ASSUME NEW r \in Requests, NEW e \in EventIDs, Insert(r, e), UNCHANGED history
      PROVE  Lifecycle!Next
  <2>1. UNCHANGED refused
    BY <1>1 DEF history, refused, GivenUp
  <2>2. Lifecycle!Persist(e)
    BY <1>1, <2>1 DEF Insert, history, Lifecycle!Persist, refused
  <2> QED
    BY <2>2 DEF Lifecycle!Next
<1>2. ASSUME NEW i \in Instances, worker[i].pc = "mark", SetStatus(i), UNCHANGED history
      PROVE  Lifecycle!Next
  <2> DEFINE e == worker[i].ev
  <2>1. e \in EventIDs /\ status[e] = "pending"
    BY <1>2 DEF TypeOK, InFlightIsPending
  <2>2. /\ worker[i].to \in {"processed", "failed"}
        /\ \/ worker[i].to = "processed" /\ accepts[e] > 0
           \/ worker[i].to = "failed" /\ e \in refused
    BY <1>2, <2>1 DEF EarnedInv, Evidence, refused
  <2>3. UNCHANGED refused
    BY <1>2 DEF history, refused, GivenUp
  <2>4. Lifecycle!Settle(e, worker[i].to)
    BY <1>2, <2>1, <2>2, <2>3 DEF SetStatus, history, Lifecycle!Settle, refused
  <2> QED
    BY <2>1, <2>2, <2>4 DEF Lifecycle!Next
<1>3. ASSUME UNCHANGED <<status, history>>
      PROVE  UNCHANGED Mapped
  <2>1. UNCHANGED refused
    BY <1>3 DEF history, refused, GivenUp
  <2> QED
    BY <1>3, <2>1 DEF Mapped, history
<1>4. UNCHANGED history \/ \E i \in Instances : Post(i)
  <2>1. ASSUME NEW r \in Requests, IngestEvent(r) PROVE UNCHANGED history
    BY <2>1 DEF IngestEvent, Save, SaveDuplicate, SaveError, SaveResent, Enqueue, EnqueueFailed
  <2>2. ASSUME NEW i \in Instances, Run(i) PROVE UNCHANGED history \/ Post(i)
    BY <2>2 DEF Run, Process, Dequeue, DequeueLost, Load, Forwards, LoadError,
         UpdateStatus, UpdateStatusError
  <2>3. ASSUME NEW i \in Instances, RequeueStalePending(i) \/ Crash(i)
        PROVE  UNCHANGED history
    BY <2>3 DEF RequeueStalePending, ListStale, Requeue, Crash
  <2>4. ASSUME NEW r \in Requests,
               Refuse(r) \/ \E i \in Instances, id \in EventIDs \cup {None} : Receive(r, i, id)
        PROVE  UNCHANGED history
    BY <2>4 DEF Refuse, Receive
  <2>5. CASE TimePasses \/ UNCHANGED vars
    BY <2>5 DEF TimePasses, vars, history
  <2> QED
    BY <2>1, <2>2, <2>3, <2>4, <2>5 DEF Next
<1> QED
  BY <1>1, <1>2, <1>3, <1>4, StatusSteps, PostLifecycle DEF StatusStep

\* One instance of event_processor implements the life of an event: saved once,
\* forwarded while pending, settled once, by an answer that was given.
THEOREM ImplementsEventLifecycle ==
    ASSUME SingleInstance
    PROVE  Spec => ImplementsLifecycle
<1>1. Init => Lifecycle!Init
  BY LifecycleInit
<1>2. Init => TypeOK /\ InFlightIsPending /\ EarnedInv
  BY TypeInit, InFlightInit, EarnedInit
<1>3. TypeOK /\ InFlightIsPending /\ EarnedInv /\ [Next]_vars
         => (TypeOK /\ InFlightIsPending /\ EarnedInv)'
  BY TypeStep, InFlightStep, EarnedStep
<1>4. TypeOK /\ InFlightIsPending /\ EarnedInv /\ [Next]_vars
         => [Lifecycle!Next]_(Lifecycle!vars)
  BY LifecycleStep DEF Mapped, refused, Lifecycle!vars
<1> QED
  BY <1>1, <1>2, <1>3, <1>4, PTL DEF Spec, ImplementsLifecycle, Lifecycle!Spec
=============================================================================
