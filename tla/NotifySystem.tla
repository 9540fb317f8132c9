---------------------------- MODULE NotifySystem ----------------------------
(***************************************************************************)
(* Both services together: what EventProcessor sees as the answer to a     *)
(* POST is here the outcome of a request of NotificationService.           *)
(*                                                                         *)
(* A worker has one POST open at a time. It may stop waiting for it (the   *)
(* client timeout, a broken connection, a crash) and go on, while the      *)
(* request still runs on the other side, which learns later, or never,     *)
(* that its caller has gone. Each service keeps its own variables; only    *)
(* the open POSTs connect them.                                            *)
(***************************************************************************)
EXTENDS Router, FiniteSets

CONSTANTS
    EventIDs, Clients, Instances, None,
    MaxRetries, MaxResends, Limit, MaxQueue,
    RequestIds,           \* bound: the ids that clients send, None for a request
                          \* without one
    MaxPosts,             \* bound: how many POSTs reach notification_service
    TypeOf, PayloadOf,
    DispatchMaxRetries,   \* MaxRetries of notification_service
    MaxFaults             \* bound: faults of both services together

\* The POSTs in the order in which they begin.
Posts == 1..MaxPosts

\* What both services assume of their constants.
ASSUME SystemAssumption ==
    /\ None \notin EventIDs /\ None \notin Clients
    /\ None \notin Instances /\ None \notin Posts
    /\ IsFiniteSet(EventIDs) /\ IsFiniteSet(Instances)
    /\ MaxRetries \in Nat /\ DispatchMaxRetries \in Nat /\ MaxResends \in Nat
    /\ Limit \in Nat \ {0} /\ MaxQueue \in Nat
    /\ MaxPosts \in Nat /\ MaxFaults \in Nat
    /\ RequestIds \subseteq EventIDs \cup {None}
    /\ DOMAIN TypeOf = EventIDs
    /\ PayloadOf \in [EventIDs -> SUBSET {"email", "webhook_url"}]

VARIABLES
    \* event_processor
    status, creator, createdAt, aged, queue, handler, worker, batch,
    accepts, rejected, transients,
    \* notification_service
    table, lock, req, senders, delivered, errors,
    \* between them
    faults,
    call,       \* per instance: the POST its worker is waiting for, or None
    unanswered  \* history: the events of which the worker gave up an attempt
                \* without an answer

EP == INSTANCE EventProcessor
         WITH Requests <- Clients

NS == INSTANCE NotificationService
         WITH Requests <- Posts, MaxRetries <- DispatchMaxRetries

eventVars == <<status, creator, createdAt, aged, queue, handler, worker, batch,
               accepts, rejected, transients>>
postVars  == <<table, lock, req, senders, delivered, errors>>
vars      == <<status, creator, createdAt, aged, queue, handler, worker, batch,
               accepts, rejected, transients,
               table, lock, req, senders, delivered, errors,
               faults, call, unanswered>>

Init ==
    /\ EP!Init
    /\ NS!Init
    /\ call       = [i \in Instances |-> None]
    /\ unanswered = {}

Waiting(i) == call[i] # None

\* Nobody waits for the answer of p any more.
Abandoned(p) == \A i \in Instances : call[i] # p

(***************************************************************************)
(* Steps of one service                                                    *)
(***************************************************************************)
\* Mutant: the attempt that failed stays open.
KeepOpen(i) == UNCHANGED call

HangUp(i) == call' = [call EXCEPT ![i] = None]

EventOnly == UNCHANGED <<postVars, call, unanswered>>
PostOnly  == UNCHANGED <<eventVars, call, unanswered>>

Request(r) ==
    /\ \/ EP!Refuse(r)
       \/ \E i \in Instances, id \in RequestIds : EP!Receive(r, i, id)
    /\ EventOnly

IngestEvent(r) == EP!IngestEvent(r) /\ EventOnly

Process(i) == EP!Process(i) /\ EventOnly

RequeueStalePending(i) == EP!RequeueStalePending(i) /\ EventOnly

TimePasses == EP!TimePasses /\ EventOnly

\* The worker of a crashed instance waits for nothing; its POST runs on.
EventCrash(i) ==
    /\ EP!Crash(i)
    /\ HangUp(i)
    /\ UNCHANGED <<postVars, unanswered>>

SendNotification(p) == NS!SendNotification(p) /\ PostOnly

NotificationCrash ==
    /\ \E S \in SUBSET {p \in Posts : NS!Active(p)} \ {{}} : NS!Crash(S)
    /\ PostOnly

\* notification_service notices that its caller has gone.
CallerGone(p) ==
    /\ Abandoned(p)
    /\ NS!ClientGone(p)
    /\ PostOnly

(***************************************************************************)
(* The POST of the worker                                                  *)
(***************************************************************************)
\* An attempt reaches notification_service, which refuses it or begins to
\* serve it.
PostBegins(i, p) ==
    /\ worker[i].pc = "send"
    /\ ~Waiting(i)
    /\ \A q \in Posts : q < p => ~NS!At(q, "idle")
    /\ NS!Receive(p, worker[i].ev) \/ NS!Refuse(p, worker[i].ev)
    /\ call' = [call EXCEPT ![i] = p]
    /\ UNCHANGED <<eventVars, unanswered>>

IsSuccess(answer) == answer = "201"

\* Mutant: 5xx is as permanent as 4xx.
IsPermanent5xx(answer) == answer \in {"400", "500"}

IsPermanent(answer) == answer = "400"

\* The worker reads the status code: 2xx, 4xx or 5xx. The connection of a
\* process that died breaks, which is transient like 5xx.
PostEnds(i) ==
    /\ Waiting(i)
    /\ LET answer == req[call[i]].answer IN
       /\ answer # "none"
       /\ \/ IsSuccess(answer) /\ EP!PostAccepted(i)
          \/ IsPermanent(answer) /\ EP!PostRejected(i)
          \/ ~IsSuccess(answer) /\ ~IsPermanent(answer) /\ EP!PostTransient(i)
    /\ HangUp(i)
    /\ UNCHANGED <<postVars, unanswered>>

\* No answer: the connection is refused, or it breaks, or the client timeout
\* ends an attempt that is still served.
PostFails(i) ==
    /\ EP!PostTransient(i)
    /\ HangUp(i)
    /\ unanswered' = unanswered \cup {worker[i].ev}
    /\ UNCHANGED postVars

\* Beyond the bound MaxPosts every connection is refused.
NoMorePosts(i) == ~Waiting(i) /\ \A p \in Posts : ~NS!At(p, "idle")

Post(i) ==
    \/ \E p \in Posts : PostBegins(i, p)
    \/ PostEnds(i)
    \/ NoMorePosts(i) /\ PostFails(i)

Next ==
    \/ \E r \in Clients : Request(r) \/ IngestEvent(r)
    \/ \E i \in Instances :
          \/ Process(i) \/ RequeueStalePending(i) \/ EventCrash(i)
          \/ Post(i) \/ PostFails(i)
    \/ TimePasses
    \/ \E p \in Posts : SendNotification(p) \/ CallerGone(p)
    \/ NotificationCrash

\* Fairness of both services; a worker whose POST is answered reads the answer.
Fairness ==
    /\ \A r \in Clients : WF_vars(IngestEvent(r))
    /\ \A i \in Instances :
          WF_vars(Process(i) \/ Post(i)) /\ WF_vars(RequeueStalePending(i))
    /\ WF_vars(TimePasses)
    /\ \A p \in Posts : WF_vars(SendNotification(p))

Spec == Init /\ [][Next]_vars

FairSpec == Spec /\ Fairness

-----------------------------------------------------------------------------
(***************************************************************************)
(* Properties                                                              *)
(***************************************************************************)
Routed(e) == {e} \X NS!ChannelsOf[e]

Settled(n) == table[n] \in {"sent", "failed"}

NoFault == faults = 0

\* The context of the request that inserted n was cancelled.
CutOff(n) == \E p \in Posts : n \in NS!InsertedKeys(p) /\ req[p].gone

\* The two connecting variables keep to their types, and an open POST is of the
\* event that the worker is forwarding.
TypeOK ==
    /\ call \in [Instances -> Posts \cup {None}]
    /\ unanswered \subseteq EventIDs
    /\ \A i \in Instances : Waiting(i) =>
          worker[i].pc = "send" /\ req[call[i]].ev = worker[i].ev

\* An event that was rejected left nothing behind, neither before nor after:
\* no record, no dispatch, and never a 201.
RejectedLeavesNothing ==
    \A e \in rejected :
       /\ accepts[e] = 0
       /\ \A n \in {e} \X Channels : table[n] = "none" /\ senders[n] = {}

\* One instance, and every attempt answered: as long as nothing fails, the two
\* tables agree. A processed event has its outcome on every channel; a failed
\* one was rejected.
TablesAgree ==
    NoFault =>
       \A e \in EventIDs \ unanswered :
          /\ status[e] = "processed" => \A n \in Routed(e) : Settled(n)
          /\ status[e] = "failed" => e \in rejected

\* A processed event has a record for each of its channels, whatever timeouts,
\* crashes and repeated requests came in between. One that stays pending for good
\* was inserted by a request whose answer the worker did not get, or which was 500.
LossHasReason ==
    \A e \in EventIDs : \A n \in Routed(e) : status[e] = "processed" =>
       /\ table[n] # "none"
       /\ table[n] = "pending" =>
             \E p \in Posts :
                /\ n \in NS!InsertedKeys(p)
                /\ Abandoned(p)
                /\ NS!Active(p) \/ req[p].answer \in {"500", "lost"}

\* End to end: the workers, the reconciler, the requests they wait for and those
\* they have given up never wait for each other in vain. In the end no event is
\* pending, and unless something failed, a processed one has an outcome on every
\* channel, but for a request cut off by the timeout of the worker that sent it.
EventuallyNotified ==
    <>[](\A e \in EventIDs :
           /\ status[e] # "pending"
           /\ status[e] = "processed" /\ NoFault =>
                 \A n \in Routed(e) : Settled(n) \/ CutOff(n))

\* Before an event is processed its notifications have been "updated to `sent`
\* or `failed` after each dispatch attempt finishes" (SOLUTION.md:85).
ProcessedIsSettled ==
    \A e \in EventIDs : status[e] = "processed" ~> \A n \in Routed(e) : Settled(n)
=============================================================================
