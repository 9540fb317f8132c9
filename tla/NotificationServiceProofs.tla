---------------------- MODULE NotificationServiceProofs ----------------------
(***************************************************************************)
(* Theorems about NotificationService, for any number of events, requests  *)
(* and retries, any types and payloads and any number of faults.           *)
(***************************************************************************)
EXTENDS NotificationService, FiniteSetTheorems, TLAPS

(***************************************************************************)
(* The routing table                                                       *)
(***************************************************************************)
\* Whatever the type of an event, Resolve of router.go returns one of these.
LEMMA ResolveForm ==
    ASSUME NEW t
    PROVE  Resolve(t) \in {<<"email">>, <<"webhook">>, <<"email", "webhook">>}
BY DEF Resolve, routes

\* A route list has one or two channels, each of them once.
LEMMA RouteFacts ==
    ASSUME NEW e
    PROVE  /\ Len(Routes(e)) \in 1..2
           /\ \A i \in 1..Len(Routes(e)) : Routes(e)[i] \in Channels
           /\ \A i, j \in 1..Len(Routes(e)) : Routes(e)[i] = Routes(e)[j] => i = j
<1>1. Routes(e) \in {<<"email">>, <<"webhook">>, <<"email", "webhook">>}
  BY ResolveForm DEF Routes
<1> QED
  BY <1>1 DEF Channels

(***************************************************************************)
(* What each step does to the state of the handlers                        *)
(***************************************************************************)
\* No handler but that of r moves.
Only(r) == \A s \in Requests : s # r => req'[s] = req[s]

\* A request that passes validation names its event.
LEMMA ReceiveEffect ==
    ASSUME TypeOK, NEW r \in Requests, NEW e \in EventIDs, Receive(r, e)
    PROVE  /\ Only(r)
           /\ req'[r].pc = "save" /\ req'[r].ev = e
           /\ req'[r].k = req[r].k /\ req'[r].inserted = req[r].inserted
           /\ req'[r].attempt = req[r].attempt /\ req'[r].outcome = req[r].outcome
           /\ req'[r].answer = req[r].answer /\ req'[r].gone = req[r].gone
BY DEF Receive, At, Only, TypeOK

\* A refused request ends with 400.
LEMMA RefuseEffect ==
    ASSUME TypeOK, NEW r \in Requests, NEW e \in EventIDs \cup {None}, Refuse(r, e)
    PROVE  /\ Only(r)
           /\ req'[r].pc = "done" /\ req'[r].ev = e /\ req'[r].answer = "400"
           /\ req'[r].k = req[r].k /\ req'[r].inserted = req[r].inserted
           /\ req'[r].attempt = req[r].attempt /\ req'[r].outcome = req[r].outcome
           /\ req'[r].gone = req[r].gone
BY DEF Refuse, At, Only, TypeOK

\* An upsert moves on to the next route and remembers a row that it inserted.
LEMMA UpsertEffect ==
    ASSUME TypeOK, NEW r \in Requests, Upsert(r)
    PROVE  /\ Only(r)
           /\ req'[r].k = req[r].k + 1
           /\ req'[r].inserted = IF IsNew(r) THEN req[r].inserted \cup {Channel(r)}
                               ELSE req[r].inserted
           /\ req'[r].pc = req[r].pc /\ req'[r].ev = req[r].ev
           /\ req'[r].attempt = req[r].attempt /\ req'[r].outcome = req[r].outcome
           /\ req'[r].answer = req[r].answer /\ req'[r].gone = req[r].gone
BY DEF Upsert, Only, TypeOK

\* After COMMIT the route list is walked again, from its start.
LEMMA CommitEffect ==
    ASSUME TypeOK, NEW r \in Requests, Commit(r)
    PROVE  /\ Only(r)
           /\ req'[r].pc = "dispatch" /\ req'[r].k = 1
           /\ req'[r].ev = req[r].ev /\ req'[r].inserted = req[r].inserted
           /\ req'[r].attempt = req[r].attempt /\ req'[r].outcome = req[r].outcome
           /\ req'[r].answer = req[r].answer /\ req'[r].gone = req[r].gone
BY DEF Commit, Only, TypeOK

\* A handler that answers ends, and changes nothing else of its state.
LEMMA RespondEffect ==
    ASSUME TypeOK, NEW r \in Requests, NEW code, Respond(r, code)
    PROVE  /\ Only(r)
           /\ req'[r].pc = "done" /\ req'[r].answer = code
           /\ req'[r].ev = req[r].ev /\ req'[r].k = req[r].k
           /\ req'[r].inserted = req[r].inserted /\ req'[r].attempt = req[r].attempt
           /\ req'[r].outcome = req[r].outcome /\ req'[r].gone = req[r].gone
BY DEF Respond, Only, TypeOK

\* A route of another request is passed over.
LEMMA SkipEffect ==
    ASSUME TypeOK, NEW r \in Requests, Skip(r)
    PROVE  /\ Only(r)
           /\ req'[r].k = req[r].k + 1
           /\ req'[r].pc = req[r].pc /\ req'[r].ev = req[r].ev
           /\ req'[r].inserted = req[r].inserted /\ req'[r].attempt = req[r].attempt
           /\ req'[r].outcome = req[r].outcome /\ req'[r].answer = req[r].answer
           /\ req'[r].gone = req[r].gone
BY DEF Skip, Only, TypeOK

\* A dispatch starts with attempt 0.
LEMMA StartDispatchEffect ==
    ASSUME TypeOK, NEW r \in Requests, StartDispatch(r)
    PROVE  /\ Only(r)
           /\ req'[r].pc = "send" /\ req'[r].attempt = 0
           /\ req'[r].ev = req[r].ev /\ req'[r].k = req[r].k
           /\ req'[r].inserted = req[r].inserted /\ req'[r].outcome = req[r].outcome
           /\ req'[r].answer = req[r].answer /\ req'[r].gone = req[r].gone
BY DEF StartDispatch, Only, TypeOK

\* Send returns an outcome to be recorded.
LEMMA DispatchedEffect ==
    ASSUME TypeOK, NEW r \in Requests, NEW outcome, Dispatched(r, outcome)
    PROVE  /\ Only(r)
           /\ req'[r].pc = "mark" /\ req'[r].outcome = outcome
           /\ req'[r].ev = req[r].ev /\ req'[r].k = req[r].k
           /\ req'[r].inserted = req[r].inserted /\ req'[r].attempt = req[r].attempt
           /\ req'[r].answer = req[r].answer /\ req'[r].gone = req[r].gone
BY DEF Dispatched, Only, TypeOK

\* One more attempt.
LEMMA RetryEffect ==
    ASSUME TypeOK, NEW r \in Requests, req' = [req EXCEPT ![r].attempt = @ + 1]
    PROVE  /\ Only(r)
           /\ req'[r].attempt = req[r].attempt + 1
           /\ req'[r].pc = req[r].pc /\ req'[r].ev = req[r].ev
           /\ req'[r].k = req[r].k /\ req'[r].inserted = req[r].inserted
           /\ req'[r].outcome = req[r].outcome /\ req'[r].answer = req[r].answer
           /\ req'[r].gone = req[r].gone
BY DEF Only, TypeOK

\* An outcome recorded, the loop goes on to the next route.
LEMMA UpdateStatusEffect ==
    ASSUME TypeOK, NEW r \in Requests, UpdateStatus(r)
    PROVE  /\ Only(r)
           /\ req'[r].pc = "dispatch" /\ req'[r].k = req[r].k + 1
           /\ req'[r].ev = req[r].ev /\ req'[r].inserted = req[r].inserted
           /\ req'[r].attempt = req[r].attempt /\ req'[r].outcome = req[r].outcome
           /\ req'[r].answer = req[r].answer /\ req'[r].gone = req[r].gone
BY DEF UpdateStatus, Only, TypeOK

\* A cancelled context changes nothing else.
LEMMA ClientGoneEffect ==
    ASSUME TypeOK, NEW r \in Requests, ClientGone(r)
    PROVE  /\ Only(r)
           /\ req'[r].gone = TRUE
           /\ req'[r].pc = req[r].pc /\ req'[r].ev = req[r].ev
           /\ req'[r].k = req[r].k /\ req'[r].inserted = req[r].inserted
           /\ req'[r].attempt = req[r].attempt /\ req'[r].outcome = req[r].outcome
           /\ req'[r].answer = req[r].answer
BY DEF ClientGone, Only, TypeOK

(***************************************************************************)
(* Types                                                                   *)
(***************************************************************************)
\* The key of the route that a handler is at.
LEMMA KeyType ==
    ASSUME TypeOK, NEW r \in Requests, req[r].ev \in EventIDs, More(r)
    PROVE  /\ req[r].k \in 1..Len(Routes(req[r].ev))
           /\ Channel(r) \in Channels
           /\ Key(r) \in Keys
           /\ req[r].k + 1 \in 2..3
<1>1. req[r].k \in 1..3
  BY DEF TypeOK, RequestStates
<1>2. req[r].k \in 1..Len(Routes(req[r].ev)) /\ req[r].k + 1 \in 2..3
  BY <1>1, RouteFacts DEF More
<1> QED
  BY <1>2, RouteFacts DEF Channel, Key, Keys

\* The fields of a handler's state.
LEMMA StateType ==
    ASSUME TypeOK, NEW r \in Requests
    PROVE  /\ req[r] \in RequestStates
           /\ Active(r) => req[r].ev \in EventIDs
           /\ req[r].ev \in EventIDs \cup {None} /\ req[r].k \in 1..3
           /\ req[r].inserted \in SUBSET Channels /\ req[r].attempt \in 0..MaxRetries
           /\ req[r].outcome \in {"pending", "sent", "failed"}
           /\ req[r].answer \in {"none", "201", "400", "500", "lost"}
           /\ req[r].pc \in {"idle", "save", "dispatch", "send", "mark", "done"}
<1>1. req[r] \in RequestStates
  BY DEF TypeOK
<1> QED
  BY <1>1 DEF RequestStates, TypeOK

\* A handler moved to state h keeps the type of the handlers.
LEMMA ReqType ==
    ASSUME TypeOK, NEW r \in Requests, NEW h \in RequestStates,
           h.pc \notin {"idle", "done"} => h.ev \in EventIDs,
           req' = [req EXCEPT ![r] = h]
    PROVE  /\ req' \in [Requests -> RequestStates]
           /\ \A s \in Requests : Active(s)' => req'[s].ev \in EventIDs
BY DEF TypeOK, Active

\* The rows written by a transaction, and the locks left after it.
LEMMA TableType ==
    ASSUME TypeOK, NEW r \in Requests, WriteInserted(r)
    PROVE  table' \in [Keys -> {"none", "pending", "sent", "failed"}]
BY DEF TypeOK, WriteInserted

\* Releasing locks leaves locks of requests only.
LEMMA UnlockedType ==
    ASSUME TypeOK, NEW S
    PROVE  Unlocked(S) \in [Keys -> Requests \cup {None}]
BY DEF TypeOK, Unlocked

\* Faults stay within their bound.
LEMMA FaultyType ==
    ASSUME TypeOK, Faulty
    PROVE  faults' \in 0..MaxFaults
BY BoundAssumption DEF TypeOK, Faulty

\* Also when a call fails.
LEMMA CallFailsType ==
    ASSUME TypeOK, NEW r, CallFails(r)
    PROVE  faults' \in 0..MaxFaults
BY FaultyType DEF CallFails, TypeOK

\* A handler that has answered is well typed.
LEMMA RespondType ==
    ASSUME TypeOK, NEW r \in Requests, NEW code \in {"201", "400", "500"}, Respond(r, code)
    PROVE  /\ req' \in [Requests -> RequestStates]
           /\ \A s \in Requests : Active(s)' => req'[s].ev \in EventIDs
<1> DEFINE h == [req[r] EXCEPT !.pc = "done", !.answer = code]
<1>1. h \in RequestStates /\ h.pc = "done"
  BY StateType DEF RequestStates
<1>2. req' = [req EXCEPT ![r] = h]
  BY DEF Respond
<1> HIDE DEF h
<1> QED
  BY <1>1, <1>2, ReqType

\* So is one whose Send has returned.
LEMMA DispatchedType ==
    ASSUME TypeOK, NEW r \in Requests, At(r, "send"),
           NEW outcome \in {"sent", "failed"}, Dispatched(r, outcome)
    PROVE  /\ req' \in [Requests -> RequestStates]
           /\ \A s \in Requests : Active(s)' => req'[s].ev \in EventIDs
<1> DEFINE h == [req[r] EXCEPT !.pc = "mark", !.outcome = outcome]
<1>1. h \in RequestStates /\ h.ev \in EventIDs
  BY StateType DEF RequestStates, At, Active
<1>2. req' = [req EXCEPT ![r] = h]
  BY DEF Dispatched
<1> HIDE DEF h
<1> QED
  BY <1>1, <1>2, ReqType

\* Each step keeps the types: a valid request,
LEMMA ReceiveType ==
    ASSUME TypeOK, NEW r \in Requests, NEW e \in EventIDs, Receive(r, e)
    PROVE  TypeOK'
<1> DEFINE h == [req[r] EXCEPT !.pc = "save", !.ev = e]
<1>1. h \in RequestStates /\ h.ev \in EventIDs
  BY StateType DEF RequestStates
<1>2. req' = [req EXCEPT ![r] = h]
  BY DEF Receive
<1> HIDE DEF h
<1>3. /\ req' \in [Requests -> RequestStates]
      /\ \A s \in Requests : Active(s)' => req'[s].ev \in EventIDs
  BY <1>1, <1>2, ReqType
<1> QED
  BY <1>1, <1>2, <1>3 DEF TypeOK, Receive, history

\* a refused one,
LEMMA RefuseType ==
    ASSUME TypeOK, NEW r \in Requests, NEW e \in EventIDs \cup {None}, Refuse(r, e)
    PROVE  TypeOK'
<1> DEFINE h == [req[r] EXCEPT !.pc = "done", !.answer = "400", !.ev = e]
<1>1. h \in RequestStates /\ h.pc = "done"
  BY StateType DEF RequestStates
<1>2. req' = [req EXCEPT ![r] = h]
  BY DEF Refuse
<1> HIDE DEF h
<1>3. /\ req' \in [Requests -> RequestStates]
      /\ \A s \in Requests : Active(s)' => req'[s].ev \in EventIDs
  BY <1>1, <1>2, ReqType
<1> QED
  BY <1>1, <1>2, <1>3 DEF TypeOK, Refuse, history

\* an upsert,
LEMMA UpsertType ==
    ASSUME TypeOK, NEW r \in Requests, Upsert(r)
    PROVE  TypeOK'
<1> DEFINE h == [req[r] EXCEPT !.k = @ + 1,
                   !.inserted = IF IsNew(r) THEN @ \cup {Channel(r)} ELSE @]
<1>1. req[r].ev \in EventIDs /\ More(r)
  BY DEF TypeOK, Upsert, At, Active
<1>2. /\ Channel(r) \in Channels /\ req[r].k + 1 \in 1..3
      /\ req[r] \in RequestStates
  BY <1>1, KeyType, StateType
<1>4. h \in RequestStates /\ h.ev \in EventIDs
  BY <1>1, <1>2 DEF RequestStates
<1>3. req' = [req EXCEPT ![r] = h]
  BY DEF Upsert
<1> HIDE DEF h
<1>5. /\ req' \in [Requests -> RequestStates]
      /\ \A s \in Requests : Active(s)' => req'[s].ev \in EventIDs
  BY <1>3, <1>4, ReqType
<1> QED
  BY <1>1, <1>5 DEF TypeOK, Upsert, history

\* COMMIT,
LEMMA CommitType ==
    ASSUME TypeOK, NEW r \in Requests, Commit(r)
    PROVE  TypeOK'
<1> DEFINE h == [req[r] EXCEPT !.pc = "dispatch", !.k = 1]
<1>0. req[r] \in RequestStates /\ req[r].ev \in EventIDs
  BY StateType DEF Commit, At, Active
<1>4. 1 \in 1..3
  OBVIOUS
<1>1. h \in RequestStates /\ h.ev \in EventIDs
  BY <1>0, <1>4 DEF RequestStates
<1>2. req' = [req EXCEPT ![r] = h]
  BY DEF Commit
<1> HIDE DEF h
<1>3. /\ req' \in [Requests -> RequestStates]
      /\ \A s \in Requests : Active(s)' => req'[s].ev \in EventIDs
  BY <1>1, <1>2, ReqType
<1> QED
  BY <1>1, <1>2, <1>3, TableType, UnlockedType DEF TypeOK, Commit, EndTransaction, history

\* a route passed over,
LEMMA SkipType ==
    ASSUME TypeOK, NEW r \in Requests, Skip(r)
    PROVE  TypeOK'
<1> DEFINE h == [req[r] EXCEPT !.k = @ + 1]
<1>1. req[r].ev \in EventIDs /\ More(r)
  BY DEF TypeOK, Skip, At, Active
<1>2. /\ Channel(r) \in Channels /\ req[r].k + 1 \in 1..3
      /\ req[r] \in RequestStates
  BY <1>1, KeyType, StateType
<1>4. h \in RequestStates /\ h.ev \in EventIDs
  BY <1>1, <1>2 DEF RequestStates
<1>3. req' = [req EXCEPT ![r] = h]
  BY DEF Skip
<1> HIDE DEF h
<1>5. /\ req' \in [Requests -> RequestStates]
      /\ \A s \in Requests : Active(s)' => req'[s].ev \in EventIDs
  BY <1>3, <1>4, ReqType
<1> QED
  BY <1>5 DEF TypeOK, Skip, history

\* the start of a dispatch,
LEMMA StartDispatchType ==
    ASSUME TypeOK, NEW r \in Requests, StartDispatch(r)
    PROVE  TypeOK'
<1> DEFINE h == [req[r] EXCEPT !.pc = "send", !.attempt = 0]
<1>0. req[r] \in RequestStates /\ req[r].ev \in EventIDs
  BY StateType DEF StartDispatch, At, Active
<1>4. 0 \in 0..MaxRetries
  BY BoundAssumption
<1>1. h \in RequestStates /\ h.ev \in EventIDs
  BY <1>0, <1>4 DEF RequestStates
<1>2. req' = [req EXCEPT ![r] = h]
  BY DEF StartDispatch
<1> HIDE DEF h
<1>3. /\ req' \in [Requests -> RequestStates]
      /\ \A s \in Requests : Active(s)' => req'[s].ev \in EventIDs
  BY <1>1, <1>2, ReqType
<1> QED
  BY <1>1, <1>2, <1>3 DEF TypeOK, StartDispatch

\* an attempt,
LEMMA SendType ==
    ASSUME TypeOK, NEW r \in Requests, Send(r)
    PROVE  TypeOK'
<1>1. At(r, "send")
  BY DEF Send
<1>2. /\ req' \in [Requests -> RequestStates]
      /\ \A s \in Requests : Active(s)' => req'[s].ev \in EventIDs
  <2>1. CASE Dispatched(r, "sent") \/ Dispatched(r, "failed")
    BY <1>1, <2>1, DispatchedType
  <2>2. CASE HasAttempts(r) /\ req' = [req EXCEPT ![r].attempt = @ + 1]
    <3> DEFINE h == [req[r] EXCEPT !.attempt = @ + 1]
    <3>1. h \in RequestStates /\ h.ev \in EventIDs
      BY <1>1, <2>2, BoundAssumption DEF TypeOK, RequestStates, HasAttempts, At, Active
    <3>2. req' = [req EXCEPT ![r] = h]
      BY <2>2
    <3> HIDE DEF h
    <3> QED
      BY <3>1, <3>2, ReqType
  <2> QED
    BY <2>1, <2>2 DEF Send
<1>3. delivered' \in [Keys -> BOOLEAN]
  BY DEF TypeOK, Send
<1>4. errors' \in [Keys -> Nat]
  BY DEF TypeOK, Send
<1> QED
  BY <1>2, <1>3, <1>4 DEF TypeOK, Send

\* an outcome recorded,
LEMMA UpdateStatusType ==
    ASSUME TypeOK, NEW r \in Requests, More(r), UpdateStatus(r)
    PROVE  TypeOK'
<1> DEFINE h == [req[r] EXCEPT !.pc = "dispatch", !.k = @ + 1]
<1>1. req[r].ev \in EventIDs /\ req[r].outcome \in {"pending", "sent", "failed"}
  BY DEF TypeOK, RequestStates, UpdateStatus, At, Active
<1>2. /\ Channel(r) \in Channels /\ req[r].k + 1 \in 1..3
      /\ req[r] \in RequestStates
  BY <1>1, KeyType, StateType
<1>4. h \in RequestStates /\ h.ev \in EventIDs
  BY <1>1, <1>2 DEF RequestStates
<1>3. req' = [req EXCEPT ![r] = h]
  BY DEF UpdateStatus
<1> HIDE DEF h
<1>5. /\ req' \in [Requests -> RequestStates]
      /\ \A s \in Requests : Active(s)' => req'[s].ev \in EventIDs
  BY <1>3, <1>4, ReqType
<1> QED
  BY <1>1, <1>5 DEF TypeOK, UpdateStatus, history

\* an outcome that could not be recorded,
LEMMA UpdateFailsType ==
    ASSUME TypeOK, NEW r \in Requests, UpdateFails(r)
    PROVE  TypeOK'
<1>1. req[r].outcome \in {"pending", "sent", "failed"}
  BY DEF TypeOK, RequestStates
<1>2. table' \in [Keys -> {"none", "pending", "sent", "failed"}]
  BY <1>1 DEF TypeOK, UpdateFails
<1> QED
  BY <1>2, RespondType, CallFailsType DEF TypeOK, UpdateFails, history

\* a caller that disconnects,
LEMMA ClientGoneType ==
    ASSUME TypeOK, NEW r \in Requests, ClientGone(r)
    PROVE  TypeOK'
<1> DEFINE h == [req[r] EXCEPT !.gone = TRUE]
<1>1. h \in RequestStates /\ h.ev \in EventIDs
  BY StateType DEF RequestStates, ClientGone, Active
<1>2. req' = [req EXCEPT ![r] = h]
  BY DEF ClientGone
<1> HIDE DEF h
<1>3. /\ req' \in [Requests -> RequestStates]
      /\ \A s \in Requests : Active(s)' => req'[s].ev \in EventIDs
  BY <1>1, <1>2, ReqType
<1> QED
  BY <1>1, <1>2, <1>3 DEF TypeOK, ClientGone, history

\* and a process that dies.
LEMMA CrashType ==
    ASSUME TypeOK, NEW S, Crash(S)
    PROVE  TypeOK'
<1>1. ASSUME NEW r \in Requests
      PROVE  req'[r] \in RequestStates /\ (Active(r)' => req'[r].ev \in EventIDs)
  <2>1. req[r] \in RequestStates
    BY DEF TypeOK
  <2>2. CASE r \in S
    BY <2>1, <2>2 DEF Crash, RequestStates, Active
  <2>3. CASE r \notin S
    BY <2>1, <2>3 DEF Crash, Active, TypeOK
  <2> QED
    BY <2>2, <2>3
<1>2. req' \in [Requests -> RequestStates]
  BY <1>1 DEF Crash
<1> QED
  BY <1>1, <1>2, FaultyType, UnlockedType DEF TypeOK, Crash, history

(***************************************************************************)
(* Positions: where a handler is in the route list of its event            *)
(***************************************************************************)
\* A handler starts with the first route and nothing inserted, walks the list
\* up to its end, is at a route while it dispatches one, and ends by an answer.
Positioned(r) ==
    /\ At(r, "idle") => req[r].k = 1 /\ req[r].inserted = {}
    /\ Active(r) => req[r].k <= Len(Routes(req[r].ev)) + 1
    /\ req[r].pc \in {"send", "mark"} => More(r)
    /\ req[r].inserted # {} => req[r].ev \in EventIDs
    /\ req[r].answer # "none" => At(r, "done")

PositionInv == \A r \in Requests : Positioned(r)

\* A handler that does not move stays where it is.
LEMMA PositionedStays ==
    ASSUME NEW s, Positioned(s), req'[s] = req[s]
    PROVE  Positioned(s)'
BY DEF Positioned, At, Active, More

\* Every step of a handler keeps it within its route list.
LEMMA PositionedStep ==
    ASSUME TypeOK, PositionInv, NEW r \in Requests,
           \/ \E e \in EventIDs : Receive(r, e)
           \/ \E e \in EventIDs \cup {None} : Refuse(r, e)
           \/ SendNotification(r)
           \/ ClientGone(r)
    PROVE  Positioned(r)' /\ Only(r)
<1>1. /\ Positioned(r) /\ req[r].k \in 1..3
      /\ Len(Routes(req[r].ev)) \in 1..2
  BY RouteFacts, StateType DEF PositionInv
<1>2. ASSUME NEW e \in EventIDs, Receive(r, e)
      PROVE  Positioned(r)' /\ Only(r)
  <2>1. Len(Routes(e)) \in 1..2
    BY RouteFacts
  <2>2. At(r, "idle")
    BY <1>2 DEF Receive
  <2>3. /\ Only(r) /\ req'[r].pc = "save" /\ req'[r].ev = e
        /\ req'[r].k = req[r].k /\ req'[r].inserted = req[r].inserted
        /\ req'[r].answer = req[r].answer
    BY <1>2, ReceiveEffect
  <2> QED
    BY <1>1, <2>1, <2>2, <2>3 DEF Positioned, At, Active, More
<1>3. ASSUME NEW e \in EventIDs \cup {None}, Refuse(r, e)
      PROVE  Positioned(r)' /\ Only(r)
  BY <1>1, <1>3, RefuseEffect DEF Refuse, Positioned, At, Active, More
<1>4. CASE Upsert(r)
  <2>1. req[r].ev \in EventIDs
    BY <1>4, StateType DEF Upsert, At, Active
  <2>2. At(r, "save") /\ More(r)
    BY <1>4 DEF Upsert
  <2>3. /\ Only(r) /\ req'[r].pc = req[r].pc /\ req'[r].ev = req[r].ev
        /\ req'[r].k = req[r].k + 1 /\ req'[r].answer = req[r].answer
    BY <1>4, UpsertEffect
  <2> QED
    BY <1>1, <2>1, <2>2, <2>3 DEF Positioned, At, Active, More
<1>5. CASE Commit(r)
  <2>1. At(r, "save")
    BY <1>5 DEF Commit
  <2> QED
    BY <1>1, <1>5, <2>1, CommitEffect DEF Positioned, At, Active, More
<1>6. CASE \E code : Respond(r, code)
  BY <1>1, <1>6, RespondEffect DEF Positioned, At, Active, More
<1>7. CASE Skip(r)
  <2>1. At(r, "dispatch") /\ More(r)
    BY <1>7 DEF Skip
  <2> QED
    BY <1>1, <1>7, <2>1, SkipEffect DEF Positioned, At, Active, More
<1>8. CASE StartDispatch(r)
  <2>1. At(r, "dispatch") /\ More(r)
    BY <1>8 DEF StartDispatch
  <2> QED
    BY <1>1, <1>8, <2>1, StartDispatchEffect DEF Positioned, At, Active, More
<1>9. CASE At(r, "send") /\ \E outcome : Dispatched(r, outcome)
  BY <1>1, <1>9, DispatchedEffect DEF Positioned, At, Active, More
<1>10. CASE At(r, "send") /\ req' = [req EXCEPT ![r].attempt = @ + 1]
  BY <1>1, <1>10, RetryEffect DEF Positioned, At, Active, More
<1>11. CASE UpdateStatus(r)
  <2>1. At(r, "mark")
    BY <1>11 DEF UpdateStatus
  <2> QED
    BY <1>1, <1>11, <2>1, UpdateStatusEffect DEF Positioned, At, Active, More
<1>12. CASE ClientGone(r)
  <2>1. Active(r)
    BY <1>12 DEF ClientGone
  <2> QED
    BY <1>1, <1>12, <2>1, ClientGoneEffect DEF Positioned, At, Active, More
<1>13. Send(r) => \/ At(r, "send") /\ \E outcome : Dispatched(r, outcome)
                  \/ At(r, "send") /\ req' = [req EXCEPT ![r].attempt = @ + 1]
  BY DEF Send
<1>14. BackoffCancelled(r) => At(r, "send") /\ \E outcome : Dispatched(r, outcome)
  BY DEF BackoffCancelled
<1>15. SaveFails(r) \/ CommitUnheard(r) \/ UpdateFails(r) \/ Created(r) => \E code : Respond(r, code)
  BY DEF SaveFails, CommitUnheard, UpdateFails, Created
<1> QED
  BY <1>2, <1>3, <1>4, <1>5, <1>6, <1>7, <1>8, <1>9, <1>10, <1>11, <1>12, <1>13,
     <1>14, <1>15 DEF SendNotification

\* A crash ends the requests it hits and moves no other.
LEMMA CrashEffect ==
    ASSUME TypeOK, NEW S, Crash(S), NEW r \in Requests
    PROVE  /\ r \notin S => req'[r] = req[r]
           /\ r \in S => req'[r].pc = "done" /\ req'[r].answer = "lost"
           /\ req'[r].ev = req[r].ev /\ req'[r].k = req[r].k
           /\ req'[r].inserted = req[r].inserted /\ req'[r].attempt = req[r].attempt
           /\ req'[r].outcome = req[r].outcome /\ req'[r].gone = req[r].gone
BY StateType DEF Crash, RequestStates

\* Every step keeps the types and every handler within its route list.
LEMMA TypeStep ==
    ASSUME TypeOK, PositionInv, [Next]_vars
    PROVE  TypeOK' /\ PositionInv'
<1>1. ASSUME NEW r \in Requests, SendNotification(r)
      PROVE  TypeOK'
  <2>1. CASE SaveFails(r)
    BY <2>1, RespondType, CallFailsType, UnlockedType
       DEF TypeOK, SaveFails, EndTransaction, history
  <2>2. CASE CommitUnheard(r)
    BY <2>2, RespondType, FaultyType, TableType, UnlockedType
       DEF TypeOK, CommitUnheard, EndTransaction, history
  <2>3. CASE BackoffCancelled(r)
    BY <2>3, DispatchedType DEF TypeOK, BackoffCancelled, history
  <2>4. CASE UpdateStatus(r)
    <3>1. More(r)
      BY <2>4 DEF UpdateStatus, At, PositionInv, Positioned
    <3> QED
      BY <2>4, <3>1, UpdateStatusType
  <2>5. CASE Created(r)
    BY <2>5, RespondType DEF TypeOK, Created, history
  <2> QED
    BY <1>1, <2>1, <2>2, <2>3, <2>4, <2>5, UpsertType, CommitType, SkipType,
       StartDispatchType, SendType, UpdateFailsType DEF SendNotification
<1>2. TypeOK'
  <2>1. CASE UNCHANGED vars
    BY <2>1 DEF TypeOK, vars, Active
  <2> QED
    BY <1>1, <2>1, ReceiveType, RefuseType, ClientGoneType, CrashType DEF Next
<1>3. PositionInv'
  <2> SUFFICES ASSUME NEW s \in Requests
               PROVE  Positioned(s)'
    BY DEF PositionInv
  <2>1. Positioned(s)
    BY DEF PositionInv
  <2>2. CASE req'[s] = req[s]
    BY <2>1, <2>2, PositionedStays
  <2>3. ASSUME NEW r \in Requests, Positioned(r)', Only(r)
        PROVE  Positioned(s)'
    BY <2>2, <2>3 DEF Only
  <2>4. ASSUME NEW S, Crash(S)
        PROVE  Positioned(s)'
    BY <2>1, <2>4, CrashEffect DEF Positioned, At, Active, More
  <2>5. CASE UNCHANGED vars
    BY <2>2, <2>5 DEF vars
  <2> QED
    BY <2>3, <2>4, <2>5, PositionedStep DEF Next
<1> QED
  BY <1>2, <1>3

\* The initial state is well typed.
LEMMA TypeInit ==
    ASSUME Init
    PROVE  TypeOK /\ PositionInv
<1>1. IdleRequest \in RequestStates
  BY BoundAssumption DEF IdleRequest, RequestStates
<1>2. \A r \in Requests : req[r] = IdleRequest
  BY DEF Init
<1>3. req \in [Requests -> RequestStates]
  BY <1>1 DEF Init
<1>4. \A r \in Requests : Active(r) => req[r].ev \in EventIDs
  BY <1>2 DEF Active, IdleRequest
<1>5. faults \in 0..MaxFaults
  BY BoundAssumption DEF Init
<1>6. TypeOK
  BY <1>3, <1>4, <1>5 DEF Init, TypeOK
<1> QED
  BY <1>2, <1>6 DEF PositionInv, Positioned, IdleRequest, At, Active

\* Every variable keeps to its type, and a handler past validation has an event.
THEOREM TypeCorrect == Spec => []TypeOK
<1>1. Init => TypeOK /\ PositionInv
  BY TypeInit
<1>2. TypeOK /\ PositionInv /\ [Next]_vars => TypeOK' /\ PositionInv'
  BY TypeStep
<1> QED
  BY <1>1, <1>2, PTL DEF Spec

\* Every handler is always within its route list.
LEMMA PositionCorrect == Spec => []PositionInv
<1>1. Init => TypeOK /\ PositionInv
  BY TypeInit
<1>2. TypeOK /\ PositionInv /\ [Next]_vars => TypeOK' /\ PositionInv'
  BY TypeStep
<1> QED
  BY <1>1, <1>2, PTL DEF Spec

(***************************************************************************)
(* Row locks                                                               *)
(***************************************************************************)
\* n is the record of a route that r has walked past.
KeyAt(r, j)  == <<req[r].ev, Routes(req[r].ev)[j]>>
Passed(r, n) == \E j \in 1..(req[r].k - 1) : n = KeyAt(r, j)

\* A row is locked only by a transaction that has upserted it, and what a
\* transaction has inserted is locked by it and not yet visible.
LockedBy(r, n)  == lock[n] = r => At(r, "save") /\ Passed(r, n)
Invisible(r, n) == At(r, "save") /\ n \in InsertedKeys(r) => lock[n] = r /\ table[n] = "none"

LockInv == \A r \in Requests, n \in Keys : LockedBy(r, n) /\ Invisible(r, n)

\* What a request has inserted are records of its event.
LEMMA InsertedType ==
    ASSUME TypeOK, PositionInv, NEW r \in Requests
    PROVE  InsertedKeys(r) \subseteq Keys
BY StateType DEF InsertedKeys, Keys, PositionInv, Positioned

\* A handler that keeps its event and its insertions keeps their records.
LEMMA InsertedStay ==
    ASSUME NEW r, req'[r].ev = req[r].ev, req'[r].inserted = req[r].inserted
    PROVE  InsertedKeys(r)' = InsertedKeys(r)
BY DEF InsertedKeys

\* One that also keeps its position has passed the same records.
LEMMA PassedStay ==
    ASSUME NEW r, req'[r].ev = req[r].ev, req'[r].k = req[r].k, NEW n
    PROVE  Passed(r, n)' <=> Passed(r, n)
BY DEF Passed, KeyAt

\* One that moves to the next route has passed one more.
LEMMA PassedNext ==
    ASSUME NEW r, req'[r].ev = req[r].ev, req[r].k \in 1..3, req'[r].k = req[r].k + 1, NEW n
    PROVE  Passed(r, n)' <=> Passed(r, n) \/ n = Key(r)
<1>1. ASSUME NEW k \in 1..3, NEW j
      PROVE  j \in 1..((k + 1) - 1) <=> j \in 1..(k - 1) \/ j = k
  OBVIOUS
<1>2. \A j : j \in 1..(req'[r].k - 1) <=> j \in 1..(req[r].k - 1) \/ j = req[r].k
  BY <1>1
<1> QED
  BY <1>2 DEF Passed, KeyAt, Key, Channel

\* An upsert locks the record it is at; if no row is there, it inserts one.
LEMMA UpsertKeys ==
    ASSUME TypeOK, NEW r \in Requests, Upsert(r)
    PROVE  /\ Key(r) \in Keys /\ lock[Key(r)] = None
           /\ lock' = [lock EXCEPT ![Key(r)] = r]
           /\ \A n : Passed(r, n)' <=> Passed(r, n) \/ n = Key(r)
           /\ InsertedKeys(r)' = IF IsNew(r) THEN InsertedKeys(r) \cup {Key(r)}
                                 ELSE InsertedKeys(r)
<1>1. req[r].ev \in EventIDs /\ More(r) /\ req[r].k \in 1..3
  BY StateType DEF Upsert, At, Active
<1>2. /\ req'[r].ev = req[r].ev /\ req'[r].k = req[r].k + 1
      /\ req'[r].inserted = IF IsNew(r) THEN req[r].inserted \cup {Channel(r)}
                            ELSE req[r].inserted
  BY UpsertEffect
<1>3. Key(r) \in Keys /\ lock[Key(r)] = None /\ lock' = [lock EXCEPT ![Key(r)] = r]
  BY <1>1, KeyType DEF Upsert
<1>4. \A n : Passed(r, n)' <=> Passed(r, n) \/ n = Key(r)
  BY <1>1, <1>2, PassedNext
<1>5. InsertedKeys(r)' = IF IsNew(r) THEN InsertedKeys(r) \cup {Key(r)} ELSE InsertedKeys(r)
  BY <1>2 DEF InsertedKeys, Key
<1> QED
  BY <1>3, <1>4, <1>5

\* A handler that does not move keeps the invariant for a record if the
\* record is not inserted or unlocked behind its back.
LEMMA LockStays ==
    ASSUME NEW s, NEW n, LockedBy(s, n), Invisible(s, n), req'[s] = req[s],
           lock'[n] = s <=> lock[n] = s,
           lock[n] = s => table'[n] = table[n]
    PROVE  LockedBy(s, n)' /\ Invisible(s, n)'
BY InsertedStay, PassedStay DEF LockedBy, Invisible, At

\* A handler outside a transaction holds no lock.
LEMMA LockNone ==
    ASSUME NEW s, NEW n, ~At(s, "save")', lock'[n] # s
    PROVE  LockedBy(s, n)' /\ Invisible(s, n)'
BY DEF LockedBy, Invisible

\* Every step keeps the discipline of the row locks.
LEMMA LockStep ==
    ASSUME TypeOK, PositionInv, LockInv, [Next]_vars, TypeOK', PositionInv'
    PROVE  LockInv'
<1> SUFFICES ASSUME NEW s \in Requests, NEW n \in Keys
             PROVE  LockedBy(s, n)' /\ Invisible(s, n)'
  BY DEF LockInv
<1>1. LockedBy(s, n) /\ Invisible(s, n) /\ s # None /\ lock[n] \in Requests \cup {None}
  BY NoneAssumption DEF LockInv, TypeOK
\* Steps that leave the locks and the locked rows alone.
<1>2. ASSUME NEW r \in Requests, Only(r), ~At(r, "save"), ~At(r, "save")', lock'[n] = lock[n],
             lock[n] # None => table'[n] = table[n]
      PROVE  LockedBy(s, n)' /\ Invisible(s, n)'
  <2>1. CASE s = r
    BY <1>1, <1>2, <2>1, LockNone DEF LockedBy
  <2>2. CASE s # r
    BY <1>1, <1>2, <2>2, LockStays DEF Only
  <2> QED
    BY <2>1, <2>2
\* Steps that end the transactions of S.
<1>3. ASSUME NEW S, \A r \in S : ~At(r, "save")', \A r \in Requests \ S : req'[r] = req[r],
             lock' = Unlocked(S), lock[n] \notin S => table'[n] = table[n]
      PROVE  LockedBy(s, n)' /\ Invisible(s, n)'
  <2>1. lock'[n] = IF lock[n] \in S THEN None ELSE lock[n]
    BY <1>3 DEF Unlocked
  <2>2. CASE s \in S
    BY <1>1, <1>3, <2>1, <2>2, LockNone
  <2>3. CASE s \notin S
    BY <1>1, <1>3, <2>1, <2>3, LockStays
  <2> QED
    BY <2>2, <2>3
<1>4. ASSUME NEW r \in Requests, NEW e \in EventIDs, Receive(r, e)
      PROVE  LockedBy(s, n)' /\ Invisible(s, n)'
  <2>1. /\ Only(r) /\ req'[r].inserted = {} /\ At(r, "idle")
        /\ lock' = lock /\ table' = table
    BY <1>4, ReceiveEffect DEF Receive, PositionInv, Positioned
  <2>2. CASE s = r
    <3>1. lock[n] # s /\ InsertedKeys(s)' = {}
      BY <1>1, <2>1, <2>2 DEF LockedBy, At, InsertedKeys
    <3> QED
      BY <2>1, <3>1 DEF LockedBy, Invisible
  <2>3. CASE s # r
    BY <1>1, <2>1, <2>3, LockStays DEF Only
  <2> QED
    BY <2>2, <2>3
<1>5. ASSUME NEW r \in Requests, NEW e \in EventIDs \cup {None}, Refuse(r, e)
      PROVE  LockedBy(s, n)' /\ Invisible(s, n)'
  BY <1>2, <1>5, RefuseEffect DEF Refuse, At
<1>6. ASSUME NEW r \in Requests, Upsert(r)
      PROVE  LockedBy(s, n)' /\ Invisible(s, n)'
  <2>1. /\ Key(r) \in Keys /\ lock[Key(r)] = None /\ table' = table
        /\ lock'[n] = IF n = Key(r) THEN r ELSE lock[n]
        /\ IsNew(r) <=> table[Key(r)] = "none"
    BY <1>6, UpsertKeys DEF TypeOK, Upsert, IsNew
  <2>2. Only(r) /\ At(r, "save") /\ At(r, "save")'
    BY <1>6, UpsertEffect DEF Upsert, At
  <2>3. CASE s = r
    <3>1. LockedBy(s, n)'
      BY <1>1, <1>6, <2>1, <2>2, <2>3, UpsertKeys DEF LockedBy
    <3>2. Invisible(s, n)'
      BY <1>1, <1>6, <2>1, <2>2, <2>3, UpsertKeys DEF Invisible
    <3> QED
      BY <3>1, <3>2
  <2>4. CASE s # r
    BY <1>1, <2>1, <2>2, <2>4, LockStays DEF Only
  <2> QED
    BY <2>3, <2>4
\* The rows that a COMMIT writes are locked by its own transaction.
<1>7. ASSUME NEW r \in Requests, At(r, "save"), WriteInserted(r), lock[n] # r
      PROVE  table'[n] = table[n]
  BY <1>7 DEF WriteInserted, LockInv, Invisible
<1>8. ASSUME NEW r \in Requests, Only(r), EndTransaction(r), At(r, "save"), ~At(r, "save")',
             table' = table \/ WriteInserted(r)
      PROVE  LockedBy(s, n)' /\ Invisible(s, n)'
  <2> DEFINE S == {r}
  <2>1. \A q \in S : ~At(q, "save")'
    BY <1>8
  <2>2. \A q \in Requests \ S : req'[q] = req[q]
    BY <1>8 DEF Only
  <2>3. lock' = Unlocked(S)
    BY <1>8 DEF EndTransaction
  <2>4. lock[n] \notin S => table'[n] = table[n]
    BY <1>7, <1>8
  <2> HIDE DEF S
  <2> QED
    BY <1>3, <2>1, <2>2, <2>3, <2>4
<1>9. ASSUME NEW r \in Requests, SendNotification(r)
      PROVE  LockedBy(s, n)' /\ Invisible(s, n)'
  <2>1. CASE Commit(r)
    BY <1>8, <2>1, CommitEffect DEF Commit, At
  <2>2. CASE SaveFails(r) \/ CommitUnheard(r)
    <3>1. PICK code : Respond(r, code)
      BY <2>2 DEF SaveFails, CommitUnheard
    <3> QED
      BY <1>8, <2>2, <3>1, RespondEffect DEF SaveFails, CommitUnheard, At
  <2>3. CASE Skip(r)
    BY <1>2, <2>3, SkipEffect DEF Skip, At
  <2>4. CASE StartDispatch(r)
    BY <1>2, <2>4, StartDispatchEffect DEF StartDispatch, At
  <2>5. CASE Send(r) \/ BackoffCancelled(r)
    <3>1. At(r, "send") /\ lock' = lock /\ table' = table
      BY <2>5 DEF Send, BackoffCancelled, history
    <3>2. CASE \E outcome : Dispatched(r, outcome)
      BY <1>2, <3>1, <3>2, DispatchedEffect DEF At
    <3>3. CASE req' = [req EXCEPT ![r].attempt = @ + 1]
      BY <1>2, <3>1, <3>3, RetryEffect DEF At
    <3> QED
      BY <2>5, <3>2, <3>3 DEF Send, BackoffCancelled
  <2>6. CASE UpdateStatus(r)
    <3>1. lock' = lock /\ (lock[n] # None => table'[n] = table[n])
      BY <2>6 DEF UpdateStatus, TypeOK
    <3> QED
      BY <1>2, <2>6, <3>1, UpdateStatusEffect DEF UpdateStatus, At
  <2>7. CASE UpdateFails(r)
    <3>1. lock' = lock /\ (lock[n] # None => table'[n] = table[n])
      BY <2>7 DEF UpdateFails, TypeOK
    <3> QED
      BY <1>2, <2>7, <3>1, RespondEffect DEF UpdateFails, At
  <2>8. CASE Created(r)
    BY <1>2, <2>8, RespondEffect DEF Created, At
  <2> QED
    BY <1>6, <1>9, <2>1, <2>2, <2>3, <2>4, <2>5, <2>6, <2>7, <2>8 DEF SendNotification
<1>10. ASSUME NEW r \in Requests, ClientGone(r)
       PROVE  LockedBy(s, n)' /\ Invisible(s, n)'
  <2>1. /\ Only(r) /\ lock' = lock /\ table' = table
        /\ At(r, "save")' = At(r, "save")
        /\ InsertedKeys(r)' = InsertedKeys(r)
        /\ Passed(r, n)' <=> Passed(r, n)
    BY <1>10, ClientGoneEffect, InsertedStay, PassedStay DEF ClientGone, At
  <2>2. CASE s = r
    BY <1>1, <2>1, <2>2 DEF LockedBy, Invisible
  <2>3. CASE s # r
    BY <1>1, <2>1, <2>3, LockStays DEF Only
  <2> QED
    BY <2>2, <2>3
<1>11. ASSUME NEW S \in SUBSET {r \in Requests : Active(r)}, Crash(S)
       PROVE  LockedBy(s, n)' /\ Invisible(s, n)'
  <2>1. \A r \in S : ~At(r, "save")'
    BY <1>11, CrashEffect DEF At
  <2>2. \A r \in Requests \ S : req'[r] = req[r]
    BY <1>11, CrashEffect
  <2> QED
    BY <1>3, <1>11, <2>1, <2>2 DEF Crash
<1>12. CASE UNCHANGED vars
  BY <1>1, <1>12, LockStays DEF vars
<1> QED
  BY <1>4, <1>5, <1>9, <1>10, <1>11, <1>12 DEF Next

\* At the start no row is locked.
LEMMA LockInit == Init => LockInv
BY NoneAssumption DEF Init, LockInv, LockedBy, Invisible, IdleRequest, At

\* Rows are locked only by the transactions that upserted them.
LEMMA LockCorrect == Spec => []LockInv
<1>1. Init => LockInv
  BY LockInit
<1>2. LockInv /\ TypeOK /\ TypeOK' /\ PositionInv /\ PositionInv' /\ [Next]_vars => LockInv'
  BY LockStep
<1> QED
  BY <1>1, <1>2, TypeCorrect, PositionCorrect, PTL DEF Spec

\* Whoever holds the row that a request waits for is further in the same list.
LEMMA WaitsFromLocks ==
    ASSUME TypeOK, PositionInv, LockInv
    PROVE  WaitsAreOrdered
<1> SUFFICES ASSUME NEW r \in Requests, NEW s \in Requests, Awaits(r, s)
             PROVE  At(s, "save") /\ req[s].k > req[r].k
  BY DEF WaitsAreOrdered
<1>1. More(r) /\ req[r].ev \in EventIDs /\ lock[Key(r)] = s
  BY StateType DEF Awaits, PositionInv, Positioned, At, Active
<1>2. Key(r) \in Keys /\ req[r].k \in 1..Len(Routes(req[r].ev))
  BY <1>1, KeyType
<1>3. At(s, "save") /\ Passed(s, Key(r))
  BY <1>1, <1>2 DEF LockInv, LockedBy
<1>4. PICK j \in 1..(req[s].k - 1) : Key(r) = KeyAt(s, j)
  BY <1>3 DEF Passed
<1>5. /\ req[s].k \in 1..3 /\ req[s].ev \in EventIDs
      /\ req[s].k <= Len(Routes(req[s].ev)) + 1
  BY <1>3, StateType DEF PositionInv, Positioned, At, Active
<1>6. Len(Routes(req[s].ev)) \in 1..2
  BY RouteFacts
<1>7. req[r].ev = req[s].ev /\ Routes(req[r].ev)[req[r].k] = Routes(req[s].ev)[j]
  BY <1>4 DEF Key, Channel, KeyAt
<1>8. j \in 1..Len(Routes(req[s].ev))
  BY <1>5, <1>6
<1>9. req[r].k = j
  BY <1>2, <1>7, <1>8, RouteFacts
<1> QED
  BY <1>3, <1>5, <1>9

\* Requests that wait for one another never deadlock: a request waits only for
\* one that is further in the same route list and on its way to COMMIT.
THEOREM WaitsOrdered == Spec => []WaitsAreOrdered
<1>1. TypeOK /\ PositionInv /\ LockInv => WaitsAreOrdered
  BY WaitsFromLocks
<1> QED
  BY <1>1, TypeCorrect, PositionCorrect, LockCorrect, PTL

(***************************************************************************)
(* Who changes what                                                        *)
(***************************************************************************)
\* A handler moves by a step of its own or by the crash of its process.
LEMMA OwnStep ==
    ASSUME TypeOK, PositionInv, [Next]_vars, NEW q \in Requests
    PROVE  \/ req'[q] = req[q]
           \/ \E e \in EventIDs : Receive(q, e)
           \/ \E e \in EventIDs \cup {None} : Refuse(q, e)
           \/ SendNotification(q)
           \/ ClientGone(q)
           \/ \E S \in SUBSET Requests : Crash(S) /\ q \in S /\ Active(q)
<1>1. ASSUME NEW r \in Requests,
             \/ \E e \in EventIDs : Receive(r, e)
             \/ \E e \in EventIDs \cup {None} : Refuse(r, e)
             \/ SendNotification(r)
             \/ ClientGone(r)
      PROVE  r = q \/ req'[q] = req[q]
  BY <1>1, PositionedStep DEF Only
<1>2. ASSUME NEW S \in SUBSET {r \in Requests : Active(r)}, Crash(S)
      PROVE  req'[q] = req[q] \/ (q \in S /\ Active(q))
  <2>1. q \in S => Active(q)
    OBVIOUS
  <2>2. q \notin S => req'[q] = req[q]
    BY <1>2, CrashEffect
  <2> QED
    BY <2>1, <2>2
<1>3. CASE UNCHANGED vars
  BY <1>3 DEF vars
<1> QED
  BY <1>1, <1>2, <1>3 DEF Next

Dispatching(r) == req[r].pc \in {"send", "mark"}
Serving(r)     == At(r, "dispatch") \/ Dispatching(r)

\* The steps that end a handler: it keeps what it has inserted.
LEMMA DoneStep ==
    ASSUME TypeOK, PositionInv, [Next]_vars, NEW q \in Requests, At(q, "done")'
    PROVE  \/ req'[q] = req[q]
           \/ At(q, "idle") /\ req'[q].answer = "400" /\ req'[q].inserted = {}
              /\ \E e \in EventIDs \cup {None} : Refuse(q, e) /\ req'[q].ev = e
           \/ /\ Active(q) /\ req'[q].ev = req[q].ev /\ req'[q].inserted = req[q].inserted
              /\ req'[q].gone = req[q].gone
              /\ req'[q].answer \in {"500", "lost"} \/ (req'[q].answer = "201" /\ Created(q))
<1>1. ASSUME NEW e \in EventIDs \cup {None}, Refuse(q, e)
      PROVE  /\ At(q, "idle") /\ req'[q].answer = "400" /\ req'[q].inserted = {}
             /\ req'[q].ev = e
  BY <1>1, RefuseEffect DEF Refuse, PositionInv, Positioned
<1>2. ASSUME NEW e \in EventIDs, Receive(q, e)
      PROVE  FALSE
  BY <1>2, ReceiveEffect DEF At
<1>3. ASSUME SendNotification(q)
      PROVE  /\ Active(q) /\ req'[q].ev = req[q].ev /\ req'[q].inserted = req[q].inserted
             /\ req'[q].gone = req[q].gone
             /\ req'[q].answer = "500" \/ (req'[q].answer = "201" /\ Created(q))
  <2>1. CASE SaveFails(q) \/ CommitUnheard(q) \/ UpdateFails(q)
    <3>1. Respond(q, "500") /\ Active(q)
      BY <2>1 DEF SaveFails, CommitUnheard, UpdateFails, At, Active
    <3> QED
      BY <3>1, RespondEffect
  <2>2. CASE Created(q)
    <3>1. Respond(q, "201") /\ Active(q)
      BY <2>2 DEF Created, At, Active
    <3> QED
      BY <2>2, <3>1, RespondEffect
  <2>3. CASE Upsert(q) \/ Skip(q)
    BY <2>3, UpsertEffect, SkipEffect DEF Upsert, Skip, At
  <2>4. CASE Commit(q) \/ StartDispatch(q) \/ UpdateStatus(q)
    BY <2>4, CommitEffect, StartDispatchEffect, UpdateStatusEffect DEF At
  <2>5. CASE Send(q) \/ BackoffCancelled(q)
    <3>1. \/ \E outcome : Dispatched(q, outcome)
          \/ At(q, "send") /\ req' = [req EXCEPT ![q].attempt = @ + 1]
      BY <2>5 DEF Send, BackoffCancelled
    <3> QED
      BY <3>1, DispatchedEffect, RetryEffect DEF At
  <2> QED
    BY <1>3, <2>1, <2>2, <2>3, <2>4, <2>5 DEF SendNotification
<1>4. ASSUME ClientGone(q)
      PROVE  FALSE
  BY <1>4, ClientGoneEffect DEF ClientGone, At, Active
<1>5. ASSUME NEW S \in SUBSET Requests, Crash(S), q \in S
      PROVE  /\ req'[q].ev = req[q].ev /\ req'[q].inserted = req[q].inserted
             /\ req'[q].gone = req[q].gone /\ req'[q].answer = "lost"
  BY <1>5, CrashEffect
<1> QED
  BY <1>1, <1>2, <1>3, <1>4, <1>5, OwnStep

\* A handler in its transaction got there by a valid request or an upsert.
LEMMA SavingStep ==
    ASSUME TypeOK, PositionInv, [Next]_vars, NEW q \in Requests, At(q, "save")'
    PROVE  \/ /\ At(q, "save") /\ ~Upsert(q)
              /\ req'[q].ev = req[q].ev /\ req'[q].k = req[q].k
              /\ req'[q].inserted = req[q].inserted
           \/ At(q, "save") /\ Upsert(q)
           \/ /\ req'[q].k = 1 /\ req'[q].inserted = {}
              /\ \E e \in EventIDs : Receive(q, e) /\ req'[q].ev = e
<1>1. ASSUME NEW e \in EventIDs, Receive(q, e)
      PROVE  req'[q].k = 1 /\ req'[q].inserted = {} /\ req'[q].ev = e
  BY <1>1, ReceiveEffect DEF Receive, PositionInv, Positioned
<1>2. ASSUME NEW e \in EventIDs \cup {None}, Refuse(q, e)
      PROVE  FALSE
  BY <1>2, RefuseEffect DEF At
<1>3. CASE SendNotification(q)
  <2>1. CASE \E code : Respond(q, code)
    BY <2>1, RespondEffect DEF At
  <2>2. CASE Upsert(q)
    BY <2>2 DEF Upsert
  <2>3. CASE Skip(q)
    BY <2>3, SkipEffect DEF Skip, At
  <2>4. CASE Commit(q) \/ StartDispatch(q) \/ UpdateStatus(q)
    BY <2>4, CommitEffect, StartDispatchEffect, UpdateStatusEffect DEF At
  <2>5. CASE Send(q) \/ BackoffCancelled(q)
    <3>1. \/ \E outcome : Dispatched(q, outcome)
          \/ At(q, "send") /\ req' = [req EXCEPT ![q].attempt = @ + 1]
      BY <2>5 DEF Send, BackoffCancelled
    <3> QED
      BY <3>1, DispatchedEffect, RetryEffect DEF At
  <2> QED
    BY <1>3, <2>1, <2>2, <2>3, <2>4, <2>5
       DEF SendNotification, SaveFails, CommitUnheard, UpdateFails, Created
<1>4. CASE ClientGone(q)
  <2>1. /\ req'[q].pc = req[q].pc /\ req'[q].ev = req[q].ev /\ req'[q].k = req[q].k
        /\ req'[q].inserted = req[q].inserted
    BY <1>4, ClientGoneEffect
  <2> QED
    BY <2>1 DEF At
<1>5. ASSUME NEW S \in SUBSET Requests, Crash(S), q \in S
      PROVE  FALSE
  BY <1>5, CrashEffect DEF At
<1> QED
  BY <1>1, <1>2, <1>3, <1>4, <1>5, OwnStep DEF At

\* A handler past its transaction keeps its event and what it has inserted; it
\* got to where it is by COMMIT, along the loop, or it has not moved.
LEMMA ServingStep ==
    ASSUME TypeOK, PositionInv, [Next]_vars, NEW q \in Requests, Serving(q)'
    PROVE  /\ req'[q].ev = req[q].ev /\ req'[q].inserted = req[q].inserted
           /\ \/ Commit(q) /\ At(q, "dispatch")' /\ req'[q].k = 1
              \/ Skip(q) /\ At(q, "dispatch")' /\ req'[q].k = req[q].k + 1
              \/ UpdateStatus(q) /\ At(q, "dispatch")' /\ req'[q].k = req[q].k + 1
              \/ /\ StartDispatch(q) /\ At(q, "send")' /\ req'[q].k = req[q].k
                 /\ req'[q].attempt = 0
              \/ /\ Send(q) /\ At(q, "send") /\ Dispatching(q)' /\ req'[q].k = req[q].k
                 /\ req'[q].gone = req[q].gone
              \/ /\ BackoffCancelled(q) /\ At(q, "send") /\ At(q, "mark")'
                 /\ req'[q].k = req[q].k /\ req'[q].gone = req[q].gone
                 /\ req'[q].outcome = "failed"
              \/ /\ Serving(q) /\ req'[q].pc = req[q].pc /\ req'[q].k = req[q].k
                 /\ req'[q].attempt = req[q].attempt /\ req'[q].outcome = req[q].outcome
                 /\ req'[q].gone = req[q].gone \/ req'[q].gone = TRUE
                 /\ ~SendNotification(q)
<1> USE DEF At, Dispatching, Serving
<1>1. ASSUME NEW e \in EventIDs, Receive(q, e)
      PROVE  FALSE
  BY <1>1, ReceiveEffect
<1>2. ASSUME NEW e \in EventIDs \cup {None}, Refuse(q, e)
      PROVE  FALSE
  BY <1>2, RefuseEffect
<1>3. ASSUME \E code : Respond(q, code)
      PROVE  FALSE
  BY <1>3, RespondEffect
<1>4. ASSUME Upsert(q)
      PROVE  FALSE
  BY <1>4, UpsertEffect DEF Upsert
<1>5. CASE Commit(q)
  BY <1>5, CommitEffect
<1>6. CASE Skip(q)
  <2>1. At(q, "dispatch")
    BY <1>6 DEF Skip
  <2> QED
    BY <1>6, <2>1, SkipEffect
<1>7. CASE StartDispatch(q)
  BY <1>7, StartDispatchEffect
<1>8. CASE Send(q)
  <2>1. /\ At(q, "send")
        /\ \/ \E outcome : Dispatched(q, outcome)
           \/ req' = [req EXCEPT ![q].attempt = @ + 1]
    BY <1>8 DEF Send
  <2> QED
    BY <1>8, <2>1, DispatchedEffect, RetryEffect
<1>9. CASE BackoffCancelled(q)
  <2>1. At(q, "send") /\ Dispatched(q, "failed")
    BY <1>9 DEF BackoffCancelled
  <2> QED
    BY <1>9, <2>1, DispatchedEffect
<1>10. CASE UpdateStatus(q)
  BY <1>10, UpdateStatusEffect
<1>11. CASE ClientGone(q) /\ ~SendNotification(q)
  <2>1. /\ req'[q].ev = req[q].ev /\ req'[q].inserted = req[q].inserted
        /\ req'[q].pc = req[q].pc /\ req'[q].k = req[q].k
        /\ req'[q].attempt = req[q].attempt /\ req'[q].outcome = req[q].outcome
    BY <1>11, ClientGoneEffect
  <2>2. req'[q].gone = TRUE
    BY <1>11, ClientGoneEffect
  <2> QED
    BY <1>11, <2>1, <2>2
<1>12. ASSUME NEW S \in SUBSET Requests, Crash(S), q \in S
       PROVE  FALSE
  BY <1>12, CrashEffect
<1> HIDE DEF At, Dispatching, Serving
<1>13. CASE SendNotification(q)
  BY <1>3, <1>4, <1>5, <1>6, <1>7, <1>8, <1>9, <1>10, <1>13
     DEF SendNotification, SaveFails, CommitUnheard, UpdateFails, Created
<1>14. CASE req'[q] = req[q] /\ ~SendNotification(q)
  BY <1>14 DEF Serving, Dispatching, At
<1> QED
  BY <1>1, <1>2, <1>11, <1>12, <1>13, <1>14, OwnStep

\* The rows of table notifications change by a COMMIT, which makes the rows of
\* its transaction visible, and by the UPDATE of a handler that marks them.
LEMMA TableStep ==
    ASSUME TypeOK, PositionInv, LockInv, [Next]_vars, NEW n \in Keys
    PROVE  \/ table'[n] = table[n]
           \/ \E r \in Requests : /\ Commit(r) \/ CommitUnheard(r)
                                  /\ n \in InsertedKeys(r) /\ lock[n] = r
                                  /\ table[n] = "none" /\ table'[n] = "pending"
           \/ \E r \in Requests : /\ UpdateStatus(r) \/ UpdateFails(r)
                                  /\ At(r, "mark") /\ n = Key(r)
                                  /\ table'[n] = req[r].outcome
<1>1. ASSUME NEW r \in Requests, Commit(r) \/ CommitUnheard(r)
      PROVE  \/ table'[n] = table[n]
             \/ /\ n \in InsertedKeys(r) /\ lock[n] = r
                /\ table[n] = "none" /\ table'[n] = "pending"
  <2>1. WriteInserted(r) /\ At(r, "save")
    BY <1>1 DEF Commit, CommitUnheard
  <2> QED
    BY <2>1 DEF WriteInserted, LockInv, Invisible
<1>2. ASSUME NEW r \in Requests, UpdateStatus(r) \/ UpdateFails(r)
      PROVE  \/ table'[n] = table[n]
             \/ At(r, "mark") /\ n = Key(r) /\ table'[n] = req[r].outcome
  BY <1>2 DEF UpdateStatus, UpdateFails, TypeOK
<1>3. CASE UNCHANGED table
  BY <1>3
<1>4. ASSUME NEW r \in Requests, SendNotification(r),
             ~(Commit(r) \/ CommitUnheard(r)), ~(UpdateStatus(r) \/ UpdateFails(r))
      PROVE  UNCHANGED table
  BY <1>4 DEF SendNotification, Upsert, SaveFails, Skip, StartDispatch, Send,
              BackoffCancelled, Created, history
<1>5. ASSUME NEW r \in Requests,
             \/ \E e \in EventIDs : Receive(r, e)
             \/ \E e \in EventIDs \cup {None} : Refuse(r, e)
             \/ ClientGone(r)
      PROVE  UNCHANGED table
  BY <1>5 DEF Receive, Refuse, ClientGone, history
<1>6. ASSUME NEW S, Crash(S)
      PROVE  UNCHANGED table
  BY <1>6 DEF Crash
<1> QED
  BY <1>1, <1>2, <1>3, <1>4, <1>5, <1>6 DEF Next, vars

\* The histories change by the dispatch of a record that was inserted.
LEMMA HistoryStep ==
    ASSUME TypeOK, PositionInv, [Next]_vars, NEW n \in Keys
    PROVE  \/ senders'[n] = senders[n] /\ delivered'[n] = delivered[n] /\ errors'[n] = errors[n]
           \/ \E r \in Requests : /\ StartDispatch(r) /\ n = Key(r)
                                  /\ senders'[n] = senders[n] \cup {r}
                                  /\ delivered'[n] = delivered[n] /\ errors'[n] = errors[n]
           \/ \E r \in Requests : Send(r) /\ n = Key(r) /\ senders'[n] = senders[n]
<1>1. ASSUME NEW r \in Requests, StartDispatch(r)
      PROVE  /\ senders'[n] = IF n = Key(r) THEN senders[n] \cup {r} ELSE senders[n]
             /\ delivered'[n] = delivered[n] /\ errors'[n] = errors[n]
  BY <1>1 DEF StartDispatch, TypeOK
<1>2. ASSUME NEW r \in Requests, Send(r), n # Key(r)
      PROVE  delivered'[n] = delivered[n] /\ errors'[n] = errors[n]
  <2>1. delivered'[n] = delivered[n]
    BY <1>2 DEF Send, TypeOK
  <2>2. errors'[n] = errors[n]
    BY <1>2 DEF Send, TypeOK
  <2> QED
    BY <2>1, <2>2
<1>3. ASSUME NEW r \in Requests, Send(r)
      PROVE  senders'[n] = senders[n]
  BY <1>3 DEF Send
<1>4. CASE UNCHANGED history
  BY <1>4 DEF history
<1>5. ASSUME NEW r \in Requests, SendNotification(r), ~StartDispatch(r), ~Send(r)
      PROVE  UNCHANGED history
  BY <1>5 DEF SendNotification, Upsert, Commit, SaveFails, CommitUnheard, Skip,
              BackoffCancelled, UpdateStatus, UpdateFails, Created
<1>6. ASSUME NEW r \in Requests,
             \/ \E e \in EventIDs : Receive(r, e)
             \/ \E e \in EventIDs \cup {None} : Refuse(r, e)
             \/ ClientGone(r)
      PROVE  UNCHANGED history
  BY <1>6 DEF Receive, Refuse, ClientGone
<1>7. ASSUME NEW S, Crash(S)
      PROVE  UNCHANGED history
  BY <1>7 DEF Crash
<1>8. CASE UNCHANGED vars
  BY <1>4, <1>8 DEF vars, history
<1>9. ASSUME NEW r \in Requests, SendNotification(r)
      PROVE  UNCHANGED history \/ StartDispatch(r) \/ Send(r)
  BY <1>5, <1>9
<1>10. UNCHANGED history \/ \E r \in Requests : StartDispatch(r) \/ Send(r)
  BY <1>6, <1>7, <1>8, <1>9 DEF Next, vars, history
<1> QED
  BY <1>1, <1>2, <1>3, <1>4, <1>10

(***************************************************************************)
(* Whose record it is                                                      *)
(***************************************************************************)
\* What a handler past its transaction has inserted is visible, and nobody else
\* has begun to dispatch it.
Owns(r, n) == Serving(r) /\ n \in InsertedKeys(r) => table[n] # "none" /\ senders[n] \subseteq {r}

\* No two handlers past their transactions have inserted the same record.
Exclusive(r, s, n) ==
    Serving(r) /\ Serving(s) /\ n \in InsertedKeys(r) /\ n \in InsertedKeys(s) => r = s

\* A record exists before somebody dispatches it, and one request does.
SentOnce(n) ==
    /\ senders[n] # {} => table[n] # "none"
    /\ \A r, s \in senders[n] : r = s

OwnerInv ==
    /\ \A r \in Requests, n \in Keys : Owns(r, n)
    /\ \A r, s \in Requests, n \in Keys : Exclusive(r, s, n)
    /\ \A n \in Keys : SentOnce(n)
    /\ \A r \in Requests : Dispatching(r) => Key(r) \in InsertedKeys(r)

\* A row that is there stays there.
LEMMA RowStays ==
    ASSUME TypeOK, PositionInv, LockInv, [Next]_vars, NEW n \in Keys, table[n] # "none"
    PROVE  table'[n] # "none"
BY TableStep, StateType

\* A handler that dispatches a record has inserted it.
LEMMA StartOwns ==
    ASSUME TypeOK, NEW r \in Requests, StartDispatch(r)
    PROVE  /\ Serving(r) /\ Key(r) \in InsertedKeys(r) /\ Key(r) \in Keys
           /\ More(r) /\ req[r].ev \in EventIDs
<1>1. At(r, "dispatch") /\ More(r) /\ IsMine(r)
  BY DEF StartDispatch
<1>2. req[r].ev \in EventIDs
  BY <1>1, StateType DEF At, Active
<1> QED
  BY <1>1, <1>2, KeyType DEF Serving, IsMine, InsertedKeys, Key

\* Every step keeps the ownership of records.
LEMMA OwnerStep ==
    ASSUME TypeOK, PositionInv, LockInv, OwnerInv, [Next]_vars
    PROVE  OwnerInv'
\* Who is past its transaction was there before, or has just committed: then
\* what it inserted was invisible, and belonged to nobody.
<1>1. ASSUME NEW q \in Requests, NEW n \in Keys, Serving(q)', (n \in InsertedKeys(q))'
      PROVE  /\ n \in InsertedKeys(q)
             /\ \/ Serving(q)
                \/ /\ Commit(q) /\ table[n] = "none" /\ table'[n] = "pending"
                   /\ senders[n] = {}
  <2>1. n \in InsertedKeys(q) /\ (Serving(q) \/ Commit(q))
    <3>1. InsertedKeys(q)' = InsertedKeys(q)
      BY <1>1, ServingStep, InsertedStay
    <3>2. Skip(q) \/ UpdateStatus(q) \/ StartDispatch(q) \/ At(q, "send") => Serving(q)
      BY DEF Skip, UpdateStatus, StartDispatch, Serving, Dispatching, At
    <3> QED
      BY <1>1, <3>1, <3>2, ServingStep
  <2>2. CASE Commit(q)
    <3>1. table[n] = "none"
      BY <2>1, <2>2 DEF Commit, LockInv, Invisible
    <3>2. table'[n] = "pending"
      BY <2>1, <2>2 DEF Commit, WriteInserted
    <3>3. senders[n] = {}
      BY <3>1 DEF OwnerInv, SentOnce
    <3> QED
      BY <2>1, <2>2, <3>1, <3>2, <3>3
  <2> QED
    BY <2>1, <2>2
<1>2. ASSUME NEW n \in Keys
      PROVE  SentOnce(n)'
  <2>1. CASE senders'[n] = senders[n]
    BY <2>1, RowStays DEF OwnerInv, SentOnce
  <2>2. ASSUME NEW r \in Requests, StartDispatch(r), n = Key(r), senders'[n] = senders[n] \cup {r}
        PROVE  SentOnce(n)'
    <3>1. senders[n] \subseteq {r} /\ table[n] # "none"
      BY <2>2, StartOwns DEF OwnerInv, Owns
    <3> QED
      BY <2>2, <3>1, RowStays DEF SentOnce
  <2> QED
    BY <2>1, <2>2, HistoryStep
<1>3. ASSUME NEW q \in Requests, NEW n \in Keys
      PROVE  Owns(q, n)'
  <2> SUFFICES ASSUME Serving(q)', (n \in InsertedKeys(q))'
               PROVE  table'[n] # "none" /\ senders'[n] \subseteq {q}
    BY DEF Owns
  <2>1. /\ n \in InsertedKeys(q)
        /\ \/ Serving(q)
           \/ Commit(q) /\ table[n] = "none" /\ table'[n] = "pending" /\ senders[n] = {}
    BY <1>1
  <2>2. table'[n] # "none" /\ senders[n] \subseteq {q}
    BY <2>1, RowStays DEF OwnerInv, Owns
  <2>3. ASSUME NEW r \in Requests, StartDispatch(r), n = Key(r)
        PROVE  r = q
    <3>1. Serving(r) /\ n \in InsertedKeys(r)
      BY <2>3, StartOwns
    <3>2. table[n] # "none"
      BY <3>1 DEF OwnerInv, Owns
    <3> QED
      BY <2>1, <3>1, <3>2 DEF OwnerInv, Exclusive
  <2> QED
    BY <2>2, <2>3, HistoryStep
<1>4. ASSUME NEW q \in Requests, NEW s \in Requests, NEW n \in Keys
      PROVE  Exclusive(q, s, n)'
  <2> SUFFICES ASSUME Serving(q)', Serving(s)', (n \in InsertedKeys(q))', (n \in InsertedKeys(s))'
               PROVE  q = s
    BY DEF Exclusive
  <2>1. /\ n \in InsertedKeys(q) /\ n \in InsertedKeys(s)
        /\ Serving(q) \/ (Commit(q) /\ table[n] = "none")
        /\ Serving(s) \/ (Commit(s) /\ table[n] = "none")
    BY <1>1
  <2>2. CASE Serving(q) /\ Serving(s)
    BY <2>1, <2>2 DEF OwnerInv, Exclusive
  <2>3. CASE table[n] = "none"
    <3>1. Commit(q) /\ Commit(s)
      BY <2>1, <2>3 DEF OwnerInv, Owns
    <3>2. lock[n] = q /\ lock[n] = s
      BY <2>1, <3>1 DEF Commit, LockInv, Invisible
    <3> QED
      BY <3>2
  <2> QED
    BY <2>1, <2>2, <2>3
<1>5. ASSUME NEW q \in Requests, Dispatching(q)'
      PROVE  (Key(q) \in InsertedKeys(q))'
  <2>1. Serving(q)' /\ ~At(q, "dispatch")'
    BY <1>5 DEF Serving, Dispatching, At
  <2>2. /\ req'[q].ev = req[q].ev /\ req'[q].inserted = req[q].inserted /\ req'[q].k = req[q].k
        /\ Dispatching(q) \/ StartDispatch(q)
    <3>1. At(q, "send") => Dispatching(q)
      BY DEF At, Dispatching
    <3>2. Serving(q) /\ req'[q].pc = req[q].pc => Dispatching(q)
      BY <1>5 DEF Serving, Dispatching
    <3> QED
      BY <2>1, <3>1, <3>2, ServingStep
  <2>3. Key(q) \in InsertedKeys(q)
    BY <2>2, StartOwns DEF OwnerInv
  <2>4. Key(q)' = Key(q) /\ InsertedKeys(q)' = InsertedKeys(q)
    BY <2>2 DEF Key, Channel, InsertedKeys
  <2> QED
    BY <2>3, <2>4
<1> QED
  BY <1>2, <1>3, <1>4, <1>5 DEF OwnerInv

\* At the start nobody owns a record.
LEMMA OwnerInit ==
    ASSUME Init
    PROVE  OwnerInv
<1>1. \A r \in Requests : ~Serving(r) /\ ~Dispatching(r)
  BY DEF Init, IdleRequest, Serving, Dispatching, At
<1>2. \A n \in Keys : senders[n] = {}
  BY DEF Init
<1> QED
  BY <1>1, <1>2 DEF OwnerInv, Owns, Exclusive, SentOnce

\* Every record is owned by one request at most.
LEMMA OwnerCorrect == Spec => []OwnerInv
<1>1. Init => OwnerInv
  BY OwnerInit
<1>2. OwnerInv /\ TypeOK /\ PositionInv /\ LockInv /\ [Next]_vars => OwnerInv'
  BY OwnerStep
<1> QED
  BY <1>1, <1>2, TypeCorrect, PositionCorrect, LockCorrect, PTL DEF Spec

\* One owner means one dispatcher.
LEMMA OneFromOwner ==
    ASSUME OwnerInv
    PROVE  OneDispatcher
<1> SUFFICES ASSUME NEW n \in Keys
             PROVE  Cardinality(senders[n]) <= 1
  BY DEF OneDispatcher
<1>1. CASE senders[n] = {}
  BY <1>1, FS_EmptySet
<1>2. ASSUME NEW r \in senders[n]
      PROVE  Cardinality(senders[n]) <= 1
  <2>1. senders[n] = {r}
    BY <1>2 DEF OwnerInv, SentOnce
  <2>2. Cardinality({r}) = 1
    BY FS_Singleton
  <2> QED
    BY <2>1, <2>2
<1> QED
  BY <1>1, <1>2

\* Dispatch is idempotent per (event_id, channel): of all the requests for an
\* event, overlapping, repeated or after a crash, at most one ever calls the
\* dispatcher of a channel.
THEOREM DispatchedByOne == Spec => []OneDispatcher
<1>1. OwnerInv => OneDispatcher
  BY OneFromOwner
<1> QED
  BY <1>1, OwnerCorrect, PTL

(***************************************************************************)
(* The dispatch loop                                                       *)
(***************************************************************************)
\* n is the record of a route whose dispatch is still to come.
Ahead(r, n) ==
    \E j \in req[r].k..Len(Routes(req[r].ev)) :
       n = KeyAt(r, j) /\ (At(r, "dispatch") \/ j > req[r].k)

Untouched(n) == senders[n] = {} /\ ~delivered[n] /\ errors[n] = 0

\* What a handler has inserted is settled if its loop is past it, pending and
\* untouched if it is ahead; only the one being dispatched is in between.
Progress(r, n) ==
    Serving(r) /\ n \in InsertedKeys(r) =>
       \/ Passed(r, n) /\ table[n] \in {"sent", "failed"}
       \/ Ahead(r, n) /\ table[n] = "pending" /\ Untouched(n)
       \/ Dispatching(r) /\ n = Key(r)

\* What is known of the record that a handler dispatches: errors count its
\* attempts, and the outcome that it is about to record is true.
InHand(r) ==
    /\ Dispatching(r) => table[Key(r)] = "pending" /\ r \in senders[Key(r)]
    /\ At(r, "send") => ~delivered[Key(r)] /\ errors[Key(r)] = req[r].attempt
    /\ At(r, "mark") =>
          \/ req[r].outcome = "sent" /\ delivered[Key(r)]
          \/ /\ req[r].outcome = "failed" /\ ~delivered[Key(r)]
             /\ errors[Key(r)] > MaxRetries \/ req[r].gone

\* The histories of a record, and what its status says of them.
Truthful(n) ==
    /\ senders[n] = {} => Untouched(n)
    /\ errors[n] <= MaxRetries + 1
    /\ delivered[n] => errors[n] <= MaxRetries
    /\ table[n] = "sent" => delivered[n]
    /\ table[n] = "failed" =>
          /\ ~delivered[n]
          /\ errors[n] > MaxRetries \/ \E r \in senders[n] : req[r].gone

LoopInv ==
    /\ \A r \in Requests, n \in Keys : Progress(r, n)
    /\ \A r \in Requests : InHand(r)
    /\ \A n \in Keys : Truthful(n)

\* What a handler dispatches is a record that it alone has inserted.
LEMMA InHandKey ==
    ASSUME TypeOK, PositionInv, OwnerInv, NEW r \in Requests, Dispatching(r)
    PROVE  /\ Key(r) \in Keys /\ Key(r) \in InsertedKeys(r) /\ Serving(r)
           /\ More(r) /\ req[r].ev \in EventIDs
           /\ \A q \in Requests : Serving(q) /\ Key(r) \in InsertedKeys(q) => q = r
<1>1. Key(r) \in InsertedKeys(r) /\ Serving(r)
  BY DEF OwnerInv, Serving
<1>2. Key(r) \in Keys
  BY <1>1, InsertedType
<1>3. More(r) /\ req[r].ev \in EventIDs
  BY StateType DEF Dispatching, PositionInv, Positioned, Active
<1> QED
  BY <1>1, <1>2, <1>3 DEF OwnerInv, Exclusive

\* A step by which a record changes while it is in nobody's hand is a COMMIT of
\* it; it changes in the hand of r only by a step of r.
LEMMA RecordStep ==
    ASSUME TypeOK, PositionInv, LockInv, OwnerInv, [Next]_vars, NEW n \in Keys
    PROVE  \/ /\ table'[n] = table[n] /\ senders'[n] = senders[n]
              /\ delivered'[n] = delivered[n] /\ errors'[n] = errors[n]
           \/ table[n] = "none"
           \/ \E r \in Requests : StartDispatch(r) /\ n = Key(r) /\ Serving(r)
                                  /\ n \in InsertedKeys(r)
           \/ \E r \in Requests : Dispatching(r) /\ n = Key(r)
                                  /\ (Send(r) \/ UpdateStatus(r) \/ UpdateFails(r))
<1>1. \A r \in Requests : StartDispatch(r) => Serving(r) /\ Key(r) \in InsertedKeys(r)
  BY StartOwns
<1>2. \A r \in Requests : Send(r) => Dispatching(r)
  BY DEF Send, Dispatching, At
<1>3. \A r \in Requests : At(r, "mark") => Dispatching(r)
  BY DEF Dispatching, At
<1> QED
  BY <1>1, <1>2, <1>3, TableStep, HistoryStep

\* Nobody but its owner touches a record that was inserted.
LEMMA MineStep ==
    ASSUME TypeOK, PositionInv, LockInv, OwnerInv, [Next]_vars,
           NEW q \in Requests, NEW n \in Keys, Serving(q), n \in InsertedKeys(q),
           ~SendNotification(q)
    PROVE  /\ table'[n] = table[n] /\ senders'[n] = senders[n]
           /\ delivered'[n] = delivered[n] /\ errors'[n] = errors[n]
<1>1. table[n] # "none"
  BY DEF OwnerInv, Owns
<1>2. ASSUME NEW r \in Requests, Serving(r), n \in InsertedKeys(r)
      PROVE  r = q
  BY <1>2 DEF OwnerInv, Exclusive
<1>3. ASSUME NEW r \in Requests, Dispatching(r), n = Key(r)
      PROVE  r = q
  BY <1>3, InHandKey
<1> QED
  BY <1>1, <1>2, <1>3, RecordStep DEF SendNotification

\* A handler keeps its event, and its context is cancelled by others.
LEMMA SendKeeps ==
    ASSUME TypeOK, NEW r \in Requests, SendNotification(r)
    PROVE  req'[r].ev = req[r].ev /\ req'[r].gone = req[r].gone
<1>1. ASSUME \E code : Respond(r, code)
      PROVE  req'[r].ev = req[r].ev /\ req'[r].gone = req[r].gone
  BY <1>1, RespondEffect
<1>2. ASSUME Send(r) \/ BackoffCancelled(r)
      PROVE  req'[r].ev = req[r].ev /\ req'[r].gone = req[r].gone
  <2>1. \/ \E outcome : Dispatched(r, outcome)
        \/ req' = [req EXCEPT ![r].attempt = @ + 1]
    BY <1>2 DEF Send, BackoffCancelled
  <2> QED
    BY <2>1, DispatchedEffect, RetryEffect
<1> QED
  BY <1>1, <1>2, UpsertEffect, CommitEffect, SkipEffect, StartDispatchEffect,
     UpdateStatusEffect
     DEF SendNotification, SaveFails, CommitUnheard, UpdateFails, Created

\* A cancelled context stays so.
LEMMA GoneStays ==
    ASSUME TypeOK, PositionInv, [Next]_vars, NEW q \in Requests, req[q].gone
    PROVE  req'[q].gone
<1>1. ASSUME NEW e \in EventIDs, Receive(q, e)
      PROVE  req'[q].gone = req[q].gone
  BY <1>1, ReceiveEffect
<1>2. ASSUME NEW e \in EventIDs \cup {None}, Refuse(q, e)
      PROVE  req'[q].gone = req[q].gone
  BY <1>2, RefuseEffect
<1>3. ASSUME SendNotification(q)
      PROVE  req'[q].gone = req[q].gone
  BY <1>3, SendKeeps
<1>4. ASSUME ClientGone(q)
      PROVE  req'[q].gone = TRUE
  BY <1>4, ClientGoneEffect
<1>5. ASSUME NEW S \in SUBSET Requests, Crash(S)
      PROVE  req'[q].gone = req[q].gone
  BY <1>5, CrashEffect
<1> QED
  BY <1>1, <1>2, <1>3, <1>4, <1>5, OwnStep

\* The record at the position of a handler is not one that it has passed.
LEMMA KeyNotPassed ==
    ASSUME TypeOK, PositionInv, NEW r \in Requests, req[r].ev \in EventIDs, More(r)
    PROVE  ~Passed(r, Key(r))
<1>1. req[r].k \in 1..Len(Routes(req[r].ev)) /\ Len(Routes(req[r].ev)) \in 1..2
  BY KeyType, RouteFacts
<1>2. ASSUME NEW j \in 1..(req[r].k - 1), Key(r) = KeyAt(r, j)
      PROVE  FALSE
  <2>1. Routes(req[r].ev)[j] = Routes(req[r].ev)[req[r].k]
    BY <1>2 DEF Key, Channel, KeyAt
  <2>2. j \in 1..Len(Routes(req[r].ev)) /\ j # req[r].k
    BY <1>1
  <2> QED
    BY <1>1, <2>1, <2>2, RouteFacts
<1> QED
  BY <1>2 DEF Passed

\* What a handler that is at its route finds ahead is that route or a later one.
LEMMA AheadNext ==
    ASSUME NEW r, NEW n, req[r].k \in 1..3, Len(Routes(req[r].ev)) \in 1..2, Ahead(r, n)
    PROVE  \/ n = Key(r) /\ At(r, "dispatch")
           \/ \E j \in (req[r].k + 1)..Len(Routes(req[r].ev)) : n = KeyAt(r, j)
<1>1. PICK j \in req[r].k..Len(Routes(req[r].ev)) :
              n = KeyAt(r, j) /\ (At(r, "dispatch") \/ j > req[r].k)
  BY DEF Ahead
<1>2. CASE j = req[r].k
  BY <1>1, <1>2 DEF KeyAt, Key, Channel
<1>3. CASE j # req[r].k
  <2>1. j \in (req[r].k + 1)..Len(Routes(req[r].ev))
    BY <1>3
  <2> QED
    BY <1>1, <2>1
<1> QED
  BY <1>2, <1>3

\* Every step keeps the records of a handler settled behind it and untouched ahead.
LEMMA ProgressStep ==
    ASSUME TypeOK, PositionInv, LockInv, OwnerInv, LoopInv, [Next]_vars,
           NEW q \in Requests, NEW n \in Keys
    PROVE  Progress(q, n)'
<1> SUFFICES ASSUME Serving(q)', (n \in InsertedKeys(q))', ~(Dispatching(q) /\ n = Key(q))'
             PROVE  \/ Passed(q, n)' /\ table'[n] \in {"sent", "failed"}
                    \/ Ahead(q, n)' /\ table'[n] = "pending" /\ Untouched(n)'
  BY DEF Progress
<1>1. /\ req'[q].ev = req[q].ev /\ req'[q].inserted = req[q].inserted
      /\ n \in InsertedKeys(q)
  <2>1. req'[q].ev = req[q].ev /\ req'[q].inserted = req[q].inserted
    BY ServingStep
  <2> QED
    BY <2>1, InsertedStay
<1>2. Len(Routes(req[q].ev)) \in 1..2 /\ req[q].k \in 1..3
  BY RouteFacts, StateType
\* What the step does not touch, and leaves behind or ahead of the handler.
<1>3. ASSUME Serving(q), ~(Dispatching(q) /\ n = Key(q)),
             table'[n] = table[n], senders'[n] = senders[n],
             delivered'[n] = delivered[n], errors'[n] = errors[n],
             Passed(q, n) => Passed(q, n)', Ahead(q, n) => Ahead(q, n)'
      PROVE  \/ Passed(q, n)' /\ table'[n] \in {"sent", "failed"}
             \/ Ahead(q, n)' /\ table'[n] = "pending" /\ Untouched(n)'
  BY <1>1, <1>3 DEF LoopInv, Progress, Untouched
\* A handler that goes on to the next route.
<1>4. ASSUME req'[q].k = req[q].k + 1, At(q, "dispatch")', n # Key(q)
      PROVE  (Passed(q, n) => Passed(q, n)') /\ (Ahead(q, n) => Ahead(q, n)')
  <2>1. Passed(q, n) => Passed(q, n)'
    BY <1>1, <1>2, <1>4, PassedNext
  <2>2. ASSUME Ahead(q, n)
        PROVE  Ahead(q, n)'
    <3>1. \E j \in (req[q].k + 1)..Len(Routes(req[q].ev)) : n = KeyAt(q, j)
      BY <1>2, <1>4, <2>2, AheadNext
    <3> QED
      BY <1>1, <1>4, <3>1 DEF Ahead, KeyAt
  <2> QED
    BY <2>1, <2>2
\* A handler that stays at its route.
<1>5. ASSUME req'[q].k = req[q].k, At(q, "dispatch") => At(q, "dispatch")' \/ n # Key(q)
      PROVE  (Passed(q, n) => Passed(q, n)') /\ (Ahead(q, n) => Ahead(q, n)')
  <2>1. Passed(q, n) => Passed(q, n)'
    BY <1>1, <1>5, PassedStay
  <2>2. ASSUME Ahead(q, n)
        PROVE  Ahead(q, n)'
    <3>1. PICK j \in req[q].k..Len(Routes(req[q].ev)) :
                  n = KeyAt(q, j) /\ (At(q, "dispatch") \/ j > req[q].k)
      BY <2>2 DEF Ahead
    <3>2. At(q, "dispatch")' \/ j > req[q].k
      BY <1>2, <1>5, <3>1 DEF KeyAt, Key, Channel
    <3> QED
      BY <1>1, <1>5, <3>1, <3>2 DEF Ahead, KeyAt
  <2> QED
    BY <2>1, <2>2
<1>6. CASE Commit(q) /\ At(q, "dispatch")' /\ req'[q].k = 1
  <2>1. /\ At(q, "save") /\ ~More(q) /\ UNCHANGED history
        /\ table' = [m \in Keys |-> IF m \in InsertedKeys(q) THEN "pending" ELSE table[m]]
    BY <1>6 DEF Commit, WriteInserted
  <2>2. lock[n] = q /\ table[n] = "none"
    BY <1>1, <2>1 DEF LockInv, Invisible
  <2>3. Untouched(n)'
    <3>1. senders[n] = {}
      BY <2>2 DEF OwnerInv, SentOnce
    <3> QED
      BY <2>1, <3>1 DEF LoopInv, Truthful, Untouched, history
  <2>4. PICK j \in 1..(req[q].k - 1) : n = KeyAt(q, j)
    BY <2>2 DEF LockInv, LockedBy, Passed
  <2>5. j \in 1..Len(Routes(req[q].ev))
    <3>1. req[q].k <= Len(Routes(req[q].ev)) + 1
      BY <2>1 DEF PositionInv, Positioned, At, Active
    <3> QED
      BY <1>2, <3>1
  <2>6. Ahead(q, n)'
    BY <1>1, <1>6, <2>4, <2>5 DEF Ahead, KeyAt
  <2> QED
    BY <1>1, <2>1, <2>3, <2>6
<1>7. CASE Skip(q) /\ At(q, "dispatch")' /\ req'[q].k = req[q].k + 1
  <2>1. /\ At(q, "dispatch") /\ ~IsMine(q) /\ UNCHANGED <<table, senders, delivered, errors>>
    BY <1>7 DEF Skip, history
  <2>2. n # Key(q)
    BY <1>1, <2>1 DEF IsMine, InsertedKeys, Key
  <2>3. Serving(q) /\ ~Dispatching(q)
    BY <2>1 DEF Serving, Dispatching, At
  <2> QED
    BY <1>3, <1>4, <1>7, <2>1, <2>2, <2>3
<1>8. CASE UpdateStatus(q) /\ At(q, "dispatch")' /\ req'[q].k = req[q].k + 1
  <2>1. /\ At(q, "mark") /\ UNCHANGED <<senders, delivered, errors>>
        /\ table' = [table EXCEPT ![Key(q)] = req[q].outcome]
    BY <1>8 DEF UpdateStatus, history
  <2>2. Dispatching(q) /\ Serving(q)
    BY <2>1 DEF Serving, Dispatching, At
  <2>3. CASE n = Key(q)
    <3>1. table'[n] \in {"sent", "failed"}
      BY <2>1, <2>3 DEF LoopInv, InHand, TypeOK
    <3>2. Passed(q, n)'
      BY <1>1, <1>2, <1>8, <2>3, PassedNext
    <3> QED
      BY <3>1, <3>2
  <2>4. CASE n # Key(q)
    <3>1. table'[n] = table[n]
      BY <2>1, <2>4 DEF TypeOK
    <3> QED
      BY <1>3, <1>4, <1>8, <2>1, <2>2, <2>4, <3>1
  <2> QED
    BY <2>3, <2>4
<1>9. ASSUME Dispatching(q)', req'[q].k = req[q].k
      PROVE  n # Key(q)
  BY <1>1, <1>9 DEF Key, Channel
<1>10. CASE StartDispatch(q) /\ At(q, "send")' /\ req'[q].k = req[q].k
  <2>1. Dispatching(q)'
    BY <1>10 DEF Dispatching, At
  <2>2. n # Key(q)
    BY <1>9, <1>10, <2>1
  <2>3. Serving(q) /\ ~Dispatching(q)
    BY <1>10 DEF StartDispatch, Serving, Dispatching, At
  <2>4. /\ table'[n] = table[n] /\ senders'[n] = senders[n]
        /\ delivered'[n] = delivered[n] /\ errors'[n] = errors[n]
    BY <1>10, <2>2 DEF StartDispatch, TypeOK
  <2> QED
    BY <1>3, <1>5, <1>10, <2>2, <2>3, <2>4
<1>11. CASE Send(q) /\ At(q, "send") /\ Dispatching(q)' /\ req'[q].k = req[q].k
  <2>1. n # Key(q)
    BY <1>9, <1>11
  <2>2. table'[n] = table[n] /\ senders'[n] = senders[n]
    BY <1>11 DEF Send
  <2>3. delivered'[n] = delivered[n]
    BY <1>11, <2>1 DEF Send, TypeOK
  <2>4. errors'[n] = errors[n]
    BY <1>11, <2>1 DEF Send, TypeOK
  <2>5. Serving(q)
    BY <1>11 DEF Serving, Dispatching, At
  <2> QED
    BY <1>3, <1>5, <1>11, <2>1, <2>2, <2>3, <2>4, <2>5
<1>12. CASE BackoffCancelled(q) /\ At(q, "send") /\ At(q, "mark")' /\ req'[q].k = req[q].k
  <2>1. Dispatching(q)' /\ Serving(q)
    BY <1>12 DEF Dispatching, Serving, At
  <2>2. n # Key(q)
    BY <1>9, <1>12, <2>1
  <2>3. UNCHANGED <<table, senders, delivered, errors>>
    BY <1>12 DEF BackoffCancelled, history
  <2> QED
    BY <1>3, <1>5, <1>12, <2>1, <2>2, <2>3
<1>13. CASE Serving(q) /\ req'[q].pc = req[q].pc /\ req'[q].k = req[q].k /\ ~SendNotification(q)
  <2>1. ~(Dispatching(q) /\ n = Key(q)) /\ (At(q, "dispatch") => At(q, "dispatch")')
    BY <1>9, <1>13 DEF Dispatching, At
  <2>2. /\ table'[n] = table[n] /\ senders'[n] = senders[n]
        /\ delivered'[n] = delivered[n] /\ errors'[n] = errors[n]
    BY <1>1, <1>13, MineStep
  <2> QED
    BY <1>3, <1>5, <1>13, <2>1, <2>2
<1> QED
  BY <1>6, <1>7, <1>8, <1>10, <1>11, <1>12, <1>13, ServingStep

\* Every step keeps the count of attempts and the truth of the outcome in hand.
LEMMA InHandStep ==
    ASSUME TypeOK, PositionInv, LockInv, OwnerInv, LoopInv, [Next]_vars, NEW q \in Requests
    PROVE  InHand(q)'
<1> SUFFICES ASSUME Dispatching(q)'
             PROVE  InHand(q)'
  BY DEF InHand, Dispatching, At
<1>1. Serving(q)' /\ ~At(q, "dispatch")'
  BY DEF Serving, Dispatching, At
<1>2. req'[q].ev = req[q].ev /\ req'[q].k = req[q].k
  BY <1>1, ServingStep
<1>3. Key(q)' = Key(q)
  BY <1>2 DEF Key, Channel
<1>4. CASE StartDispatch(q) /\ At(q, "send")' /\ req'[q].attempt = 0
  <2>1. /\ Serving(q) /\ Key(q) \in InsertedKeys(q) /\ Key(q) \in Keys
        /\ More(q) /\ req[q].ev \in EventIDs /\ ~Dispatching(q)
    BY <1>4, StartOwns DEF StartDispatch, Dispatching, At
  <2>2. table[Key(q)] = "pending" /\ Untouched(Key(q))
    BY <2>1, KeyNotPassed DEF LoopInv, Progress
  <2>3. /\ table' = table /\ delivered' = delivered /\ errors' = errors
        /\ senders'[Key(q)] = senders[Key(q)] \cup {q}
    BY <1>4, <2>1 DEF StartDispatch, TypeOK
  <2> QED
    BY <1>3, <1>4, <2>2, <2>3 DEF InHand, Untouched, At
<1>5. CASE Send(q) /\ At(q, "send")
  <2>1. /\ table[Key(q)] = "pending" /\ q \in senders[Key(q)]
        /\ ~delivered[Key(q)] /\ errors[Key(q)] = req[q].attempt
    BY <1>5 DEF LoopInv, InHand, Dispatching, At
  <2>2. Key(q) \in Keys /\ req[q].attempt \in 0..MaxRetries
    BY <1>5, InHandKey, StateType DEF Dispatching, At
  <2>3. table' = table /\ senders' = senders
    BY <1>5 DEF Send
  <2>4. CASE /\ delivered' = [delivered EXCEPT ![Key(q)] = TRUE]
             /\ Dispatched(q, "sent")
             /\ UNCHANGED errors
    <3>1. delivered'[Key(q)]
      BY <2>2, <2>4 DEF TypeOK
    <3>2. req'[q].pc = "mark" /\ req'[q].outcome = "sent"
      BY <2>4, DispatchedEffect
    <3> QED
      BY <1>3, <2>1, <2>3, <3>1, <3>2 DEF InHand, At
  <2>5. CASE /\ errors' = [errors EXCEPT ![Key(q)] = @ + 1]
             /\ HasAttempts(q)
             /\ req' = [req EXCEPT ![q].attempt = @ + 1]
             /\ UNCHANGED delivered
    <3>1. errors'[Key(q)] = req[q].attempt + 1
      BY <2>1, <2>2, <2>5 DEF TypeOK
    <3>2. req'[q].pc = "send" /\ req'[q].attempt = req[q].attempt + 1
      BY <1>5, <2>5, RetryEffect DEF At
    <3> QED
      BY <1>3, <2>1, <2>3, <2>5, <3>1, <3>2 DEF InHand, At
  <2>6. CASE /\ errors' = [errors EXCEPT ![Key(q)] = @ + 1]
             /\ ~HasAttempts(q)
             /\ Dispatched(q, "failed")
             /\ UNCHANGED delivered
    <3>1. errors'[Key(q)] = req[q].attempt + 1
      BY <2>1, <2>2, <2>6 DEF TypeOK
    <3>2. req[q].attempt + 1 > MaxRetries
      BY <2>2, <2>6, BoundAssumption DEF HasAttempts
    <3>3. req'[q].pc = "mark" /\ req'[q].outcome = "failed"
      BY <2>6, DispatchedEffect
    <3> QED
      BY <1>3, <2>1, <2>3, <2>6, <3>1, <3>2, <3>3 DEF InHand, At
  <2> QED
    BY <1>5, <2>4, <2>5, <2>6 DEF Send
<1>6. CASE BackoffCancelled(q) /\ At(q, "send") /\ At(q, "mark")' /\ req'[q].outcome = "failed"
           /\ req'[q].gone = req[q].gone
  <2>1. /\ table[Key(q)] = "pending" /\ q \in senders[Key(q)] /\ ~delivered[Key(q)]
    BY <1>6 DEF LoopInv, InHand, Dispatching, At
  <2>2. UNCHANGED <<table, senders, delivered, errors>>
    BY <1>6 DEF BackoffCancelled, history
  <2>3. req'[q].gone
    BY <1>6 DEF BackoffCancelled
  <2> QED
    BY <1>3, <1>6, <2>1, <2>2, <2>3 DEF InHand, At
<1>7. CASE /\ Serving(q) /\ req'[q].pc = req[q].pc
           /\ req'[q].attempt = req[q].attempt /\ req'[q].outcome = req[q].outcome
           /\ req'[q].gone = req[q].gone \/ req'[q].gone = TRUE
           /\ ~SendNotification(q)
  <2>1. Dispatching(q)
    BY <1>7 DEF Dispatching
  <2>2. Key(q) \in Keys /\ Key(q) \in InsertedKeys(q)
    BY <2>1, InHandKey
  <2>3. /\ table'[Key(q)] = table[Key(q)] /\ senders'[Key(q)] = senders[Key(q)]
        /\ delivered'[Key(q)] = delivered[Key(q)] /\ errors'[Key(q)] = errors[Key(q)]
    BY <1>7, <2>2, MineStep
  <2>4. InHand(q) /\ (req[q].gone => req'[q].gone)
    BY GoneStays DEF LoopInv
  <2> QED
    BY <1>3, <1>7, <2>1, <2>3, <2>4 DEF InHand, Dispatching, At
<1> QED
  <2>1. ~(Commit(q) /\ At(q, "dispatch")') /\ ~(Skip(q) /\ At(q, "dispatch")')
        /\ ~(UpdateStatus(q) /\ At(q, "dispatch")')
    BY <1>1
  <2> QED
    BY <1>1, <1>4, <1>5, <1>6, <1>7, <2>1, ServingStep

\* Every step keeps the histories of a record bounded and its status true.
LEMMA TruthfulStep ==
    ASSUME TypeOK, PositionInv, LockInv, OwnerInv, LoopInv, [Next]_vars, NEW n \in Keys
    PROVE  Truthful(n)'
<1>1. Truthful(n)
  BY DEF LoopInv
<1>2. \A r \in Requests : req[r].gone => req'[r].gone
  BY GoneStays
<1>3. senders[n] \subseteq Requests /\ errors[n] \in Nat
  BY DEF TypeOK
<1>4. CASE /\ table'[n] = table[n] /\ senders'[n] = senders[n]
           /\ delivered'[n] = delivered[n] /\ errors'[n] = errors[n]
  BY <1>1, <1>2, <1>3, <1>4 DEF Truthful, Untouched
<1>5. CASE table[n] = "none"
  <2>1. senders[n] = {} /\ Untouched(n)
    BY <1>1, <1>5 DEF OwnerInv, SentOnce, Truthful
  <2>2. ASSUME NEW r \in Requests, StartDispatch(r) \/ Dispatching(r)
        PROVE  n # Key(r)
    <3>1. Serving(r) /\ Key(r) \in InsertedKeys(r) /\ Key(r) \in Keys
      BY <2>2, StartOwns, InHandKey
    <3> QED
      BY <1>5, <3>1 DEF OwnerInv, Owns
  <2>3. \A r \in Requests : Send(r) \/ At(r, "mark") => Dispatching(r)
    BY DEF Send, Dispatching, At
  <2>4. senders'[n] = senders[n] /\ delivered'[n] = delivered[n] /\ errors'[n] = errors[n]
    BY <2>2, <2>3, HistoryStep
  <2>5. table'[n] \in {"none", "pending"}
    BY <1>5, <2>2, <2>3, TableStep
  <2> QED
    BY <1>1, <2>1, <2>4, <2>5 DEF Truthful, Untouched
<1>6. ASSUME NEW r \in Requests, StartDispatch(r), n = Key(r), Serving(r), n \in InsertedKeys(r)
      PROVE  Truthful(n)'
  <2>1. More(r) /\ req[r].ev \in EventIDs /\ ~Dispatching(r)
    BY <1>6, StartOwns DEF StartDispatch, Dispatching, At
  <2>2. table[n] = "pending" /\ Untouched(n)
    BY <1>6, <2>1, KeyNotPassed DEF LoopInv, Progress
  <2>3. /\ table' = table /\ delivered' = delivered /\ errors' = errors
        /\ senders'[n] = senders[n] \cup {r}
    BY <1>6 DEF StartDispatch, TypeOK
  <2> QED
    BY <1>1, <2>2, <2>3 DEF Truthful, Untouched
<1>7. ASSUME NEW r \in Requests, Dispatching(r), n = Key(r), Send(r)
      PROVE  Truthful(n)'
  <2>1. At(r, "send") /\ table' = table /\ senders' = senders
    BY <1>7 DEF Send
  <2>2. /\ table[n] = "pending" /\ r \in senders[n]
        /\ ~delivered[n] /\ errors[n] = req[r].attempt
    BY <1>7, <2>1 DEF LoopInv, InHand
  <2>3. req[r].attempt \in 0..MaxRetries
    BY StateType
  <2>4. CASE delivered' = [delivered EXCEPT ![Key(r)] = TRUE] /\ UNCHANGED errors
    <3>1. errors'[n] <= MaxRetries
      BY <2>2, <2>3, <2>4, BoundAssumption
    <3>2. errors'[n] <= MaxRetries + 1
      BY <2>2, <2>3, <2>4, BoundAssumption
    <3> QED
      BY <2>1, <2>2, <3>1, <3>2 DEF Truthful
  <2>5. CASE errors' = [errors EXCEPT ![Key(r)] = @ + 1] /\ UNCHANGED delivered
    <3>1. errors'[n] <= MaxRetries + 1
      BY <1>7, <2>2, <2>3, <2>5, BoundAssumption DEF TypeOK
    <3> QED
      BY <2>1, <2>2, <2>5, <3>1 DEF Truthful
  <2> QED
    BY <1>7, <2>4, <2>5 DEF Send
<1>8. ASSUME NEW r \in Requests, Dispatching(r), n = Key(r), At(r, "mark"),
             UpdateStatus(r) \/ UpdateFails(r)
      PROVE  Truthful(n)'
  <2>1. UNCHANGED <<senders, delivered, errors>>
    BY <1>8 DEF UpdateStatus, UpdateFails, history
  <2>2. table'[n] = table[n] \/ table'[n] = req[r].outcome
    BY <1>8 DEF UpdateStatus, UpdateFails, TypeOK
  <2>3. /\ r \in senders[n] /\ table[n] = "pending"
        /\ \/ req[r].outcome = "sent" /\ delivered[n]
           \/ /\ req[r].outcome = "failed" /\ ~delivered[n]
              /\ errors[n] > MaxRetries \/ req[r].gone
    BY <1>8 DEF LoopInv, InHand
  <2>4. req[r].gone => req'[r].gone
    BY <1>2
  <2>5. CASE table'[n] = "pending"
    BY <1>1, <2>1, <2>5 DEF Truthful, Untouched
  <2>6. CASE table'[n] = "sent" /\ delivered[n]
    BY <1>1, <2>1, <2>6 DEF Truthful, Untouched
  <2>7. CASE table'[n] = "failed" /\ ~delivered[n] /\ (errors[n] > MaxRetries \/ req[r].gone)
    BY <1>1, <2>1, <2>3, <2>4, <2>7 DEF Truthful, Untouched
  <2> QED
    BY <2>2, <2>3, <2>5, <2>6, <2>7
<1>9. \A r \in Requests : UpdateStatus(r) \/ UpdateFails(r) => At(r, "mark")
  BY DEF UpdateStatus, UpdateFails
<1> QED
  BY <1>4, <1>5, <1>6, <1>7, <1>8, <1>9, RecordStep

\* At the start nothing is dispatched.
LEMMA LoopInit ==
    ASSUME Init
    PROVE  LoopInv
<1>1. \A r \in Requests : ~Serving(r) /\ ~Dispatching(r) /\ ~At(r, "send") /\ ~At(r, "mark")
  BY DEF Init, IdleRequest, Serving, Dispatching, At
<1>2. \A n \in Keys : Untouched(n) /\ table[n] = "none"
  BY DEF Init, Untouched
<1>3. \A n \in Keys : Truthful(n)
  BY <1>2, BoundAssumption DEF Truthful, Untouched
<1> QED
  BY <1>1, <1>3 DEF LoopInv, Progress, InHand

\* Every step keeps the invariant of the dispatch loop.
LEMMA LoopStep ==
    ASSUME TypeOK, PositionInv, LockInv, OwnerInv, LoopInv, [Next]_vars
    PROVE  LoopInv'
BY ProgressStep, InHandStep, TruthfulStep DEF LoopInv

\* The invariant of the dispatch loop always holds.
LEMMA LoopCorrect == Spec => []LoopInv
<1>1. Init => LoopInv
  BY LoopInit
<1>2. LoopInv /\ TypeOK /\ PositionInv /\ LockInv /\ OwnerInv /\ [Next]_vars => LoopInv'
  BY LoopStep
<1> QED
  BY <1>1, <1>2, TypeCorrect, PositionCorrect, LockCorrect, OwnerCorrect, PTL DEF Spec

\* Errors, and a success after them, are at most one call per attempt.
LEMMA CallsFromLoop ==
    ASSUME TypeOK, LoopInv
    PROVE  BoundedCalls
<1> SUFFICES ASSUME NEW n \in Keys
             PROVE  errors[n] + (IF delivered[n] THEN 1 ELSE 0) <= MaxRetries + 1
  BY DEF BoundedCalls
<1>1. errors[n] \in Nat /\ Truthful(n)
  BY DEF TypeOK, LoopInv
<1>2. CASE delivered[n]
  BY <1>1, <1>2, BoundAssumption DEF Truthful
<1>3. CASE ~delivered[n]
  BY <1>1, <1>3, BoundAssumption DEF Truthful
<1> QED
  BY <1>2, <1>3

\* The provider of a notification is called at most MaxRetries + 1 times in all,
\* however often its event is sent again.
THEOREM CallsBounded == Spec => []BoundedCalls
<1>1. TypeOK /\ LoopInv => BoundedCalls
  BY CallsFromLoop
<1> QED
  BY <1>1, TypeCorrect, LoopCorrect, PTL

\* What the loop knows of a record is what its status says.
LEMMA TruthFromLoop ==
    ASSUME OwnerInv, LoopInv
    PROVE  RecordIsTruthful
BY DEF RecordIsTruthful, OwnerInv, SentOnce, LoopInv, Truthful

\* The record exists before the side effect and tells the truth about it: sent
\* only after a confirmed delivery, failed only when every attempt was answered
\* with an error or the caller went away during the backoff.
THEOREM RecordTruthful == Spec => []RecordIsTruthful
<1>1. OwnerInv /\ LoopInv => RecordIsTruthful
  BY TruthFromLoop
<1> QED
  BY <1>1, OwnerCorrect, LoopCorrect, PTL

(***************************************************************************)
(* What a transaction holds                                                *)
(***************************************************************************)
\* A transaction holds every record that it has passed, and has inserted those
\* that had no row: between its upsert and its COMMIT none of them can appear.
Holds(r, n) ==
    At(r, "save") /\ Passed(r, n) => lock[n] = r /\ (table[n] = "none" <=> n \in InsertedKeys(r))

HoldInv == \A r \in Requests, n \in Keys : Holds(r, n)

\* A lock is given up only with the transaction that took it.
LEMMA LockKept ==
    ASSUME TypeOK, PositionInv, [Next]_vars, NEW q \in Requests, NEW n \in Keys,
           lock[n] = q, At(q, "save")'
    PROVE  lock'[n] = q
<1>1. q # None
  BY NoneAssumption
<1>2. ASSUME NEW r \in Requests, Upsert(r)
      PROVE  lock'[n] = q
  BY <1>1, <1>2, UpsertKeys DEF TypeOK
<1>3. ASSUME NEW r \in Requests, EndTransaction(r), r # q
      PROVE  lock'[n] = q
  BY <1>3 DEF EndTransaction, Unlocked
<1>4. ASSUME NEW r \in Requests, Commit(r) \/ SaveFails(r) \/ CommitUnheard(r)
      PROVE  EndTransaction(r) /\ ~At(r, "save")'
  BY <1>4, CommitEffect, RespondEffect DEF Commit, SaveFails, CommitUnheard, At
<1>5. ASSUME NEW S, Crash(S)
      PROVE  lock'[n] = q
  BY <1>5, CrashEffect DEF Crash, Unlocked, At
<1>6. ASSUME NEW r \in Requests, SendNotification(r)
      PROVE  lock'[n] = q
  BY <1>2, <1>3, <1>4, <1>6
     DEF SendNotification, Skip, StartDispatch, Send, BackoffCancelled, UpdateStatus,
         UpdateFails, Created, history
<1>7. ASSUME NEW r \in Requests,
             \/ \E e \in EventIDs : Receive(r, e)
             \/ \E e \in EventIDs \cup {None} : Refuse(r, e)
             \/ ClientGone(r)
      PROVE  lock'[n] = q
  BY <1>7 DEF Receive, Refuse, ClientGone, history
<1> QED
  BY <1>5, <1>6, <1>7 DEF Next, vars

\* A row that a transaction holds does not appear before it commits.
LEMMA NoneStays ==
    ASSUME TypeOK, PositionInv, LockInv, OwnerInv, [Next]_vars,
           NEW q \in Requests, NEW n \in Keys, lock[n] = q, At(q, "save")'
    PROVE  table'[n] = "none" <=> table[n] = "none"
<1>1. ~(Commit(q) \/ CommitUnheard(q))
  BY CommitEffect, RespondEffect DEF CommitUnheard, At
<1>2. ASSUME NEW r \in Requests, At(r, "mark"), n = Key(r)
      PROVE  table[n] # "none" /\ req[r].outcome # "none"
  <2>1. Serving(r) /\ n \in InsertedKeys(r)
    BY <1>2, InHandKey DEF Dispatching, At
  <2> QED
    BY <2>1, StateType DEF OwnerInv, Owns
<1> QED
  BY <1>1, <1>2, TableStep

\* Every step of a transaction keeps what it holds.
LEMMA HoldStep ==
    ASSUME TypeOK, PositionInv, LockInv, OwnerInv, HoldInv, [Next]_vars
    PROVE  HoldInv'
<1> SUFFICES ASSUME NEW q \in Requests, NEW n \in Keys, At(q, "save")', Passed(q, n)'
             PROVE  lock'[n] = q /\ (table'[n] = "none" <=> (n \in InsertedKeys(q))')
  BY DEF HoldInv, Holds
<1>1. CASE /\ At(q, "save") /\ req'[q].ev = req[q].ev /\ req'[q].k = req[q].k
           /\ req'[q].inserted = req[q].inserted
  <2>1. Passed(q, n) /\ InsertedKeys(q)' = InsertedKeys(q)
    BY <1>1, PassedStay, InsertedStay
  <2>2. lock[n] = q /\ (table[n] = "none" <=> n \in InsertedKeys(q))
    BY <1>1, <2>1 DEF HoldInv, Holds
  <2> QED
    BY <2>1, <2>2, LockKept, NoneStays
<1>2. CASE At(q, "save") /\ Upsert(q)
  <2>1. table' = table /\ (IsNew(q) <=> table[Key(q)] = "none")
    BY <1>2 DEF Upsert, IsNew
  <2>2. CASE n = Key(q)
    <3>1. n \in InsertedKeys(q) => table[n] = "none"
      BY <1>2 DEF LockInv, Invisible
    <3>2. lock'[n] = q
      BY <1>2, <2>2, UpsertKeys DEF TypeOK
    <3>3. (n \in InsertedKeys(q))' <=> n \in InsertedKeys(q) \/ IsNew(q)
      BY <1>2, <2>2, UpsertKeys
    <3> QED
      BY <2>1, <2>2, <3>1, <3>2, <3>3
  <2>3. CASE n # Key(q)
    <3>1. Passed(q, n) /\ lock'[n] = lock[n]
      BY <1>2, <2>3, UpsertKeys DEF TypeOK
    <3>2. (n \in InsertedKeys(q))' <=> n \in InsertedKeys(q)
      BY <1>2, <2>3, UpsertKeys
    <3> QED
      BY <1>2, <2>1, <3>1, <3>2 DEF HoldInv, Holds
  <2> QED
    BY <2>2, <2>3
<1>3. CASE req'[q].k = 1
  BY <1>3 DEF Passed
<1> QED
  BY <1>1, <1>2, <1>3, SavingStep

\* At the start no transaction is open.
LEMMA HoldInit == Init => HoldInv
BY DEF Init, HoldInv, Holds, IdleRequest, At

\* A transaction always holds the rows of the routes it has passed.
LEMMA HoldCorrect == Spec => []HoldInv
<1>1. Init => HoldInv
  BY HoldInit
<1>2. HoldInv /\ TypeOK /\ PositionInv /\ LockInv /\ OwnerInv /\ [Next]_vars => HoldInv'
  BY HoldStep
<1> QED
  BY <1>1, <1>2, TypeCorrect, PositionCorrect, LockCorrect, OwnerCorrect, PTL DEF Spec

(***************************************************************************)
(* What an answer means                                                    *)
(***************************************************************************)
Valid(e) == HasRecipients(TypeOf[e], PayloadOf[e])

\* Only events with a recipient for each route are served or have records.
Routed(r) ==
    /\ Active(r) => Valid(req[r].ev)
    /\ req[r].answer = "400" /\ req[r].ev # None => ~Valid(req[r].ev)

\* Past its transaction, every route of a request's event has a record; after a
\* 201 those that it inserted have their outcome.
Served(r) ==
    /\ Serving(r) \/ req[r].answer = "201" =>
          /\ req[r].ev \in EventIDs
          /\ \A c \in ChannelsOf[req[r].ev] : table[<<req[r].ev, c>>] # "none"
    /\ req[r].answer = "201" => \A n \in InsertedKeys(r) : table[n] \in {"sent", "failed"}

AnswerInv ==
    /\ \A r \in Requests : Routed(r) /\ Served(r)
    /\ \A n \in Keys : table[n] # "none" => Valid(n[1])

\* The records of the routes of an event.
LEMMA RouteKeys ==
    ASSUME NEW r, req[r].ev \in EventIDs, NEW c \in ChannelsOf[req[r].ev]
    PROVE  /\ <<req[r].ev, c>> \in Keys
           /\ \E j \in 1..Len(Routes(req[r].ev)) : <<req[r].ev, c>> = KeyAt(r, j)
<1>1. PICK j \in 1..Len(Routes(req[r].ev)) : c = Routes(req[r].ev)[j]
  BY DEF ChannelsOf
<1> QED
  BY <1>1, RouteFacts DEF Keys, KeyAt

\* A transaction at the end of its list holds the record of every route.
LEMMA AllHeld ==
    ASSUME TypeOK, PositionInv, HoldInv, NEW r \in Requests, At(r, "save"), ~More(r),
           NEW c \in ChannelsOf[req[r].ev]
    PROVE  /\ <<req[r].ev, c>> \in Keys /\ Passed(r, <<req[r].ev, c>>)
           /\ table[<<req[r].ev, c>>] = "none" <=> <<req[r].ev, c>> \in InsertedKeys(r)
<1>1. req[r].ev \in EventIDs /\ req[r].k \in 1..3 /\ req[r].k > Len(Routes(req[r].ev))
  BY StateType, RouteFacts DEF At, Active, More
<1>2. PICK j \in 1..Len(Routes(req[r].ev)) : <<req[r].ev, c>> = KeyAt(r, j)
  BY <1>1, RouteKeys
<1>3. j \in 1..(req[r].k - 1)
  BY <1>1, RouteFacts
<1>4. <<req[r].ev, c>> \in Keys /\ Passed(r, <<req[r].ev, c>>)
  BY <1>1, <1>2, <1>3, RouteKeys DEF Passed
<1> QED
  BY <1>4 DEF HoldInv, Holds

\* At the end of the loop everything that the handler inserted is settled.
LEMMA AllSettled ==
    ASSUME TypeOK, PositionInv, LoopInv, NEW r \in Requests, Created(r)
    PROVE  /\ Serving(r) /\ req[r].ev \in EventIDs
           /\ \A n \in InsertedKeys(r) : table[n] \in {"sent", "failed"}
<1>1. At(r, "dispatch") /\ ~More(r)
  BY DEF Created
<1>2. Serving(r) /\ ~Dispatching(r) /\ req[r].ev \in EventIDs
  BY <1>1, StateType DEF Serving, Dispatching, At, Active
<1>3. \A n : ~Ahead(r, n)
  BY <1>1, StateType, RouteFacts DEF Ahead, More
<1>4. \A n \in InsertedKeys(r) : n \in Keys
  BY InsertedType
<1> QED
  BY <1>2, <1>3, <1>4 DEF LoopInv, Progress

\* A settled record stays settled.
LEMMA SettledStays ==
    ASSUME TypeOK, PositionInv, LockInv, LoopInv, [Next]_vars, NEW n \in Keys,
           table[n] \in {"sent", "failed"}
    PROVE  table'[n] = table[n]
<1>1. \A r \in Requests : At(r, "mark") => table[Key(r)] = "pending"
  BY DEF LoopInv, InHand, Dispatching, At
<1> QED
  BY <1>1, TableStep

\* Every step keeps the answers honest.
LEMMA AnswerStep ==
    ASSUME TypeOK, PositionInv, LockInv, OwnerInv, LoopInv, HoldInv, AnswerInv, [Next]_vars,
           TypeOK', PositionInv'
    PROVE  AnswerInv'
<1>1. ASSUME NEW n \in Keys, table'[n] # "none"
      PROVE  Valid(n[1])
  <2>1. CASE table[n] # "none"
    BY <2>1 DEF AnswerInv
  <2>2. ASSUME NEW r \in Requests, Commit(r) \/ CommitUnheard(r), n \in InsertedKeys(r)
        PROVE  Valid(n[1])
    <3>1. Active(r)
      BY <2>2 DEF Commit, CommitUnheard, At, Active
    <3>2. n[1] = req[r].ev
      BY <2>2 DEF InsertedKeys
    <3> QED
      BY <3>1, <3>2 DEF AnswerInv, Routed
  <2>3. ASSUME NEW r \in Requests, At(r, "mark"), n = Key(r)
        PROVE  table[n] # "none"
    <3>1. Serving(r) /\ n \in InsertedKeys(r)
      BY <2>3, InHandKey DEF Dispatching, At
    <3> QED
      BY <3>1 DEF OwnerInv, Owns
  <2> QED
    BY <1>1, <2>1, <2>2, <2>3, TableStep
<1>2. ASSUME NEW q \in Requests
      PROVE  Routed(q)'
  <2>1. ASSUME Active(q)'
        PROVE  Valid(req'[q].ev)
    <3>1. At(q, "save")' \/ Serving(q)'
      <4>1. req'[q] \in RequestStates
        BY DEF TypeOK
      <4>2. req'[q].pc \in {"idle", "save", "dispatch", "send", "mark", "done"}
        BY <4>1 DEF RequestStates
      <4> QED
        BY <2>1, <4>2 DEF At, Serving, Dispatching, Active
    <3>2. CASE Active(q) /\ req'[q].ev = req[q].ev
      BY <3>2 DEF AnswerInv, Routed
    <3>3. ASSUME NEW e \in EventIDs, Receive(q, e), req'[q].ev = e
          PROVE  Valid(req'[q].ev)
      BY <3>3 DEF Receive, Valid
    <3>4. CASE At(q, "save")'
      <4>1. At(q, "save") => Active(q)
        BY DEF At, Active
      <4>2. Upsert(q) => req'[q].ev = req[q].ev
        BY UpsertEffect
      <4> QED
        BY <3>2, <3>3, <3>4, <4>1, <4>2, SavingStep
    <3>5. CASE Serving(q)'
      <4>1. Active(q)
        BY <3>5, ServingStep DEF Commit, Skip, UpdateStatus, StartDispatch, Send,
           BackoffCancelled, Serving, Dispatching, At, Active
      <4> QED
        BY <3>2, <3>5, <4>1, ServingStep
    <3> QED
      BY <3>1, <3>4, <3>5
  <2>2. ASSUME req'[q].answer = "400", req'[q].ev # None
        PROVE  ~Valid(req'[q].ev)
    <3>1. At(q, "done")'
      BY <2>2 DEF PositionInv, Positioned
    <3>2. CASE req'[q] = req[q]
      BY <2>2, <3>2 DEF AnswerInv, Routed
    <3>3. ASSUME NEW e \in EventIDs \cup {None}, Refuse(q, e), req'[q].ev = e
          PROVE  ~Valid(req'[q].ev)
      BY <2>2, <3>3 DEF Refuse, Valid
    <3> QED
      BY <2>2, <3>1, <3>2, <3>3, DoneStep
  <2> QED
    BY <2>1, <2>2 DEF Routed, Valid
<1>3. ASSUME NEW q \in Requests
      PROVE  Served(q)'
  <2>1. ASSUME Serving(q) \/ req[q].answer = "201", req'[q].ev = req[q].ev
        PROVE  /\ req'[q].ev \in EventIDs
               /\ \A c \in ChannelsOf[req'[q].ev] : table'[<<req'[q].ev, c>>] # "none"
    <3>1. req[q].ev \in EventIDs /\ \A c \in ChannelsOf[req[q].ev] : table[<<req[q].ev, c>>] # "none"
      BY <2>1 DEF AnswerInv, Served
    <3> QED
      BY <2>1, <3>1, RouteKeys, RowStays
  <2>2. ASSUME Commit(q), req'[q].ev = req[q].ev
        PROVE  /\ req'[q].ev \in EventIDs
               /\ \A c \in ChannelsOf[req'[q].ev] : table'[<<req'[q].ev, c>>] # "none"
    <3>1. /\ At(q, "save") /\ ~More(q)
          /\ table' = [m \in Keys |-> IF m \in InsertedKeys(q) THEN "pending" ELSE table[m]]
      BY <2>2 DEF Commit, WriteInserted
    <3>2. req[q].ev \in EventIDs
      BY <3>1, StateType DEF At, Active
    <3>3. ASSUME NEW c \in ChannelsOf[req[q].ev]
          PROVE  table'[<<req[q].ev, c>>] # "none"
      BY <3>1, AllHeld
    <3> QED
      BY <2>2, <3>2, <3>3
  <2>3. ASSUME Serving(q)'
        PROVE  req'[q].ev = req[q].ev /\ (Serving(q) \/ Commit(q))
    <3>1. Skip(q) \/ UpdateStatus(q) \/ StartDispatch(q) \/ At(q, "send") => Serving(q)
      BY DEF Skip, UpdateStatus, StartDispatch, Serving, Dispatching, At
    <3> QED
      BY <2>3, <3>1, ServingStep
  <2>4. ASSUME req'[q].answer = "201"
        PROVE  /\ req'[q].ev = req[q].ev /\ (Serving(q) \/ req[q].answer = "201")
               /\ \A n \in InsertedKeys(q)' : table'[n] \in {"sent", "failed"}
    <3>1. At(q, "done")'
      BY <2>4 DEF PositionInv, Positioned
    <3>2. \/ req'[q] = req[q]
          \/ /\ req'[q].ev = req[q].ev /\ req'[q].inserted = req[q].inserted
             /\ Created(q)
      BY <2>4, <3>1, DoneStep
    <3>3. InsertedKeys(q)' = InsertedKeys(q) /\ InsertedKeys(q) \subseteq Keys
      BY <3>2, InsertedStay, InsertedType
    <3>4. CASE req'[q] = req[q]
      <4>1. \A n \in InsertedKeys(q) : table[n] \in {"sent", "failed"}
        BY <2>4, <3>4 DEF AnswerInv, Served
      <4> QED
        BY <2>4, <3>3, <3>4, <4>1, SettledStays
    <3>5. CASE Created(q) /\ req'[q].ev = req[q].ev
      BY <3>3, <3>5, AllSettled, SettledStays
    <3> QED
      BY <3>2, <3>4, <3>5
  <2> QED
    BY <2>1, <2>2, <2>3, <2>4 DEF Served
<1> QED
  BY <1>1, <1>2, <1>3 DEF AnswerInv, Valid

\* At the start nothing is answered.
LEMMA AnswerInit == Init => AnswerInv
BY DEF Init, AnswerInv, Routed, Served, IdleRequest, At, Active, Serving, Dispatching

\* The answers are always honest.
LEMMA AnswerCorrect == Spec => []AnswerInv
<1>1. Init => AnswerInv
  BY AnswerInit
<1>2. /\ AnswerInv /\ TypeOK /\ TypeOK' /\ PositionInv /\ PositionInv' /\ LockInv /\ OwnerInv
      /\ LoopInv /\ HoldInv /\ [Next]_vars
      => AnswerInv'
  BY AnswerStep
<1> QED
  BY <1>1, <1>2, TypeCorrect, PositionCorrect, LockCorrect, OwnerCorrect, LoopCorrect,
     HoldCorrect, PTL DEF Spec

\* 201 and 400 mean what they say.
LEMMA HonestFromAnswer ==
    ASSUME TypeOK, AnswerInv
    PROVE  CreatedIsHonest
<1> SUFFICES ASSUME NEW r \in Requests
             PROVE  /\ req[r].answer = "201" =>
                         /\ \A c \in ChannelsOf[req[r].ev] : table[<<req[r].ev, c>>] # "none"
                         /\ \A n \in InsertedKeys(r) : table[n] \in {"sent", "failed"}
                    /\ req[r].answer = "400" /\ req[r].ev # None =>
                         \A c \in Channels : table[<<req[r].ev, c>>] = "none"
  BY DEF CreatedIsHonest
<1>1. Served(r) /\ Routed(r)
  BY DEF AnswerInv
<1>2. ASSUME req[r].answer = "400", req[r].ev # None, NEW c \in Channels
      PROVE  table[<<req[r].ev, c>>] = "none"
  <2>1. <<req[r].ev, c>> \in Keys
    BY <1>2, StateType DEF Keys
  <2>2. ~Valid(<<req[r].ev, c>>[1])
    BY <1>1, <1>2 DEF Routed
  <2> QED
    BY <2>1, <2>2 DEF AnswerInv
<1> QED
  BY <1>1, <1>2 DEF Served

\* 201 means that every routed channel of the event has a record, and that those
\* the request inserted have their outcome. 400 leaves no record behind.
THEOREM CreatedHonest == Spec => []CreatedIsHonest
<1>1. TypeOK /\ AnswerInv => CreatedIsHonest
  BY HonestFromAnswer
<1> QED
  BY <1>1, TypeCorrect, AnswerCorrect, PTL

(***************************************************************************)
(* Records that stay pending                                               *)
(***************************************************************************)
\* Nobody becomes idle, and a handler that has ended does not move.
LEMMA EndStep ==
    ASSUME TypeOK, PositionInv, [Next]_vars, NEW q \in Requests
    PROVE  /\ At(q, "idle")' => At(q, "idle")
           /\ At(q, "done") => req'[q] = req[q]
<1>1. ASSUME NEW e \in EventIDs, Receive(q, e)
      PROVE  At(q, "idle") /\ ~At(q, "idle")'
  BY <1>1, ReceiveEffect DEF Receive, At
<1>2. ASSUME NEW e \in EventIDs \cup {None}, Refuse(q, e)
      PROVE  At(q, "idle") /\ ~At(q, "idle")'
  BY <1>2, RefuseEffect DEF Refuse, At
<1>3. ASSUME SendNotification(q)
      PROVE  Active(q)
  BY <1>3 DEF SendNotification, Upsert, Commit, SaveFails, CommitUnheard, Skip, StartDispatch,
     Send, BackoffCancelled, UpdateStatus, UpdateFails, Created, At, Active
<1>4. ASSUME ClientGone(q)
      PROVE  Active(q)
  BY <1>4 DEF ClientGone
<1>5. Active(q) => ~At(q, "idle") /\ ~At(q, "done")
  BY DEF Active, At
<1>6. At(q, "idle") => ~At(q, "done")
  BY DEF At
<1>7. At(q, "done") => req'[q] = req[q]
  BY <1>1, <1>2, <1>3, <1>4, <1>5, <1>6, OwnStep
<1>8. At(q, "idle")' => At(q, "idle")
  <2>1. CASE req'[q] = req[q]
    BY <2>1 DEF At
  <2>2. ASSUME SendNotification(q)
        PROVE  ~At(q, "idle")'
    <3>1. \/ req'[q].pc = req[q].pc
          \/ req'[q].pc \in {"dispatch", "send", "mark", "done"}
      <4>1. ASSUME \E code : Respond(q, code)
            PROVE  req'[q].pc = "done"
        BY <4>1, RespondEffect
      <4>2. ASSUME Send(q) \/ BackoffCancelled(q)
            PROVE  req'[q].pc \in {req[q].pc, "mark"}
        <5>1. \/ \E outcome : Dispatched(q, outcome)
              \/ req' = [req EXCEPT ![q].attempt = @ + 1]
          BY <4>2 DEF Send, BackoffCancelled
        <5> QED
          BY <5>1, DispatchedEffect, RetryEffect
      <4>3. Upsert(q) \/ Skip(q) => req'[q].pc = req[q].pc
        BY UpsertEffect, SkipEffect
      <4>4. Commit(q) \/ StartDispatch(q) \/ UpdateStatus(q) => req'[q].pc \in {"dispatch", "send"}
        BY CommitEffect, StartDispatchEffect, UpdateStatusEffect
      <4> QED
        BY <2>2, <4>1, <4>2, <4>3, <4>4
           DEF SendNotification, SaveFails, CommitUnheard, UpdateFails, Created
    <3> QED
      BY <1>3, <1>5, <2>2, <3>1 DEF At
  <2>3. ASSUME ClientGone(q)
        PROVE  ~At(q, "idle")'
    BY <1>4, <1>5, <2>3, ClientGoneEffect DEF At
  <2>4. ASSUME NEW S \in SUBSET Requests, Crash(S), q \in S
        PROVE  ~At(q, "idle")'
    BY <2>4, CrashEffect DEF At
  <2> QED
    BY <1>1, <1>2, <2>1, <2>2, <2>3, <2>4, OwnStep
<1> QED
  BY <1>7, <1>8

\* r answers for the record n: it has inserted it, and runs or ended badly.
Answers(r, n) == n \in InsertedKeys(r) /\ (Active(r) \/ req[r].answer \in {"500", "lost"})

\* Who answers for a record does so until it is settled.
LEMMA AnswersStep ==
    ASSUME TypeOK, PositionInv, LockInv, OwnerInv, LoopInv, [Next]_vars, TypeOK', PositionInv',
           NEW r \in Requests, NEW n \in Keys, Answers(r, n), table'[n] = "pending"
    PROVE  Answers(r, n)'
<1>1. CASE req'[r] = req[r]
  BY <1>1, InsertedStay DEF Answers, Active
<1>2. CASE Active(r)
  <2>1. ~At(r, "idle")' /\ ~At(r, "idle") /\ n \in InsertedKeys(r)
    BY <1>2, EndStep DEF Active, At, Answers
  <2>2. req'[r].pc \in {"idle", "save", "dispatch", "send", "mark", "done"}
    <3>1. req'[r] \in RequestStates
      BY DEF TypeOK
    <3> QED
      BY <3>1 DEF RequestStates
  <2>3. CASE At(r, "done")'
    <3>1. ASSUME Created(r)
          PROVE  table'[n] # "pending"
      <4>1. table[n] \in {"sent", "failed"}
        BY <2>1, <3>1, AllSettled
      <4> QED
        BY <4>1, SettledStays
    <3>2. /\ req'[r].ev = req[r].ev /\ req'[r].inserted = req[r].inserted
          /\ req'[r].answer \in {"500", "lost"}
      BY <1>2, <2>1, <2>3, <3>1, DoneStep DEF At, Active
    <3> QED
      BY <2>1, <3>2, InsertedStay DEF Answers
  <2>4. CASE At(r, "save")'
    <3>1. ~(\E e \in EventIDs : Receive(r, e))
      BY <2>1 DEF Receive
    <3>2. n \in InsertedKeys(r)'
      BY <2>1, <2>4, <3>1, SavingStep, InsertedStay, UpsertKeys
    <3> QED
      BY <2>4, <3>2 DEF Answers, Active, At
  <2>5. CASE Serving(r)'
    <3>1. n \in InsertedKeys(r)'
      BY <2>1, <2>5, ServingStep, InsertedStay
    <3> QED
      BY <2>5, <3>1 DEF Answers, Active, Serving, Dispatching, At
  <2> QED
    BY <2>1, <2>2, <2>3, <2>4, <2>5 DEF At, Serving, Dispatching
<1>3. CASE req[r].answer \in {"500", "lost"}
  <2>1. At(r, "done")
    BY <1>3 DEF PositionInv, Positioned
  <2> QED
    BY <1>1, <2>1, EndStep
<1> QED
  BY <1>2, <1>3 DEF Answers

\* At the start no record is pending.
LEMMA PendingInit == Init => PendingHasReason
BY DEF Init, PendingHasReason

\* Every step leaves somebody to answer for a pending record.
LEMMA PendingStep ==
    ASSUME PendingHasReason, TypeOK, TypeOK', PositionInv, PositionInv', LockInv, OwnerInv,
           LoopInv, [Next]_vars
    PROVE  PendingHasReason'
<1> SUFFICES ASSUME NEW n \in Keys, table'[n] = "pending"
             PROVE  \E r \in Requests : Answers(r, n)'
  BY DEF PendingHasReason, Answers
<1>1. CASE table[n] = "pending"
  <2>1. PICK r \in Requests : Answers(r, n)
    BY <1>1 DEF PendingHasReason, Answers
  <2> QED
    BY <2>1, AnswersStep
<1>2. ASSUME NEW r \in Requests, Commit(r) \/ CommitUnheard(r), n \in InsertedKeys(r)
      PROVE  Answers(r, n)'
  <2>1. Answers(r, n)
    BY <1>2 DEF Commit, CommitUnheard, Answers, At, Active
  <2> QED
    BY <2>1, AnswersStep
<1>3. ASSUME NEW r \in Requests, At(r, "mark")
      PROVE  table[Key(r)] = "pending"
  BY <1>3 DEF LoopInv, InHand, Dispatching, At
<1> QED
  BY <1>1, <1>2, <1>3, TableStep

\* A record stays pending for good only behind a request that ended with 500 or
\* without an answer: the request that inserted it runs or ended so.
THEOREM PendingReason == Spec => []PendingHasReason
<1>1. Init => PendingHasReason
  BY PendingInit
<1>2. /\ PendingHasReason /\ TypeOK /\ TypeOK' /\ PositionInv /\ PositionInv' /\ LockInv
      /\ OwnerInv /\ LoopInv /\ [Next]_vars
      => PendingHasReason'
  BY PendingStep
<1> QED
  BY <1>1, <1>2, TypeCorrect, PositionCorrect, LockCorrect, OwnerCorrect, LoopCorrect,
     PTL DEF Spec

(***************************************************************************)
(* The ledger                                                              *)
(***************************************************************************)
\* The records of an event appear together.
TogetherInv ==
    \A e \in EventIDs : \A c, d \in ChannelsOf[e] :
       table[<<e, c>>] = "none" => table[<<e, d>>] = "none"

\* The records of the routes of an event are keys.
LEMMA ChannelKeys ==
    ASSUME NEW e \in EventIDs, NEW c \in ChannelsOf[e]
    PROVE  <<e, c>> \in Keys
BY RouteFacts DEF ChannelsOf, Keys

\* What a transaction commits is nothing, or all the records of its event.
LEMMA CommitsAll ==
    ASSUME TypeOK, PositionInv, LockInv, HoldInv, TogetherInv,
           NEW r \in Requests, At(r, "save"), ~More(r)
    PROVE  /\ req[r].ev \in EventIDs
           /\ \/ InsertedKeys(r) = {}
              \/ /\ InsertedKeys(r) = {req[r].ev} \X ChannelsOf[req[r].ev]
                 /\ \A c \in ChannelsOf[req[r].ev] : table[<<req[r].ev, c>>] = "none"
<1>1. req[r].ev \in EventIDs
  BY StateType DEF At, Active
<1>2. ASSUME NEW n \in InsertedKeys(r)
      PROVE  \E c \in ChannelsOf[req[r].ev] : n = <<req[r].ev, c>>
  <2>1. n \in Keys
    BY InsertedType
  <2>2. PICK j \in 1..(req[r].k - 1) : n = KeyAt(r, j)
    BY <2>1 DEF LockInv, LockedBy, Invisible, Passed
  <2>3. j \in 1..Len(Routes(req[r].ev))
    <3>1. req[r].k \in 1..3 /\ req[r].k <= Len(Routes(req[r].ev)) + 1
      BY StateType DEF PositionInv, Positioned, At, Active
    <3> QED
      BY <3>1, RouteFacts
  <2> QED
    BY <1>1, <2>2, <2>3 DEF KeyAt, ChannelsOf
<1>3. \A c \in ChannelsOf[req[r].ev] :
         table[<<req[r].ev, c>>] = "none" <=> <<req[r].ev, c>> \in InsertedKeys(r)
  BY AllHeld
<1>4. ASSUME NEW n \in InsertedKeys(r)
      PROVE  /\ InsertedKeys(r) = {req[r].ev} \X ChannelsOf[req[r].ev]
             /\ \A c \in ChannelsOf[req[r].ev] : table[<<req[r].ev, c>>] = "none"
  <2>1. PICK d \in ChannelsOf[req[r].ev] : n = <<req[r].ev, d>>
    BY <1>2
  <2>2. \A c \in ChannelsOf[req[r].ev] : table[<<req[r].ev, c>>] = "none"
    BY <1>1, <1>3, <1>4, <2>1 DEF TogetherInv
  <2>3. \A c \in ChannelsOf[req[r].ev] : <<req[r].ev, c>> \in InsertedKeys(r)
    BY <1>3, <2>2
  <2> QED
    BY <1>2, <2>2, <2>3
<1> QED
  BY <1>1, <1>4

\* Every step keeps the records of an event together.
LEMMA TogetherStep ==
    ASSUME TypeOK, PositionInv, LockInv, OwnerInv, HoldInv, TogetherInv, [Next]_vars
    PROVE  TogetherInv'
<1> SUFFICES ASSUME NEW e \in EventIDs, NEW c \in ChannelsOf[e], NEW d \in ChannelsOf[e],
                    table'[<<e, c>>] = "none"
             PROVE  table'[<<e, d>>] = "none"
  BY DEF TogetherInv, ChannelsOf
<1>1. <<e, c>> \in Keys /\ <<e, d>> \in Keys
  BY ChannelKeys
<1>2. table[<<e, c>>] = "none" /\ table[<<e, d>>] = "none"
  BY <1>1, RowStays DEF TogetherInv
<1>3. ASSUME NEW r \in Requests, Commit(r) \/ CommitUnheard(r), <<e, d>> \in InsertedKeys(r)
      PROVE  FALSE
  <2>1. At(r, "save") /\ ~More(r) /\ WriteInserted(r)
    BY <1>3 DEF Commit, CommitUnheard
  <2>2. req[r].ev = e /\ <<e, c>> \in InsertedKeys(r)
    <3>1. req[r].ev = e
      BY <1>3 DEF InsertedKeys
    <3> QED
      BY <1>3, <2>1, <3>1, CommitsAll
  <2>3. table'[<<e, c>>] = "pending"
    BY <1>1, <2>1, <2>2 DEF WriteInserted
  <2> QED
    BY <2>3
<1>4. ASSUME NEW r \in Requests, At(r, "mark")
      PROVE  table[Key(r)] # "none"
  <2>1. Serving(r) /\ Key(r) \in InsertedKeys(r) /\ Key(r) \in Keys
    BY <1>4, InHandKey DEF Dispatching, At
  <2> QED
    BY <2>1 DEF OwnerInv, Owns
<1> QED
  BY <1>1, <1>2, <1>3, <1>4, TableStep

\* At the start there are none.
LEMMA TogetherInit == Init => TogetherInv
BY ChannelKeys DEF Init, TogetherInv

\* The records of an event are always all there or all absent.
LEMMA TogetherCorrect == Spec => []TogetherInv
<1>1. Init => TogetherInv
  BY TogetherInit
<1>2. TogetherInv /\ TypeOK /\ PositionInv /\ LockInv /\ OwnerInv /\ HoldInv /\ [Next]_vars
      => TogetherInv'
  BY TogetherStep
<1> QED
  BY <1>1, <1>2, TypeCorrect, PositionCorrect, LockCorrect, OwnerCorrect, HoldCorrect, PTL DEF Spec


\* The empty table is where the ledger begins.
LEMMA LedgerInit == Init => Ledger!Init
BY DEF Init, Ledger!Init, Ledger!Keys, Keys

\* COMMIT records all the routes of an event, or nothing.
LEMMA LedgerCommit ==
    ASSUME TypeOK, PositionInv, LockInv, HoldInv, TogetherInv, NEW r \in Requests,
           At(r, "save"), ~More(r), WriteInserted(r), UNCHANGED senders
    PROVE  [Ledger!Next]_Ledger!vars
<1>1. req[r].ev \in EventIDs
  BY CommitsAll
<1>2. CASE InsertedKeys(r) = {}
  <2>1. table' = table
    BY <1>2 DEF WriteInserted, TypeOK
  <2> QED
    BY <2>1 DEF Ledger!vars
<1>3. CASE /\ InsertedKeys(r) = {req[r].ev} \X ChannelsOf[req[r].ev]
           /\ \A c \in ChannelsOf[req[r].ev] : table[<<req[r].ev, c>>] = "none"
  <2>1. Ledger!Record(req[r].ev)
    BY <1>1, <1>3 DEF Ledger!Record, Ledger!Keys, Keys, WriteInserted
  <2> QED
    BY <1>1, <2>1 DEF Ledger!Next
<1> QED
  BY <1>2, <1>3, CommitsAll

\* An UPDATE settles a record that was dispatched.
LEMMA LedgerSettle ==
    ASSUME TypeOK, PositionInv, OwnerInv, LoopInv, NEW r \in Requests, At(r, "mark"),
           table' = [table EXCEPT ![Key(r)] = req[r].outcome], UNCHANGED senders
    PROVE  [Ledger!Next]_Ledger!vars
<1>1. Dispatching(r)
  BY DEF Dispatching, At
<1>2. Key(r) \in Keys
  BY <1>1, InHandKey
<1>3. /\ table[Key(r)] = "pending" /\ r \in senders[Key(r)]
      /\ req[r].outcome \in {"sent", "failed"}
  BY <1>1 DEF LoopInv, InHand
<1>4. Ledger!Settle(Key(r), req[r].outcome)
  BY <1>2, <1>3 DEF Ledger!Settle, Ledger!Keys, Keys
<1> QED
  BY <1>2, <1>3, <1>4 DEF Ledger!Next, Ledger!Keys, Keys

\* A dispatch begins with a record that is pending and was never dispatched.
LEMMA LedgerDispatch ==
    ASSUME TypeOK, PositionInv, OwnerInv, LoopInv, NEW r \in Requests, StartDispatch(r)
    PROVE  [Ledger!Next]_Ledger!vars
<1>1. /\ Serving(r) /\ Key(r) \in InsertedKeys(r) /\ Key(r) \in Keys
      /\ More(r) /\ req[r].ev \in EventIDs /\ ~Dispatching(r)
  BY StartOwns DEF StartDispatch, Dispatching, At
<1>2. PICK n \in Keys : n = Key(r)
  BY <1>1
<1>3. table[n] = "pending" /\ senders[n] = {}
  BY <1>1, <1>2, KeyNotPassed DEF LoopInv, Progress, Untouched
<1>4. table' = table /\ senders' = [senders EXCEPT ![n] = @ \cup {r}]
  BY <1>2 DEF StartDispatch
<1>5. [m \in Keys |-> senders'[m] # {}] = [[m \in Keys |-> senders[m] # {}] EXCEPT ![n] = TRUE]
  BY <1>4 DEF TypeOK
<1>6. Ledger!Dispatch(n)
  BY <1>3, <1>4, <1>5 DEF Ledger!Dispatch
<1> QED
  BY <1>6 DEF Ledger!Next, Ledger!Keys, Keys

\* Every step of a request is a step of the ledger, or none.
LEMMA LedgerStep ==
    ASSUME TypeOK, PositionInv, LockInv, OwnerInv, LoopInv, HoldInv, TogetherInv, [Next]_vars
    PROVE  [Ledger!Next]_Ledger!vars
<1>1. ASSUME UNCHANGED <<table, senders>>
      PROVE  [Ledger!Next]_Ledger!vars
  BY <1>1 DEF Ledger!vars
<1>2. ASSUME NEW r \in Requests, SendNotification(r)
      PROVE  [Ledger!Next]_Ledger!vars
  <2>1. CASE Commit(r) \/ CommitUnheard(r)
    BY <2>1, LedgerCommit DEF Commit, CommitUnheard, history
  <2>2. CASE StartDispatch(r)
    BY <2>2, LedgerDispatch
  <2>3. CASE UpdateStatus(r)
    BY <2>3, LedgerSettle DEF UpdateStatus, history
  <2>4. CASE UpdateFails(r)
    BY <1>1, <2>4, LedgerSettle DEF UpdateFails, history
  <2>5. CASE Upsert(r) \/ SaveFails(r) \/ Skip(r) \/ BackoffCancelled(r) \/ Created(r)
    BY <1>1, <2>5 DEF Upsert, SaveFails, Skip, BackoffCancelled, Created, history
  <2>6. CASE Send(r)
    BY <1>1, <2>6 DEF Send
  <2> QED
    BY <1>2, <2>1, <2>2, <2>3, <2>4, <2>5, <2>6 DEF SendNotification
<1>3. ASSUME NEW r \in Requests,
             \/ \E e \in EventIDs : Receive(r, e)
             \/ \E e \in EventIDs \cup {None} : Refuse(r, e)
             \/ ClientGone(r)
      PROVE  [Ledger!Next]_Ledger!vars
  BY <1>1, <1>3 DEF Receive, Refuse, ClientGone, history
<1>4. ASSUME NEW S, Crash(S)
      PROVE  [Ledger!Next]_Ledger!vars
  BY <1>1, <1>4 DEF Crash, history
<1>5. CASE UNCHANGED vars
  BY <1>1, <1>5 DEF vars
<1> QED
  BY <1>2, <1>3, <1>4, <1>5 DEF Next

\* Each event's records appear together, are dispatched once and settled once,
\* whatever the requests, transactions and crashes in between.
THEOREM LedgerImplemented == Spec => ImplementsLedger
<1>1. Init => Ledger!Init
  BY LedgerInit
<1>2. /\ TypeOK /\ PositionInv /\ LockInv /\ OwnerInv /\ LoopInv /\ HoldInv /\ TogetherInv
      /\ [Next]_vars
      => [Ledger!Next]_Ledger!vars
  BY LedgerStep
<1> QED
  BY <1>1, <1>2, TypeCorrect, PositionCorrect, LockCorrect, OwnerCorrect, LoopCorrect,
     HoldCorrect, TogetherCorrect, PTL DEF Spec, ImplementsLedger, Ledger!Spec

(***************************************************************************)
(* What the callers rely on                                                *)
(***************************************************************************)
\* A step counts one fault at most.
LEMMA FaultsRise == TypeOK /\ [Next]_vars => faults' = faults \/ faults' = faults + 1
<1>1. \A r : CallFails(r) => faults' = faults \/ faults' = faults + 1
  BY DEF CallFails, Faulty
<1> QED
  BY <1>1 DEF Next, Receive, Refuse, SendNotification, Upsert, Commit, SaveFails, CommitUnheard,
     Skip, StartDispatch, Send, BackoffCancelled, UpdateStatus, UpdateFails, Created,
     ClientGone, Crash, Faulty, vars

\* A request that has begun is of one event for good, never begins again, and
\* does not move once it is answered.
LEMMA CallerStep ==
    ASSUME TypeOK, PositionInv, [Next]_vars, NEW q \in Requests, ~At(q, "idle")
    PROVE  /\ ~At(q, "idle")' /\ req'[q].ev = req[q].ev
           /\ Active(q)' => Active(q)
           /\ At(q, "done") => req'[q] = req[q]
<1>1. ~At(q, "idle")' /\ (At(q, "done") => req'[q] = req[q])
  BY EndStep
<1>2. req'[q].ev = req[q].ev
  <2>1. ASSUME NEW e, Receive(q, e) \/ Refuse(q, e)
        PROVE  FALSE
    BY <2>1 DEF Receive, Refuse
  <2> QED
    BY <2>1, SendKeeps, ClientGoneEffect, CrashEffect, OwnStep
<1> QED
  BY <1>1, <1>2 DEF Active, At

\* A request that has not begun is begun by its caller only.
LEMMA IdleStays ==
    ASSUME TypeOK, PositionInv, NEW q \in Requests, At(q, "idle"),
           \/ \E r \in Requests : SendNotification(r) \/ ClientGone(r)
           \/ \E S \in SUBSET {r \in Requests : Active(r)} : Crash(S)
    PROVE  req'[q] = req[q]
<1>1. ~Active(q)
  BY DEF Active, At
<1>2. ASSUME NEW r \in Requests, SendNotification(r) \/ ClientGone(r)
      PROVE  req'[q] = req[q]
  <2>1. Active(r)
    BY <1>2 DEF SendNotification, Upsert, Commit, SaveFails, CommitUnheard, Skip, StartDispatch,
       Send, BackoffCancelled, UpdateStatus, UpdateFails, Created, ClientGone, At, Active
  <2>2. Only(r)
    BY <1>2, PositionedStep
  <2> QED
    BY <1>1, <2>1, <2>2 DEF Only
<1>3. ASSUME NEW S \in SUBSET {r \in Requests : Active(r)}, Crash(S)
      PROVE  req'[q] = req[q]
  <2>1. q \notin S
    BY <1>1
  <2> QED
    BY <1>3, <2>1, CrashEffect
<1> QED
  BY <1>2, <1>3

\* Without faults every request is answered, and one that ends with 500 does so
\* because its context is cancelled.
Calm(r) == req[r].answer # "lost" /\ (req[r].answer = "500" => req[r].gone)

CalmInv == faults = 0 => \A r \in Requests : Calm(r)

\* Every step keeps requests calm as long as nothing fails.
LEMMA CalmStep ==
    ASSUME TypeOK, PositionInv, CalmInv, [Next]_vars
    PROVE  CalmInv'
<1> SUFFICES ASSUME faults' = 0, NEW q \in Requests
             PROVE  Calm(q)'
  BY DEF CalmInv
<1>1. faults \in Nat
  BY BoundAssumption DEF TypeOK
<1>2. ~Faulty /\ faults = 0
  BY <1>1, FaultsRise DEF Faulty
<1>3. Calm(q)
  BY <1>2 DEF CalmInv
<1>4. ASSUME SendNotification(q)
      PROVE  Calm(q)'
  <2>1. req'[q].gone = req[q].gone
    BY <1>4, SendKeeps
  <2>2. ASSUME SaveFails(q) \/ CommitUnheard(q) \/ UpdateFails(q)
        PROVE  req'[q].answer = "500" /\ req[q].gone
    BY <1>2, <2>2, RespondEffect DEF SaveFails, CommitUnheard, UpdateFails, CallFails
  <2>3. ASSUME Send(q) \/ BackoffCancelled(q)
        PROVE  req'[q].answer = req[q].answer
    <3>1. \/ \E outcome : Dispatched(q, outcome)
          \/ req' = [req EXCEPT ![q].attempt = @ + 1]
      BY <2>3 DEF Send, BackoffCancelled
    <3> QED
      BY <3>1, DispatchedEffect, RetryEffect
  <2>4. Created(q) => req'[q].answer = "201"
    BY RespondEffect DEF Created
  <2>5. \/ req'[q].answer \in {req[q].answer, "201"}
        \/ req'[q].answer = "500" /\ req[q].gone
    BY <1>4, <2>2, <2>3, <2>4, UpsertEffect, CommitEffect, SkipEffect, StartDispatchEffect,
       UpdateStatusEffect DEF SendNotification
  <2> QED
    BY <1>3, <2>1, <2>5 DEF Calm
<1>5. ASSUME ClientGone(q) PROVE Calm(q)'
  BY <1>3, <1>5, ClientGoneEffect DEF Calm
<1>6. \A S : ~Crash(S)
  BY <1>2 DEF Crash
<1>7. ASSUME NEW e \in EventIDs, Receive(q, e)
      PROVE  Calm(q)'
  BY <1>3, <1>7, ReceiveEffect DEF Calm
<1>8. ASSUME NEW e \in EventIDs \cup {None}, Refuse(q, e)
      PROVE  Calm(q)'
  BY <1>3, <1>8, RefuseEffect DEF Calm
<1>9. ASSUME req'[q] = req[q] PROVE Calm(q)'
  BY <1>3, <1>9 DEF Calm
<1> QED
  BY <1>4, <1>5, <1>6, <1>7, <1>8, <1>9, OwnStep

(***************************************************************************)
(* The invariants together, for a system that this service is a part of    *)
(***************************************************************************)
ServiceInv ==
    /\ TypeOK /\ PositionInv /\ LockInv /\ OwnerInv /\ LoopInv /\ HoldInv
    /\ AnswerInv /\ PendingHasReason /\ CalmInv /\ TogetherInv

\* They hold at the start.
LEMMA ServiceInit == Init => ServiceInv
<1>1. Init => CalmInv
  BY DEF Init, IdleRequest, Calm, CalmInv
<1> QED
  BY <1>1, TypeInit, LockInit, OwnerInit, LoopInit, HoldInit, AnswerInit, PendingInit,
     TogetherInit DEF ServiceInv

\* Every step of the service keeps them.
LEMMA ServiceStep == ServiceInv /\ [Next]_vars => ServiceInv'
BY TypeStep, LockStep, OwnerStep, LoopStep, HoldStep, AnswerStep, PendingStep, CalmStep,
   TogetherStep DEF ServiceInv

\* What the service promises follows from them.
LEMMA ServiceImplies ==
    ServiceInv => /\ OneDispatcher /\ BoundedCalls /\ RecordIsTruthful
                  /\ CreatedIsHonest /\ PendingHasReason /\ WaitsAreOrdered
BY OneFromOwner, CallsFromLoop, TruthFromLoop, HonestFromAnswer, WaitsFromLocks DEF ServiceInv

\* Every step is one of the ledger, or none.
LEMMA ServiceLedger == ServiceInv /\ [Next]_vars => [Ledger!Next]_Ledger!vars
BY LedgerStep DEF ServiceInv

\* A fault of something else that the service shares the bound with changes nothing.
LEMMA ServiceIdle ==
    ASSUME ServiceInv, UNCHANGED <<table, lock, req, senders, delivered, errors>>,
           faults' \in 0..MaxFaults, faults' >= faults
    PROVE  ServiceInv'
<1>1. /\ \A r, pc : At(r, pc)' <=> At(r, pc)
      /\ \A r : (More(r)' <=> More(r)) /\ (Active(r)' <=> Active(r))
      /\ \A r : Channel(r)' = Channel(r) /\ Key(r)' = Key(r)
      /\ \A r : InsertedKeys(r)' = InsertedKeys(r)
  BY DEF At, More, Active, Channel, Key, InsertedKeys
<1>2. /\ \A r, n : (Passed(r, n)' <=> Passed(r, n)) /\ (Ahead(r, n)' <=> Ahead(r, n))
      /\ \A r : (Dispatching(r)' <=> Dispatching(r)) /\ (Serving(r)' <=> Serving(r))
  BY DEF Passed, KeyAt, Ahead, Dispatching, Serving, At
<1>3. TypeOK'
  BY <1>1 DEF ServiceInv, TypeOK
<1>4. PositionInv'
  BY <1>1 DEF ServiceInv, PositionInv, Positioned
<1>5. LockInv' /\ HoldInv'
  BY <1>1, <1>2 DEF ServiceInv, LockInv, LockedBy, Invisible, HoldInv, Holds
<1>6. OwnerInv'
  BY <1>1, <1>2 DEF ServiceInv, OwnerInv, Owns, Exclusive, SentOnce
<1>7. LoopInv'
  <2>1. \A n : (Untouched(n)' <=> Untouched(n)) /\ (Truthful(n)' <=> Truthful(n))
    BY DEF Untouched, Truthful
  <2>2. \A r, n : Progress(r, n)' <=> Progress(r, n)
    BY <1>1, <1>2, <2>1 DEF Progress
  <2>3. \A r : InHand(r)' <=> InHand(r)
    BY <1>1, <1>2 DEF InHand
  <2> QED
    BY <2>1, <2>2, <2>3 DEF ServiceInv, LoopInv
<1>8. AnswerInv'
  BY <1>1, <1>2 DEF ServiceInv, AnswerInv, Routed, Served, Valid
<1>11. TogetherInv'
  BY DEF ServiceInv, TogetherInv, ChannelsOf, Routes
<1>9. PendingHasReason'
  BY <1>1 DEF ServiceInv, PendingHasReason
<1>10. CalmInv'
  <2>1. faults' = 0 => faults = 0
    BY BoundAssumption DEF ServiceInv, TypeOK
  <2> QED
    BY <1>1, <2>1 DEF ServiceInv, CalmInv, Calm
<1> QED
  BY <1>3, <1>4, <1>5, <1>6, <1>7, <1>8, <1>9, <1>10, <1>11 DEF ServiceInv

====
