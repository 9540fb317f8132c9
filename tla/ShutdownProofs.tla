--------------------------- MODULE ShutdownProofs ---------------------------
(***************************************************************************)
(* Theorems about Shutdown, for any requests, times and numbers of retries. *)
(***************************************************************************)
EXTENDS Shutdown, TLAPS

(***************************************************************************)
(* Types                                                                   *)
(***************************************************************************)
\* Where the worker goes, its attempt and the time it may take have their types.
LEMMA RunType ==
    ASSUME TypeOK, Run
    PROVE  /\ worker' \in {"check", "poll", "post", "backoff", "mark", "stopped"}
           /\ attempt' \in 0..MaxRetries
           /\ left' \in Nat
           /\ late' \in Nat
<1>1. ASSUME worker = "post", PostEnds
      PROVE  /\ worker' \in {"mark", "backoff"}
             /\ attempt' \in 0..MaxRetries
             /\ left' \in Nat
  <2>1. attempt \in 0..MaxRetries
    BY DEF TypeOK
  <2>2. attempt < MaxRetries => Delay[attempt + 1] \in Nat
    BY <2>1, TimeAssumption
  <2> QED
    BY <1>1, <2>1, <2>2, TimeAssumption DEF PostEnds, Work
<1> QED
  BY <1>1, TimeAssumption
     DEF TypeOK, Run, Check, PollNothing, PollEvent, PostEnds, BackoffEnds, Mark, Work

\* Every step of the process keeps every variable in its type.
LEMMA TypeStep == TypeOK /\ [Next]_vars => TypeOK'
<1> SUFFICES ASSUME TypeOK, [Next]_vars PROVE TypeOK'
  OBVIOUS
<1> USE TimeAssumption
<1>1. CASE Signal
  BY <1>1 DEF TypeOK, Signal, http, stop, doing, history
<1>2. CASE ServeError
  BY <1>2 DEF TypeOK, ServeError, stop, doing, history
<1>3. ASSUME NEW r \in Requests, Accept(r) \/ Respond(r) PROVE TypeOK'
  BY <1>3 DEF TypeOK, Accept, Respond, stop, doing, history
<1>4. CASE Main
  BY <1>4 DEF TypeOK, Main, BeginShutdown, Drain, Wait, WaitReconciler, http, doing, history
<1>5. CASE Run
  <2>1. WorkerOnly
    BY <1>5 DEF Run, Check, PollNothing, PollEvent, PostEnds, BackoffEnds, Mark
  <2> QED
    BY <1>5, <2>1, RunType DEF TypeOK, WorkerOnly, http, stop
<1>6. CASE RunReconciler
  BY <1>6 DEF TypeOK, RunReconciler, Wake, PassEnds, http, stop, doing, history
<1>7. CASE Tick
  <2>1. left' \in Nat
    BY <1>7 DEF TypeOK, Tick, WorkerWaits
  <2>2. grace' \in 0..Grace /\ elapsed' \in Nat
    BY <1>7 DEF TypeOK, Tick, MainWaits
  <2>3. due \in BOOLEAN
    BY DEF TypeOK
  <2>4. due' \in {due, TRUE}
    BY <1>7 DEF Tick
  <2>5. due' \in BOOLEAN
    BY <2>3, <2>4, Zenon
  <2>6. UNCHANGED <<cancelled, server, conns, main, cause, worker, attempt, reconciler, late>>
    BY <1>7 DEF Tick, http
  <2> QED
    BY <2>1, <2>2, <2>5, <2>6 DEF TypeOK
<1>8. CASE UNCHANGED vars
  BY <1>8 DEF TypeOK, vars
<1> QED
  BY <1>1, <1>2, <1>3, <1>4, <1>5, <1>6, <1>7, <1>8 DEF Next

\* A process that has just started has the right types.
LEMMA TypeInit == Init => TypeOK
<1> SUFFICES ASSUME Init PROVE TypeOK
  OBVIOUS
<1>1. cancelled \in BOOLEAN /\ due \in BOOLEAN
  BY Zenon DEF Init
<1>2. grace \in 0..Grace /\ attempt \in 0..MaxRetries /\ left \in Nat
      /\ late \in Nat /\ elapsed \in Nat
  BY TimeAssumption DEF Init
<1> QED
  BY <1>1, <1>2 DEF Init, TypeOK

\* Every variable of a stopping process keeps to its type: no wait is entered
\* with a negative time, no retry is made beyond the last.
THEOREM TypeCorrect == Spec => []TypeOK
BY TypeInit, TypeStep, PTL DEF Spec

(***************************************************************************)
(* The shared minute                                                       *)
(***************************************************************************)
\* Time in the shutdown and time left of it add up.
ClockInv ==
    /\ main = "select" => elapsed = 0
    /\ main # "select" => elapsed + grace = Grace

\* Only Tick lets time pass, and BeginShutdown starts the clock.
LEMMA ClockStep == TypeOK /\ ClockInv /\ [Next]_vars => ClockInv'
<1> SUFFICES ASSUME TypeOK, ClockInv, [Next]_vars PROVE ClockInv'
  OBVIOUS
<1> USE TimeAssumption
<1>1. CASE Main
  BY <1>1 DEF ClockInv, TypeOK, Main, BeginShutdown, Drain, Wait, WaitReconciler, history
<1>2. CASE Tick
  BY <1>2 DEF ClockInv, TypeOK, Tick
<1>3. CASE UNCHANGED <<main, grace, elapsed>>
  BY <1>3 DEF ClockInv
<1>4. Main \/ Tick \/ UNCHANGED <<main, grace, elapsed>>
  BY DEF Next, Signal, ServeError, Accept, Respond, Run, Check, PollNothing, PollEvent,
         PostEnds, BackoffEnds, Mark, WorkerOnly, RunReconciler, Wake, PassEnds, stop,
         history, vars
<1> QED
  BY <1>1, <1>2, <1>3, <1>4

\* The drain and the two waits together take no longer than shutdownCtx allows.
THEOREM AlwaysStopsInTime == Spec => []StopsInTime
<1>1. Init => TypeOK /\ ClockInv
  BY TypeInit DEF Init, ClockInv
<1>2. TypeOK /\ ClockInv /\ [Next]_vars => (TypeOK /\ ClockInv)'
  BY TypeStep, ClockStep
<1>3. TypeOK /\ ClockInv => StopsInTime
  BY TimeAssumption DEF TypeOK, ClockInv, StopsInTime
<1> QED
  BY <1>1, <1>2, <1>3, PTL DEF Spec

(***************************************************************************)
(* Nothing is abandoned after a signal                                     *)
(***************************************************************************)
\* Longest[n] is the longest time from the start of attempt n of
\* sendToNotificationService to its end: a POST that times out, and, unless it
\* is the last attempt, a backoff and the attempts that follow.
IsLongest(Longest) ==
    /\ Longest \in [0..MaxRetries -> Nat]
    /\ Longest[MaxRetries] = ClientTimeout
    /\ \A n \in 0..MaxRetries : n < MaxRetries =>
          Longest[n] = ClientTimeout + Delay[n + 1] + Longest[n + 1]

\* The longest time that the worker may still need before it looks at the
\* context again.
Need(Longest) ==
    CASE worker = "poll"    -> Longest[0]
      [] worker = "post"    -> left + (Longest[attempt] - ClientTimeout)
      [] worker = "backoff" -> left + Longest[attempt]
      [] OTHER              -> 0

\* The worker never needs longer than one processOne; once a signal has stopped
\* main, it will be done while time is left.
SignalInv(Longest) ==
    /\ cause = "signal" => cancelled
    /\ main = "select" => cause = "none"
    /\ Need(Longest) <= Longest[0]
    /\ cause = "signal" /\ worker # "stopped" => Need(Longest) < grace
    /\ cause = "signal" /\ main \in {"reconciler", "exited"} => worker = "stopped"

\* The times that Need is made of are natural numbers.
LEMMA NeedType ==
    ASSUME NEW Longest, IsLongest(Longest), TypeOK
    PROVE  /\ Longest[0] \in Nat /\ Longest[attempt] \in Nat
           /\ Longest[attempt] >= ClientTimeout
           /\ Need(Longest) \in Nat
<1>1. attempt \in 0..MaxRetries /\ left \in Nat
  BY DEF TypeOK
<1>2. Longest[0] \in Nat /\ Longest[attempt] \in Nat
  BY <1>1, TimeAssumption DEF IsLongest
<1>3. Longest[attempt] >= ClientTimeout
  <2>1. CASE attempt = MaxRetries
    BY <1>2, <2>1, TimeAssumption DEF IsLongest
  <2>2. CASE attempt < MaxRetries
    <3>1. Longest[attempt] = ClientTimeout + Delay[attempt + 1] + Longest[attempt + 1]
      BY <1>1, <2>2 DEF IsLongest
    <3>2. Delay[attempt + 1] \in Nat /\ Longest[attempt + 1] \in Nat
      BY <1>1, <2>2, TimeAssumption DEF IsLongest
    <3> QED
      BY <3>1, <3>2, TimeAssumption
  <2> QED
    BY <1>1, <2>1, <2>2, TimeAssumption
<1> QED
  BY <1>1, <1>2, <1>3, TimeAssumption DEF Need

\* A step of the worker never raises what it needs, but for Check, which takes
\* up new work only while the context is live.
LEMMA RunNeed ==
    ASSUME NEW Longest, IsLongest(Longest), TypeOK, Run, Need(Longest) <= Longest[0]
    PROVE  /\ Need(Longest)' \in Int /\ Need(Longest)' <= Longest[0]
           /\ cancelled => Need(Longest)' <= Need(Longest)
           /\ WorkerOnly /\ worker # "stopped"
<1>0. /\ Longest[0] \in Nat /\ Need(Longest) \in Nat
      /\ attempt \in 0..MaxRetries /\ left \in Nat /\ ClientTimeout \in Nat
  BY NeedType, TimeAssumption DEF TypeOK
<1>1. CASE Check
  BY <1>0, <1>1 DEF Check, Work, Need
<1>2. CASE PollNothing
  BY <1>0, <1>2 DEF PollNothing, Work, Need
<1>3. CASE PollEvent
  <2>1. Need(Longest) = Longest[0]
    BY <1>3 DEF PollEvent, Need
  <2>2. Need(Longest)' \in {0, Longest[0]}
    BY <1>0, <1>3 DEF PollEvent, Work, Need
  <2> QED
    BY <1>0, <1>3, <2>1, <2>2 DEF PollEvent
<1>4. CASE PostEnds
  <2>1. Need(Longest) = left + (Longest[attempt] - ClientTimeout)
    BY <1>4 DEF PostEnds, Need
  <2>2. CASE Work("mark", attempt, 0)
    BY <1>0, <1>4, <2>2 DEF PostEnds, Work, Need
  <2>3. CASE attempt < MaxRetries /\ Work("backoff", attempt + 1, Delay[attempt + 1])
    <3>1. Longest[attempt] = ClientTimeout + Delay[attempt + 1] + Longest[attempt + 1]
      BY <1>0, <2>3 DEF IsLongest
    <3>2. Delay[attempt + 1] \in Nat /\ Longest[attempt + 1] \in Nat
      BY <1>0, <2>3, TimeAssumption DEF IsLongest
    <3>3. Need(Longest)' = Delay[attempt + 1] + Longest[attempt + 1]
      BY <2>3 DEF Work, Need
    <3> QED
      BY <1>0, <1>4, <2>1, <3>1, <3>2, <3>3 DEF PostEnds
  <2> QED
    BY <1>4, <2>2, <2>3 DEF PostEnds
<1>5. CASE BackoffEnds
  <2>1. Need(Longest) = Longest[attempt] /\ Longest[attempt] \in Nat
    BY <1>5, NeedType DEF BackoffEnds, Need
  <2>2. Need(Longest)' = ClientTimeout + (Longest[attempt] - ClientTimeout)
    BY <1>5 DEF BackoffEnds, Work, Need
  <2> QED
    BY <1>0, <1>5, <2>1, <2>2 DEF BackoffEnds
<1>6. CASE Mark
  BY <1>0, <1>6 DEF Mark, Work, Need
<1> QED
  BY <1>1, <1>2, <1>3, <1>4, <1>5, <1>6 DEF Run

\* A tick takes a unit of what a busy worker needs, and a worker that polls with
\* a context that is done lets no time pass.
LEMMA TickNeed ==
    ASSUME NEW Longest, IsLongest(Longest), TypeOK, Tick
    PROVE  /\ Need(Longest)' \in Int /\ Need(Longest)' <= Need(Longest)
           /\ cancelled /\ worker # "stopped" => Need(Longest)' = Need(Longest) - 1
<1>1. /\ Longest[attempt] \in Nat /\ Longest[0] \in Nat
      /\ left \in Nat /\ ClientTimeout \in Nat
  BY NeedType, TimeAssumption DEF TypeOK
<1>2. CASE worker \in {"post", "backoff"}
  BY <1>1, <1>2 DEF Tick, Need
<1>3. CASE (worker = "poll" /\ ~cancelled) \/ worker = "stopped"
  BY <1>1, <1>3 DEF Tick, Need
<1> QED
  BY <1>2, <1>3 DEF Tick, WorkerWaits

\* A step of main: the grace period starts longer than what the worker needs,
\* and main leaves the wait only when the worker has stopped.
LEMMA MainSignal ==
    ASSUME NEW Longest, IsLongest(Longest), Longest[0] < Grace,
           TypeOK, SignalInv(Longest), Main
    PROVE  SignalInv(Longest)'
<1>1. Longest[0] \in Nat /\ Need(Longest) \in Nat /\ Grace \in Nat /\ grace \in Nat
  BY NeedType, TimeAssumption DEF TypeOK
<1>2. Need(Longest)' = Need(Longest)
  BY DEF Main, BeginShutdown, Drain, Wait, WaitReconciler, doing, Need
<1>3. CASE BeginShutdown
  BY <1>1, <1>2, <1>3 DEF BeginShutdown, SignalInv, doing
<1>4. CASE Drain \/ WaitReconciler
  BY <1>1, <1>2, <1>4 DEF Drain, WaitReconciler, SignalInv, doing
<1>5. CASE Wait
  BY <1>1, <1>2, <1>5 DEF Wait, SignalInv, doing
<1> QED
  BY <1>3, <1>4, <1>5 DEF Main

\* Every step keeps the worker within its time.
LEMMA SignalStep ==
    ASSUME NEW Longest, IsLongest(Longest), Longest[0] < Grace,
           TypeOK, SignalInv(Longest), [Next]_vars
    PROVE  SignalInv(Longest)'
<1>1. Longest[0] \in Nat /\ Need(Longest) \in Nat /\ grace \in Nat
  BY NeedType, TimeAssumption DEF TypeOK
<1>2. CASE Run
  <2>1. /\ Need(Longest)' \in Int /\ Need(Longest)' <= Longest[0]
        /\ cancelled => Need(Longest)' <= Need(Longest)
        /\ WorkerOnly /\ worker # "stopped"
    BY <1>2, RunNeed DEF SignalInv
  <2>2. UNCHANGED <<cancelled, main, cause, grace>>
    BY <2>1 DEF WorkerOnly, stop
  <2> QED
    BY <1>1, <2>1, <2>2 DEF SignalInv
<1>3. CASE Tick
  <2>1. /\ UNCHANGED <<cancelled, main, cause, worker>>
        /\ main # "select" => grace' = grace - 1
    BY <1>3 DEF Tick
  <2> QED
    BY <1>1, <1>3, <2>1, TickNeed DEF SignalInv
<1>4. CASE Main
  BY <1>4, MainSignal
<1>5. ASSUME UNCHANGED <<stop, doing>>, cancelled => cancelled'
      PROVE  SignalInv(Longest)'
  BY <1>5 DEF SignalInv, stop, doing, Need
<1>6. CASE Signal
  BY <1>5, <1>6 DEF Signal
<1>7. CASE ServeError \/ (\E r \in Requests : Accept(r) \/ Respond(r)) \/ RunReconciler
  BY <1>5, <1>7 DEF ServeError, Accept, Respond, RunReconciler, Wake, PassEnds
<1>8. CASE UNCHANGED vars
  BY <1>5, <1>8 DEF vars, stop, doing
<1> QED
  BY <1>2, <1>3, <1>4, <1>6, <1>7, <1>8 DEF Next

\* If the timeout of shutdownCtx is longer than the longest processOne, main does
\* not exit after a signal before the worker has left its loop: the event in
\* hand is finished, whatever the clients and the notification service do.
THEOREM NothingAbandoned ==
    ASSUME NEW CONSTANT Longest, IsLongest(Longest), Longest[0] < Grace
    PROVE  Spec => []SignalAbandonsNothing
<1>1. Init => TypeOK /\ SignalInv(Longest)
  <2> SUFFICES ASSUME Init PROVE SignalInv(Longest)
    BY TypeInit
  <2>1. Longest[0] \in Nat
    BY TypeInit, NeedType
  <2> QED
    BY <2>1 DEF Init, SignalInv, Need
<1>2. TypeOK /\ SignalInv(Longest) /\ [Next]_vars => (TypeOK /\ SignalInv(Longest))'
  BY TypeStep, SignalStep
<1>3. SignalInv(Longest) => SignalAbandonsNothing
  BY DEF SignalInv, SignalAbandonsNothing
<1> QED
  BY <1>1, <1>2, <1>3, PTL DEF Spec

(***************************************************************************)
(* One event more                                                          *)
(***************************************************************************)
\* The event that BLPOP had in hand is the last one: after it the worker does
\* not poll again, for it looks at the context first.
LateInv == late <= 1 /\ (late > 0 => cancelled /\ worker # "poll")

\* Only PollEvent counts, and Check goes on to poll only while the context is live.
LEMMA LateStep == TypeOK /\ LateInv /\ [Next]_vars => LateInv'
<1> SUFFICES ASSUME TypeOK, LateInv, [Next]_vars PROVE LateInv'
  OBVIOUS
<1>1. late \in Nat
  BY DEF TypeOK
<1>2. CASE Run
  <2>1. UNCHANGED cancelled
    BY <1>2 DEF Run, Check, PollNothing, PollEvent, PostEnds, BackoffEnds, Mark, WorkerOnly
  <2>2. CASE Check
    BY <2>1, <2>2 DEF LateInv, Check, Work
  <2>3. CASE PollEvent
    BY <1>1, <2>1, <2>3 DEF LateInv, PollEvent, Work
  <2>4. CASE PollNothing \/ PostEnds \/ BackoffEnds \/ Mark
    BY <2>1, <2>4 DEF LateInv, PollNothing, PostEnds, BackoffEnds, Mark, Work
  <2> QED
    BY <1>2, <2>2, <2>3, <2>4 DEF Run
<1>3. CASE UNCHANGED <<late, worker>> /\ (cancelled => cancelled')
  BY <1>3 DEF LateInv
<1>4. Run \/ (UNCHANGED <<late, worker>> /\ (cancelled => cancelled'))
  BY DEF Next, Signal, ServeError, Accept, Respond, Main, BeginShutdown, Drain, Wait,
         WaitReconciler, RunReconciler, Wake, PassEnds, Tick, doing, history, vars
<1> QED
  BY <1>2, <1>3, <1>4

\* Run pops at most one event after the signal.
THEOREM OneMoreAtMost == Spec => []AtMostOneMore
<1>1. Init => TypeOK /\ LateInv
  BY TypeInit DEF Init, LateInv
<1>2. TypeOK /\ LateInv /\ [Next]_vars => (TypeOK /\ LateInv)'
  BY TypeStep, LateStep
<1>3. LateInv => AtMostOneMore
  BY DEF LateInv, AtMostOneMore
<1> QED
  BY <1>1, <1>2, <1>3, PTL DEF Spec
=============================================================================
