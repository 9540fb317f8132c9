------------------------------ MODULE Shutdown ------------------------------
(***************************************************************************)
(* How one event_processor process stops: the goroutines of main, of the   *)
(* HTTP server, the worker and the reconciler, the signal context that     *)
(* tells the last two to stop, and the minute that all the waits share.    *)
(*                                                                         *)
(* Time is discrete. Only what the code bounds by a timeout or a delay     *)
(* takes time (a POST, a backoff, waiting); whatever can run at once does  *)
(* so before time passes, calls to PostgreSQL and Redis included.          *)
(***************************************************************************)
EXTENDS Integers

CONSTANTS
    Requests,       \* HTTP requests, which may take any time
    MaxRetries,     \* cfg.MaxRetries
    ClientTimeout,  \* the timeout of the worker's HTTP client
    Delay,          \* Delay[n]: how long to wait before the n-th retry
    Grace           \* the timeout of shutdownCtx

ASSUME TimeAssumption ==
    /\ MaxRetries \in Nat
    /\ ClientTimeout \in Nat
    /\ Delay \in [1..MaxRetries -> Nat]
    /\ Grace \in Nat

VARIABLES
    cancelled,   \* is the signal context done?
    server,      \* "serving"; "failed", with the error in errCh; or "closed"
    conns,       \* the requests being served
    main,        \* what main waits for: "select", "drain", "worker", ...
    cause,       \* what made it leave the select
    grace,       \* the time left in shutdownCtx
    worker,      \* Processor.Run, processOne and sendToNotificationService
    attempt,     \* the attempt the worker is at
    left,        \* the time left to its POST or its backoff
    due,         \* has the reconciler's ticker fired?
    reconciler,  \* Processor.RunReconciler
    late,        \* history: events popped since the context is done
    elapsed      \* history: time since main began to stop

doing   == <<worker, attempt, left>>
stop    == <<main, cause, grace>>
http    == <<server, conns>>
history == <<late, elapsed>>
vars    == <<cancelled, server, conns, main, cause, grace, worker, attempt, left,
             due, reconciler, late, elapsed>>

Init ==
    /\ cancelled  = FALSE
    /\ server     = "serving"
    /\ conns      = {}
    /\ main       = "select"
    /\ cause      = "none"
    /\ grace      = Grace
    /\ worker     = "check"
    /\ attempt    = 0
    /\ left       = 0
    /\ due        = FALSE
    /\ reconciler = "wait"
    /\ late       = 0
    /\ elapsed    = 0

Running == main # "exited"

(***************************************************************************)
(* The world: signals, connections                                         *)
(***************************************************************************)
Signal ==
    /\ Running
    /\ cancelled' = TRUE
    /\ UNCHANGED <<http, stop, doing, due, reconciler, history>>

\* ListenAndServe returns an error: the port is taken, or accept fails.
ServeError ==
    /\ Running
    /\ server = "serving"
    /\ server' = "failed"
    /\ UNCHANGED <<cancelled, conns, stop, doing, due, reconciler, history>>

Accept(r) ==
    /\ Running
    /\ server = "serving"
    /\ r \notin conns
    /\ conns' = conns \cup {r}
    /\ UNCHANGED <<cancelled, server, stop, doing, due, reconciler, history>>

Respond(r) ==
    /\ Running
    /\ r \in conns
    /\ conns' = conns \ {r}
    /\ UNCHANGED <<cancelled, server, stop, doing, due, reconciler, history>>

(***************************************************************************)
(* main                                                                    *)
(***************************************************************************)
\* The select on the signal and on errCh. Shutdown closes the listener.
BeginShutdown ==
    /\ main = "select"
    /\ \/ cancelled /\ cause' = "signal"
       \/ server = "failed" /\ cause' = "error"
    /\ main' = "drain"
    /\ server' = "closed"
    /\ grace' = Grace
    /\ UNCHANGED <<cancelled, conns, doing, due, reconciler, history>>

\* Mutant: Shutdown is given a context without a timeout.
DrainAll ==
    /\ main = "drain"
    /\ conns = {}
    /\ main' = "worker"
    /\ UNCHANGED <<cancelled, http, cause, grace, doing, due, reconciler, history>>

\* srv.Shutdown returns.
Drain ==
    /\ main = "drain"
    /\ conns = {} \/ grace = 0
    /\ main' = "worker"
    /\ UNCHANGED <<cancelled, http, cause, grace, doing, due, reconciler, history>>

\* Mutant: main does not wait for the worker.
WaitNoWorker ==
    /\ main = "worker"
    /\ main' = "reconciler"
    /\ UNCHANGED <<cancelled, http, cause, grace, doing, due, reconciler, history>>

\* Mutant: the reconciler's wait has a timeout of its own.
WaitAnew ==
    /\ main = "worker"
    /\ worker = "stopped" \/ grace = 0
    /\ main' = "reconciler"
    /\ grace' = Grace
    /\ UNCHANGED <<cancelled, http, cause, doing, due, reconciler, history>>

Wait ==
    /\ main = "worker"
    /\ worker = "stopped" \/ grace = 0
    /\ main' = "reconciler"
    /\ UNCHANGED <<cancelled, http, cause, grace, doing, due, reconciler, history>>

WaitReconciler ==
    /\ main = "reconciler"
    /\ reconciler = "stopped" \/ grace = 0
    /\ main' = "exited"
    /\ UNCHANGED <<cancelled, http, cause, grace, doing, due, reconciler, history>>

Main == BeginShutdown \/ Drain \/ Wait \/ WaitReconciler

(***************************************************************************)
(* The worker                                                              *)
(***************************************************************************)
Work(pc, n, t) == worker' = pc /\ attempt' = n /\ left' = t

WorkerOnly == UNCHANGED <<cancelled, http, stop, due, reconciler, elapsed>>

\* Mutant: the loop does not look at the context.
CheckNothing ==
    /\ Running
    /\ worker = "check"
    /\ Work("poll", 0, 0)
    /\ UNCHANGED late /\ WorkerOnly

\* The top of the loop in Run.
Check ==
    /\ Running
    /\ worker = "check"
    /\ Work(IF cancelled THEN "stopped" ELSE "poll", 0, 0)
    /\ UNCHANGED late /\ WorkerOnly

\* BLPOP returns without an event; while Run sleeps after an error, the end of
\* the context makes it return.
PollNothing ==
    /\ Running
    /\ worker = "poll"
    /\ \/ Work("check", 0, 0)
       \/ cancelled /\ Work("stopped", 0, 0)
    /\ UNCHANGED late /\ WorkerOnly

\* BLPOP returns an event, which processOne skips or begins to forward.
PollEvent ==
    /\ Running
    /\ worker = "poll"
    /\ Work("check", 0, 0) \/ Work("post", 0, ClientTimeout)
    /\ late' = IF cancelled THEN late + 1 ELSE late
    /\ WorkerOnly

\* The POST ends with the answer that settles the event, or a transient one.
PostEnds ==
    /\ Running
    /\ worker = "post"
    /\ \/ Work("mark", attempt, 0)
       \/ /\ attempt < MaxRetries
          /\ Work("backoff", attempt + 1, Delay[attempt + 1])
    /\ UNCHANGED late /\ WorkerOnly

\* Mutant: a retry is counted twice.
BackoffCountsTwice ==
    /\ Running
    /\ worker = "backoff"
    /\ left = 0
    /\ Work("post", attempt + 1, ClientTimeout)
    /\ UNCHANGED late /\ WorkerOnly

\* processOne runs with context.WithoutCancel: only time ends the backoff.
BackoffEnds ==
    /\ Running
    /\ worker = "backoff"
    /\ left = 0
    /\ Work("post", attempt, ClientTimeout)
    /\ UNCHANGED late /\ WorkerOnly

Mark ==
    /\ Running
    /\ worker = "mark"
    /\ Work("check", 0, 0)
    /\ UNCHANGED late /\ WorkerOnly

Run == Check \/ PollNothing \/ PollEvent \/ PostEnds \/ BackoffEnds \/ Mark

(***************************************************************************)
(* The reconciler                                                          *)
(***************************************************************************)
\* The select of RunReconciler; with both cases ready, either may be taken.
Wake ==
    /\ Running
    /\ reconciler = "wait"
    /\ \/ cancelled /\ reconciler' = "stopped" /\ UNCHANGED due
       \/ due /\ due' = FALSE /\ reconciler' = "pass"
    /\ UNCHANGED <<cancelled, http, stop, doing, history>>

PassEnds ==
    /\ Running
    /\ reconciler = "pass"
    /\ reconciler' = "wait"
    /\ UNCHANGED <<cancelled, http, stop, doing, due, history>>

RunReconciler == Wake \/ PassEnds

(***************************************************************************)
(* Time                                                                    *)
(***************************************************************************)
MainWaits ==
    \/ main = "select" /\ ~cancelled /\ server # "failed"
    \/ main = "drain" /\ conns # {} /\ grace > 0
    \/ main = "worker" /\ worker # "stopped" /\ grace > 0
    \/ main = "reconciler" /\ reconciler # "stopped" /\ grace > 0

WorkerWaits ==
    \/ worker = "poll" /\ ~cancelled
    \/ worker \in {"post", "backoff"} /\ left > 0
    \/ worker = "stopped"

ReconcilerWaits ==
    \/ reconciler = "wait" /\ ~cancelled /\ ~due
    \/ reconciler = "stopped"

Tick ==
    /\ MainWaits /\ WorkerWaits /\ ReconcilerWaits
    /\ due' \in {due, TRUE}
    /\ left' = IF worker \in {"post", "backoff"} THEN left - 1 ELSE left
    /\ IF main = "select"
       THEN UNCHANGED <<grace, elapsed>>
       ELSE grace' = grace - 1 /\ elapsed' = elapsed + 1
    /\ UNCHANGED <<cancelled, http, main, cause, worker, attempt, reconciler, late>>

Next ==
    \/ Signal \/ ServeError
    \/ \E r \in Requests : Accept(r) \/ Respond(r)
    \/ Main \/ Run \/ RunReconciler
    \/ Tick

\* Each goroutine that can run does; time does not stand still for ever.
Fairness ==
    /\ WF_vars(Main) /\ WF_vars(Run) /\ WF_vars(RunReconciler)
    /\ SF_vars(Tick)

Spec == Init /\ [][Next]_vars

FairSpec == Spec /\ Fairness

-----------------------------------------------------------------------------
(***************************************************************************)
(* Properties                                                              *)
(***************************************************************************)
\* Every variable keeps to its type; times do not become negative, and a
\* backoff comes before one of the retries.
TypeOK ==
    /\ cancelled \in BOOLEAN
    /\ server \in {"serving", "failed", "closed"}
    /\ conns \subseteq Requests
    /\ main \in {"select", "drain", "worker", "reconciler", "exited"}
    /\ cause \in {"none", "signal", "error"}
    /\ grace \in 0..Grace
    /\ worker \in {"check", "poll", "post", "backoff", "mark", "stopped"}
    /\ attempt \in 0..MaxRetries
    /\ left \in Nat
    /\ due \in BOOLEAN
    /\ reconciler \in {"wait", "pass", "stopped"}
    /\ late \in Nat
    /\ elapsed \in Nat

\* After a signal, main exits only when the worker has left its loop: the event
\* it was forwarding has its attempts, its backoffs and its status. This takes
\* a minute that is longer than the longest processOne.
SignalAbandonsNothing ==
    main = "exited" /\ cause = "signal" => worker = "stopped"

\* "The worker stops dequeuing new jobs once the root context is cancelled"
\* (SOLUTION.md:57), but for the one that BLPOP has in hand.
AtMostOneMore == late <= 1

\* However the drain and the two waits share it, stopping takes no more than the
\* timeout of shutdownCtx.
StopsInTime == elapsed <= Grace

\* After a signal or a server error the process ends, whatever its clients, the
\* notification service and the reconciler do.
EventuallyExits == cancelled \/ server = "failed" ~> main = "exited"

\* "The main process explicitly waits for the worker loop to stop before exiting
\* [...] so the current event is not abandoned mid-request" (SOLUTION.md:57).
WorkerHasStopped == main = "exited" => worker = "stopped"
=============================================================================
