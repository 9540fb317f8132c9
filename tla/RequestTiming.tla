--------------------------- MODULE RequestTiming ----------------------------
(***************************************************************************)
(* How long a POST /notifications request takes: the backoffs of           *)
(* RetryingDispatcher on one channel after the other, against the timeout  *)
(* of the caller's HTTP client and against the timeout of the drain with   *)
(* which notification_service stops.                                       *)
(*                                                                         *)
(* Time is discrete. Only the backoffs take time: providers and PostgreSQL *)
(* answer at once, so that a real request takes at least as long.          *)
(***************************************************************************)
EXTENDS Integers

CONSTANTS
    Channels,       \* how many channels the event is routed to
    MaxRetries,     \* cfg.DispatchMaxRetries
    Delay,          \* Delay[n]: the backoff before the n-th retry, without jitter
    ClientTimeout,  \* the timeout of the worker's HTTP client
    DrainTimeout,   \* the timeout of shutdownCtx
    Fit             \* how many channels these timeouts have to allow for

ASSUME TimeAssumption ==
    /\ Channels \in Nat \ {0}
    /\ MaxRetries \in Nat
    /\ Delay \in [1..MaxRetries -> Nat]
    /\ ClientTimeout \in Nat \ {0}
    /\ DrainTimeout \in Nat
    /\ Fit \in 1..Channels

VARIABLES
    main,     \* "serve", "drain" or "exited"
    drain,    \* the time left in shutdownCtx
    pc,       \* where the request is
    k,        \* the channel it is at
    attempt,  \* the attempt of RetryingDispatcher.Send
    left,     \* the time left to the backoff
    outcome,  \* what the last Send returned
    record,   \* per channel: the status of its notification
    client,   \* the time left until the caller gives up
    gone,     \* has the request's context been cancelled?
    late      \* history: calls of the provider since then

process == <<main, drain>>
caller  == <<client, gone>>
work    == <<pc, k, attempt, left, outcome, record>>
vars    == <<main, drain, pc, k, attempt, left, outcome, record, client, gone, late>>

Init ==
    /\ main    = "serve"
    /\ drain   = DrainTimeout
    /\ pc      = "idle"
    /\ k       = 1
    /\ attempt = 0
    /\ left    = 0
    /\ outcome = "pending"
    /\ record  = [c \in 1..Channels |-> "pending"]
    /\ client  = ClientTimeout
    /\ gone    = FALSE
    /\ late    = 0

Running == main # "exited"
Open    == pc \in {"send", "backoff", "mark"}

\* Mutant: half a delay to either side.
WithJitterHalf(delay) == (delay - delay \div 2)..(delay + delay \div 2)

\* The delays that withJitter may return.
WithJitter(delay) == (delay - delay \div 4)..(delay + delay \div 4)

(***************************************************************************)
(* The request                                                             *)
(***************************************************************************)
\* The handler has saved its records, all of them new, and begins to dispatch.
Accept ==
    /\ main = "serve"
    /\ pc = "idle"
    /\ pc' = "send"
    /\ UNCHANGED <<process, k, attempt, left, outcome, record, caller, late>>

\* The provider confirms, or it does not and no attempt is left, or it does not
\* and a backoff begins; one of zero is none.
Send ==
    /\ Running
    /\ pc = "send"
    /\ \/ pc' = "mark" /\ outcome' = "sent" /\ UNCHANGED <<attempt, left>>
       \/ /\ attempt = MaxRetries
          /\ pc' = "mark" /\ outcome' = "failed" /\ UNCHANGED <<attempt, left>>
       \/ /\ attempt < MaxRetries
          /\ attempt' = attempt + 1
          /\ left' \in WithJitter(Delay[attempt + 1])
          /\ pc' = IF left' > 0 THEN "backoff" ELSE "send"
          /\ UNCHANGED outcome
    /\ late' = IF gone THEN late + 1 ELSE late
    /\ UNCHANGED <<process, k, record, caller>>

\* Mutant: a retry is counted twice.
BackoffCountsTwice ==
    /\ Running
    /\ pc = "backoff" /\ left = 0
    /\ pc' = "send"
    /\ attempt' = attempt + 1
    /\ UNCHANGED <<process, k, left, outcome, record, caller, late>>

BackoffEnds ==
    /\ Running
    /\ pc = "backoff" /\ left = 0
    /\ pc' = "send"
    /\ UNCHANGED <<process, k, attempt, left, outcome, record, caller, late>>

\* Mutant: the backoff is a Sleep.
IgnoresContext == FALSE

SeesContext == pc = "backoff" /\ gone

\* The select of Send with its context done.
Cancelled ==
    /\ Running
    /\ SeesContext
    /\ pc' = "mark"
    /\ outcome' = "failed"
    /\ UNCHANGED <<process, k, attempt, left, record, caller, late>>

\* UpdateStatus succeeds; the next channel, or 201.
UpdateStatus ==
    /\ Running
    /\ pc = "mark" /\ ~gone
    /\ record' = [record EXCEPT ![k] = outcome]
    /\ IF k < Channels
       THEN k' = k + 1 /\ pc' = "send"
       ELSE pc' = "done" /\ UNCHANGED k
    /\ attempt' = 0
    /\ UNCHANGED <<process, left, outcome, caller, late>>

\* UpdateStatus gets a context that is done: 500, to nobody.
UpdateFails ==
    /\ Running
    /\ pc = "mark" /\ gone
    /\ pc' = "done"
    /\ UNCHANGED <<process, k, attempt, left, outcome, record, caller, late>>

Request == Send \/ BackoffEnds \/ Cancelled \/ UpdateStatus \/ UpdateFails

(***************************************************************************)
(* The caller, main and time                                               *)
(***************************************************************************)
\* The connection is closed, which cancels the context: by the client's timeout,
\* for which time does not wait, or earlier, when it breaks or the caller dies.
ClientGone ==
    /\ Running
    /\ Open /\ ~gone
    /\ gone' = TRUE
    /\ UNCHANGED <<process, work, client, late>>

\* A signal, or ListenAndServe fails: srv.Shutdown closes the listener and
\* waits for the request.
Shutdown ==
    /\ main = "serve"
    /\ main' = "drain"
    /\ UNCHANGED <<drain, work, caller, late>>

\* Mutant: Close in place of Shutdown.
DrainedAtOnce == main = "drain"

Drained == main = "drain" /\ (~Open \/ drain = 0)

Exit ==
    /\ Drained
    /\ main' = "exited"
    /\ UNCHANGED <<drain, work, caller, late>>

\* Time passes when all that can be done at once has been done.
Tick ==
    /\ main = "serve" \/ (main = "drain" /\ ~Drained)
    /\ pc = "backoff" /\ left > 0 /\ ~SeesContext
    /\ client > 0 \/ gone
    /\ left' = left - 1
    /\ client' = IF client > 0 THEN client - 1 ELSE 0
    /\ drain' = IF main = "drain" THEN drain - 1 ELSE drain
    /\ UNCHANGED <<main, pc, k, attempt, outcome, record, gone, late>>

Next == Accept \/ Request \/ ClientGone \/ Shutdown \/ Exit \/ Tick

Spec == Init /\ [][Next]_vars

-----------------------------------------------------------------------------
(***************************************************************************)
(* Properties                                                              *)
(***************************************************************************)
\* Every variable keeps to its type; times do not become negative, and Send makes
\* no more than MaxRetries + 1 attempts.
TypeOK ==
    /\ main \in {"serve", "drain", "exited"}
    /\ drain \in 0..DrainTimeout
    /\ pc \in {"idle", "send", "backoff", "mark", "done"}
    /\ k \in 1..Channels
    /\ attempt \in 0..MaxRetries
    /\ left \in Nat
    /\ outcome \in {"pending", "sent", "failed"}
    /\ record \in [1..Channels -> {"pending", "sent", "failed"}]
    /\ client \in 0..ClientTimeout
    /\ gone \in BOOLEAN
    /\ late \in Nat

\* The client's timeout does not fire while one of the first Fit channels is
\* dispatched, however the jitter falls: their backoffs are over before, and a
\* request that the timeout cuts off has settled them.
AnsweredInTime == client = 0 => k > Fit

\* The drain gives the first Fit channels the time they need, whenever the signal
\* comes: the exit of main cuts off later ones only.
DrainLetsFinish == main = "exited" /\ Open => k > Fit

\* A caller that has gone costs the provider at most one more call: the backoff
\* looks at the context, the call and the loop do not.
OneLateCall == late <= 1
=============================================================================
