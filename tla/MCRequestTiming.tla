-------------------------- MODULE MCRequestTiming ---------------------------
(***************************************************************************)
(* RequestTiming with the times of the code in quarters of a second, the   *)
(* unit in which the jitter of a second is whole.                          *)
(***************************************************************************)
EXTENDS RequestTiming

\* DISPATCH_RETRY_BASE_DELAY_MS is a second by default.
Doubling == [n \in 1..MaxRetries |-> 4 * 2^(n - 1)]
=============================================================================
