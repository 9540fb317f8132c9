----------------------------- MODULE MCShutdown -----------------------------
(***************************************************************************)
(* Shutdown with the times of the code, in seconds: RETRY_BASE_DELAY_MS is *)
(* a second by default, and a delay is the base shifted by the attempt.    *)
(***************************************************************************)
EXTENDS Shutdown

CONSTANTS r1

OneRequest == {r1}
Doubling   == [n \in 1..MaxRetries |-> 2^(n - 1)]
=============================================================================
