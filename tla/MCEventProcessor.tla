-------------------------- MODULE MCEventProcessor --------------------------
(***************************************************************************)
(* EventProcessor on small instances.                                      *)
(***************************************************************************)
EXTENDS EventProcessor, TLC

CONSTANTS e1, e2, r1, r2, a, b

OneEvent     == {e1}
TwoEvents    == {e1, e2}
OneRequest   == {r1}
TwoRequests  == {r1, r2}
OneInstance  == {a}
TwoInstances == {a, b}

\* Events, requests and instances are interchangeable.
Symmetric ==
    Permutations(EventIDs) \cup Permutations(Requests) \cup Permutations(Instances)
=============================================================================
