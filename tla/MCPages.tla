------------------------------ MODULE MCPages -------------------------------
(***************************************************************************)
(* Pages on a small instance: rows inserted one by one, as events are, and *)
(* two in one transaction, as the notifications of an order are.           *)
(***************************************************************************)
EXTENDS Pages

MCRows    == 1..4
MCBatches == {{1}, {2}, {3, 4}}
MCLimits  == -1..3
=============================================================================
