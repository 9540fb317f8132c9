------------------------------- MODULE Pages --------------------------------
(***************************************************************************)
(* GET /events and GET /notifications: a reader walks through a list page  *)
(* by page, each page a query of its own with LIMIT and OFFSET, while rows *)
(* are inserted and settled. Both services have the same handler and, but  *)
(* for the event_id filter, the same query.                                *)
(***************************************************************************)
EXTENDS Integers, Sequences, FiniteSets, SequencesExt

CONSTANTS
    Rows,
    Batches,      \* the sets of rows that one transaction inserts: one event,
                  \* or all the notifications of an event
    maxListLimit,
    Limits        \* the limits and offsets that clients ask for

ASSUME RowAssumption ==
    /\ UNION Batches = Rows
    /\ IsFiniteSet(Rows)
    /\ maxListLimit \in Nat
    /\ Limits \subseteq Int

VARIABLES
    created,   \* created_at: NOW() of the inserting transaction, 0 before it
    visible,   \* the rows whose transaction is committed
    status,    \* "pending" or "settled" (processed, sent, failed)
    reader,    \* the walk: its filter, limit and offset, and the rows it got
    steady,    \* history: the rows that the filter has matched since it began
    moved      \* history: what has entered or left the list since it began

vars == <<created, visible, status, reader, steady, moved>>

IdleReader ==
    [pc |-> "idle", filter |-> "", limit |-> 0, offset |-> 0, seen |-> {}, twice |-> {}]

Init ==
    /\ created = [r \in Rows |-> 0]
    /\ visible = {}
    /\ status  = [r \in Rows |-> "pending"]
    /\ reader  = IdleReader
    /\ steady  = {}
    /\ moved   = {}

Walking == reader.pc = "walk"

\* WHERE $1 = '' OR status = $1
Matches(r, filter) == filter = "" \/ status[r] = filter

(***************************************************************************)
(* The table                                                               *)
(***************************************************************************)
\* A transaction begins. Another that began later may be committed before it.
Begin(B) ==
    /\ \A r \in B : created[r] = 0
    /\ created' = [r \in Rows |-> IF r \in B
                                  THEN Cardinality({q \in Rows : created[q] > 0}) + 1
                                  ELSE created[r]]
    /\ UNCHANGED <<visible, status, reader, steady, moved>>

\* Its rows are pending, and enter the list if the filter matches them.
Commit(B) ==
    /\ \A r \in B : created[r] > 0 /\ r \notin visible
    /\ visible' = visible \cup B
    /\ moved' = IF Walking /\ \E r \in B : Matches(r, reader.filter)
                THEN moved \cup {"entered"} ELSE moved
    /\ UNCHANGED <<created, status, reader, steady>>

\* UpdateStatus: the row leaves the list of pending rows for another one.
Settle(r) ==
    /\ r \in visible
    /\ status[r] = "pending"
    /\ status' = [status EXCEPT ![r] = "settled"]
    /\ steady' = IF reader.filter = "pending" THEN steady \ {r} ELSE steady
    /\ moved' = CASE Walking /\ reader.filter = "pending" -> moved \cup {"left"}
                  [] Walking /\ reader.filter = "settled" -> moved \cup {"entered"}
                  [] OTHER -> moved
    /\ UNCHANGED <<created, visible, reader>>

(***************************************************************************)
(* The list endpoints                                                      *)
(***************************************************************************)
\* parsePagination
Valid(limit, offset) == limit > 0 /\ limit <= maxListLimit /\ offset >= 0

Matching(filter) == {r \in visible : Matches(r, filter)}

\* Mutant: without ORDER BY.
OrdersAny(S) == SetToSeqs(S)

\* ORDER BY created_at DESC, which leaves rows of the same time in any order.
Orders(S) ==
    {o \in SetToSeqs(S) :
        \A j, l \in 1..Cardinality(S) : j < l => created[o[j]] >= created[o[l]]}

\* Mutant: OFFSET counts from one.
PageFromOne(o, limit, offset) ==
    {o[j] : j \in {l \in DOMAIN o : offset <= l /\ l <= offset + limit}}

\* LIMIT and OFFSET
Page(o, limit, offset) ==
    {o[j] : j \in {l \in DOMAIN o : offset < l /\ l <= offset + limit}}

\* A reader begins a walk; or its query is answered 400.
Ask(filter, limit, offset) ==
    /\ reader.pc = "idle"
    /\ reader' = [IdleReader EXCEPT
                     !.pc = IF Valid(limit, offset) THEN "walk" ELSE "refused",
                     !.filter = filter, !.limit = limit, !.offset = offset]
    /\ steady' = IF offset = 0 THEN Matching(filter) ELSE {}
    /\ UNCHANGED <<created, visible, status, moved>>

\* One query. A page that is not full is the last one.
List ==
    /\ Walking
    /\ \E o \in Orders(Matching(reader.filter)) :
          LET page == Page(o, reader.limit, reader.offset) IN
          reader' = [reader EXCEPT
                        !.pc = IF Cardinality(page) < reader.limit THEN "end" ELSE "walk",
                        !.offset = @ + reader.limit,
                        !.seen = @ \cup page,
                        !.twice = @ \cup (reader.seen \cap page)]
    /\ UNCHANGED <<created, visible, status, steady, moved>>

Next ==
    \/ \E B \in Batches : Begin(B) \/ Commit(B)
    \/ \E r \in Rows : Settle(r)
    \/ \E filter \in {"", "pending", "settled"}, limit, offset \in Limits :
          Ask(filter, limit, offset)
    \/ List

Spec == Init /\ [][Next]_vars

-----------------------------------------------------------------------------
(***************************************************************************)
(* Properties                                                              *)
(***************************************************************************)
Tied(r) == \E q \in Rows \ {r} : created[q] = created[r]

\* A walk from the first row misses none that it could have found from beginning
\* to end, however many rows are inserted meanwhile and in whichever order their
\* transactions are committed. There are two reasons for a miss: a row left the
\* list, which a filter on "pending" allows, or the row shares its created_at
\* with another one, as the notifications of an event do.
MissHasReason ==
    reader.pc = "end" =>
       \A r \in steady \ reader.seen : "left" \in moved \/ Tied(r)

\* A row is shown twice only when a row has entered the list since the walk began,
\* inserted or settled into its filter, or for a tie.
RepeatHasReason ==
    \A r \in reader.twice : "entered" \in moved \/ Tied(r)
=============================================================================
