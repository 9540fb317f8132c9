---------------------------- MODULE PagesProofs -----------------------------
(***************************************************************************)
(* Theorems about Pages, for any finite set of rows and any transactions,  *)
(* limits and offsets.                                                     *)
(***************************************************************************)
EXTENDS Pages, FiniteSetTheorems, TLAPS

\* The rows of a list that come before r, and how many of them the reader's list
\* has: OFFSET has to be larger for a page that begins after r.
Newer(S, r) == {q \in S : created[q] > created[r]}
Ahead(r)    == Cardinality(Newer(Matching(reader.filter), r))

\* Rows that are visible have been created.
TableInv ==
    /\ created \in [Rows -> Nat]
    /\ visible \subseteq Rows
    /\ \A r \in visible : created[r] > 0
    /\ status \in [Rows -> {"pending", "settled"}]

\* A walk has a limit and an offset that parsePagination lets pass, and `steady`
\* are rows of its list.
ReaderInv ==
    /\ reader \in [pc : {"idle", "walk", "refused", "end"},
                   filter : {"", "pending", "settled"},
                   limit : Int, offset : Int,
                   seen : SUBSET visible, twice : SUBSET visible]
    /\ Walking => reader.limit > 0 /\ reader.offset >= 0
    /\ reader.pc = "idle" => reader.seen = {} /\ steady = {}
    /\ steady \subseteq Matching(reader.filter)

(***************************************************************************)
(* Orders and pages                                                        *)
(***************************************************************************)
\* Sets of rows are finite.
LEMMA SomeRows ==
    ASSUME NEW S \in SUBSET Rows
    PROVE  IsFiniteSet(S) /\ Cardinality(S) \in Nat
BY RowAssumption, FS_Subset, FS_CardinalityType

\* A query returns each row once.
LEMMA OrderIsComplete ==
    ASSUME NEW S \in SUBSET Rows, NEW o \in Orders(S)
    PROVE  /\ o \in [1..Cardinality(S) -> S]
           /\ o \in Injection(1..Cardinality(S), S)
           /\ \A i, j \in 1..Cardinality(S) : o[i] = o[j] => i = j
           /\ \A r \in S : \E j \in 1..Cardinality(S) : o[j] = r
           /\ \A i, j \in 1..Cardinality(S) : i < j => created[o[i]] >= created[o[j]]
<1>1. /\ o \in [1..Cardinality(S) -> S]
      /\ \A i, j \in 1..Cardinality(S) : o[i] = o[j] => i = j
      /\ \A i, j \in 1..Cardinality(S) : i < j => created[o[i]] >= created[o[j]]
  BY DEF Orders, SetToSeqs
<1>2. o \in Injection(1..Cardinality(S), S)
  BY <1>1 DEF Injection, IsInjective
<1>3. IsFiniteSet(S) /\ Cardinality(S) \in Nat
  BY SomeRows
<1>4. Cardinality(1..Cardinality(S)) = Cardinality(S)
  BY <1>3, FS_Interval
<1>5. o \in Surjection(1..Cardinality(S), S)
  BY <1>2, <1>3, <1>4, FS_Injection
<1> QED
  BY <1>1, <1>2, <1>5 DEF Surjection

\* A full page has `limit` rows.
LEMMA FullPage ==
    ASSUME NEW A, NEW k \in Nat, NEW g \in Injection(1..k, A),
           NEW limit \in Nat, NEW offset \in Nat, offset + limit <= k
    PROVE  Cardinality(Page(g, limit, offset)) = limit
<1> DEFINE D == (offset + 1)..(offset + limit)
           B == Page(g, limit, offset)
           f == [i \in D |-> g[i]]
<1>1. /\ D \subseteq 1..k
      /\ D = {l \in 1..k : offset < l /\ l <= offset + limit}
      /\ g \in [1..k -> A] /\ \A i, l \in 1..k : g[i] = g[l] => i = l
  BY DEF Injection, IsInjective
<1>2. B = {g[i] : i \in D}
  BY <1>1 DEF Page
<1>3. f \in Injection(D, B) /\ f \in Surjection(D, B)
  <2> HIDE DEF B
  <2> QED
    BY <1>1, <1>2 DEF Injection, Surjection, IsInjective
<1>4. ExistsBijection(D, B)
  BY <1>3 DEF ExistsBijection, Bijection
<1>5. IsFiniteSet(D) /\ Cardinality(D) = limit
  <2>1. offset + 1 \in Int /\ offset + limit \in Int
    OBVIOUS
  <2>2. /\ IsFiniteSet(D)
        /\ Cardinality(D) = IF offset + 1 > offset + limit
                            THEN 0 ELSE offset + limit - (offset + 1) + 1
    BY <2>1, FS_Interval
  <2>3. (IF offset + 1 > offset + limit
         THEN 0 ELSE offset + limit - (offset + 1) + 1) = limit
    OBVIOUS
  <2> QED
    BY <2>2, <2>3
<1>6. Cardinality(B) = Cardinality(D)
  <2> HIDE DEF D, B
  <2> QED
    BY <1>4, <1>5, FS_Bijection
<1> QED
  BY <1>5, <1>6

\* A row that shares its created_at with no other one has the same position
\* whatever the order: behind all newer ones.
LEMMA UntiedPosition ==
    ASSUME TableInv, NEW S \in SUBSET Rows, NEW o \in Orders(S),
           NEW j \in 1..Cardinality(S), ~Tied(o[j])
    PROVE  Cardinality(Newer(S, o[j])) = j - 1
<1> DEFINE n == Cardinality(S)
           r == o[j]
<1>1. /\ o \in [1..n -> S] /\ n \in Nat /\ o \in Injection(1..n, S)
      /\ \A i, l \in 1..n : o[i] = o[l] => i = l
      /\ \A q \in S : \E l \in 1..n : o[l] = q
      /\ \A i, l \in 1..n : i < l => created[o[i]] >= created[o[l]]
  BY OrderIsComplete, SomeRows
<1>0. n \in Nat /\ o \in Injection(1..n, S)
  BY <1>1
<1>2. \A l \in 1..n : o[l] \in Rows /\ created[o[l]] \in Nat
  BY <1>1 DEF TableInv
<1>3. \A l \in 1..n : l # j => created[o[l]] # created[r]
  <2> SUFFICES ASSUME NEW l \in 1..n, l # j PROVE created[o[l]] # created[r]
    OBVIOUS
  <2>1. o[l] # r /\ o[l] \in Rows
    BY <1>1, <1>2
  <2> QED
    BY <2>1 DEF Tied
<1>4. Newer(S, r) = {o[l] : l \in 1..(j - 1)}
  <2>1. ASSUME NEW q \in Newer(S, r)
        PROVE  q \in {o[l] : l \in 1..(j - 1)}
    <3>1. PICK l \in 1..n : o[l] = q
      BY <1>1, <2>1 DEF Newer
    <3>2. created[o[l]] > created[r]
      BY <2>1, <3>1 DEF Newer
    <3>3. l # j /\ ~(j < l)
      BY <1>1, <1>2, <3>2
    <3>4. l \in 1..(j - 1)
      BY <3>3
    <3> QED
      BY <3>1, <3>4
  <2>2. ASSUME NEW l \in 1..(j - 1)
        PROVE  o[l] \in Newer(S, r)
    <3>1. l \in 1..n /\ l < j /\ l # j
      BY <1>1
    <3>2. created[o[l]] >= created[r] /\ created[o[l]] # created[r]
      BY <1>1, <1>3, <3>1
    <3>3. created[o[l]] > created[r]
      BY <1>2, <3>1, <3>2
    <3> QED
      BY <1>1, <3>1, <3>3 DEF Newer
  <2> QED
    BY <2>1, <2>2 DEF Newer
<1>5. PICK d \in Nat : d = j - 1
  BY <1>1
<1>6. Newer(S, r) = Page(o, d, 0)
  BY <1>1, <1>4, <1>5 DEF Page
<1>7. 0 \in Nat /\ 0 + d <= n
  BY <1>1, <1>5
<1>8. Cardinality(Page(o, d, 0)) = d
  <2> HIDE DEF n
  <2> QED
    BY <1>0, <1>7, FullPage
<1> QED
  BY <1>5, <1>6, <1>8

\* A page holds the rows behind the first `offset` ones, and if it is not full the
\* list ends on it.
LEMMA PageFacts ==
    ASSUME NEW S \in SUBSET Rows, NEW o \in Orders(S),
           NEW limit \in Nat, NEW offset \in Nat, limit > 0
    PROVE  /\ Page(o, limit, offset) \subseteq S
           /\ \A j \in 1..Cardinality(S) :
                 o[j] \in Page(o, limit, offset) <=> offset < j /\ j <= offset + limit
           /\ Cardinality(Page(o, limit, offset)) < limit => Cardinality(S) < offset + limit
<1> DEFINE n == Cardinality(S)
<1>1. /\ o \in [1..n -> S] /\ n \in Nat /\ o \in Injection(1..n, S)
      /\ \A i, l \in 1..n : o[i] = o[l] => i = l
  BY OrderIsComplete, SomeRows
<1>0. n \in Nat /\ o \in Injection(1..n, S)
  BY <1>1
<1> HIDE DEF n
<1>2. Page(o, limit, offset) = {o[j] : j \in {l \in 1..n : offset < l /\ l <= offset + limit}}
  BY <1>1 DEF Page
<1>3. ASSUME offset + limit <= n
      PROVE  Cardinality(Page(o, limit, offset)) = limit
  BY <1>0, <1>3, FullPage
<1>4. Cardinality(Page(o, limit, offset)) < limit => n < offset + limit
  BY <1>1, <1>3
<1> QED
  BY <1>1, <1>2, <1>4 DEF n

(***************************************************************************)
(* The table                                                               *)
(***************************************************************************)
\* Created rows keep their created_at, and committed ones stay.
LEMMA RowsKept ==
    ASSUME TableInv, [Next]_vars
    PROVE  /\ \A r \in Rows : created[r] > 0 => created'[r] = created[r]
           /\ visible \subseteq visible'
<1>1. ASSUME NEW B \in Batches, Begin(B)
      PROVE  /\ \A r \in Rows : created[r] > 0 => created'[r] = created[r]
             /\ visible \subseteq visible'
  <2>1. ASSUME NEW r \in Rows, created[r] > 0
        PROVE  created'[r] = created[r]
    <3>1. r \notin B
      BY <1>1, <2>1 DEF Begin
    <3> QED
      BY <1>1, <2>1, <3>1 DEF Begin
  <2> QED
    BY <1>1, <2>1 DEF Begin
<1>2. ASSUME NEW B \in Batches, Commit(B) PROVE created' = created /\ visible \subseteq visible'
  BY <1>2 DEF Commit
<1>3. ASSUME NEW r \in Rows, Settle(r) PROVE created' = created /\ visible' = visible
  BY <1>3 DEF Settle
<1>4. CASE UNCHANGED <<created, visible>>
  BY <1>4
<1> QED
  BY <1>1, <1>2, <1>3, <1>4 DEF Next, Ask, List, vars

LEMMA TableStep ==
    ASSUME TableInv, [Next]_vars
    PROVE  TableInv'
<1>1. ASSUME NEW B \in Batches, Begin(B) PROVE TableInv'
  <2> DEFINE c == Cardinality({q \in Rows : created[q] > 0})
  <2>1. c \in Nat
    BY SomeRows
  <2>2. created' = [r \in Rows |-> IF r \in B THEN c + 1 ELSE created[r]]
    BY <1>1 DEF Begin
  <2> HIDE DEF c
  <2>3. created' \in [Rows -> Nat]
    BY <2>1, <2>2 DEF TableInv
  <2>4. visible' = visible /\ status' = status
    BY <1>1 DEF Begin
  <2>5. \A r \in visible : created'[r] > 0
    BY RowsKept DEF TableInv
  <2> QED
    BY <2>3, <2>4, <2>5 DEF TableInv
<1>2. ASSUME NEW B \in Batches, Commit(B) PROVE TableInv'
  <2>1. B \subseteq Rows
    BY RowAssumption
  <2> QED
    BY <1>2, <2>1 DEF Commit, TableInv
<1>3. ASSUME NEW r \in Rows, Settle(r) PROVE TableInv'
  BY <1>3 DEF Settle, TableInv
<1>4. CASE UNCHANGED <<created, visible, status>>
  BY <1>4 DEF TableInv
<1> QED
  BY <1>1, <1>2, <1>3, <1>4 DEF Next, Ask, List, vars

\* A tie lasts.
LEMMA TieLasts ==
    ASSUME TableInv, [Next]_vars, NEW r \in visible, Tied(r)
    PROVE  Tied(r)'
<1>1. r \in Rows /\ created[r] > 0
  BY DEF TableInv
<1>2. PICK q \in Rows \ {r} : created[q] = created[r]
  BY DEF Tied
<1>3. created'[q] = created[q] /\ created'[r] = created[r]
  BY <1>1, <1>2, RowsKept
<1> QED
  BY <1>2, <1>3 DEF Tied

LEMMA MatchingRows ==
    ASSUME TableInv
    PROVE  /\ \A filter : Matching(filter) \in SUBSET Rows /\ Matching(filter) \subseteq visible
           /\ \A r \in Rows : Ahead(r) \in Nat
<1>1. \A filter : Matching(filter) \in SUBSET Rows /\ Matching(filter) \subseteq visible
  BY DEF Matching, Matches, TableInv
<1>2. ASSUME NEW r \in Rows PROVE Ahead(r) \in Nat
  <2>1. Newer(Matching(reader.filter), r) \in SUBSET Rows
    BY <1>1 DEF Newer
  <2> QED
    BY <2>1, SomeRows DEF Ahead
<1> QED
  BY <1>1, <1>2

\* Rows that enter the list push a row back, and rows that leave it pull it forward.
LEMMA AheadOrder ==
    ASSUME TableInv, [Next]_vars, NEW r \in visible
    PROVE  /\ Matching(reader.filter) \subseteq Matching(reader.filter)' => Ahead(r) <= Ahead(r)'
           /\ Matching(reader.filter)' \subseteq Matching(reader.filter) => Ahead(r)' <= Ahead(r)
<1> DEFINE M == Matching(reader.filter)
           N == Newer(M, r)
<1>1. TableInv'
  BY TableStep
<1>2. M \in SUBSET Rows /\ M' \in SUBSET Rows /\ M \subseteq visible
  <2>1. M \in SUBSET Rows /\ M \subseteq visible
    BY DEF Matching, Matches, TableInv
  <2>2. M' \in SUBSET Rows
    BY <1>1 DEF Matching, Matches, TableInv
  <2> QED
    BY <2>1, <2>2
<1>3. /\ N  = {q \in M : created[q] > created[r]}
      /\ N' = {q \in M' : created'[q] > created'[r]}
  BY DEF Newer
<1>4. \A q \in visible : created'[q] = created[q]
  BY RowsKept DEF TableInv
<1>5. M \subseteq M' => N \subseteq N'
  <2> HIDE DEF M, N
  <2> QED
    BY <1>2, <1>3, <1>4
<1>6. M' \subseteq M => N' \subseteq N
  <2> HIDE DEF M, N
  <2> QED
    BY <1>2, <1>3, <1>4
<1>7. IsFiniteSet(N) /\ IsFiniteSet(N')
  <2>1. N \in SUBSET Rows /\ N' \in SUBSET Rows
    <3> HIDE DEF M, N
    <3> QED
      BY <1>2, <1>3
  <2> QED
    BY <2>1, SomeRows
<1>8. Ahead(r) = Cardinality(N) /\ Ahead(r)' = Cardinality(N')
  BY DEF Ahead
<1>9. /\ N \subseteq N' => Cardinality(N) <= Cardinality(N')
      /\ N' \subseteq N => Cardinality(N') <= Cardinality(N)
  <2> HIDE DEF N
  <2> QED
    BY <1>7, FS_Subset
<1> QED
  BY <1>5, <1>6, <1>8, <1>9

(***************************************************************************)
(* The reader                                                              *)
(***************************************************************************)
LEMMA ReaderFields ==
    ASSUME ReaderInv
    PROVE  /\ reader.filter \in {"", "pending", "settled"}
           /\ reader.limit \in Int /\ reader.offset \in Int
           /\ reader.seen \subseteq visible /\ reader.twice \subseteq visible
<1>1. reader \in [pc : {"idle", "walk", "refused", "end"},
                  filter : {"", "pending", "settled"}, limit : Int, offset : Int,
                  seen : SUBSET visible, twice : SUBSET visible]
  BY DEF ReaderInv
<1> QED
  BY <1>1

\* What one query does: a page of some order of the list.
LEMMA ListEffect ==
    ASSUME TableInv, ReaderInv, List
    PROVE  \E o \in Orders(Matching(reader.filter)), page \in SUBSET Matching(reader.filter) :
              /\ page = Page(o, reader.limit, reader.offset)
              /\ \A j \in 1..Cardinality(Matching(reader.filter)) :
                    o[j] \in page <=>
                       reader.offset < j /\ j <= reader.offset + reader.limit
              /\ Cardinality(page) < reader.limit =>
                    Cardinality(Matching(reader.filter)) < reader.offset + reader.limit
              /\ reader'.pc = IF Cardinality(page) < reader.limit THEN "end" ELSE "walk"
              /\ reader'.filter = reader.filter
              /\ reader'.limit = reader.limit
              /\ reader'.offset = reader.offset + reader.limit
              /\ reader'.seen = reader.seen \cup page
              /\ reader'.twice = reader.twice \cup (reader.seen \cap page)
              /\ reader' \in [pc : {"walk", "end"}, filter : {reader.filter},
                              limit : {reader.limit}, offset : Int,
                              seen : SUBSET visible, twice : SUBSET visible]
<1> DEFINE M == Matching(reader.filter)
           k == reader.limit
           s == reader.offset
<1>1. /\ k \in Nat /\ s \in Nat /\ k > 0 /\ Walking
      /\ reader.seen \subseteq visible /\ reader.twice \subseteq visible
  <2>1. Walking /\ reader.limit > 0 /\ reader.offset >= 0
    BY DEF List, ReaderInv
  <2>2. /\ reader.limit \in Int /\ reader.offset \in Int
        /\ reader.seen \subseteq visible /\ reader.twice \subseteq visible
    BY ReaderFields
  <2>3. k \in Nat /\ s \in Nat /\ k > 0
    BY <2>1, <2>2
  <2> QED
    BY <2>1, <2>2, <2>3
<1>2. M \in SUBSET Rows /\ M \subseteq visible
  BY MatchingRows
<1>3. PICK o \in Orders(M) :
         reader' = [reader EXCEPT
                      !.pc = IF Cardinality(Page(o, k, s)) < k THEN "end" ELSE "walk",
                      !.offset = @ + k,
                      !.seen = @ \cup Page(o, k, s),
                      !.twice = @ \cup (reader.seen \cap Page(o, k, s))]
  BY DEF List
<1> DEFINE page == Page(o, k, s)
<1>4. /\ page \subseteq M
      /\ \A j \in 1..Cardinality(M) : o[j] \in page <=> s < j /\ j <= s + k
      /\ Cardinality(page) < k => Cardinality(M) < s + k
  <2> HIDE DEF M, k, s
  <2> QED
    BY <1>1, <1>2, PageFacts
<1>5. reader = [pc |-> reader.pc, filter |-> reader.filter, limit |-> reader.limit,
                offset |-> reader.offset, seen |-> reader.seen, twice |-> reader.twice]
  <2>1. reader \in [pc : {"idle", "walk", "refused", "end"},
                    filter : {"", "pending", "settled"}, limit : Int, offset : Int,
                    seen : SUBSET visible, twice : SUBSET visible]
    BY DEF ReaderInv
  <2> QED
    BY <2>1
<1>6. page \subseteq visible
  BY <1>2, <1>4
<1> HIDE DEF page, M
<1>7. reader' = [pc |-> IF Cardinality(page) < k THEN "end" ELSE "walk",
                 filter |-> reader.filter, limit |-> k, offset |-> s + k,
                 seen |-> reader.seen \cup page,
                 twice |-> reader.twice \cup (reader.seen \cap page)]
  BY <1>3, <1>5 DEF page
<1>8. /\ reader'.pc = IF Cardinality(page) < k THEN "end" ELSE "walk"
      /\ reader'.filter = reader.filter
      /\ reader'.limit = k
      /\ reader'.offset = s + k
      /\ reader'.seen = reader.seen \cup page
      /\ reader'.twice = reader.twice \cup (reader.seen \cap page)
  BY <1>7
<1>9. reader' \in [pc : {"walk", "end"}, filter : {reader.filter}, limit : {k},
                   offset : Int, seen : SUBSET visible, twice : SUBSET visible]
  <2>1. s + k \in Int
    BY <1>1
  <2>2. (IF Cardinality(page) < k THEN "end" ELSE "walk") \in {"walk", "end"}
    OBVIOUS
  <2>3. reader.seen \cup page \in SUBSET visible
    BY <1>1, <1>6
  <2>4. reader.twice \cup (reader.seen \cap page) \in SUBSET visible
    BY <1>1, <1>6
  <2> QED
    BY <1>7, <2>1, <2>2, <2>3, <2>4
<1> QED
  BY <1>4, <1>8, <1>9 DEF page, M

LEMMA AskEffect ==
    ASSUME NEW filter \in {"", "pending", "settled"}, NEW limit \in Limits, NEW offset \in Limits,
           Ask(filter, limit, offset)
    PROVE  /\ reader' = [pc |-> IF Valid(limit, offset) THEN "walk" ELSE "refused",
                         filter |-> filter, limit |-> limit, offset |-> offset,
                         seen |-> {}, twice |-> {}]
           /\ reader'.pc = IF Valid(limit, offset) THEN "walk" ELSE "refused"
           /\ reader'.pc \in {"walk", "refused"}
           /\ reader'.filter = filter /\ reader'.limit = limit /\ reader'.offset = offset
           /\ reader'.seen = {} /\ reader'.twice = {}
<1>1. reader' = [pc |-> IF Valid(limit, offset) THEN "walk" ELSE "refused",
                 filter |-> filter, limit |-> limit, offset |-> offset,
                 seen |-> {}, twice |-> {}]
  BY DEF Ask, IdleReader
<1> QED
  BY <1>1

\* How the list of a reader changes while it keeps its filter.
LEMMA ListMoves ==
    ASSUME TableInv, ReaderInv, [Next]_vars, reader' = reader
    PROVE  /\ \/ Matching(reader.filter) \subseteq Matching(reader.filter)'
              \/ Matching(reader.filter)' \subseteq Matching(reader.filter)
           /\ moved \subseteq moved'
           /\ Walking /\ ~(Matching(reader.filter)' \subseteq Matching(reader.filter)) =>
                 "entered" \in moved'
           /\ Walking /\ ~(Matching(reader.filter) \subseteq Matching(reader.filter)') =>
                 "left" \in moved'
           /\ steady' \subseteq steady
           /\ steady' \subseteq Matching(reader.filter)'
<1> DEFINE M == Matching(reader.filter)
<1>0. reader.filter \in {"", "pending", "settled"} /\ steady \subseteq M
  BY DEF ReaderInv
<1>1. M = {r \in visible : reader.filter = "" \/ status[r] = reader.filter}
  BY DEF Matching, Matches
<1>2. M' = {r \in visible' : reader.filter = "" \/ status'[r] = reader.filter}
  BY DEF Matching, Matches
<1>3. ASSUME NEW B \in Batches, Commit(B)
      PROVE  /\ M \subseteq M' /\ moved \subseteq moved' /\ steady' = steady
             /\ Walking /\ ~(M' \subseteq M) => "entered" \in moved'
  <2>1. visible' = visible \cup B /\ status' = status /\ steady' = steady
    BY <1>3 DEF Commit
  <2>2. /\ moved \subseteq moved'
        /\ Walking /\ (\E r \in B : Matches(r, reader.filter)) => "entered" \in moved'
    BY <1>3 DEF Commit
  <2>3. (\A r \in B : ~Matches(r, reader.filter)) => M' \subseteq M
    BY <1>1, <1>2, <2>1 DEF Matches
  <2>4. M \subseteq M'
    BY <1>1, <1>2, <2>1
  <2> HIDE DEF M
  <2> QED
    BY <2>1, <2>2, <2>3, <2>4
<1>4. ASSUME NEW s \in Rows, Settle(s)
      PROVE  /\ moved \subseteq moved'
             /\ M \subseteq M' \/ M' \subseteq M
             /\ Walking /\ ~(M' \subseteq M) => "entered" \in moved'
             /\ Walking /\ ~(M \subseteq M') => "left" \in moved'
             /\ steady' \subseteq steady /\ steady' \subseteq M'
  <2>1. /\ visible' = visible /\ status[s] = "pending"
        /\ \A r \in visible : status'[r] = IF r = s THEN "settled" ELSE status[r]
    BY <1>4 DEF Settle, TableInv
  <2>2. CASE reader.filter = ""
    <3>1. M' = M
      BY <1>1, <1>2, <2>1, <2>2
    <3>2. moved' = moved /\ steady' = steady
      BY <1>4, <2>2 DEF Settle
    <3> HIDE DEF M
    <3> QED
      BY <1>0, <3>1, <3>2
  <2>3. CASE reader.filter = "pending"
    <3>1. M' \subseteq M /\ M \ {s} \subseteq M'
      BY <1>1, <1>2, <2>1, <2>3
    <3>2. steady' = steady \ {s} /\ moved \subseteq moved' /\ (Walking => "left" \in moved')
      BY <1>4, <2>3 DEF Settle
    <3> HIDE DEF M
    <3> QED
      BY <1>0, <3>1, <3>2
  <2>4. CASE reader.filter = "settled"
    <3>1. M \subseteq M'
      BY <1>1, <1>2, <2>1, <2>4
    <3>2. steady' = steady /\ moved \subseteq moved' /\ (Walking => "entered" \in moved')
      BY <1>4, <2>4 DEF Settle
    <3> HIDE DEF M
    <3> QED
      BY <1>0, <3>1, <3>2
  <2> QED
    BY <1>0, <2>2, <2>3, <2>4
<1>5. ASSUME UNCHANGED <<visible, status, steady, moved>>
      PROVE  M' = M /\ steady' = steady /\ moved' = moved
  BY <1>1, <1>2, <1>5
<1>6. ASSUME NEW filter \in {"", "pending", "settled"}, NEW limit \in Limits,
             NEW offset \in Limits, Ask(filter, limit, offset)
      PROVE  FALSE
  <2>1. reader.pc = "idle"
    BY <1>6 DEF Ask
  <2>2. reader'.pc \in {"walk", "refused"}
    BY <1>6, AskEffect
  <2> QED
    BY <2>1, <2>2
<1>7. ASSUME List PROVE UNCHANGED <<visible, status, steady, moved>>
  BY <1>7 DEF List
<1> HIDE DEF M
<1>8. ASSUME NEW B \in Batches, Begin(B) PROVE UNCHANGED <<visible, status, steady, moved>>
  BY <1>8 DEF Begin
<1> QED
  BY <1>0, <1>3, <1>4, <1>5, <1>6, <1>7, <1>8 DEF Next, M, vars

\* A reader is changed by its own two actions only.
LEMMA ReaderMoves ==
    ASSUME [Next]_vars
    PROVE  \/ reader' = reader
           \/ \E filter \in {"", "pending", "settled"}, limit, offset \in Limits :
                 Ask(filter, limit, offset)
           \/ List
BY DEF Next, Begin, Commit, Settle, vars

LEMMA ReaderStep ==
    ASSUME TableInv, ReaderInv, [Next]_vars
    PROVE  ReaderInv'
<1>1. visible \subseteq visible'
  BY RowsKept
<1>2. CASE reader' = reader
  <2>1. steady' \subseteq steady /\ steady' \subseteq Matching(reader.filter)'
    BY <1>2, ListMoves
  <2> QED
    BY <1>1, <1>2, <2>1 DEF ReaderInv, Walking
<1>3. ASSUME NEW filter \in {"", "pending", "settled"}, NEW limit \in Limits,
             NEW offset \in Limits, Ask(filter, limit, offset)
      PROVE  ReaderInv'
  <2>1. limit \in Int /\ offset \in Int
    BY RowAssumption
  <2>2. reader' \in [pc : {"idle", "walk", "refused", "end"},
                     filter : {"", "pending", "settled"}, limit : Int, offset : Int,
                     seen : SUBSET visible', twice : SUBSET visible']
    <3>1. (IF Valid(limit, offset) THEN "walk" ELSE "refused")
             \in {"idle", "walk", "refused", "end"}
      OBVIOUS
    <3>2. reader' = [pc |-> IF Valid(limit, offset) THEN "walk" ELSE "refused",
                     filter |-> filter, limit |-> limit, offset |-> offset,
                     seen |-> {}, twice |-> {}]
      BY <1>3, AskEffect
    <3> QED
      BY <2>1, <3>1, <3>2
  <2>3. Walking' => reader'.limit > 0 /\ reader'.offset >= 0
    BY <1>3, AskEffect DEF Walking, Valid
  <2>4. reader'.pc # "idle"
    BY <1>3, AskEffect
  <2>5. Matching(reader.filter)' = Matching(filter)
    <3>1. reader'.filter = filter
      BY <1>3, AskEffect
    <3>2. visible' = visible /\ status' = status
      BY <1>3 DEF Ask
    <3> QED
      BY <3>1, <3>2 DEF Matching, Matches
  <2>6. steady' \subseteq Matching(reader.filter)'
    BY <1>3, <2>5 DEF Ask
  <2> QED
    BY <2>2, <2>3, <2>4, <2>6 DEF ReaderInv
<1>4. CASE List
  <2>1. /\ reader' \in [pc : {"walk", "end"}, filter : {reader.filter},
                        limit : {reader.limit}, offset : Int,
                        seen : SUBSET visible, twice : SUBSET visible]
        /\ reader'.limit = reader.limit /\ reader'.offset = reader.offset + reader.limit
        /\ reader'.filter = reader.filter
    BY <1>4, ListEffect
  <2>2. reader.limit \in Int /\ reader.offset \in Int /\ reader.limit > 0 /\ reader.offset >= 0
    BY <1>4 DEF ReaderInv, List
  <2>3. reader'.limit > 0 /\ reader'.offset >= 0
    BY <2>1, <2>2
  <2>4. Matching(reader.filter)' = Matching(reader.filter) /\ steady' = steady
    <3>1. visible' = visible /\ status' = status /\ steady' = steady
      BY <1>4 DEF List
    <3> QED
      BY <2>1, <3>1 DEF Matching, Matches
  <2>5. steady' \subseteq Matching(reader.filter)'
    BY <2>4 DEF ReaderInv
  <2>6. reader' \in [pc : {"idle", "walk", "refused", "end"},
                     filter : {"", "pending", "settled"}, limit : Int, offset : Int,
                     seen : SUBSET visible', twice : SUBSET visible']
    BY <1>1, <2>1 DEF ReaderInv
  <2>7. reader'.pc # "idle"
    BY <2>1
  <2> QED
    BY <2>3, <2>5, <2>6, <2>7 DEF ReaderInv
<1> QED
  BY <1>2, <1>3, <1>4, ReaderMoves

(***************************************************************************)
(* What a walk misses and what it repeats                                  *)
(***************************************************************************)
\* A row that has been on the list all along and was not shown is still ahead of
\* the reader.
MissInv ==
    \A r \in steady \ reader.seen :
       \/ "left" \in moved
       \/ Tied(r)
       \/ reader.pc = "refused"
       \/ Walking /\ reader.offset <= Ahead(r)

\* A row that was shown and is still on the list is behind the reader.
RepeatInv ==
    /\ RepeatHasReason
    /\ Walking => \A r \in reader.seen \cap Matching(reader.filter) :
                     "entered" \in moved \/ Tied(r) \/ Ahead(r) < reader.offset

\* Where a query finds a row that is not tied.
LEMMA ListedUntied ==
    ASSUME TableInv, NEW o \in Orders(Matching(reader.filter)),
           NEW r \in Matching(reader.filter), ~Tied(r)
    PROVE  \E j \in 1..Cardinality(Matching(reader.filter)) :
              o[j] = r /\ Ahead(r) = j - 1
<1>1. Matching(reader.filter) \in SUBSET Rows
  BY MatchingRows
<1>2. PICK j \in 1..Cardinality(Matching(reader.filter)) : o[j] = r
  BY <1>1, OrderIsComplete
<1>3. Cardinality(Newer(Matching(reader.filter), o[j])) = j - 1
  BY <1>1, <1>2, UntiedPosition
<1> QED
  BY <1>2, <1>3 DEF Ahead

LEMMA ListKeepsAhead ==
    ASSUME TableInv, ReaderInv, List
    PROVE  /\ \A r : Ahead(r)' = Ahead(r) /\ Tied(r)' = Tied(r)
           /\ Matching(reader.filter)' = Matching(reader.filter)
           /\ steady' = steady /\ moved' = moved
<1>1. UNCHANGED <<created, visible, status, steady, moved>>
  BY DEF List
<1>2. reader'.filter = reader.filter
  BY ListEffect
<1>3. Matching(reader.filter)' = Matching(reader.filter)
  BY <1>1, <1>2 DEF Matching, Matches
<1> QED
  BY <1>1, <1>3 DEF Ahead, Newer, Tied

LEMMA AheadNext ==
    ASSUME TableInv, [Next]_vars
    PROVE  \A r : Ahead(r)' \in Nat /\ 0 <= Ahead(r)'
<1> TAKE r
<1>1. TableInv'
  BY TableStep
<1>2. Newer(Matching(reader.filter), r)' \in SUBSET Rows
  BY <1>1 DEF Newer, Matching, Matches, TableInv
<1>3. Ahead(r)' = Cardinality(Newer(Matching(reader.filter), r)')
  BY DEF Ahead
<1>4. Ahead(r)' \in Nat
  BY <1>2, <1>3, SomeRows
<1> QED
  BY <1>4

LEMMA MissStep ==
    ASSUME TableInv, ReaderInv, MissInv, [Next]_vars
    PROVE  MissInv'
<1> SUFFICES ASSUME NEW r \in steady' \ reader'.seen
             PROVE  \/ "left" \in moved'
                    \/ Tied(r)'
                    \/ reader'.pc = "refused"
                    \/ Walking' /\ reader'.offset <= Ahead(r)'
  BY DEF MissInv
<1>0. Ahead(r)' \in Nat /\ 0 <= Ahead(r)'
  BY AheadNext
<1>1. CASE reader' = reader
  <2>1. r \in steady \ reader.seen /\ moved \subseteq moved'
    BY <1>1, ListMoves
  <2>2. r \in visible /\ r \in Rows
    BY <2>1, MatchingRows DEF ReaderInv
  <2>3. CASE "left" \in moved
    BY <2>1, <2>3
  <2>4. CASE Tied(r)
    BY <2>2, <2>4, TieLasts
  <2>5. CASE reader.pc = "refused"
    BY <1>1, <2>5
  <2>6. ASSUME Walking, reader.offset <= Ahead(r), "left" \notin moved'
        PROVE  Walking' /\ reader'.offset <= Ahead(r)'
    <3>1. Matching(reader.filter) \subseteq Matching(reader.filter)'
      BY <1>1, <2>6, ListMoves
    <3>2. Ahead(r) <= Ahead(r)'
      BY <2>2, <3>1, AheadOrder
    <3>4. Ahead(r) \in Nat
      BY <2>2, MatchingRows
    <3>5. reader.offset \in Int /\ reader'.offset = reader.offset
      BY <1>1, ReaderFields
    <3>6. reader'.offset <= Ahead(r)'
      BY <1>0, <2>6, <3>2, <3>4, <3>5
    <3>7. Walking'
      BY <1>1, <2>6 DEF Walking
    <3> QED
      BY <3>6, <3>7
  <2> QED
    BY <2>1, <2>3, <2>4, <2>5, <2>6 DEF MissInv
<1>2. ASSUME NEW filter \in {"", "pending", "settled"}, NEW limit \in Limits,
             NEW offset \in Limits, Ask(filter, limit, offset)
      PROVE  reader'.pc = "refused" \/ (Walking' /\ reader'.offset <= Ahead(r)')
  <2>1. steady' = IF offset = 0 THEN Matching(filter) ELSE {}
    BY <1>2 DEF Ask
  <2>2. offset = 0
    BY <2>1
  <2>3. reader'.pc \in {"walk", "refused"}
    BY <1>2, AskEffect
  <2>4. reader'.offset = 0
    BY <1>2, <2>2, AskEffect
  <2>5. reader'.offset <= Ahead(r)'
    BY <1>0, <2>4
  <2> QED
    BY <2>3, <2>5 DEF Walking
<1>3. ASSUME List, "left" \notin moved', ~Tied(r)'
      PROVE  Walking' /\ reader'.offset <= Ahead(r)'
  <2> DEFINE M == Matching(reader.filter)
  <2>1. PICK o \in Orders(M), page \in SUBSET M :
           /\ \A j \in 1..Cardinality(M) :
                 o[j] \in page <=> reader.offset < j /\ j <= reader.offset + reader.limit
           /\ Cardinality(page) < reader.limit =>
                 Cardinality(M) < reader.offset + reader.limit
           /\ reader'.pc = IF Cardinality(page) < reader.limit THEN "end" ELSE "walk"
           /\ reader'.offset = reader.offset + reader.limit
           /\ reader'.seen = reader.seen \cup page
    BY <1>3, ListEffect
  <2>2. /\ Ahead(r)' = Ahead(r) /\ ~Tied(r) /\ "left" \notin moved
        /\ r \in steady \ reader.seen /\ r \notin page
    BY <1>3, <2>1, ListKeepsAhead
  <2>3. Walking
    BY <1>3 DEF List
  <2>4. reader.offset <= Ahead(r)
    BY <2>2, <2>3 DEF MissInv, Walking
  <2>5. r \in M
    BY <2>2 DEF ReaderInv
  <2>6. PICK j \in 1..Cardinality(M) : o[j] = r /\ Ahead(r) = j - 1
    BY <2>2, <2>5, ListedUntied
  <2>7. Cardinality(M) \in Nat /\ reader.offset \in Int /\ reader.limit \in Int
    BY ReaderFields, MatchingRows, SomeRows
  <2> HIDE DEF M
  <2>8. ~(reader.offset < j /\ j <= reader.offset + reader.limit)
    BY <2>1, <2>2, <2>6
  <2>9. reader.offset + reader.limit <= j - 1 /\ ~(Cardinality(M) < reader.offset + reader.limit)
    BY <2>4, <2>6, <2>7, <2>8
  <2>10. reader'.pc = "walk"
    BY <2>1, <2>9
  <2>11. reader'.offset <= Ahead(r)'
    BY <2>1, <2>2, <2>6, <2>9
  <2> QED
    BY <2>10, <2>11 DEF Walking
<1> QED
  BY <1>1, <1>2, <1>3, ReaderMoves

LEMMA RepeatStep ==
    ASSUME TableInv, ReaderInv, RepeatInv, [Next]_vars
    PROVE  RepeatInv'
<1>1. CASE reader' = reader
  <2>1. moved \subseteq moved'
    BY <1>1, ListMoves
  <2>2. reader.seen \subseteq visible /\ reader.twice \subseteq visible
    BY ReaderFields
  <2>3. RepeatHasReason'
    <3>1. ASSUME NEW r \in reader.twice PROVE "entered" \in moved' \/ Tied(r)'
      BY <2>1, <2>2, TieLasts DEF RepeatInv, RepeatHasReason
    <3> QED
      BY <1>1, <3>1 DEF RepeatHasReason
  <2>4. ASSUME Walking, NEW r \in reader.seen \cap Matching(reader.filter)',
               "entered" \notin moved', ~Tied(r)'
        PROVE  Ahead(r)' < reader.offset
    <3>1. Matching(reader.filter)' \subseteq Matching(reader.filter)
      BY <1>1, <2>4, ListMoves
    <3>2. r \in visible /\ r \in Rows
      BY <2>2 DEF TableInv
    <3>3. Ahead(r)' <= Ahead(r)
      BY <3>1, <3>2, AheadOrder
    <3>4. ~Tied(r) /\ "entered" \notin moved
      BY <2>1, <2>4, <3>2, TieLasts
    <3>5. Ahead(r) < reader.offset
      BY <2>4, <3>1, <3>4 DEF RepeatInv
    <3>6. Ahead(r) \in Nat /\ reader.offset \in Int
      BY <3>2, ReaderFields, MatchingRows
    <3>7. Ahead(r)' \in Nat
      BY AheadNext
    <3> QED
      BY <3>3, <3>5, <3>6, <3>7
  <2>5. Walking' => \A r \in reader'.seen \cap Matching(reader.filter)' :
           "entered" \in moved' \/ Tied(r)' \/ Ahead(r)' < reader'.offset
    BY <1>1, <2>4 DEF Walking
  <2> QED
    BY <2>3, <2>5 DEF RepeatInv
<1>2. ASSUME NEW filter \in {"", "pending", "settled"}, NEW limit \in Limits,
             NEW offset \in Limits, Ask(filter, limit, offset)
      PROVE  RepeatInv'
  <2>1. reader'.seen = {} /\ reader'.twice = {}
    BY <1>2, AskEffect
  <2> QED
    BY <2>1 DEF RepeatInv, RepeatHasReason
<1>3. CASE List
  <2> DEFINE M == Matching(reader.filter)
  <2>1. PICK o \in Orders(M), page \in SUBSET M :
           /\ \A j \in 1..Cardinality(M) :
                 o[j] \in page <=> reader.offset < j /\ j <= reader.offset + reader.limit
           /\ reader'.offset = reader.offset + reader.limit
           /\ reader'.seen = reader.seen \cup page
           /\ reader'.twice = reader.twice \cup (reader.seen \cap page)
    BY <1>3, ListEffect
  <2>2. /\ \A r : Ahead(r)' = Ahead(r) /\ Tied(r)' = Tied(r)
        /\ M' = M /\ moved' = moved
    BY <1>3, ListKeepsAhead
  <2>3. Walking
    BY <1>3 DEF List
  <2>4. reader.offset \in Int /\ reader.limit \in Int /\ reader.limit > 0
    BY <2>3, ReaderFields DEF ReaderInv
  <2>5. ASSUME NEW r \in page, ~Tied(r)
        PROVE  reader.offset <= Ahead(r) /\ Ahead(r) < reader.offset + reader.limit
    <3>1. PICK j \in 1..Cardinality(M) : o[j] = r /\ Ahead(r) = j - 1
      BY <2>5, ListedUntied
    <3>2. Cardinality(M) \in Nat
      BY MatchingRows, SomeRows
    <3> HIDE DEF M
    <3>3. reader.offset < j /\ j <= reader.offset + reader.limit
      BY <2>1, <3>1
    <3> QED
      BY <2>4, <3>1, <3>2, <3>3
  <2>6. \A r \in reader.seen \cap M :
           "entered" \in moved \/ Tied(r) \/ Ahead(r) < reader.offset
    BY <2>3 DEF RepeatInv
  <2>7. \A r \in M : Ahead(r) \in Nat
    BY MatchingRows
  <2>8. ASSUME NEW r \in reader.seen \cap page
        PROVE  "entered" \in moved \/ Tied(r)
    <3>1. ASSUME ~Tied(r), Ahead(r) < reader.offset
          PROVE  FALSE
      BY <2>4, <2>5, <2>7, <3>1
    <3> QED
      BY <2>6, <3>1
  <2>9. RepeatHasReason'
    <3>1. ASSUME NEW r \in reader'.twice PROVE "entered" \in moved \/ Tied(r)
      BY <2>1, <2>8, <3>1 DEF RepeatInv, RepeatHasReason
    <3> QED
      BY <2>2, <3>1 DEF RepeatHasReason
  <2>10. ASSUME NEW r \in reader'.seen \cap M, "entered" \notin moved, ~Tied(r)
         PROVE  Ahead(r) < reader'.offset
    <3>1. CASE r \in page
      BY <2>1, <2>5, <2>10, <3>1
    <3>2. CASE r \notin page
      <4>1. r \in reader.seen \cap M
        BY <2>1, <2>10, <3>2
      <4>2. Ahead(r) < reader.offset
        BY <2>6, <2>10, <4>1
      <4> QED
        BY <2>1, <2>4, <2>7, <4>1, <4>2
    <3> QED
      BY <3>1, <3>2
  <2>11. \A r \in reader'.seen \cap M' :
            "entered" \in moved' \/ Tied(r)' \/ Ahead(r)' < reader'.offset
    <3> HIDE DEF M
    <3> QED
      BY <2>2, <2>10
  <2> QED
    BY <2>9, <2>11 DEF RepeatInv
<1> QED
  BY <1>1, <1>2, <1>3, ReaderMoves

LEMMA PagesInv ==
    Spec => [](TableInv /\ ReaderInv /\ MissInv /\ RepeatInv)
<1>1. Init => TableInv /\ ReaderInv /\ MissInv /\ RepeatInv
  <2> SUFFICES ASSUME Init PROVE TableInv /\ ReaderInv /\ MissInv /\ RepeatInv
    OBVIOUS
  <2>1. TableInv
    BY DEF Init, TableInv
  <2>2. /\ reader.pc = "idle" /\ reader.seen = {} /\ reader.twice = {}
        /\ steady = {} /\ visible = {}
    BY DEF Init, IdleReader
  <2>3. ReaderInv
    <3>1. reader \in [pc : {"idle", "walk", "refused", "end"},
                     filter : {"", "pending", "settled"}, limit : Int, offset : Int,
                     seen : SUBSET visible, twice : SUBSET visible]
      <4>1. reader = [pc |-> "idle", filter |-> "", limit |-> 0, offset |-> 0,
                      seen |-> {}, twice |-> {}]
        BY DEF Init, IdleReader
      <4>2. /\ "idle" \in {"idle", "walk", "refused", "end"}
            /\ "" \in {"", "pending", "settled"}
            /\ 0 \in Int /\ {} \in SUBSET visible
        OBVIOUS
      <4> QED
        BY <4>1, <4>2
    <3>2. ~Walking
      BY <2>2 DEF Walking
    <3> QED
      BY <2>2, <3>1, <3>2 DEF ReaderInv
  <2> QED
    BY <2>1, <2>2, <2>3 DEF MissInv, RepeatInv, RepeatHasReason
<1>2. TableInv /\ ReaderInv /\ MissInv /\ RepeatInv /\ [Next]_vars =>
         (TableInv /\ ReaderInv /\ MissInv /\ RepeatInv)'
  BY TableStep, ReaderStep, MissStep, RepeatStep
<1> QED
  BY <1>1, <1>2, PTL DEF Spec

(***************************************************************************)
(* A walk from the first row to a page that is not full shows every row    *)
(* that was on the list from beginning to end, unless a row left the list  *)
(* during the walk or the row has the created_at of another one.           *)
(***************************************************************************)
THEOREM MissAlwaysHasReason == Spec => []MissHasReason
<1>1. MissInv => MissHasReason
  BY DEF MissInv, MissHasReason, Walking
<1> QED
  BY <1>1, PagesInv, PTL

(***************************************************************************)
(* A walk shows a row twice only if one entered the list during the walk   *)
(* or the row has the created_at of another one.                           *)
(***************************************************************************)
THEOREM RepeatAlwaysHasReason == Spec => []RepeatHasReason
<1>1. RepeatInv => RepeatHasReason
  BY DEF RepeatInv
<1> QED
  BY <1>1, PagesInv, PTL
=============================================================================
