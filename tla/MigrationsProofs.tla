-------------------------- MODULE MigrationsProofs --------------------------
(***************************************************************************)
(* Theorems about Migrations, for any set of instances, any number of      *)
(* files and any number of faults.                                         *)
(***************************************************************************)
EXTENDS Migrations, TLAPS

Pcs == {"down", "ensure", "create", "check", "execute", "record", "commit", "serving"}

(***************************************************************************)
(* Types                                                                   *)
(***************************************************************************)
\* Goto moves one instance, to a place and a file of the right types.
LEMMA GotoType ==
    ASSUME TypeOK, NEW i \in Instances, NEW l \in Pcs, NEW f \in 1..(Last + 1),
           l \in {"execute", "record", "commit"} => f \in Files,
           Goto(i, l, f)
    PROVE  /\ pc' \in [Instances -> Pcs]
           /\ file' \in [Instances -> 1..(Last + 1)]
           /\ \A j \in Instances :
                 pc'[j] \in {"execute", "record", "commit"} => file'[j] \in Files
           /\ pc'[i] = l /\ file'[i] = f
           /\ \A j \in Instances \ {i} : pc'[j] = pc[j] /\ file'[j] = file[j]
BY DEF TypeOK, Goto, Pcs

\* Every step of a start or a crash keeps every variable in its type.
LEMMA TypeStep == TypeOK /\ [Next]_vars => TypeOK'
<1> SUFFICES ASSUME TypeOK, [Next]_vars PROVE TypeOK'
  OBVIOUS
<1> USE MigrationAssumption
<1>0. ASSUME NEW i \in Instances
      PROVE  file[i] \in 1..(Last + 1) /\ 1 \in 1..(Last + 1)
  BY DEF TypeOK
<1>1. ASSUME NEW i \in Instances, Start(i) PROVE TypeOK'
  BY <1>0, <1>1, GotoType DEF TypeOK, Start, Pcs
<1>2. ASSUME NEW i \in Instances, Abort(i)
      PROVE  /\ pc' \in [Instances -> Pcs]
             /\ file' \in [Instances -> 1..(Last + 1)]
             /\ \A j \in Instances :
                   pc'[j] \in {"execute", "record", "commit"} => file'[j] \in Files
             /\ lock' \in Instances \cup {None}
  BY <1>0, <1>2, GotoType DEF TypeOK, Abort, Pcs
<1>3. ASSUME NEW i \in Instances, CreateCollides(i) \/ RecordCollides(i) PROVE TypeOK'
  BY <1>2, <1>3 DEF TypeOK, CreateCollides, RecordCollides, Refused, Pcs
<1>4. ASSUME NEW i \in Instances, Dies(i) PROVE TypeOK'
  BY <1>2, <1>4 DEF TypeOK, Dies, Faulty, history, Pcs
<1>5. ASSUME NEW i \in Instances, Ensure(i) \/ Create(i) PROVE TypeOK'
  BY <1>0, <1>5, GotoType DEF TypeOK, Ensure, Create, history, Pcs
<1>6. ASSUME NEW i \in Instances, Check(i) PROVE TypeOK'
  <2>1. file[i] \in Files => file[i] + 1 \in 1..(Last + 1)
    BY DEF Files
  <2>2. applied \subseteq Files
    BY DEF TypeOK
  <2> QED
    BY <1>0, <1>6, <2>1, <2>2, GotoType DEF TypeOK, Check, history, Pcs
<1>7. ASSUME NEW i \in Instances, Execute(i) \/ Record(i) PROVE TypeOK'
  <2>1. file[i] \in Files
    BY <1>7 DEF TypeOK, Execute, Record
  <2> QED
    BY <1>0, <1>7, <2>1, GotoType DEF TypeOK, Execute, Record, history, Pcs
<1>8. ASSUME NEW i \in Instances, Commit(i) \/ CommitUnheard(i) PROVE TypeOK'
  <2>1. file[i] \in Files /\ file[i] + 1 \in 1..(Last + 1)
    BY <1>8 DEF TypeOK, Commit, CommitUnheard, Committed, Files
  <2>2. executions' \in [Files -> Nat]
    BY <1>8, <2>1 DEF TypeOK, Commit, CommitUnheard, Committed
  <2> QED
    BY <1>0, <1>8, <2>1, <2>2, GotoType
       DEF TypeOK, Commit, CommitUnheard, Committed, Faulty, Pcs
<1>9. CASE UNCHANGED vars
  BY <1>9 DEF TypeOK, vars
<1> QED
  BY <1>1, <1>3, <1>4, <1>5, <1>6, <1>7, <1>8, <1>9 DEF Next, RunMigrations

\* An empty database and processes that are down have the right types.
LEMMA TypeInit == Init => TypeOK
<1> SUFFICES ASSUME Init PROVE TypeOK
  OBVIOUS
<1>1. tracked \in BOOLEAN
  BY Zenon DEF Init
<1> QED
  BY <1>1, MigrationAssumption DEF Init, TypeOK, Files

\* Every variable of the starting instances keeps to its type: nobody executes
\* a file that does not exist.
THEOREM TypeCorrect == Spec => []TypeOK
BY TypeInit, TypeStep, PTL DEF Spec

(***************************************************************************)
(* One transaction at a time                                               *)
(***************************************************************************)
\* An instance in its transaction holds the locks; once it has recorded its file
\* nobody else has; what is executed is what is recorded.
LockInv ==
    /\ \A i \in Instances : pc[i] \in {"record", "commit"} => lock = i
    /\ \A i \in Instances : pc[i] = "commit" => file[i] \notin applied
    /\ \A f \in Files : executions[f] = IF f \in applied THEN 1 ELSE 0
    /\ schema = applied

\* Every step keeps this: nobody gets into a transaction but by Execute, and to
\* its end but by Record.
LEMMA LockStep == TypeOK /\ LockInv /\ [Next]_vars => LockInv'
<1> SUFFICES ASSUME TypeOK, LockInv, [Next]_vars PROVE LockInv'
  OBVIOUS
<1> USE MigrationAssumption
<1>1. ASSUME NEW i \in Instances, NEW l \in Pcs \ {"record", "commit"}, NEW f, Goto(i, l, f),
             lock' = lock \/ lock' = IF lock = i THEN None ELSE lock,
             UNCHANGED <<applied, schema, executions>>
      PROVE  LockInv'
  <2>1. ASSUME NEW j \in Instances, pc'[j] \in {"record", "commit"}
        PROVE  j # i /\ pc'[j] = pc[j] /\ file'[j] = file[j]
    BY <1>1, <2>1 DEF Goto, TypeOK
  <2> QED
    BY <1>1, <2>1 DEF LockInv
<1>2. ASSUME NEW i \in Instances, Start(i) \/ Ensure(i) \/ Create(i) \/ Check(i)
      PROVE  LockInv'
  BY <1>1, <1>2 DEF Start, Ensure, Create, Check, history, Pcs
<1>3. ASSUME NEW i \in Instances, CreateCollides(i) \/ RecordCollides(i) \/ Dies(i)
      PROVE  LockInv'
  BY <1>1, <1>3 DEF CreateCollides, RecordCollides, Dies, Refused, Abort, history, Pcs
<1>4. ASSUME NEW i \in Instances, Execute(i) PROVE LockInv'
  <2>1. /\ \A j \in Instances : pc[j] \notin {"record", "commit"}
        /\ lock' = i /\ UNCHANGED <<applied, schema, executions>>
    BY <1>4 DEF Execute, LockInv, history
  <2>2. pc'[i] = "record" /\ \A j \in Instances \ {i} : pc'[j] = pc[j]
    BY <1>4 DEF Execute, Goto, TypeOK
  <2> QED
    BY <2>1, <2>2 DEF LockInv
<1>5. ASSUME NEW i \in Instances, Record(i) PROVE LockInv'
  <2>1. /\ pc'[i] = "commit" /\ file'[i] = file[i]
        /\ \A j \in Instances \ {i} : pc'[j] = pc[j] /\ file'[j] = file[j]
    BY <1>5 DEF Record, Goto, TypeOK
  <2> QED
    BY <1>5, <2>1 DEF Record, LockInv, history
<1>6. ASSUME NEW i \in Instances, Commit(i) \/ CommitUnheard(i) PROVE LockInv'
  <2>1. PICK f \in Files : f = file[i]
    BY <1>6 DEF Commit, CommitUnheard, Committed, TypeOK
  <2>2. /\ f \notin applied
        /\ \A j \in Instances \ {i} : pc[j] \notin {"record", "commit"}
    BY <1>6, <2>1 DEF Commit, CommitUnheard, Committed, LockInv
  <2>3. \A j \in Instances : pc'[j] \notin {"record", "commit"}
    BY <1>6, <2>2 DEF Commit, CommitUnheard, Goto, TypeOK
  <2>4. /\ applied' = applied \cup {f} /\ schema' = schema \cup {f}
        /\ executions' = [executions EXCEPT ![f] = @ + 1]
    BY <1>6, <2>1 DEF Commit, CommitUnheard, Committed
  <2>5. \A g \in Files : executions'[g] = IF g \in applied' THEN 1 ELSE 0
    BY <2>1, <2>2, <2>4 DEF LockInv, TypeOK
  <2> QED
    BY <2>3, <2>4, <2>5 DEF LockInv
<1>7. CASE UNCHANGED vars
  BY <1>7 DEF LockInv, vars
<1> QED
  BY <1>2, <1>3, <1>4, <1>5, <1>6, <1>7 DEF Next, RunMigrations

\* Nobody is in a transaction before the first start.
LEMMA LockInit == Init => LockInv
BY DEF Init, LockInv

\* No file takes effect twice: whoever holds the locks sees the rows of all who
\* held them before, and the primary key refuses a second one.
THEOREM AlwaysAppliedOnce == Spec => []AppliedOnce
<1>1. Init => TypeOK /\ LockInv
  BY TypeInit, LockInit
<1>2. TypeOK /\ LockInv /\ [Next]_vars => (TypeOK /\ LockInv)'
  BY TypeStep, LockStep
<1>3. LockInv => AppliedOnce
  BY DEF LockInv, AppliedOnce
<1> QED
  BY <1>1, <1>2, <1>3, PTL DEF Spec

(***************************************************************************)
(* In order                                                                *)
(***************************************************************************)
\* An instance at file f has seen, or applied, all the files before it, in a
\* table that is there; and what is applied stays applied.
OrderInv ==
    /\ \A i \in Instances : pc[i] \in {"check", "execute", "record", "commit"} => tracked
    /\ \A i \in Instances : pc[i] \in {"check", "execute", "record", "commit", "serving"} =>
          \A f \in Files : f < file[i] => f \in applied
    /\ \A i \in Instances : pc[i] = "serving" => file[i] = Last + 1
    /\ \A f \in applied, g \in Files : g < f => g \in applied
    /\ applied # {} => tracked

\* Every step keeps the files in order.
LEMMA OrderStep == TypeOK /\ OrderInv /\ [Next]_vars => OrderInv'
<1> SUFFICES ASSUME TypeOK, OrderInv, [Next]_vars PROVE OrderInv'
  OBVIOUS
<1> USE MigrationAssumption
<1>0. applied \subseteq Files /\ \A i \in Instances : file[i] \in 1..(Last + 1)
  BY DEF TypeOK
<1>1. ASSUME NEW i \in Instances, NEW l, NEW f \in 1..(Last + 1), Goto(i, l, f),
             UNCHANGED applied, tracked => tracked',
             l \in {"check", "execute", "record", "commit"} => tracked',
             l \in {"check", "execute", "record", "commit", "serving"} =>
                \A g \in Files : g < f => g \in applied,
             l = "serving" => f = Last + 1
      PROVE  OrderInv'
  <2>1. /\ pc'[i] = l /\ file'[i] = f
        /\ \A j \in Instances \ {i} : pc'[j] = pc[j] /\ file'[j] = file[j]
    BY <1>1 DEF Goto, TypeOK
  <2> QED
    BY <1>1, <2>1 DEF OrderInv
<1>2. ASSUME NEW i \in Instances, CreateCollides(i) \/ RecordCollides(i) \/ Dies(i)
      PROVE  OrderInv'
  BY <1>1, <1>2 DEF CreateCollides, RecordCollides, Dies, Refused, Abort
<1>3. ASSUME NEW i \in Instances, Ensure(i) \/ Create(i) PROVE OrderInv'
  <2>1. \A g \in Files : ~(g < 1)
    BY DEF Files
  <2> QED
    BY <1>1, <1>3, <2>1 DEF Ensure, Create
<1>4. ASSUME NEW i \in Instances, Check(i) PROVE OrderInv'
  <2>1. tracked /\ \A g \in Files : g < file[i] => g \in applied
    BY <1>4 DEF Check, OrderInv
  <2>2. CASE file[i] > Last /\ Goto(i, "serving", file[i])
    <3>1. file[i] = Last + 1
      BY <1>0, <2>2
    <3> QED
      BY <1>0, <1>1, <1>4, <2>1, <2>2, <3>1 DEF Check
  <2>3. CASE file[i] \in applied /\ Goto(i, "check", file[i] + 1)
    <3>1. /\ file[i] + 1 \in 1..(Last + 1)
          /\ \A g \in Files : g < file[i] + 1 => g = file[i] \/ g < file[i]
      BY <1>0, <2>3 DEF Files
    <3> QED
      BY <1>1, <1>4, <2>1, <2>3, <3>1 DEF Check
  <2>4. CASE file[i] \in Files \ applied /\ Goto(i, "execute", file[i])
    BY <1>0, <1>1, <1>4, <2>1, <2>4 DEF Check
  <2> QED
    BY <1>4, <2>2, <2>3, <2>4 DEF Check
<1>5. ASSUME NEW i \in Instances, Execute(i) \/ Record(i) PROVE OrderInv'
  BY <1>0, <1>1, <1>5 DEF Execute, Record, OrderInv
<1>6. ASSUME NEW i \in Instances, Commit(i) \/ CommitUnheard(i) PROVE OrderInv'
  <2>1. PICK f \in Files : f = file[i]
    BY <1>6 DEF Commit, CommitUnheard, Committed, TypeOK
  <2>2. tracked' /\ applied' = applied \cup {f} /\ \A g \in Files : g < f => g \in applied
    BY <1>6, <2>1 DEF Commit, CommitUnheard, Committed, OrderInv
  <2>3. /\ \/ pc'[i] = "check" /\ file'[i] = f + 1
           \/ pc'[i] = "down"
        /\ \A j \in Instances \ {i} : pc'[j] = pc[j] /\ file'[j] = file[j]
    BY <1>6, <2>1 DEF Commit, CommitUnheard, Goto, TypeOK
  <2>4. \A g \in Files : g < f + 1 => g \in applied'
    BY <2>1, <2>2 DEF Files
  <2>5. \A h \in applied', g \in Files : g < h => g \in applied'
    BY <2>1, <2>2 DEF OrderInv
  <2> QED
    BY <2>2, <2>3, <2>4, <2>5 DEF OrderInv
<1>7. CASE UNCHANGED vars
  BY <1>7 DEF OrderInv, vars
<1>8. ASSUME NEW i \in Instances, Start(i) PROVE OrderInv'
  <2>1. CASE Files = {} /\ Goto(i, "serving", 1)
    <3>1. Last = 0
      BY <2>1 DEF Files
    <3> QED
      BY <1>1, <1>8, <2>1, <3>1 DEF Start
  <2>2. CASE Goto(i, "ensure", 1)
    BY <1>1, <1>8, <2>2 DEF Start
  <2> QED
    BY <1>8, <2>1, <2>2 DEF Start
<1> QED
  BY <1>2, <1>3, <1>4, <1>5, <1>6, <1>7, <1>8 DEF Next, RunMigrations

\* Nothing is applied before the first start.
LEMMA OrderInit == Init => OrderInv
BY DEF Init, OrderInv

\* After any crash, lost COMMIT or race the tracking table tells which files
\* have taken effect, and these are the first ones.
THEOREM TrackingIsAlwaysTruthful == Spec => []TrackingIsTruthful
<1>1. Init => TypeOK /\ LockInv /\ OrderInv
  BY TypeInit, LockInit, OrderInit
<1>2. TypeOK /\ LockInv /\ OrderInv /\ [Next]_vars => (TypeOK /\ LockInv /\ OrderInv)'
  BY TypeStep, LockStep, OrderStep
<1>3. TypeOK /\ LockInv /\ OrderInv => TrackingIsTruthful
  <2> SUFFICES ASSUME TypeOK, LockInv, OrderInv, NEW f \in applied, NEW g \in 1..f
               PROVE  g \in applied
    BY DEF LockInv, OrderInv, TrackingIsTruthful
  <2>1. f \in Files /\ g \in Files /\ (g = f \/ g < f)
    BY MigrationAssumption DEF TypeOK, Files
  <2> QED
    BY <2>1 DEF OrderInv
<1> QED
  BY <1>1, <1>2, <1>3, PTL DEF Spec

\* Every instance that serves requests does so on the complete schema.
THEOREM ServingIsAlwaysMigrated == Spec => []ServingIsMigrated
<1>1. Init => TypeOK /\ OrderInv
  BY TypeInit, OrderInit
<1>2. TypeOK /\ OrderInv /\ [Next]_vars => (TypeOK /\ OrderInv)'
  BY TypeStep, OrderStep
<1>3. TypeOK /\ OrderInv => ServingIsMigrated
  <2> SUFFICES ASSUME TypeOK, OrderInv, NEW i \in Instances, pc[i] = "serving"
               PROVE  applied = Files
    BY DEF ServingIsMigrated
  <2>1. file[i] = Last + 1
    BY DEF OrderInv
  <2>2. \A f \in Files : f < file[i] => f \in applied
    BY DEF OrderInv
  <2>3. \A f \in Files : f < Last + 1
    BY MigrationAssumption DEF Files
  <2>4. applied \subseteq Files
    BY DEF TypeOK
  <2> QED
    BY <2>1, <2>2, <2>3, <2>4
<1> QED
  BY <1>1, <1>2, <1>3, PTL DEF Spec

(***************************************************************************)
(* A start on its own                                                      *)
(***************************************************************************)
\* While an instance starts alone, no other one is starting, and what it has
\* found in the database is still so.
AloneInv ==
    /\ \A i \in alone, j \in Instances :
          i \in Starting /\ j \in Starting => i = j
    /\ \A i \in alone : pc[i] = "create" => ~tracked
    /\ \A i \in alone : pc[i] \in {"execute", "record"} => file[i] \notin applied
    /\ failed \cap alone = {}

\* Only an instance that is starting changes the database.
LEMMA AloneStep == TypeOK /\ AloneInv /\ [Next]_vars => AloneInv'
<1> SUFFICES ASSUME TypeOK, AloneInv, [Next]_vars PROVE AloneInv'
  OBVIOUS
<1>0. /\ alone \subseteq Instances
      /\ \A i \in Instances : i \in Starting <=> pc[i] \notin {"down", "serving"}
      /\ \A i \in Instances : (i \in Starting)' <=> pc'[i] \notin {"down", "serving"}
  BY DEF TypeOK, Starting
<1>1. ASSUME NEW i \in Instances, Start(i) PROVE AloneInv'
  <2>1. /\ pc'[i] \in {"ensure", "serving"} /\ \A j \in Instances \ {i} : pc'[j] = pc[j]
        /\ \A j \in Instances \ {i} : file'[j] = file[j]
        /\ UNCHANGED <<tracked, applied>>
    BY <1>1 DEF Start, Goto, TypeOK
  <2>2. failed' = failed \ {i}
    BY <1>1 DEF Start
  <2>3. CASE Starting = {} /\ alone' = alone \cup {i}
    BY <1>0, <2>1, <2>2, <2>3 DEF AloneInv
  <2>4. CASE alone' = alone \ (Starting \cup {i})
    BY <1>0, <2>1, <2>2, <2>4 DEF AloneInv
  <2> QED
    BY <1>1, <2>3, <2>4 DEF Start
<1>2. ASSUME NEW i \in Instances, i \in Starting, UNCHANGED <<alone, failed>>,
             \A j \in Instances \ {i} : pc'[j] = pc[j] /\ file'[j] = file[j],
             i \in alone /\ pc'[i] = "create" => ~tracked',
             i \in alone /\ pc'[i] \in {"execute", "record"} => file'[i] \notin applied'
      PROVE  AloneInv'
  BY <1>0, <1>2 DEF AloneInv
<1>3. ASSUME NEW i \in Instances, Ensure(i) \/ Create(i) \/ Check(i) \/ Execute(i)
                                  \/ Record(i) \/ Commit(i) \/ CommitUnheard(i)
      PROVE  AloneInv'
  <2>1. i \in Starting
    BY <1>0, <1>3 DEF Ensure, Create, Check, Execute, Record, Commit, CommitUnheard, Committed
  <2>2. \A j \in Instances \ {i} : pc'[j] = pc[j] /\ file'[j] = file[j]
    BY <1>3 DEF Ensure, Create, Check, Execute, Record, Commit, CommitUnheard, Goto, TypeOK
  <2>3. UNCHANGED <<alone, failed>>
    BY <1>3 DEF Ensure, Create, Check, Execute, Record, Commit, CommitUnheard, history
  <2>4. i \in alone /\ pc'[i] = "create" => ~tracked'
    BY <1>3 DEF Ensure, Create, Check, Execute, Record, Commit, CommitUnheard, Goto, TypeOK
  <2>5. i \in alone /\ pc'[i] \in {"execute", "record"} => file'[i] \notin applied'
    BY <1>3 DEF Ensure, Create, Check, Execute, Record, Commit, CommitUnheard, Goto, TypeOK,
                AloneInv
  <2> QED
    BY <1>2, <2>1, <2>2, <2>3, <2>4, <2>5
<1>4. ASSUME NEW i \in Instances, CreateCollides(i) \/ RecordCollides(i) PROVE AloneInv'
  <2>1. i \notin alone
    BY <1>4 DEF CreateCollides, RecordCollides, AloneInv
  <2>2. /\ pc'[i] = "down" /\ \A j \in Instances \ {i} : pc'[j] = pc[j] /\ file'[j] = file[j]
        /\ failed' = failed \cup {i} /\ UNCHANGED <<tracked, applied, alone>>
    BY <1>4 DEF CreateCollides, RecordCollides, Refused, Abort, Goto, TypeOK
  <2> QED
    BY <1>0, <2>1, <2>2 DEF AloneInv
<1>5. ASSUME NEW i \in Instances, Dies(i) PROVE AloneInv'
  <2>1. /\ pc'[i] = "down" /\ \A j \in Instances \ {i} : pc'[j] = pc[j] /\ file'[j] = file[j]
        /\ UNCHANGED <<tracked, applied, alone, failed>>
    BY <1>5 DEF Dies, Abort, Goto, TypeOK, history
  <2> QED
    BY <1>0, <2>1 DEF AloneInv
<1>6. CASE UNCHANGED vars
  BY <1>6 DEF AloneInv, Starting, vars
<1> QED
  BY <1>1, <1>3, <1>4, <1>5, <1>6 DEF Next, RunMigrations

\* A start that overlaps no other is never refused, whatever the starts, crashes
\* and lost COMMITs before it have left in the database.
THEOREM RerunIsAlwaysSafe == Spec => []RerunIsSafe
<1>1. Init => TypeOK /\ AloneInv
  BY TypeInit DEF Init, AloneInv
<1>2. TypeOK /\ AloneInv /\ [Next]_vars => (TypeOK /\ AloneInv)'
  BY TypeStep, AloneStep
<1>3. AloneInv => RerunIsSafe
  BY DEF AloneInv, RerunIsSafe
<1> QED
  BY <1>1, <1>2, <1>3, PTL DEF Spec
=============================================================================
