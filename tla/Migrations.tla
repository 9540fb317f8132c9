----------------------------- MODULE Migrations -----------------------------
(***************************************************************************)
(* RunMigrations, which every instance of a service calls when it starts:  *)
(* each file in sorted order, in a transaction of its own together with    *)
(* its row in the tracking table. Instances of one service may start at    *)
(* the same time; the two services have tables of their own and do not     *)
(* meet. An error ends the process, and somebody may start it again.       *)
(***************************************************************************)
EXTENDS Integers

CONSTANTS
    Instances,   \* the processes of one service
    None,        \* no instance
    Last,        \* the files are 1..Last, in the order of their names
    MaxFaults    \* bound: failing statements and crashes in one behaviour

ASSUME MigrationAssumption ==
    /\ None \notin Instances
    /\ Last \in Nat
    /\ MaxFaults \in Nat

Files == 1..Last

VARIABLES
    tracked,     \* does the tracking table exist?
    applied,     \* its rows: the files recorded as applied
    schema,      \* the files whose statements have been committed
    lock,        \* the instance whose open transaction holds the DDL locks
    pc,          \* per instance: where RunMigrations is
    file,        \* per instance: the file it is at
    faults,
    alone,       \* history: the instances whose start has overlapped no other
    failed,      \* history: the instances whose start ended in an error of
                 \* PostgreSQL that was no fault
    executions   \* history: how often each file has been committed

here    == <<pc, file>>
history == <<alone, failed, executions>>
vars    == <<tracked, applied, schema, lock, pc, file, faults, alone, failed, executions>>

Init ==
    /\ tracked    = FALSE
    /\ applied    = {}
    /\ schema     = {}
    /\ lock       = None
    /\ pc         = [i \in Instances |-> "down"]
    /\ file       = [i \in Instances |-> 1]
    /\ faults     = 0
    /\ alone      = {}
    /\ failed     = {}
    /\ executions = [f \in Files |-> 0]

Goto(i, l, f) == pc' = [pc EXCEPT ![i] = l] /\ file' = [file EXCEPT ![i] = f]

Starting == {i \in Instances : pc[i] \notin {"down", "serving"}}

\* main, up to RunMigrations, which does nothing when there are no files.
Start(i) ==
    /\ pc[i] = "down"
    /\ Goto(i, IF Files = {} THEN "serving" ELSE "ensure", 1)
    /\ alone' = IF Starting = {} THEN alone \cup {i} ELSE alone \ (Starting \cup {i})
    /\ failed' = failed \ {i}
    /\ UNCHANGED <<tracked, applied, schema, lock, faults, executions>>

\* The deferred or explicit Rollback, and exit.
Abort(i) ==
    /\ Goto(i, "down", 1)
    /\ lock' = IF lock = i THEN None ELSE lock

Refused(i) ==
    /\ Abort(i)
    /\ failed' = failed \cup {i}
    /\ UNCHANGED <<tracked, applied, schema, faults, alone, executions>>

(***************************************************************************)
(* CREATE TABLE IF NOT EXISTS of the tracking table: PostgreSQL first looks *)
(* whether the table is there, and refuses a second entry in its catalogue. *)
(***************************************************************************)
Ensure(i) ==
    /\ pc[i] = "ensure"
    /\ Goto(i, IF tracked THEN "check" ELSE "create", 1)
    /\ UNCHANGED <<tracked, applied, schema, lock, faults, history>>

Create(i) ==
    /\ pc[i] = "create"
    /\ ~tracked
    /\ tracked' = TRUE
    /\ Goto(i, "check", 1)
    /\ UNCHANGED <<applied, schema, lock, faults, history>>

CreateCollides(i) ==
    /\ pc[i] = "create"
    /\ tracked
    /\ Refused(i)

(***************************************************************************)
(* The loop over the files                                                 *)
(***************************************************************************)
\* Mutant: every file is executed, whatever the table says.
CheckNothing(i) ==
    /\ pc[i] = "check"
    /\ Goto(i, IF file[i] > Last THEN "serving" ELSE "execute", file[i])
    /\ UNCHANGED <<tracked, applied, schema, lock, faults, history>>

\* Mutant: the loop ends at the first file that is applied.
CheckReturns(i) ==
    /\ pc[i] = "check"
    /\ Goto(i, IF file[i] > Last \/ file[i] \in applied THEN "serving" ELSE "execute",
            file[i])
    /\ UNCHANGED <<tracked, applied, schema, lock, faults, history>>

\* Mutant: off by one at the end of the list.
CheckOffByOne(i) ==
    /\ pc[i] = "check"
    /\ \/ file[i] > Last + 1 /\ Goto(i, "serving", file[i])
       \/ file[i] \in applied /\ Goto(i, "check", file[i] + 1)
       \/ file[i] \notin applied /\ Goto(i, "execute", file[i])
    /\ UNCHANGED <<tracked, applied, schema, lock, faults, history>>

\* migrationApplied reads what is committed; no lock is held between this and
\* the transaction.
Check(i) ==
    /\ pc[i] = "check"
    /\ \/ file[i] > Last /\ Goto(i, "serving", file[i])
       \/ file[i] \in applied /\ Goto(i, "check", file[i] + 1)
       \/ file[i] \in Files \ applied /\ Goto(i, "execute", file[i])
    /\ UNCHANGED <<tracked, applied, schema, lock, faults, history>>

\* Mutant: the file is executed outside the transaction.
ExecuteOutside(i) ==
    /\ pc[i] = "execute"
    /\ lock = None
    /\ lock' = i
    /\ schema' = schema \cup {file[i]}
    /\ Goto(i, "record", file[i])
    /\ UNCHANGED <<tracked, applied, faults, history>>

\* The statements of the file. They wait for another transaction that changes
\* the same table; executed once more, they change nothing.
Execute(i) ==
    /\ pc[i] = "execute"
    /\ lock = None
    /\ lock' = i
    /\ Goto(i, "record", file[i])
    /\ UNCHANGED <<tracked, applied, schema, faults, history>>

\* Mutant: ON CONFLICT DO NOTHING.
RecordAnyway(i) ==
    /\ pc[i] = "record"
    /\ Goto(i, "commit", file[i])
    /\ UNCHANGED <<tracked, applied, schema, lock, faults, history>>

\* The INSERT into the tracking table.
Record(i) ==
    /\ pc[i] = "record"
    /\ file[i] \notin applied
    /\ Goto(i, "commit", file[i])
    /\ UNCHANGED <<tracked, applied, schema, lock, faults, history>>

\* Its primary key refuses a file that another instance has recorded meanwhile.
RecordCollides(i) ==
    /\ pc[i] = "record"
    /\ file[i] \in applied
    /\ Refused(i)

\* Mutant: the files are serialised by an advisory lock of the session, which
\* COMMIT does not release.
CommittedLocked(i) ==
    /\ pc[i] = "commit"
    /\ applied' = applied \cup {file[i]}
    /\ schema' = schema \cup {file[i]}
    /\ executions' = [executions EXCEPT ![file[i]] = @ + 1]
    /\ UNCHANGED lock

Committed(i) ==
    /\ pc[i] = "commit"
    /\ applied' = applied \cup {file[i]}
    /\ schema' = schema \cup {file[i]}
    /\ executions' = [executions EXCEPT ![file[i]] = @ + 1]
    /\ lock' = None

Commit(i) ==
    /\ Committed(i)
    /\ Goto(i, "check", file[i] + 1)
    /\ UNCHANGED <<tracked, faults, alone, failed>>

Faulty == faults < MaxFaults /\ faults' = faults + 1

\* COMMIT takes effect and returns an error.
CommitUnheard(i) ==
    /\ Committed(i)
    /\ Goto(i, "down", 1)
    /\ Faulty
    /\ UNCHANGED <<tracked, alone, failed>>

RunMigrations(i) ==
    \/ Ensure(i) \/ Create(i) \/ CreateCollides(i) \/ Check(i) \/ Execute(i)
    \/ Record(i) \/ RecordCollides(i) \/ Commit(i) \/ CommitUnheard(i)

\* A statement fails, or the process dies, while it starts or later.
Dies(i) ==
    /\ pc[i] # "down"
    /\ Abort(i)
    /\ Faulty
    /\ UNCHANGED <<tracked, applied, schema, history>>

Next == \E i \in Instances : Start(i) \/ RunMigrations(i) \/ Dies(i)

Fairness == \A i \in Instances : WF_vars(RunMigrations(i))

Spec == Init /\ [][Next]_vars

FairSpec == Spec /\ Fairness

-----------------------------------------------------------------------------
(***************************************************************************)
(* Properties                                                              *)
(***************************************************************************)
\* Every variable keeps to its type, and an instance inside the loop's body is
\* at one of the files.
TypeOK ==
    /\ tracked \in BOOLEAN
    /\ applied \subseteq Files
    /\ schema \subseteq Files
    /\ lock \in Instances \cup {None}
    /\ pc \in [Instances -> {"down", "ensure", "create", "check", "execute", "record",
                             "commit", "serving"}]
    /\ file \in [Instances -> 1..(Last + 1)]
    /\ \A i \in Instances : pc[i] \in {"execute", "record", "commit"} => file[i] \in Files
    /\ faults \in 0..MaxFaults
    /\ alone \subseteq Instances
    /\ failed \subseteq Instances
    /\ executions \in [Files -> Nat]

\* No file takes effect twice, although the check and the transaction are apart
\* and instances race: the primary key of the tracking table decides.
AppliedOnce == \A f \in Files : executions[f] <= 1

\* The tracking table and the schema agree after every crash and lost COMMIT,
\* files are applied in order, and a table that is used exists.
TrackingIsTruthful ==
    /\ schema = applied
    /\ \A f \in applied : 1..f \subseteq applied
    /\ applied # {} => tracked

\* An instance serves requests only on the complete schema, for its code relies
\* on the columns and the unique index of the last files.
ServingIsMigrated == \A i \in Instances : pc[i] = "serving" => applied = Files

\* "Re-runs are safe" (migrate.go:22): a start that overlaps no other one is not
\* refused, whatever earlier starts have left half-done. Overlapping ones may be.
RerunIsSafe == failed \cap alone = {}

\* Every start ends, in service or in an error: nobody waits for ever for the
\* locks of another instance.
EveryStartEnds == \A i \in Instances : i \in Starting ~> i \notin Starting
=============================================================================
