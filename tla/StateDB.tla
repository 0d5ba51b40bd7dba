------------------------------ MODULE StateDB ------------------------------
(***************************************************************************)
(* labctl's SQLite state database (src/state/state.go) at the granularity  *)
(* of its SQL statements: AllocateAndInsert drives BEGIN IMMEDIATE, a loop *)
(* of SELECTs, an INSERT and a COMMIT on the process's one pooled          *)
(* connection; Remove is a single autocommitted DELETE.  Several labctl    *)
(* processes, each with several threads, share the file.                   *)
(***************************************************************************)
EXTENDS Integers

CONSTANTS Threads,     \* callers, over all processes
          Processes,   \* labctl processes
          Home,        \* the process of each thread
          Nobody,      \* the absence of a thread
          MaxSlots     \* the range of the SELECT loop

ASSUME MaxSlotsAssumption == MaxSlots \in Nat \ {0}
ASSUME HomeAssumption == Home \in [Threads -> Processes]
ASSUME NobodyAssumption == Nobody \notin Threads

Slots  == 0 .. (MaxSlots - 1)
NoSlot == -1

VARIABLES rows,     \* committed rows of the vms table, as slots
          writer,   \* the thread whose transaction holds SQLite's write lock
          pool,     \* the thread holding each process's one connection
          pc,       \* where each thread is in its call
          op,       \* the call each thread makes
          arg,      \* the probed index, or the slot to remove
          got       \* the slot each thread's last AllocateAndInsert returned

vars == <<rows, writer, pool, pc, op, arg, got>>

InTransaction(t) == pc[t] \in {"probe", "insert", "commit"}
HasConn(t) == pc[t] \notin {"idle", "acquire"}

Init ==
  /\ rows = {}
  /\ writer = Nobody
  /\ pool = [h \in Processes |-> Nobody]
  /\ pc = [t \in Threads |-> "idle"]
  /\ op = [t \in Threads |-> "allocate"]
  /\ arg = [t \in Threads |-> 0]
  /\ got = [t \in Threads |-> NoSlot]

-----------------------------------------------------------------------------
(* A call starts *)

CallAllocate(t) ==
  /\ pc[t] = "idle"
  /\ pc' = [pc EXCEPT ![t] = "acquire"]
  /\ op' = [op EXCEPT ![t] = "allocate"]
  /\ UNCHANGED <<rows, writer, pool, arg, got>>

CallRemove(t) ==
  /\ pc[t] = "idle"
  /\ pc' = [pc EXCEPT ![t] = "acquire"]
  /\ op' = [op EXCEPT ![t] = "remove"]
  /\ \E s \in Slots : arg' = [arg EXCEPT ![t] = s]
  /\ UNCHANGED <<rows, writer, pool, got>>

\* Broken variant: without SetMaxOpenConns(1) every thread gets a connection.
AcquireConnUnpooled(t) ==
  /\ pc[t] = "acquire"
  /\ pool' = [pool EXCEPT ![Home[t]] = t]
  /\ pc' = [pc EXCEPT ![t] = IF op[t] = "allocate" THEN "begin" ELSE "delete"]
  /\ UNCHANGED <<rows, writer, op, arg, got>>

\* SetMaxOpenConns(1): a thread waits until its process's connection is free.
AcquireConn(t) ==
  /\ pc[t] = "acquire"
  /\ pool[Home[t]] = Nobody
  /\ pool' = [pool EXCEPT ![Home[t]] = t]
  /\ pc' = [pc EXCEPT ![t] = IF op[t] = "allocate" THEN "begin" ELSE "delete"]
  /\ UNCHANGED <<rows, writer, op, arg, got>>

\* Broken variant: the deferred conn.Close() is forgotten.
ReturnKeepingConn(t) ==
  /\ pc' = [pc EXCEPT ![t] = "idle"]
  /\ op' = [op EXCEPT ![t] = "allocate"]
  /\ arg' = [arg EXCEPT ![t] = 0]
  /\ UNCHANGED pool

\* The connection goes back to the pool and the call returns.
Return(t) ==
  /\ pool' = [pool EXCEPT ![Home[t]] = Nobody]
  /\ pc' = [pc EXCEPT ![t] = "idle"]
  /\ op' = [op EXCEPT ![t] = "allocate"]
  /\ arg' = [arg EXCEPT ![t] = 0]

-----------------------------------------------------------------------------
(* AllocateAndInsert *)

\* Broken variant: database/sql's plain BEGIN, which takes no lock.
BeginDeferred(t) ==
  /\ pc[t] = "begin"
  /\ writer' = t
  /\ pc' = [pc EXCEPT ![t] = "probe"]
  /\ arg' = [arg EXCEPT ![t] = 0]
  /\ UNCHANGED <<rows, pool, op, got>>

\* IMMEDIATE: the write lock is taken now, before the first SELECT.
BeginImmediate(t) ==
  /\ pc[t] = "begin"
  /\ writer = Nobody
  /\ writer' = t
  /\ pc' = [pc EXCEPT ![t] = "probe"]
  /\ arg' = [arg EXCEPT ![t] = 0]
  /\ UNCHANGED <<rows, pool, op, got>>

\* No busy_timeout is set: a statement that needs the lock fails at once.
Busy(t) ==
  /\ pc[t] \in {"begin", "delete"}
  /\ writer # Nobody
  /\ got' = [got EXCEPT ![t] = IF op[t] = "allocate" THEN NoSlot ELSE @]
  /\ Return(t)
  /\ UNCHANGED <<rows, writer>>

\* Broken variant: the loop runs one index too far.
ProbeTakenTooFar(t) ==
  /\ pc[t] = "probe"
  /\ arg[t] \in rows
  /\ arg' = [arg EXCEPT ![t] = @ + 1]
  /\ UNCHANGED <<rows, writer, pool, pc, op, got>>

ProbeTaken(t) ==
  /\ pc[t] = "probe"
  /\ arg[t] \in rows
  /\ arg[t] + 1 < MaxSlots
  /\ arg' = [arg EXCEPT ![t] = @ + 1]
  /\ UNCHANGED <<rows, writer, pool, pc, op, got>>

ProbeFree(t) ==
  /\ pc[t] = "probe"
  /\ arg[t] \notin rows
  /\ pc' = [pc EXCEPT ![t] = "insert"]
  /\ UNCHANGED <<rows, writer, pool, op, arg, got>>

\* The UNIQUE constraints stand behind the guard: a conflict is a StatementFails.
Insert(t) ==
  /\ pc[t] = "insert"
  /\ arg[t] \notin rows
  /\ pc' = [pc EXCEPT ![t] = "commit"]
  /\ UNCHANGED <<rows, writer, pool, op, arg, got>>

Commit(t) ==
  /\ pc[t] = "commit"
  /\ rows' = rows \cup {arg[t]}
  /\ writer' = Nobody
  /\ got' = [got EXCEPT ![t] = arg[t]]
  /\ Return(t)

\* The deferred ROLLBACK drops the lock and the uncommitted row.
Rollback(t) ==
  /\ writer' = Nobody
  /\ got' = [got EXCEPT ![t] = NoSlot]
  /\ Return(t)
  /\ UNCHANGED rows

\* "no available slots"
Exhausted(t) ==
  /\ pc[t] = "probe"
  /\ arg[t] \in rows
  /\ arg[t] + 1 = MaxSlots
  /\ Rollback(t)

StatementFails(t) == InTransaction(t) /\ Rollback(t)

-----------------------------------------------------------------------------
(* Remove *)

\* Broken variant: the DELETE does not wait for the open transaction.
DeleteUnlocked(t) ==
  /\ pc[t] = "delete"
  /\ rows' = rows \ {arg[t]}
  /\ Return(t)
  /\ UNCHANGED <<writer, got>>

Delete(t) ==
  /\ pc[t] = "delete"
  /\ writer = Nobody
  /\ rows' = rows \ {arg[t]}
  /\ Return(t)
  /\ UNCHANGED <<writer, got>>

-----------------------------------------------------------------------------

\* A process is killed: SQLite drops its lock and its journal is rolled back;
\* its threads are the next command's.
Kill(h) ==
  /\ \E t \in Threads : Home[t] = h /\ pc[t] # "idle"
  /\ pc' = [t \in Threads |-> IF Home[t] = h THEN "idle" ELSE pc[t]]
  /\ got' = [t \in Threads |-> IF Home[t] = h THEN NoSlot ELSE got[t]]
  /\ pool' = [pool EXCEPT ![h] = Nobody]
  /\ writer' = IF \E t \in Threads : t = writer /\ Home[t] = h THEN Nobody ELSE writer
  /\ op' = [t \in Threads |-> IF Home[t] = h THEN "allocate" ELSE op[t]]
  /\ arg' = [t \in Threads |-> IF Home[t] = h THEN 0 ELSE arg[t]]
  /\ UNCHANGED rows

Step(t) ==
  \/ BeginImmediate(t) \/ Busy(t)
  \/ ProbeTaken(t) \/ ProbeFree(t) \/ Insert(t) \/ Commit(t)
  \/ Exhausted(t) \/ StatementFails(t)
  \/ Delete(t)

Next ==
  \/ \E t \in Threads : CallAllocate(t) \/ CallRemove(t) \/ AcquireConn(t) \/ Step(t)
  \/ \E h \in Processes : Kill(h)

Spec == Init /\ [][Next]_vars

\* A call that has its connection runs on; database/sql hands a freed
\* connection to a randomly chosen waiter, so no waiter is passed over forever.
Fairness == \A t \in Threads : WF_vars(Step(t)) /\ SF_vars(AcquireConn(t))
FairSpec == Spec /\ Fairness

-----------------------------------------------------------------------------
(* Properties *)

TypeOK ==
  /\ rows \in SUBSET Slots
  /\ writer \in Threads \cup {Nobody}
  /\ pool \in [Processes -> Threads \cup {Nobody}]
  /\ pc \in [Threads -> {"idle", "acquire", "begin", "probe", "insert",
                         "commit", "delete"}]
  /\ op \in [Threads -> {"allocate", "remove"}]
  /\ arg \in [Threads -> Slots]
  /\ got \in [Threads -> Slots \cup {NoSlot}]

\* The pool's one connection: a thread past Conn holds it, and nobody else
\* of its process does (state.go: SetMaxOpenConns(1) "avoids SQLITE_BUSY from
\* this process racing itself").
ConnHeldByCaller == \A t \in Threads : HasConn(t) <=> pool[Home[t]] = t

\* The write lock belongs to the one thread inside a transaction.
LockHeldInTransaction == \A t \in Threads : InTransaction(t) <=> writer = t

\* From the SELECT that found the slot free until the COMMIT, the slot stays
\* free and every lower one stays taken, whatever other processes do:
\* state.go:120 "closing the race between 'find a free slot' and 'claim it'".
ChosenIsStillFree ==
  \A t \in Threads :
    /\ InTransaction(t) => \A u \in Slots : u < arg[t] => u \in rows
    /\ pc[t] \in {"insert", "commit"} => arg[t] \notin rows

\* AllocateAndInsert and Remove are atomic claims and releases of slots.
Ledger == INSTANCE SlotLedger WITH Clients <- Threads, claimed <- rows, granted <- got
ImplementsLedger == Ledger!Spec

\* Every call returns: BUSY is an error, never a wait, and the connection is
\* always given back.
CallsReturn == \A t \in Threads : pc[t] # "idle" ~> pc[t] = "idle"

\* No two threads of one process are refused because of each other: when a
\* statement finds the database locked, the lock is another process's.
BusyIsAnotherProcess ==
  [][\A t \in Threads : Busy(t) => Home[writer] # Home[t]]_vars

\* "no available slots" is said only when every slot is taken at that moment,
\* though the SELECTs looked at the slots one after the other.
RefusedOnlyWhenFull ==
  [][\A t \in Threads : Exhausted(t) => rows = Slots]_vars
=============================================================================
