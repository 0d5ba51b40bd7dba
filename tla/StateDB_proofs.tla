--------------------------- MODULE StateDB_proofs ---------------------------
(***************************************************************************)
(* For any number of threads, processes and slots: type correctness, the   *)
(* exclusion of the connection pool and of the write lock, the slot chosen *)
(* by a SELECT staying free until its COMMIT, what a refusal means, the    *)
(* refinement of the atomic SlotLedger, and that calls are bounded and     *)
(* wait for none that waits.                                               *)
(***************************************************************************)
EXTENDS StateDB, TLAPS

\* Invariant proved here: one state, one type for every variable.
THEOREM TypeCorrect == Spec => []TypeOK
<1> USE MaxSlotsAssumption, HomeAssumption, NobodyAssumption DEF NoSlot
<1>1. Init => TypeOK
  BY DEF Init, TypeOK, Slots
<1>2. TypeOK /\ [Next]_vars => TypeOK'
  <2> SUFFICES ASSUME TypeOK, [Next]_vars PROVE TypeOK'
    OBVIOUS
  <2>0. 0 \in Slots
    BY DEF Slots
  <2> USE DEF TypeOK
  <2>1. ASSUME NEW t \in Threads, CallAllocate(t) PROVE TypeOK'
    BY <2>1 DEF CallAllocate
  <2>2. ASSUME NEW t \in Threads, CallRemove(t) PROVE TypeOK'
    BY <2>2 DEF CallRemove
  <2>3. ASSUME NEW t \in Threads, AcquireConn(t) PROVE TypeOK'
    BY <2>3 DEF AcquireConn
  <2>4. ASSUME NEW t \in Threads, BeginImmediate(t) PROVE TypeOK'
    BY <2>0, <2>4 DEF BeginImmediate
  <2>5. ASSUME NEW t \in Threads, Busy(t) PROVE TypeOK'
    BY <2>0, <2>5 DEF Busy, Return
  <2>6. ASSUME NEW t \in Threads, ProbeTaken(t) PROVE TypeOK'
    BY <2>6 DEF ProbeTaken, Slots
  <2>7. ASSUME NEW t \in Threads, ProbeFree(t) PROVE TypeOK'
    BY <2>7 DEF ProbeFree
  <2>8. ASSUME NEW t \in Threads, Insert(t) PROVE TypeOK'
    BY <2>8 DEF Insert
  <2>9. ASSUME NEW t \in Threads, Commit(t) PROVE TypeOK'
    BY <2>0, <2>9 DEF Commit, Return
  <2>10. ASSUME NEW t \in Threads, Exhausted(t) \/ StatementFails(t) PROVE TypeOK'
    BY <2>0, <2>10 DEF Exhausted, StatementFails, Rollback, Return
  <2>11. ASSUME NEW t \in Threads, Delete(t) PROVE TypeOK'
    BY <2>0, <2>11 DEF Delete, Return
  <2>12. ASSUME NEW h \in Processes, Kill(h) PROVE TypeOK'
    BY <2>0, <2>12 DEF Kill
  <2>13. CASE UNCHANGED vars
    BY <2>13 DEF vars
  <2> QED
    BY <2>1, <2>2, <2>3, <2>4, <2>5, <2>6, <2>7, <2>8, <2>9, <2>10, <2>11,
       <2>12, <2>13 DEF Next, Step
<1> QED
  BY <1>1, <1>2, PTL DEF Spec

-----------------------------------------------------------------------------
\* The inductive invariant: the two exclusions are what keeps the rows still
\* while a transaction probes, so they are proved together with its result.
IInv == TypeOK /\ ConnHeldByCaller /\ LockHeldInTransaction /\ ChosenIsStillFree

LEMMA InitEstablishesIInv == Init => IInv
  BY MaxSlotsAssumption, HomeAssumption, NobodyAssumption
     DEF Init, IInv, TypeOK, Slots, NoSlot, ConnHeldByCaller, HasConn,
         LockHeldInTransaction, InTransaction, ChosenIsStillFree

\* A returning thread takes nobody else's connection.
LEMMA StepKeepsIInv == TypeOK' /\ IInv /\ [Next]_vars => IInv'
<1> SUFFICES ASSUME TypeOK', IInv, [Next]_vars
             PROVE (ConnHeldByCaller /\ LockHeldInTransaction /\ ChosenIsStillFree)'
  BY DEF IInv
<1> USE MaxSlotsAssumption, HomeAssumption, NobodyAssumption
    DEF IInv, TypeOK, Slots, ConnHeldByCaller, HasConn, LockHeldInTransaction,
        InTransaction, ChosenIsStillFree
<1> DEFINE Goal == (ConnHeldByCaller /\ LockHeldInTransaction /\ ChosenIsStillFree)'
<1>1. ASSUME NEW t \in Threads, CallAllocate(t) PROVE Goal
  BY <1>1 DEF CallAllocate
<1>2. ASSUME NEW t \in Threads, CallRemove(t) PROVE Goal
  BY <1>2 DEF CallRemove
<1>3. ASSUME NEW t \in Threads, AcquireConn(t) PROVE Goal
  BY <1>3 DEF AcquireConn
<1>4. ASSUME NEW t \in Threads, BeginImmediate(t) PROVE Goal
  BY <1>4 DEF BeginImmediate
<1>5. ASSUME NEW t \in Threads, Busy(t) PROVE Goal
  BY <1>5 DEF Busy, Return
<1>6. ASSUME NEW t \in Threads, ProbeTaken(t) PROVE Goal
  BY <1>6 DEF ProbeTaken
<1>7. ASSUME NEW t \in Threads, ProbeFree(t) PROVE Goal
  BY <1>7 DEF ProbeFree
<1>8. ASSUME NEW t \in Threads, Insert(t) PROVE Goal
  BY <1>8 DEF Insert
<1>9. ASSUME NEW t \in Threads, Commit(t) PROVE Goal
  BY <1>9 DEF Commit, Return
<1>10. ASSUME NEW t \in Threads, Exhausted(t) \/ StatementFails(t) PROVE Goal
  BY <1>10 DEF Exhausted, StatementFails, Rollback, Return
<1>11. ASSUME NEW t \in Threads, Delete(t) PROVE Goal
  BY <1>11 DEF Delete, Return
<1>12. ASSUME NEW h \in Processes, Kill(h) PROVE Goal
  BY <1>12 DEF Kill
<1>13. CASE UNCHANGED vars
  BY <1>13 DEF vars
<1> QED
  BY <1>1, <1>2, <1>3, <1>4, <1>5, <1>6, <1>7, <1>8, <1>9, <1>10, <1>11,
     <1>12, <1>13 DEF Next, Step

LEMMA IInvHolds == Spec => []IInv
<1>1. IInv /\ TypeOK' /\ [Next]_vars => IInv'
  BY StepKeepsIInv
<1> QED
  BY <1>1, InitEstablishesIInv, TypeCorrect, PTL DEF Spec

\* One thread of a process is past db.Conn at a time (state.go:108).
THEOREM PoolExclusion == Spec => []ConnHeldByCaller
  BY IInvHolds, PTL DEF IInv

\* The race state.go:120 speaks of is closed: the slot found free is free
\* until it is committed, and no lower slot becomes free meanwhile.
THEOREM SelectionStable == Spec => []ChosenIsStillFree
  BY IInvHolds, PTL DEF IInv

\* A full ledger is refused for what it is at that moment, not for what the
\* earlier SELECTs saw (state.go:160).
THEOREM RefusalMeansFull == Spec => RefusedOnlyWhenFull
<1>1. IInv => \A t \in Threads : Exhausted(t) => rows = Slots
  <2> SUFFICES ASSUME IInv, NEW t \in Threads, Exhausted(t) PROVE rows = Slots
    OBVIOUS
  <2>1. /\ rows \subseteq Slots /\ arg[t] \in rows \cap Slots /\ arg[t] + 1 = MaxSlots
        /\ \A u \in Slots : u < arg[t] => u \in rows
    BY DEF IInv, TypeOK, Exhausted, ChosenIsStillFree, InTransaction
  <2>2. \A u \in Slots : u < arg[t] \/ u = arg[t]
    BY <2>1, MaxSlotsAssumption DEF Slots
  <2> QED
    BY <2>1, <2>2
<1> QED
  BY <1>1, IInvHolds, PTL DEF RefusedOnlyWhenFull

\* The threads of one process queue for its connection; BUSY comes from
\* another process's transaction only.
THEOREM BusyComesFromOutside == Spec => BusyIsAnotherProcess
<1>1. IInv => \A t \in Threads : Busy(t) => Home[writer] # Home[t]
  <2> SUFFICES ASSUME IInv, NEW t \in Threads, Busy(t) PROVE Home[writer] # Home[t]
    OBVIOUS
  <2>1. pool[Home[t]] = t /\ pc[t] \in {"begin", "delete"}
    BY DEF IInv, Busy, ConnHeldByCaller, HasConn
  <2>2. writer \in Threads
    BY DEF IInv, TypeOK, Busy
  <2>3. pool[Home[writer]] = writer /\ pc[writer] \in {"probe", "insert", "commit"}
    BY <2>2 DEF IInv, LockHeldInTransaction, InTransaction, ConnHeldByCaller, HasConn
  <2> QED
    BY <2>1, <2>3
<1> QED
  BY <1>1, IInvHolds, PTL DEF BusyIsAnotherProcess

-----------------------------------------------------------------------------
(* Refinement of SlotLedger *)

\* Every statement is a step of the ledger or leaves it alone; the COMMIT is
\* the claim, the DELETE the release.
LEMMA StepRefines == IInv /\ [Next]_vars => [Ledger!Next]_(Ledger!vars)
<1> SUFFICES ASSUME IInv, [Next]_vars PROVE [Ledger!Next]_(Ledger!vars)
  OBVIOUS
<1> USE MaxSlotsAssumption, HomeAssumption, NobodyAssumption
    DEF IInv, TypeOK, Slots, NoSlot, Ledger!Slots, Ledger!NoSlot, Ledger!vars
<1>1. ASSUME NEW t \in Threads, got' = [got EXCEPT ![t] = NoSlot], UNCHANGED rows
      PROVE Ledger!Next
  <2>1. Ledger!Refuse({t})
    BY <1>1 DEF Ledger!Refuse
  <2> QED
    BY <2>1 DEF Ledger!Next
<1>2. ASSUME NEW t \in Threads, Busy(t) PROVE [Ledger!Next]_(Ledger!vars)
  <2>1. CASE op[t] = "allocate"
    BY <1>1, <1>2, <2>1 DEF Busy
  <2>2. CASE op[t] # "allocate"
    BY <1>2, <2>2 DEF Busy
  <2> QED
    BY <2>1, <2>2
<1>3. ASSUME NEW t \in Threads, Commit(t) PROVE Ledger!Next
  <2>1. Ledger!IsLowestFree(arg[t], rows)
    BY <1>3 DEF Commit, ChosenIsStillFree, InTransaction, Ledger!IsLowestFree
  <2>2. Ledger!Claim(t)
    BY <1>3, <2>1 DEF Commit, Ledger!Claim
  <2> QED
    BY <2>2 DEF Ledger!Next
<1>4. ASSUME NEW t \in Threads, Delete(t) PROVE [Ledger!Next]_(Ledger!vars)
  <2>1. CASE arg[t] \in rows
    <3>1. Ledger!Release
      BY <1>4, <2>1 DEF Delete, Ledger!Release
    <3> QED
      BY <3>1 DEF Ledger!Next
  <2>2. CASE arg[t] \notin rows
    BY <1>4, <2>2 DEF Delete
  <2> QED
    BY <2>1, <2>2
<1>5. ASSUME NEW h \in Processes, Kill(h) PROVE Ledger!Next
  <2> DEFINE C == {t \in Threads : Home[t] = h}
  <2>1. Ledger!Refuse(C)
    BY <1>5 DEF Kill, Ledger!Refuse
  <2> QED
    BY <2>1 DEF Ledger!Next
<1>6. ASSUME NEW t \in Threads,
             CallAllocate(t) \/ CallRemove(t) \/ AcquireConn(t) \/ BeginImmediate(t)
             \/ ProbeTaken(t) \/ ProbeFree(t) \/ Insert(t)
      PROVE UNCHANGED <<rows, got>>
  BY <1>6 DEF CallAllocate, CallRemove, AcquireConn, BeginImmediate, ProbeTaken,
              ProbeFree, Insert
<1>7. ASSUME NEW t \in Threads, Exhausted(t) \/ StatementFails(t) PROVE Ledger!Next
  BY <1>1, <1>7 DEF Exhausted, StatementFails, Rollback
<1>8. CASE UNCHANGED vars
  BY <1>8 DEF vars
<1> QED
  BY <1>2, <1>3, <1>4, <1>5, <1>6, <1>7, <1>8 DEF Next, Step

\* Callers may reason about AllocateAndInsert and Remove as atomic claims and
\* releases of the lowest free slot, whatever the number of processes.
THEOREM Refinement == Spec => ImplementsLedger
<1>1. Init => Ledger!Init
  BY DEF Init, Ledger!Init, NoSlot, Ledger!NoSlot
<1> QED
  BY <1>1, IInvHolds, StepRefines, PTL DEF Spec, ImplementsLedger, Ledger!Spec

-----------------------------------------------------------------------------
(* Calls count down: what CallsReturn asks of the steps *)

\* At most so many statements are left to a call that has its connection.
StatementsLeft(t) ==
  CASE pc[t] = "begin"                -> MaxSlots + 3
    [] pc[t] = "probe"                -> (MaxSlots - arg[t]) + 2
    [] pc[t] = "insert"               -> 2
    [] pc[t] \in {"commit", "delete"} -> 1
    [] OTHER                          -> 0

CallsAreBounded ==
  \A t \in Threads :
    IF HasConn(t) THEN StatementsLeft(t) \in 1 .. (MaxSlots + 3) ELSE StatementsLeft(t) = 0

\* A caller that waits for the connection waits for one that runs.
WaitsForARunner ==
  \A h \in Processes : pool[h] # Nobody => Home[pool[h]] = h /\ HasConn(pool[h])

\* A call's statement leaves fewer to do, another's leaves them or, with the
\* process, ends the call.
CallsCount ==
  \A t \in Threads : HasConn(t) =>
    /\ Step(t)  => StatementsLeft(t)' < StatementsLeft(t)
    /\ ~Step(t) => StatementsLeft(t)' \in {StatementsLeft(t), 0}

LEMMA StatementsBounded == IInv => CallsAreBounded
<1> SUFFICES ASSUME IInv, NEW t \in Threads
             PROVE  IF HasConn(t) THEN StatementsLeft(t) \in 1 .. (MaxSlots + 3)
                                  ELSE StatementsLeft(t) = 0
  BY DEF CallsAreBounded
<1>1. arg[t] \in 0 .. (MaxSlots - 1) /\ MaxSlots \in Nat
  BY MaxSlotsAssumption DEF IInv, TypeOK, Slots
<1> QED
  BY <1>1 DEF IInv, TypeOK, HasConn, StatementsLeft

LEMMA OwnStatementCounts ==
  ASSUME IInv, NEW t \in Threads, Step(t)
  PROVE  StatementsLeft(t)' < StatementsLeft(t)
<1>1. arg[t] \in 0 .. (MaxSlots - 1) /\ MaxSlots \in Nat
  BY MaxSlotsAssumption DEF IInv, TypeOK, Slots
<1>2. CASE BeginImmediate(t)
  <2>1. pc[t] = "begin" /\ pc'[t] = "probe" /\ arg'[t] = 0
    BY <1>2 DEF BeginImmediate, IInv, TypeOK
  <2> QED
    BY <1>1, <2>1 DEF StatementsLeft
<1>3. CASE ProbeTaken(t)
  <2>1. pc[t] = "probe" /\ pc'[t] = "probe" /\ arg'[t] = arg[t] + 1
    BY <1>3 DEF ProbeTaken, IInv, TypeOK
  <2> QED
    BY <1>1, <2>1 DEF StatementsLeft
<1>4. CASE ProbeFree(t) \/ Insert(t)
  <2>1. \/ pc[t] = "probe" /\ pc'[t] = "insert"
        \/ pc[t] = "insert" /\ pc'[t] = "commit"
    BY <1>4 DEF ProbeFree, Insert, IInv, TypeOK
  <2> QED
    BY <1>1, <2>1 DEF StatementsLeft
<1>5. CASE Busy(t) \/ Commit(t) \/ Exhausted(t) \/ StatementFails(t) \/ Delete(t)
  <2>1. pc'[t] = "idle" /\ HasConn(t)
    BY <1>5 DEF Busy, Commit, Exhausted, StatementFails, Delete, Rollback, Return, InTransaction,
           HasConn, IInv, TypeOK
  <2>2. StatementsLeft(t) \in 1 .. (MaxSlots + 3)
    BY <2>1, StatementsBounded DEF CallsAreBounded
  <2>3. StatementsLeft(t)' = 0
    BY <2>1 DEF StatementsLeft
  <2> QED
    BY <1>1, <2>2, <2>3
<1> QED
  BY <1>2, <1>3, <1>4, <1>5 DEF Step

LEMMA OtherStatementsCount ==
  ASSUME IInv, [Next]_vars, NEW t \in Threads, HasConn(t), ~Step(t)
  PROVE  StatementsLeft(t)' \in {StatementsLeft(t), 0}
<1> USE DEF IInv, TypeOK
<1>1. CASE pc'[t] = pc[t] /\ arg'[t] = arg[t]
  BY <1>1 DEF StatementsLeft
<1>2. CASE pc'[t] = "idle"
  BY <1>2 DEF StatementsLeft
<1>3. ASSUME NEW u \in Threads, CallAllocate(u) \/ CallRemove(u) \/ AcquireConn(u)
      PROVE  pc'[t] = pc[t] /\ arg'[t] = arg[t]
  BY <1>3 DEF CallAllocate, CallRemove, AcquireConn, HasConn
<1>4. ASSUME NEW u \in Threads, Step(u)
      PROVE  pc'[t] = pc[t] /\ arg'[t] = arg[t]
  BY <1>4 DEF Step, BeginImmediate, Busy, ProbeTaken, ProbeFree, Insert, Commit, Exhausted,
         StatementFails, Delete, Rollback, Return
<1>5. ASSUME NEW h \in Processes, Kill(h)
      PROVE  pc'[t] = "idle" \/ (pc'[t] = pc[t] /\ arg'[t] = arg[t])
  BY <1>5 DEF Kill
<1>6. CASE UNCHANGED vars
  BY <1>1, <1>6 DEF vars
<1> QED
  BY <1>1, <1>2, <1>3, <1>4, <1>5, <1>6 DEF Next

\* A call that has the connection is over after at most one BEGIN, a SELECT for
\* each slot, an INSERT and a COMMIT; nobody else's statement gives it more to do,
\* for a locked database is an error and never a wait.
THEOREM CallsCountDown == Spec => []CallsAreBounded /\ [][CallsCount]_vars
<1>1. IInv /\ [Next]_vars => CallsCount
  BY OwnStatementCounts, OtherStatementsCount DEF CallsCount
<1> QED
  BY <1>1, StatementsBounded, IInvHolds, PTL DEF Spec

\* Nobody queues for a connection that has been lost: its holder is a caller of
\* the same process and has a statement to execute (state.go:108).
THEOREM ConnectionComesBack == Spec => []WaitsForARunner
<1> USE HomeAssumption, NobodyAssumption
<1> DEFINE Own == \A h \in Processes : pool[h] # Nobody => Home[pool[h]] = h
<1>1. Init => Own
  BY DEF Init
<1>2. IInv /\ Own /\ [Next]_vars => Own'
  <2> SUFFICES ASSUME IInv, Own, [Next]_vars PROVE Own'
    OBVIOUS
  <2> USE DEF IInv, TypeOK
  <2>1. CASE UNCHANGED pool
    BY <2>1
  <2>2. ASSUME NEW t \in Threads, AcquireConn(t) \/ Step(t) PROVE Own'
    BY <2>1, <2>2 DEF AcquireConn, Step, BeginImmediate, Busy, ProbeTaken, ProbeFree, Insert,
           Commit, Exhausted, StatementFails, Delete, Rollback, Return
  <2>3. ASSUME NEW h \in Processes, Kill(h) PROVE Own'
    BY <2>3 DEF Kill
  <2> QED
    BY <2>1, <2>2, <2>3 DEF Next, CallAllocate, CallRemove, vars
<1>3. IInv /\ Own => WaitsForARunner
  BY DEF IInv, TypeOK, ConnHeldByCaller, WaitsForARunner
<1> QED
  BY <1>1, <1>2, <1>3, IInvHolds, PTL DEF Spec
=============================================================================
