-------------------------- MODULE Lifecycle_proofs --------------------------
(***************************************************************************)
(* For any number of processes, slots, snapshots and ports, any set of     *)
(* commands and any faults: type correctness, that commands use the slots  *)
(* as clients of SlotLedger, and that each has a bounded number of steps.  *)
(* When no two commands work on one VM at a time: that the ledger forgets  *)
(* nothing on the host, that a claimed slot is clean, that a running VM is *)
(* whole, that a snapshot is registered, and its VM dropped, only when it  *)
(* is whole, and that the commands implement VMStages.  What failures cost *)
(* is told by three theorems with a hypothesis more: no live VM without a  *)
(* row unless calls fail, no forwarder that no row names unless calls fail *)
(* or labctl is killed, no shared address unless a snapshot is restored.   *)
(***************************************************************************)
EXTENDS Lifecycle, FiniteSetTheorems, TLAPS

-----------------------------------------------------------------------------
(* The commands a step belongs to, and what its local variables hold *)

CommandFits(label, cmd) ==
  /\ label = "idle" => cmd = "none"
  /\ label \in {"claim", "chroot", "tap", "launch", "boot"} => cmd \in {"run", "restore"}
  /\ label = "unclaim" => cmd = "restore"
  /\ label \in {"checkname", "pause", "create", "copy", "record"} => cmd = "snapshot"
  /\ label \in {"stop", "untap", "rmdir", "remove"} => cmd \in {"destroy", "snapshot"}
  /\ label = "unforward" => cmd \in {"destroy", "snapshot", "ports rm"}
  /\ label = "setports" => cmd \in {"ports add", "ports rm"}
  /\ label = "alive" => cmd = "ports add"
  /\ label = "restart" => cmd = "ports reload"
  /\ label = "notify" => cmd = "restore"
  /\ label = "forward" => cmd \in {"run", "restore", "ports add"}
  /\ label = "ask" => cmd = "ports rm"
  /\ label = "wait" => cmd \in {"run", "restore"}

CopiedFits(label, n) ==
  /\ label = "copy" => n \in 0 .. 2
  /\ label \in {"checkname", "pause", "create"} => n = 0

JobOK(p) ==
  /\ CommandFits(pc[p], job[p].cmd)
  /\ job[p].vm = NoSlot <=> pc[p] \in {"idle", "claim"}
  /\ job[p].cmd \in {"restore", "snapshot"} => job[p].name \in Names
  /\ CopiedFits(pc[p], job[p].copied)

\* The type invariant alone is not inductive: a step at "copy" indexes the
\* files with the name and the count its process carries.
Shape == TypeOK /\ \A p \in Procs : JobOK(p)

LEMMA JobFields ==
  ASSUME ProcsOK, NEW p \in Procs
  PROVE  /\ job[p].vm \in Slots \cup {NoSlot} /\ job[p].name \in Names \cup {NoName}
         /\ job[p].ports \in SUBSET Ports /\ job[p].todo \in SUBSET Ports
         /\ job[p].copied \in 0 .. 3 /\ job[p].cmd \in AllCommands \cup {"none"}
  BY DEF ProcsOK, Jobs

\* The other processes keep their places.
LEMMA OthersKeep ==
  ASSUME \A q \in Procs : JobOK(q), NEW p \in Procs, JobOK(p)',
         \A q \in Procs \ {p} : pc'[q] = pc[q] /\ job'[q] = job[q]
  PROVE  (\A q \in Procs : JobOK(q))'
<1> SUFFICES ASSUME NEW q \in Procs, q # p PROVE JobOK(q)'
  OBVIOUS
<1> QED
  BY DEF JobOK

ProcsShape == ProcsOK /\ \A p \in Procs : JobOK(p)

LEMMA GotoKeeps ==
  ASSUME ProcsShape, NEW p \in Procs, pc[p] \notin {"idle", "claim"},
         NEW label \in Labels \ {"idle", "claim"}, Goto(p, label),
         CommandFits(label, job[p].cmd), CopiedFits(label, job[p].copied)
  PROVE  ProcsShape'
<1>1. pc' = [pc EXCEPT ![p] = label] /\ job' = job
  BY DEF Goto
<1>2. JobOK(p)'
  BY <1>1 DEF ProcsShape, ProcsOK, JobOK
<1>3. ProcsOK'
  BY <1>1 DEF ProcsShape, ProcsOK
<1> QED
  BY <1>1, <1>2, <1>3, OthersKeep DEF ProcsShape, ProcsOK

LEMMA ExitKeeps ==
  ASSUME ProcsShape, NEW p \in Procs, Exit(p)
  PROVE  ProcsShape'
<1>1. pc' = [pc EXCEPT ![p] = "idle"] /\ job' = [job EXCEPT ![p] = NoJob]
  BY DEF Exit
<1>2. pc'[p] = "idle" /\ job'[p] = NoJob
  BY <1>1 DEF ProcsShape, ProcsOK
<1>3. job'[p].cmd = "none" /\ job'[p].vm = NoSlot
  BY <1>2 DEF NoJob
<1>4. JobOK(p)'
  BY <1>2, <1>3 DEF JobOK, CommandFits, CopiedFits
<1>5. ProcsOK'
  BY <1>1 DEF ProcsShape, ProcsOK, NoJob, Jobs, Labels
<1> QED
  BY <1>1, <1>4, <1>5, OthersKeep DEF ProcsShape, ProcsOK

LEMMA ErrorKeeps ==
  ASSUME ProcsShape, NEW p \in Procs, pc[p] # "idle", Error(p)
  PROVE  ProcsShape'
<1>1. CASE job[p].cmd = "restore" /\ job[p].vm # NoSlot
  <2>1. Goto(p, "unclaim") /\ pc[p] \notin {"idle", "claim"}
    BY <1>1 DEF Error, ProcsShape, JobOK
  <2>2. CommandFits("unclaim", job[p].cmd) /\ CopiedFits("unclaim", job[p].copied)
    BY <1>1 DEF CommandFits, CopiedFits
  <2> QED
    BY <2>1, <2>2, GotoKeeps DEF Labels
<1>2. CASE ~(job[p].cmd = "restore" /\ job[p].vm # NoSlot)
  BY <1>2, ExitKeeps DEF Error
<1> QED
  BY <1>1, <1>2

\* A step that only takes a port off the list of ports left to do.
LEMMA TodoKeeps ==
  ASSUME ProcsShape, NEW p \in Procs, NEW T \in SUBSET Ports,
         job' = [job EXCEPT ![p].todo = T], pc' = pc
  PROVE  ProcsShape'
<1>1. /\ job'[p].vm = job[p].vm /\ job'[p].cmd = job[p].cmd
      /\ job'[p].name = job[p].name /\ job'[p].copied = job[p].copied
  BY DEF ProcsShape, ProcsOK, Jobs
<1>2. JobOK(p)'
  BY <1>1 DEF ProcsShape, JobOK
<1>3. ProcsOK'
  <2>1. job[p] \in Jobs /\ job'[p] = [job[p] EXCEPT !.todo = T]
    BY DEF ProcsShape, ProcsOK
  <2>2. job'[p] \in Jobs
    BY <2>1 DEF Jobs
  <2> QED
    BY <2>2 DEF ProcsShape, ProcsOK
<1> QED
  BY <1>2, <1>3, OthersKeep DEF ProcsShape, ProcsOK

LEMMA BeginKeeps ==
  ASSUME ProcsShape, NEW p \in Procs,
         NEW cmd \in AllCommands, NEW label \in Labels \ {"idle"},
         NEW v \in Slots \cup {NoSlot}, NEW n \in Names \cup {NoName},
         NEW P \in SUBSET Ports, NEW T \in SUBSET Ports,
         Begin(p, cmd, label, v, n, P, T), CommandFits(label, cmd), label # "copy",
         v = NoSlot <=> label = "claim", cmd \in {"restore", "snapshot"} => n \in Names
  PROVE  ProcsShape'
<1>1. pc' = [pc EXCEPT ![p] = label]
      /\ job' = [job EXCEPT ![p] = [cmd |-> cmd, vm |-> v, name |-> n,
                                    ports |-> P, todo |-> T, copied |-> 0]]
  BY DEF Begin
<1>2. /\ pc'[p] = label /\ job'[p].cmd = cmd /\ job'[p].vm = v
      /\ job'[p].name = n /\ job'[p].copied = 0
  BY <1>1 DEF ProcsShape, ProcsOK
<1>3. JobOK(p)'
  BY <1>2 DEF JobOK, CopiedFits
<1>4. ProcsOK'
  BY <1>1 DEF ProcsShape, ProcsOK, Jobs
<1> QED
  BY <1>1, <1>3, <1>4, OthersKeep DEF ProcsShape, ProcsOK

-----------------------------------------------------------------------------
(* Type correctness *)

Step(p) == Start(p) \/ Work(p) \/ Detach(p) \/ Interrupt(p) \/ Fail(p) \/ Kill(p)

LEMMA StartKeepsProcs ==
  ASSUME TypeOK, ProcsShape, NEW p \in Procs, Start(p)
  PROVE  ProcsShape'
<1>1. ASSUME NEW n \in Names, DeleteSnapshot(p, n) PROVE ProcsShape'
  BY <1>1 DEF DeleteSnapshot, ProcsShape, ProcsOK, JobOK
<1>2. ASSUME StartRun(p) PROVE ProcsShape'
  <2>1. Begin(p, "run", "claim", NoSlot, NoName, {}, {})
    BY <1>2 DEF StartRun
  <2>2. NoSlot \in Slots \cup {NoSlot}
    OBVIOUS
  <2>3. {} \in SUBSET Ports /\ {} \in SUBSET Ports /\ NoName \in Names \cup {NoName}
    BY DEF TypeOK, LedgerOK
  <2>4. CommandFits("claim", "run")
    BY DEF CommandFits
  <2> QED
    BY <2>1, <2>2, <2>3, <2>4, BeginKeeps DEF AllCommands, Labels
<1>3. ASSUME NEW n \in Names, StartRestore(p, n) PROVE ProcsShape'
  <2>1. Begin(p, "restore", "claim", NoSlot, n, snapPorts[n], {})
    BY <1>3 DEF StartRestore
  <2>2. NoSlot \in Slots \cup {NoSlot}
    OBVIOUS
  <2>3. snapPorts[n] \in SUBSET Ports /\ {} \in SUBSET Ports /\ n \in Names \cup {NoName}
    BY DEF TypeOK, LedgerOK
  <2>4. CommandFits("claim", "restore")
    BY DEF CommandFits
  <2> QED
    BY <2>1, <2>2, <2>3, <2>4, BeginKeeps DEF AllCommands, Labels
<1>4. ASSUME NEW s \in Slots, StartDestroy(p, s) PROVE ProcsShape'
  <2>1. Begin(p, "destroy", "stop", s, NoName, rowPorts[s], {})
    BY <1>4 DEF StartDestroy
  <2>2. s \in Slots \cup {NoSlot} /\ s # NoSlot
    BY MaxSlotsAssumption DEF Slots, NoSlot
  <2>3. rowPorts[s] \in SUBSET Ports /\ {} \in SUBSET Ports /\ NoName \in Names \cup {NoName}
    BY DEF TypeOK, LedgerOK
  <2>4. CommandFits("stop", "destroy")
    BY DEF CommandFits
  <2> QED
    BY <2>1, <2>2, <2>3, <2>4, BeginKeeps DEF AllCommands, Labels
<1>5. ASSUME NEW s \in Slots, NEW n \in Names, StartSnapshot(p, s, n) PROVE ProcsShape'
  <2>1. Begin(p, "snapshot", "checkname", s, n, rowPorts[s], {})
    BY <1>5 DEF StartSnapshot
  <2>2. s \in Slots \cup {NoSlot} /\ s # NoSlot
    BY MaxSlotsAssumption DEF Slots, NoSlot
  <2>3. rowPorts[s] \in SUBSET Ports /\ {} \in SUBSET Ports /\ n \in Names \cup {NoName}
    BY DEF TypeOK, LedgerOK
  <2>4. CommandFits("checkname", "snapshot")
    BY DEF CommandFits
  <2> QED
    BY <2>1, <2>2, <2>3, <2>4, BeginKeeps DEF AllCommands, Labels
<1>6. ASSUME NEW s \in Slots, StartPortsReload(p, s) PROVE ProcsShape'
  <2>1. Begin(p, "ports reload", "restart", s, NoName, rowPorts[s], rowPorts[s])
    BY <1>6 DEF StartPortsReload
  <2>2. s \in Slots \cup {NoSlot} /\ s # NoSlot
    BY MaxSlotsAssumption DEF Slots, NoSlot
  <2>3. rowPorts[s] \in SUBSET Ports /\ rowPorts[s] \in SUBSET Ports
           /\ NoName \in Names \cup {NoName}
    BY DEF TypeOK, LedgerOK
  <2>4. CommandFits("restart", "ports reload")
    BY DEF CommandFits
  <2> QED
    BY <2>1, <2>2, <2>3, <2>4, BeginKeeps DEF AllCommands, Labels
<1>7. ASSUME NEW s \in Slots, NEW q \in Ports, StartPortsAdd(p, s, q) PROVE ProcsShape'
  <2>1. Begin(p, "ports add", "setports", s, NoName, rowPorts[s] \cup {q}, {q})
    BY <1>7 DEF StartPortsAdd
  <2>2. s \in Slots \cup {NoSlot} /\ s # NoSlot
    BY MaxSlotsAssumption DEF Slots, NoSlot
  <2>3. rowPorts[s] \cup {q} \in SUBSET Ports /\ {q} \in SUBSET Ports
           /\ NoName \in Names \cup {NoName}
    BY DEF TypeOK, LedgerOK
  <2>4. CommandFits("setports", "ports add")
    BY DEF CommandFits
  <2> QED
    BY <2>1, <2>2, <2>3, <2>4, BeginKeeps DEF AllCommands, Labels
<1>8. ASSUME NEW s \in Slots, NEW q \in Ports, StartPortsRm(p, s, q) PROVE ProcsShape'
  <2>1. Begin(p, "ports rm", "setports", s, NoName, rowPorts[s] \ {q}, {q})
    BY <1>8 DEF StartPortsRm
  <2>2. s \in Slots \cup {NoSlot} /\ s # NoSlot
    BY MaxSlotsAssumption DEF Slots, NoSlot
  <2>3. rowPorts[s] \ {q} \in SUBSET Ports /\ {q} \in SUBSET Ports
           /\ NoName \in Names \cup {NoName}
    BY DEF TypeOK, LedgerOK
  <2>4. CommandFits("setports", "ports rm")
    BY DEF CommandFits
  <2> QED
    BY <2>1, <2>2, <2>3, <2>4, BeginKeeps DEF AllCommands, Labels
<1> QED
  BY <1>1, <1>2, <1>3, <1>4, <1>5, <1>6, <1>7, <1>8 DEF Start

LEMMA ClaimKeepsProcs ==
  ASSUME ProcsShape, NEW p \in Procs, Claim(p)
  PROVE  ProcsShape'
<1>1. PICK s \in Slots : job' = [job EXCEPT ![p].vm = s] /\ pc' = [pc EXCEPT ![p] = "chroot"]
  BY DEF Claim
<1>2. /\ job'[p].vm = s /\ job'[p].cmd = job[p].cmd /\ job'[p].name = job[p].name
      /\ job'[p].copied = job[p].copied /\ pc'[p] = "chroot"
  BY <1>1 DEF ProcsShape, ProcsOK, Jobs
<1>3. s # NoSlot
  BY MaxSlotsAssumption DEF Slots, NoSlot
<1>4. JobOK(p)'
  BY <1>2, <1>3 DEF Claim, At, ProcsShape, JobOK, CommandFits, CopiedFits
<1>5. ProcsOK'
  BY <1>1 DEF ProcsShape, ProcsOK, Jobs, Labels
<1> QED
  BY <1>1, <1>4, <1>5, OthersKeep DEF ProcsShape, ProcsOK

LEMMA BootKeepsProcs ==
  ASSUME ProcsShape, NEW p \in Procs, Boot(p)
  PROVE  ProcsShape'
<1>1. /\ job'[p].vm = job[p].vm /\ job'[p].cmd = job[p].cmd
      /\ job'[p].name = job[p].name /\ job'[p].copied = job[p].copied
      /\ pc'[p] = IF job[p].cmd = "restore" THEN "notify" ELSE "forward"
  BY DEF Boot, ProcsShape, ProcsOK, Jobs
<1>2. JobOK(p)'
  <2>1. /\ job[p].cmd \in {"run", "restore"} /\ job[p].vm # NoSlot
        /\ job[p].cmd = "restore" => job[p].name \in Names
    BY DEF Boot, At, ProcsShape, JobOK, CommandFits
  <2>2. CommandFits(pc'[p], job[p].cmd) /\ CopiedFits(pc'[p], job[p].copied)
    BY <1>1, <2>1 DEF CommandFits, CopiedFits
  <2> QED
    BY <1>1, <2>1, <2>2 DEF JobOK
<1>3. ProcsOK'
  BY JobFields DEF Boot, ProcsShape, ProcsOK, Jobs, Labels
<1> QED
  BY <1>2, <1>3, OthersKeep DEF Boot, ProcsShape, ProcsOK

LEMMA CopyFileKeepsProcs ==
  ASSUME ProcsShape, NEW p \in Procs, CopyFile(p)
  PROVE  ProcsShape'
<1>1. job[p] \in Jobs /\ pc[p] = "copy" /\ job[p].copied \in 0 .. 2
  BY DEF CopyFile, At, ProcsShape, ProcsOK, JobOK, CopiedFits
<1>2. job'[p] = [job[p] EXCEPT !.copied = job[p].copied + 1]
  BY DEF CopyFile, ProcsShape, ProcsOK
<1>3. pc'[p] = IF job[p].copied = 2 THEN "stop" ELSE "copy"
  BY DEF CopyFile, ProcsShape, ProcsOK
<1>4. /\ job'[p] \in Jobs /\ job'[p].copied = job[p].copied + 1
      /\ job'[p].cmd = job[p].cmd /\ job'[p].vm = job[p].vm /\ job'[p].name = job[p].name
  BY <1>1, <1>2 DEF Jobs
<1>5. JobOK(p)'
  <2>1. CASE job[p].copied = 2
    BY <1>1, <1>3, <1>4, <2>1 DEF ProcsShape, JobOK, CommandFits, CopiedFits
  <2>2. CASE job[p].copied # 2
    <3>1. job'[p].copied \in 0 .. 2
      BY <1>1, <1>4, <2>2
    <3> QED
      BY <1>1, <1>3, <1>4, <2>2, <3>1 DEF ProcsShape, JobOK, CommandFits, CopiedFits
  <2> QED
    BY <2>1, <2>2
<1>6. ProcsOK'
  BY <1>1, <1>4 DEF CopyFile, ProcsShape, ProcsOK, Labels
<1> QED
  BY <1>5, <1>6, OthersKeep DEF CopyFile, ProcsShape, ProcsOK

LEMMA WorkKeepsProcs ==
  ASSUME ProcsShape, NEW p \in Procs,
         Work(p) \/ Detach(p) \/ Interrupt(p) \/ Fail(p) \/ Kill(p)
  PROVE  ProcsShape'
<1> USE DEF At, Labels
<1>0. CommandFits(pc[p], job[p].cmd) /\ CopiedFits(pc[p], job[p].copied)
  BY DEF ProcsShape, JobOK
<1> USE DEF CommandFits, CopiedFits
<1>1. CASE SetupChroot(p) \/ SetupRestoreChroot(p) \/ SetupTap(p) \/ Launch(p)
  BY <1>0, <1>1, GotoKeeps DEF SetupChroot, SetupRestoreChroot, SetupTap, Launch
<1>2. CASE Notify(p) \/ Ask(p)
  <2>1. CASE Notify(p)
    BY <1>0, <2>1, GotoKeeps DEF Notify
  <2>2. CASE Ask(p)
    BY <1>0, <2>2, GotoKeeps, ExitKeeps DEF Ask, AtAsk
  <2> QED
    BY <1>2, <2>1, <2>2
<1>3. CASE Wait(p) \/ Detach(p) \/ Interrupt(p) \/ Unclaim(p) \/ Remove(p) \/ Kill(p)
  <2>1. CASE Wait(p)
    BY <2>1, ErrorKeeps, ExitKeeps DEF Wait
  <2>2. CASE ~Wait(p)
    BY <1>3, <2>2, ExitKeeps DEF Detach, Interrupt, Unclaim, Remove, Kill
  <2> QED
    BY <2>1, <2>2
<1>4. CASE CheckName(p) \/ Pause(p) \/ CreateSnapshot(p)
  <2>1. CASE CreateSnapshot(p)
    <3>1. Goto(p, "copy") /\ pc[p] = "create" /\ 0 \in 0 .. 2
      BY <2>1 DEF CreateSnapshot
    <3> QED
      BY <1>0, <3>1, GotoKeeps
  <2>2. CASE CheckName(p) \/ Pause(p)
    BY <1>0, <2>2, GotoKeeps DEF CheckName, Pause
  <2> QED
    BY <1>4, <2>1, <2>2
<1>5. CASE Stop(p) \/ StopForwards(p) \/ TeardownTap(p)
  BY <1>0, <1>5, GotoKeeps DEF Stop, StopForwards, TeardownTap
<1>6. CASE RemoveDir(p) \/ Record(p) \/ SetPorts(p)
  BY <1>0, <1>6, GotoKeeps DEF RemoveDir, Record, SetPorts
<1>7. CASE CheckAlive(p)
  BY <1>0, <1>7, GotoKeeps, ExitKeeps DEF CheckAlive
<1>8. CASE Forward(p) \/ Restart(p)
  <2>1. PICK T \in SUBSET Ports : job' = [job EXCEPT ![p].todo = T] /\ pc' = pc
    <3>1. PICK q \in job[p].todo :
            job' = [job EXCEPT ![p].todo = job[p].todo \ {q}] /\ pc' = pc
      BY <1>8 DEF Forward, Restart
    <3>2. job[p].todo \ {q} \in SUBSET Ports
      BY JobFields DEF ProcsShape
    <3> QED
      BY <3>1, <3>2
  <2> QED
    BY <2>1, TodoKeeps
<1>9. CASE Rejected(p) \/ Fail(p)
  <2>1. pc[p] # "idle"
    BY <1>9 DEF Rejected, Fail, CannotDo
  <2> QED
    BY <1>9, <2>1, ErrorKeeps DEF Rejected, Fail
<1> QED
  BY <1>1, <1>2, <1>3, <1>4, <1>5, <1>6, <1>7, <1>8, <1>9,
     ClaimKeepsProcs, BootKeepsProcs, CopyFileKeepsProcs DEF Work

\* The steps that leave the ledger, the host or the files alone.
LEMMA LedgerKept ==
  ASSUME Shape, NEW p \in Procs, Step(p)
  PROVE  LedgerOK'
<1> USE DEF Shape, TypeOK, LedgerOK, ledger
<1>1. ASSUME NEW n \in Names, DeleteSnapshot(p, n) PROVE LedgerOK'
  BY <1>1 DEF DeleteSnapshot
<1>2. CASE Claim(p)
  <2>1. job[p].ports \in SUBSET Ports
    BY JobFields
  <2> QED
    BY <1>2, <2>1 DEF Claim
<1>3. CASE Unclaim(p) \/ Remove(p)
  BY <1>3 DEF Unclaim, Remove
<1>4. CASE Record(p)
  <2>1. job[p].ports \in SUBSET Ports /\ job[p].name \in Names
    BY <1>4, JobFields DEF Record, At, JobOK, CommandFits
  <2> QED
    BY <1>4, <2>1 DEF Record
<1>5. CASE SetPorts(p)
  <2>1. job[p].ports \in SUBSET Ports
    BY JobFields
  <2> QED
    BY <1>5, <2>1 DEF SetPorts
<1>6. CASE UNCHANGED ledger
  BY <1>6
<1> QED
  BY <1>1, <1>2, <1>3, <1>4, <1>5, <1>6
     DEF Step, Start, StartRun, StartRestore, StartDestroy, StartSnapshot, StartPortsAdd,
         StartPortsRm, StartPortsReload, Begin, Work, SetupChroot, SetupRestoreChroot,
              SetupTap, Launch, Boot,
         Forward, Notify, Ask, Wait, Detach, Interrupt, CheckName, Pause, CreateSnapshot, CopyFile,
         Stop, StopForwards, TeardownTap, RemoveDir, CheckAlive, Restart, Rejected, Fail, Kill

LEMMA HostKept ==
  ASSUME Shape, NEW p \in Procs, Step(p)
  PROVE  HostOK'
<1> USE DEF Shape, TypeOK, HostOK, host, dir
<1>1. CASE SetupChroot(p) \/ SetupRestoreChroot(p)
  <2>1. job[p].vm \in Slots
    BY <1>1, JobFields DEF SetupChroot, SetupRestoreChroot, At, JobOK
  <2>2. CASE job[p].cmd = "restore"
    <3>1. saved[job[p].name][2] \in Slots \cup {NoSlot}
      <4>1. job[p].name \in Names /\ 2 \in Files
        BY <2>2 DEF JobOK, Files
      <4>2. saved[job[p].name][2] \in Slots \cup {NoSlot, Lost} /\ saved[job[p].name][2] # Lost
        BY <4>1 DEF FilesOK
      <4> QED
        BY <4>2
    <3> QED
      BY <1>1, <2>1, <2>2, <3>1 DEF SetupChroot, SetupRestoreChroot, Fill
  <2>3. CASE job[p].cmd # "restore"
    BY <1>1, <2>1, <2>3 DEF SetupChroot, SetupRestoreChroot, Fill
  <2> QED
    BY <2>2, <2>3
<1>2. CASE SetupTap(p) \/ TeardownTap(p)
  BY <1>2 DEF SetupTap, TeardownTap
<1>3. CASE Launch(p) \/ Pause(p)
  BY <1>3 DEF Launch, Pause
<1>4. CASE Boot(p)
  <2>1. job[p].vm \in Slots
    BY <1>4, JobFields DEF Boot, At, JobOK
  <2> QED
    BY <1>4, <2>1 DEF Boot, Resume
<1>5. CASE Forward(p)
  <2>1. PICK q \in Ports : /\ fwd' = [fwd EXCEPT ![job[p].vm] = fwd[job[p].vm] \cup {q}]
                           /\ UNCHANGED <<dir, tap, unit, guest>>
    BY <1>5, JobFields DEF Forward
  <2> QED
    BY <2>1
<1>6. CASE Detach(p) \/ Interrupt(p) \/ Stop(p)
  BY <1>6 DEF Detach, Interrupt, Stop, UnitGone
<1>7. CASE StopForwards(p)
  BY <1>7 DEF StopForwards
<1>8. CASE RemoveDir(p)
  BY <1>8 DEF RemoveDir
<1>9. CASE Fail(p)
  <2>1. At(p, "chroot") => job[p].vm \in Slots
    BY JobFields DEF At, JobOK
  <2>2. UNCHANGED <<unit, guest, fwd>> /\ tap' \in [Slots -> BOOLEAN]
    BY <1>9 DEF Fail
  <2>3. chroot' \in [Slots -> Slots \cup {NoSlot}]
    BY <1>9, <2>1 DEF Fail, Fill
  <2>4. dump' \in [Slots -> Slots \cup {NoSlot}] /\ lost' \in SUBSET Slots
    BY <1>9, <2>1 DEF Fail, Fill
  <2> QED
    BY <2>2, <2>3, <2>4
<1>10. CASE UNCHANGED host
  BY <1>10
<1> QED
  BY <1>1, <1>2, <1>3, <1>4, <1>5, <1>6, <1>7, <1>8, <1>9, <1>10
     DEF Step, Start, StartRun, StartRestore, StartDestroy, StartSnapshot, StartPortsAdd,
         StartPortsRm, StartPortsReload, DeleteSnapshot, Begin, Work, Claim, Notify, Ask,
         Wait, Unclaim, CheckName, CreateSnapshot, CopyFile, Record, Remove, SetPorts,
         CheckAlive, Restart, Rejected, Kill

LEMMA LostIsNone == Lost \notin Slots \cup {NoSlot}
  BY MaxSlotsAssumption DEF Lost, Slots, NoSlot

LEMMA FilesKept ==
  ASSUME Shape, NEW p \in Procs, Step(p)
  PROVE  FilesOK'
<1> USE DEF Shape, TypeOK, FilesOK
<1>1. CASE CopyFile(p)
  <2>1. job[p].vm \in Slots /\ job[p].name \in Names
    BY <1>1, JobFields DEF CopyFile, At, JobOK, CommandFits
  <2>2. \A f \in Files : /\ InChroot(job[p].vm, f) \in Slots \cup {NoSlot, Lost}
                         /\ f # 3 => InChroot(job[p].vm, f) # Lost
    BY <2>1, LostIsNone DEF HostOK, InChroot
  <2>3. saved' = [saved EXCEPT ![job[p].name] = [saved[job[p].name] EXCEPT
                    ![job[p].copied + 1] = InChroot(job[p].vm, job[p].copied + 1)]]
    BY <1>1 DEF CopyFile
  <2>4. job[p].copied + 1 \in Files
    BY <1>1 DEF CopyFile, At, JobOK, CopiedFits, Files
  <2>5. /\ InChroot(job[p].vm, job[p].copied + 1) \in Slots \cup {NoSlot, Lost}
        /\ job[p].copied + 1 # 3 => InChroot(job[p].vm, job[p].copied + 1) # Lost
    BY <2>2, <2>4
  <2>6. orphans' = orphans
    BY <1>1 DEF CopyFile
  <2> QED
    BY <2>1, <2>3, <2>4, <2>5, <2>6 DEF Files
<1>2. CASE Fail(p)
  <2>1. CASE At(p, "copy") /\ saved' # saved
    <3>1. saved' = [saved EXCEPT ![job[p].name] = [saved[job[p].name] EXCEPT
                      ![job[p].copied + 1] = NoSlot]]
      BY <1>2, <2>1 DEF Fail, At
    <3>2. orphans' = orphans /\ NoSlot # Lost
      BY <1>2 DEF Fail, NoSlot, Lost
    <3>3. job[p].copied + 1 \in Files /\ job[p].name \in Names
      <4>1. JobOK(p) /\ pc[p] = "copy" /\ job[p] \in Jobs
        BY <2>1, JobFields DEF At, ProcsOK
      <4>2. job[p].cmd = "snapshot" /\ job[p].name \in Names
        BY <4>1 DEF JobOK, CommandFits
      <4>3. job[p].copied \in 0 .. 2
        BY <4>1 DEF JobOK, CopiedFits
      <4> QED
        BY <4>2, <4>3 DEF Files
    <3>4. \A n \in Names, f \in Files : saved'[n][f] \in {saved[n][f], NoSlot}
      BY <3>1, <3>3
    <3>5. saved' \in [Names -> [Files -> Slots \cup {NoSlot, Lost}]]
      BY <3>1, <3>3
    <3> QED
      BY <3>2, <3>4, <3>5 DEF Files
  <2>2. CASE saved' = saved
    BY <1>2, <2>2 DEF Fail
  <2> QED
    BY <1>2, <2>1, <2>2 DEF Fail
<1>3. CASE Unclaim(p) \/ RemoveDir(p)
  BY <1>3 DEF Unclaim, RemoveDir
<1>4. CASE UNCHANGED <<saved, orphans>>
  BY <1>4
<1> QED
  BY <1>1, <1>2, <1>3, <1>4
     DEF Step, Start, StartRun, StartRestore, StartDestroy, StartSnapshot, StartPortsAdd,
         StartPortsRm, StartPortsReload, DeleteSnapshot, Begin, Work, Claim, SetupChroot,
              SetupRestoreChroot,
         SetupTap, Launch, Boot, Forward, Notify, Ask, Wait, Detach, Interrupt, CheckName, Pause,
         CreateSnapshot, Stop, StopForwards, TeardownTap, Record, Remove, SetPorts,
         CheckAlive, Restart, Rejected, Kill

LEMMA ShapeHolds == Spec => []Shape
<1>1. Init => Shape
  <2>1. Init => TypeOK
    BY DEF Init, TypeOK, LedgerOK, HostOK, FilesOK, ProcsOK, Labels, Jobs, NoJob, NoSlot, Files,
           Lost
  <2>2. ASSUME Init, NEW p \in Procs PROVE JobOK(p)
    <3>1. pc[p] = "idle" /\ job[p].cmd = "none" /\ job[p].vm = NoSlot
      BY <2>2 DEF Init, NoJob
    <3> QED
      BY <3>1 DEF JobOK, CommandFits, CopiedFits
  <2> QED
    BY <2>1, <2>2 DEF Shape
<1>2. Shape /\ [Next]_vars => Shape'
  <2> SUFFICES ASSUME Shape, [Next]_vars PROVE Shape'
    OBVIOUS
  <2>1. ProcsShape
    BY DEF Shape, TypeOK, ProcsShape
  <2>2. ASSUME NEW p \in Procs, Step(p)
        PROVE  Shape'
    <3>1. ProcsShape'
      BY <2>1, <2>2, StartKeepsProcs, WorkKeepsProcs DEF Shape, Step
    <3> QED
      BY <2>2, <3>1, LedgerKept, HostKept, FilesKept DEF Shape, TypeOK, ProcsShape
  <2>3. ASSUME NEW s \in Slots, VMExits(s) PROVE Shape'
    BY <2>3 DEF VMExits, UnitGone, Shape, TypeOK, LedgerOK, HostOK, FilesOK, ProcsOK, ledger,
                dir, JobOK
  <2>4. CASE Reboot
    <3>1. LedgerOK' /\ HostOK' /\ FilesOK'
      BY <2>4 DEF Reboot, Shape, TypeOK, LedgerOK, HostOK, FilesOK, ledger, dir
    <3>2. ProcsOK'
      BY <2>4 DEF Reboot, ProcsOK, Labels, Jobs, NoJob
    <3>3. ASSUME NEW p \in Procs PROVE JobOK(p)'
      <4>1. pc'[p] = "idle" /\ job'[p].cmd = "none" /\ job'[p].vm = NoSlot
        BY <2>4 DEF Reboot, NoJob
      <4> QED
        BY <4>1 DEF JobOK, CommandFits, CopiedFits
    <3> QED
      BY <3>1, <3>2, <3>3 DEF Shape, TypeOK
  <2>5. CASE UNCHANGED vars
    BY <2>5 DEF vars, ledger, host, dir, Shape, TypeOK, LedgerOK, HostOK, FilesOK, ProcsOK, JobOK
  <2> QED
    BY <2>2, <2>3, <2>4, <2>5 DEF Next, Step
<1> QED
  BY <1>1, <1>2, PTL DEF Spec

\* Every variable keeps its type, whatever fails, dies or reboots.
THEOREM TypeCorrect == Spec => []TypeOK
  BY ShapeHolds, PTL DEF Shape

-----------------------------------------------------------------------------
(* What a step of one process leaves alone *)


SameHost(s) ==
  /\ chroot'[s] = chroot[s] /\ tap'[s] = tap[s] /\ unit'[s] = unit[s]
  /\ guest'[s] = guest[s] /\ fwd'[s] = fwd[s]
  /\ dump'[s] = dump[s] /\ (s \in lost' <=> s \in lost)

\* A process works on the slot it holds and on no other.
LEMMA HostFootprint ==
  ASSUME Shape, NEW p \in Procs, Step(p), NEW s \in Slots, s # job[p].vm
  PROVE  SameHost(s)
<1> USE DEF Shape, TypeOK, HostOK, SameHost, host, dir
<1>1. CASE SetupChroot(p) \/ SetupRestoreChroot(p) \/ SetupTap(p) \/ Launch(p) \/ Boot(p)
  BY <1>1 DEF SetupChroot, SetupRestoreChroot, Fill, SetupTap, Launch, Boot, Resume
<1>2. CASE Pause(p) \/ StopForwards(p) \/ TeardownTap(p) \/ RemoveDir(p)
  BY <1>2 DEF Pause, StopForwards, TeardownTap, RemoveDir
<1>3. CASE Detach(p) \/ Interrupt(p) \/ Stop(p)
  BY <1>3 DEF Detach, Interrupt, Stop, UnitGone
<1>4. CASE Forward(p)
  <2>1. PICK q \in job[p].todo : fwd' = [fwd EXCEPT ![job[p].vm] = fwd[job[p].vm] \cup {q}]
    BY <1>4 DEF Forward
  <2> QED
    BY <1>4, <2>1 DEF Forward
<1>7. CASE CreateSnapshot(p)
  BY <1>7 DEF CreateSnapshot
<1>5. CASE Fail(p)
  BY <1>5 DEF Fail, Fill
<1>6. CASE UNCHANGED host
  BY <1>6
<1> QED
  BY <1>1, <1>2, <1>3, <1>4, <1>5, <1>6, <1>7
     DEF Step, Start, StartRun, StartRestore, StartDestroy, StartSnapshot, StartPortsAdd,
         StartPortsRm, StartPortsReload, DeleteSnapshot, Begin, Work, Claim, Notify, Ask,
         Wait, Unclaim, CheckName, CreateSnapshot, CopyFile, Record, Remove, SetPorts,
         CheckAlive, Restart, Rejected, Kill

LEMMA LedgerFootprint ==
  ASSUME Shape, NEW p \in Procs, Step(p), NEW s \in Slots, s # job[p].vm
  PROVE  (s \in rows => s \in rows') /\ (s \in orphans' <=> s \in orphans)
<1> USE DEF ledger
<1>1. CASE Claim(p) \/ Unclaim(p) \/ Remove(p) \/ RemoveDir(p)
  BY <1>1 DEF Claim, Unclaim, Remove, RemoveDir
<1>2. CASE UNCHANGED <<rows, orphans>>
  BY <1>2
<1> QED
  BY <1>1, <1>2
     DEF Step, Start, StartRun, StartRestore, StartDestroy, StartSnapshot, StartPortsAdd,
         StartPortsRm, StartPortsReload, DeleteSnapshot, Begin, Work, SetupChroot,
              SetupRestoreChroot, SetupTap,
         Launch, Boot, Forward, Notify, Ask, Wait, Detach, Interrupt, CheckName, Pause,
         CreateSnapshot, CopyFile, Stop, StopForwards, TeardownTap, Record, SetPorts,
         CheckAlive, Restart, Rejected, Fail, Kill

\* A step changes the ports of its own VM's row, and of one that is new.
LEMMA PortsFootprint ==
  ASSUME Shape, NEW p \in Procs, Step(p), NEW s \in rows, s # job[p].vm
  PROVE  rowPorts'[s] = rowPorts[s]
<1> USE DEF Shape, TypeOK, LedgerOK, ledger
<1>1. CASE Claim(p)
  BY <1>1 DEF Claim, IsLowestFree
<1>2. CASE Unclaim(p) \/ Remove(p) \/ SetPorts(p)
  BY <1>2 DEF Unclaim, Remove, SetPorts
<1>3. CASE UNCHANGED rowPorts
  BY <1>3
<1> QED
  BY <1>1, <1>2, <1>3
     DEF Step, Start, StartRun, StartRestore, StartDestroy, StartSnapshot, StartPortsAdd,
         StartPortsRm, StartPortsReload, DeleteSnapshot, Begin, Work, SetupChroot,
         SetupRestoreChroot, SetupTap, Launch, Boot, Forward, Notify, Ask, Wait, Detach,
         Interrupt,
         CheckName, Pause, CreateSnapshot, CopyFile, Stop, StopForwards, TeardownTap,
         RemoveDir, Record, CheckAlive, Restart, Rejected, Fail, Kill

LEMMA ProcsFootprint ==
  ASSUME Shape, NEW p \in Procs, Step(p), NEW q \in Procs \ {p}
  PROVE  pc'[q] = pc[q] /\ job'[q] = job[q]
<1> USE DEF Shape, TypeOK, ProcsOK, Goto, Exit, Error
<1>1. CASE Start(p)
  BY <1>1 DEF Start, StartRun, StartRestore, StartDestroy, StartSnapshot, StartPortsAdd,
     StartPortsRm, StartPortsReload, DeleteSnapshot, Begin
<1>2. CASE Claim(p) \/ Boot(p) \/ Forward(p) \/ Restart(p) \/ CopyFile(p)
  BY <1>2 DEF Claim, Boot, Forward, Restart, CopyFile
<1>3. CASE SetupChroot(p) \/ SetupRestoreChroot(p) \/ SetupTap(p) \/ Launch(p)
         \/ Notify(p) \/ Ask(p) \/ Wait(p) \/ Unclaim(p)
  BY <1>3 DEF SetupChroot, SetupRestoreChroot, SetupTap, Launch, Notify, Ask, Wait, Unclaim
<1>4. CASE CheckName(p) \/ Pause(p) \/ CreateSnapshot(p) \/ Stop(p) \/ StopForwards(p)
  BY <1>4 DEF CheckName, Pause, CreateSnapshot, Stop, StopForwards
<1>5. CASE TeardownTap(p) \/ RemoveDir(p) \/ Record(p) \/ Remove(p) \/ SetPorts(p)
  BY <1>5 DEF TeardownTap, RemoveDir, Record, Remove, SetPorts
<1>6. CASE CheckAlive(p) \/ Rejected(p) \/ Detach(p) \/ Interrupt(p) \/ Fail(p) \/ Kill(p)
  BY <1>6 DEF CheckAlive, Rejected, Detach, Interrupt, Fail, Kill
<1> QED
  BY <1>1, <1>2, <1>3, <1>4, <1>5, <1>6 DEF Step, Work

-----------------------------------------------------------------------------
(* The inductive invariant *)

\* No two commands work on one VM.
Alone ==
  \A p \in Procs, q \in Procs : p # q /\ job[p].vm = job[q].vm => job[p].vm = NoSlot

\* What the host's resources owe each other, and the ledger.
SlotOK(s) ==
  /\ fwd[s] # {} => Alive(s)
  /\ Alive(s) => chroot[s] # NoSlot
  /\ unit[s] \in {"running", "paused"} => tap[s] /\ chroot[s] # NoSlot /\ guest[s] # NoSlot
  /\ guest[s] # NoSlot => unit[s] \in {"running", "paused"}
  /\ guest[s] # NoSlot /\ s \notin lost => chroot[s] = guest[s]
  /\ Occupied(s) => s \in rows \cup orphans

\* destroy and snapshot after Stop.
TearingDown(p) ==
  \/ pc[p] \in {"untap", "rmdir", "record", "remove"}
  \/ pc[p] = "unforward" /\ job[p].cmd # "ports rm"

\* How far a command has come with its slot: it has a row all along; teardown
\* has stopped the VM, then freed the tap, then the files.
StageOK(p) ==
  /\ job[p].vm # NoSlot => job[p].vm \in rows
  /\ TearingDown(p) => ~Alive(job[p].vm)
  /\ pc[p] \in {"rmdir", "record", "remove"} => ~tap[job[p].vm]
  /\ pc[p] \in {"record", "remove"} => chroot[job[p].vm] = NoSlot
  /\ pc[p] = "chroot" /\ job[p].vm \notin orphans => ~Occupied(job[p].vm)

IInv ==
  /\ Shape
  /\ Alone
  /\ \A s \in Slots : SlotOK(s)
  /\ \A p \in Procs : StageOK(p)

LEMMA NoSlotIsNone == NoSlot \notin Slots
  BY MaxSlotsAssumption DEF Slots, NoSlot

\* The other slots and the other processes stay as they must be.
LEMMA OtherSlotsOK ==
  ASSUME IInv, NEW p \in Procs, Step(p), NEW s \in Slots, s # job[p].vm
  PROVE  SlotOK(s)'
<1>1. SameHost(s)
  BY HostFootprint DEF IInv
<1>2. (s \in rows => s \in rows') /\ (s \in orphans' <=> s \in orphans)
  BY LedgerFootprint DEF IInv
<1>3. SlotOK(s)
  BY DEF IInv
<1> QED
  BY <1>1, <1>2, <1>3 DEF SameHost, SlotOK, Occupied, Alive

LEMMA OtherStagesOK ==
  ASSUME IInv, NEW p \in Procs, Step(p), NEW q \in Procs \ {p}
  PROVE  StageOK(q)'
<1>1. pc'[q] = pc[q] /\ job'[q] = job[q]
  BY ProcsFootprint DEF IInv
<1>2. CASE job[q].vm = NoSlot
  <2>1. pc[q] \in {"idle", "claim"}
    BY <1>2 DEF IInv, Shape, JobOK
  <2> QED
    BY <1>1, <1>2, <2>1 DEF StageOK, TearingDown
<1>3. CASE job[q].vm # NoSlot
  <2>1. job[q].vm \in Slots /\ job[q].vm # job[p].vm
    BY <1>3, JobFields DEF IInv, Shape, TypeOK, Alone
  <2>2. SameHost(job[q].vm)
    BY <2>1, HostFootprint DEF IInv
  <2>3. /\ job[q].vm \in rows => job[q].vm \in rows'
        /\ job[q].vm \in orphans' <=> job[q].vm \in orphans
    BY <2>1, LedgerFootprint DEF IInv
  <2>4. StageOK(q)
    BY DEF IInv
  <2> QED
    BY <1>1, <2>2, <2>3, <2>4 DEF SameHost, StageOK, TearingDown, Occupied, Alive
<1> QED
  BY <1>2, <1>3

\* A command takes a slot that no other command is working on.
LEMMA SlotIsTaken ==
  ASSUME IInv, OneOperator = TRUE, NEW p \in Procs, Step(p)
  PROVE  \/ job'[p].vm \in {job[p].vm, NoSlot}
         \/ \A q \in Procs : job[q].vm # job'[p].vm
<1> USE DEF IInv, Shape, TypeOK, ProcsOK, Goto, Exit, Error, NoJob
<1>1. CASE Start(p)
  <2>1. ASSUME NEW cmd, NEW label, NEW v, NEW n, NEW P, NEW T, Begin(p, cmd, label, v, n, P, T)
        PROVE  job'[p].vm = v
    BY <2>1 DEF Begin
  <2>2. CASE StartRun(p) \/ \E n \in Names : StartRestore(p, n)
    BY <2>1, <2>2 DEF StartRun, StartRestore
  <2>3. CASE \E n \in Names : DeleteSnapshot(p, n)
    BY <2>3 DEF DeleteSnapshot
  <2>4. CASE \E s \in Slots : StartDestroy(p, s) \/ StartPortsReload(p, s)
    BY <2>1, <2>4 DEF StartDestroy, StartPortsReload, VMFree
  <2>5. CASE \E s \in Slots, n \in Names : StartSnapshot(p, s, n)
    BY <2>1, <2>5 DEF StartSnapshot, VMFree
  <2>6. CASE \E s \in Slots, q \in Ports : StartPortsAdd(p, s, q) \/ StartPortsRm(p, s, q)
    BY <2>1, <2>6 DEF StartPortsAdd, StartPortsRm, VMFree
  <2> QED
    BY <1>1, <2>2, <2>3, <2>4, <2>5, <2>6 DEF Start
<1>2. CASE Claim(p)
  <2>1. PICK s \in Slots : s \notin rows /\ job' = [job EXCEPT ![p].vm = s]
    BY <1>2 DEF Claim, IsLowestFree
  <2>2. job'[p].vm = s
    BY <2>1 DEF Jobs
  <2>3. \A q \in Procs : job[q].vm # NoSlot => job[q].vm \in rows
    BY DEF StageOK
  <2> QED
    BY <2>1, <2>2, <2>3, NoSlotIsNone
<1>3. CASE Boot(p) \/ Forward(p) \/ Restart(p) \/ CopyFile(p)
  <2>1. job'[p].vm = job[p].vm
    BY <1>3 DEF Boot, Forward, Restart, CopyFile, Jobs
  <2> QED
    BY <2>1
<1>4. CASE SetupChroot(p) \/ SetupRestoreChroot(p) \/ SetupTap(p) \/ Launch(p)
         \/ Notify(p) \/ Ask(p) \/ Wait(p) \/ Unclaim(p)
  BY <1>4 DEF SetupChroot, SetupRestoreChroot, SetupTap, Launch, Notify, Ask, Wait, Unclaim
<1>5. CASE CheckName(p) \/ Pause(p) \/ CreateSnapshot(p) \/ Stop(p) \/ StopForwards(p)
  BY <1>5 DEF CheckName, Pause, CreateSnapshot, Stop, StopForwards
<1>6. CASE TeardownTap(p) \/ RemoveDir(p) \/ Record(p) \/ SetPorts(p)
  BY <1>6 DEF TeardownTap, RemoveDir, Record, SetPorts
<1>7. CASE CheckAlive(p) \/ Rejected(p) \/ Detach(p) \/ Interrupt(p) \/ Fail(p) \/ Kill(p)
        \/ Remove(p)
  BY <1>7 DEF CheckAlive, Rejected, Detach, Interrupt, Fail, Kill, Remove
<1> QED
  BY <1>1, <1>2, <1>3, <1>4, <1>5, <1>6, <1>7 DEF Step, Work

LEMMA StaysAlone ==
  ASSUME IInv, OneOperator = TRUE, NEW p \in Procs, Step(p)
  PROVE  Alone'
<1> SUFFICES ASSUME NEW q \in Procs \ {p}, job'[p].vm = job'[q].vm
             PROVE  job'[p].vm = NoSlot
  <2>1. \A q \in Procs, r \in Procs : q # p /\ r # p => job'[q] = job[q] /\ job'[r] = job[r]
    BY ProcsFootprint DEF IInv
  <2> QED
    BY <2>1 DEF IInv, Alone
<1>1. job'[q].vm = job[q].vm
  BY ProcsFootprint DEF IInv
<1> QED
  BY <1>1, SlotIsTaken DEF IInv, Alone

\* The slot a command works on: what it brings up is recorded, what it drops
\* from the ledger it has torn down or given up.
LEMMA OwnSlotOK ==
  ASSUME IInv, NEW p \in Procs, Step(p), NEW s \in Slots, s = job[p].vm
  PROVE  SlotOK(s)'
<1>0. /\ SlotOK(s) /\ StageOK(p) /\ s \in Slots /\ s # NoSlot /\ s \in rows
      /\ pc[p] \notin {"idle", "claim"}
  BY NoSlotIsNone DEF IInv, Shape, JobOK, StageOK
<1>h. HostOK
  BY DEF IInv, Shape, TypeOK
<1> USE DEF HostOK, SlotOK, Occupied, Alive, At, dir
<1>1. CASE SetupChroot(p) \/ SetupRestoreChroot(p)
  <2>1. chroot'[s] # NoSlot
    <3>1. 2 \in Files
      BY DEF Files
    <3>2. job[p].cmd = "restore" => saved[job[p].name][2] # NoSlot
      BY <1>1, <3>1 DEF SetupChroot, SetupRestoreChroot
    <3>3. \/ chroot' = [chroot EXCEPT ![s] = s]
          \/ job[p].cmd = "restore" /\ chroot' = [chroot EXCEPT ![s] = saved[job[p].name][2]]
      BY <1>1 DEF SetupChroot, SetupRestoreChroot, Fill
    <3> QED
      BY <1>0, <1>h, <3>2, <3>3
  <2>2. guest[s] # NoSlot => s \in lost'
    BY <1>1 DEF SetupChroot, SetupRestoreChroot, Fill
  <2> QED
    BY <1>0, <1>1, <2>1, <2>2 DEF SetupChroot, SetupRestoreChroot, ledger
<1>2. CASE SetupTap(p) \/ Launch(p) \/ Boot(p) \/ Pause(p) \/ CreateSnapshot(p)
  <2>1. CASE SetupTap(p) \/ Launch(p)
    BY <1>0, <1>h, <2>1 DEF SetupTap, Launch, ledger
  <2>2. CASE Boot(p)
    BY <1>0, <1>h, <2>2 DEF Boot, Resume, ledger
  <2>3. CASE Pause(p) \/ CreateSnapshot(p)
    BY <1>0, <1>h, <2>3 DEF Pause, CreateSnapshot, ledger
  <2> QED
    BY <1>2, <2>1, <2>2, <2>3
<1>3. CASE Forward(p)
  <2>1. Alive(s) /\ UNCHANGED <<rows, orphans, dir, tap, unit, guest>>
    BY <1>3 DEF Forward, ledger
  <2> QED
    BY <1>0, <2>1
<1>4. CASE Interrupt(p) \/ Stop(p)
  BY <1>0, <1>h, <1>4 DEF Interrupt, Stop, UnitGone, ledger
<1>5. CASE StopForwards(p)
  <2>1. PICK gone : fwd' = [fwd EXCEPT ![s] = fwd[s] \ gone]
    BY <1>5 DEF StopForwards
  <2>2. fwd'[s] # {} => fwd[s] # {}
    BY <1>0, <1>h, <2>1
  <2>3. UNCHANGED <<rows, orphans, dir, tap, unit, guest>>
    BY <1>5 DEF StopForwards, ledger
  <2> QED
    BY <1>0, <2>2, <2>3
<1>6. CASE TeardownTap(p)
  BY <1>0, <1>h, <1>6 DEF TeardownTap, ledger
<1>7. CASE RemoveDir(p)
  <2>1. ~Alive(s)
    BY <1>0, <1>7 DEF RemoveDir, StageOK, TearingDown
  <2> QED
    BY <1>0, <1>h, <1>7, <2>1 DEF RemoveDir, ledger
<1>8. CASE Unclaim(p)
  BY <1>0, <1>8 DEF Unclaim, host, dir
<1>9. CASE Remove(p)
  <2>1. ~Occupied(s)
    BY <1>0, <1>9 DEF Remove, StageOK, TearingDown
  <2> QED
    BY <1>0, <1>9, <2>1 DEF Remove, host, dir
<1>10. CASE Fail(p)
  <2>1. UNCHANGED <<rows, orphans, unit, guest, fwd>>
    BY <1>10 DEF Fail, ledger
  <2>2. \/ chroot'[s] = chroot[s] /\ lost' = lost
        \/ chroot'[s] = s /\ (guest[s] # NoSlot => s \in lost')
    BY <1>0, <1>h, <1>10 DEF Fail, Fill
  <2>3. tap'[s] = tap[s] \/ tap'[s]
    BY <1>0, <1>h, <1>10 DEF Fail
  <2> QED
    BY <1>0, <2>1, <2>2, <2>3
<1>11. CASE UNCHANGED <<host, rows, orphans>>
  BY <1>0, <1>11 DEF host, dir
<1> QED
  BY <1>0, <1>1, <1>2, <1>3, <1>4, <1>5, <1>6, <1>7, <1>8, <1>9, <1>10, <1>11
     DEF Step, Start, StartRun, StartRestore, StartDestroy, StartSnapshot, StartPortsAdd,
         StartPortsRm, StartPortsReload, DeleteSnapshot, Begin, Work, Claim, Notify, Ask,
         Wait, Detach, CheckName, CopyFile, Record, SetPorts, CheckAlive, Restart,
         Rejected, Kill, ledger

\* The stage a command reaches by its own step.
LEMMA OwnStageOK ==
  ASSUME IInv, NEW p \in Procs, Step(p)
  PROVE  StageOK(p)'
<1>0. StageOK(p) /\ ProcsOK /\ HostOK /\ JobOK(p)
  BY DEF IInv, Shape, TypeOK
<1>e. ASSUME Exit(p) PROVE StageOK(p)'
  BY <1>0, <1>e DEF Exit, ProcsOK, NoJob, StageOK, TearingDown
<1>g. ASSUME NEW label, Goto(p, label), UNCHANGED rows,
             label \notin {"unforward", "untap", "rmdir", "record", "remove", "chroot"}
      PROVE  StageOK(p)'
  BY <1>0, <1>g DEF Goto, ProcsOK, StageOK, TearingDown
<1>1. CASE Start(p)
  <2>1. ASSUME NEW cmd, NEW label, NEW v, NEW n, NEW P, NEW T, Begin(p, cmd, label, v, n,
       P, T),
               v = NoSlot \/ v \in rows,
               label \notin {"unforward", "untap", "rmdir", "record", "remove", "chroot"}
        PROVE  StageOK(p)'
    <3>1. job'[p].vm = v /\ pc'[p] = label /\ rows' = rows
      BY <1>0, <2>1 DEF Begin, ProcsOK, ledger
    <3> QED
      BY <2>1, <3>1 DEF StageOK, TearingDown
  <2>2. CASE StartRun(p) \/ \E n \in Names : StartRestore(p, n)
    BY <2>1, <2>2 DEF StartRun, StartRestore
  <2>3. CASE \E n \in Names : DeleteSnapshot(p, n)
    BY <1>0, <2>3 DEF DeleteSnapshot, StageOK, TearingDown
  <2>4. CASE \E s \in Slots : StartDestroy(p, s) \/ StartPortsReload(p, s)
    BY <2>1, <2>4 DEF StartDestroy, StartPortsReload
  <2>5. CASE \E s \in Slots, n \in Names : StartSnapshot(p, s, n)
    BY <2>1, <2>5 DEF StartSnapshot
  <2>6. CASE \E s \in Slots, q \in Ports : StartPortsAdd(p, s, q) \/ StartPortsRm(p, s, q)
    BY <2>1, <2>6 DEF StartPortsAdd, StartPortsRm
  <2> QED
    BY <1>1, <2>2, <2>3, <2>4, <2>5, <2>6 DEF Start
<1>2. CASE Claim(p)
  <2>1. PICK s \in Slots : /\ s \notin rows /\ rows' = rows \cup {s}
                           /\ job' = [job EXCEPT ![p].vm = s]
    BY <1>2 DEF Claim, IsLowestFree
  <2>2. job'[p].vm = s /\ pc'[p] = "chroot"
    BY <1>0, <1>2, <2>1 DEF Claim, ProcsOK, Jobs
  <2>3. Occupied(s) => s \in orphans
    BY <2>1 DEF IInv, SlotOK
  <2>4. Occupied(s)' => s \in orphans'
    BY <1>2, <2>3 DEF Claim, host, dir, Occupied, Alive
  <2> QED
    BY <2>1, <2>2, <2>4 DEF StageOK, TearingDown
<1>3. CASE SetupChroot(p) \/ SetupRestoreChroot(p) \/ SetupTap(p) \/ Launch(p)
         \/ Notify(p) \/ Ask(p)
  BY <1>e, <1>g, <1>3 DEF SetupChroot, SetupRestoreChroot, SetupTap, Launch, Notify, Ask,
       ledger
<1>4. CASE CheckName(p) \/ Pause(p) \/ CreateSnapshot(p)
  BY <1>g, <1>4 DEF CheckName, Pause, CreateSnapshot, ledger
<1>5. CASE Boot(p) \/ Forward(p) \/ Restart(p) \/ CopyFile(p)
  <2>1. job'[p].vm = job[p].vm /\ UNCHANGED rows
    BY <1>0, <1>5 DEF Boot, Forward, Restart, CopyFile, ProcsOK, Jobs, ledger
  <2>2. pc'[p] \in {"notify", "forward", "restart", "copy", "stop"}
    BY <1>0, <1>5 DEF Boot, Forward, Restart, CopyFile, At, ProcsOK
  <2> QED
    BY <1>0, <2>1, <2>2 DEF StageOK, TearingDown
<1>6. CASE (Wait(p) /\ Exit(p)) \/ Detach(p) \/ Interrupt(p) \/ Unclaim(p) \/ Remove(p)
         \/ Kill(p)
  BY <1>e, <1>6 DEF Detach, Interrupt, Unclaim, Remove, Kill
<1>7. CASE Stop(p)
  <2>1. job[p].vm \in Slots
    BY <1>0, <1>7, JobFields DEF Stop, At, JobOK
  <2> QED
    BY <1>0, <1>7, <2>1 DEF Stop, UnitGone, Goto, ProcsOK, HostOK, StageOK, TearingDown,
         Alive, ledger
<1>8. CASE StopForwards(p)
  <2>1. /\ pc'[p] = IF job[p].cmd = "ports rm" THEN "ask" ELSE "untap"
        /\ job' = job /\ UNCHANGED <<rows, unit>> /\ pc[p] = "unforward"
    BY <1>0, <1>8 DEF StopForwards, Goto, At, ProcsOK, ledger
  <2> QED
    BY <1>0, <2>1 DEF StageOK, TearingDown, Alive
<1>9. CASE TeardownTap(p)
  <2>1. job[p].vm \in Slots
    BY <1>0, <1>9, JobFields DEF TeardownTap, At, JobOK
  <2> QED
    BY <1>0, <1>9, <2>1 DEF TeardownTap, Goto, ProcsOK, HostOK, StageOK, TearingDown,
         Alive, ledger
<1>10. CASE RemoveDir(p)
  <2>1. job[p].vm \in Slots
    BY <1>0, <1>10, JobFields DEF RemoveDir, At, JobOK
  <2>2. pc'[p] \in {"record", "remove"} /\ job' = job /\ pc[p] = "rmdir"
    BY <1>0, <1>10 DEF RemoveDir, Goto, At, ProcsOK
  <2> QED
    BY <1>0, <1>10, <2>1, <2>2 DEF RemoveDir, HostOK, StageOK, TearingDown, Alive, ledger
<1>11. CASE Record(p)
  BY <1>0, <1>11 DEF Record, Goto, At, ProcsOK, StageOK, TearingDown, Alive, host, dir
<1>12. CASE SetPorts(p)
  <2>1. pc[p] = "setports" /\ job[p].cmd \in {"ports add", "ports rm"}
    BY <1>0, <1>12 DEF SetPorts, At, JobOK, CommandFits
  <2>2. /\ pc'[p] = IF job[p].cmd = "ports add" THEN "alive" ELSE "unforward"
        /\ job' = job /\ UNCHANGED rows
    BY <1>0, <1>12 DEF SetPorts, Goto, ProcsOK
  <2> QED
    BY <1>0, <2>1, <2>2 DEF StageOK, TearingDown
<1>13. CASE CheckAlive(p)
  BY <1>e, <1>g, <1>13 DEF CheckAlive, ledger
<1>14. CASE Rejected(p) \/ Fail(p) \/ (Wait(p) /\ Error(p))
  <2>1. Error(p) /\ UNCHANGED rows
    BY <1>14 DEF Rejected, Fail, Wait, ledger
  <2> QED
    BY <1>e, <1>g, <2>1 DEF Error
<1> QED
  BY <1>1, <1>2, <1>3, <1>4, <1>5, <1>6, <1>7, <1>8, <1>9, <1>10, <1>11, <1>12, <1>13,
     <1>14 DEF Step, Work, Wait

\* A VM that exits takes its guest and its forwarders along, and a reboot all
\* of them and every tap.
LEMMA ExitOK ==
  ASSUME IInv, NEW v \in Slots, VMExits(v)
  PROVE  IInv'
<1>1. /\ UNCHANGED <<rows, orphans, dir, tap, pc, job>>
      /\ \A s \in Slots : /\ unit'[s] = unit[s] \/ unit'[s] = "none"
                          /\ unit'[s] = unit[s] => guest'[s] = guest[s] /\ fwd'[s] = fwd[s]
                          /\ unit'[s] # unit[s] => fwd'[s] = {} /\ guest'[s] = NoSlot
  BY DEF VMExits, UnitGone, Alive, ledger, IInv, Shape, TypeOK, HostOK
<1>2. Shape'
  BY DEF VMExits, UnitGone, IInv, Shape, TypeOK, LedgerOK, HostOK, FilesOK, ProcsOK,
       ledger, dir, JobOK
<1>3. ASSUME NEW s \in Slots PROVE SlotOK(s)'
  BY <1>1 DEF dir, IInv, SlotOK, Occupied, Alive
<1>4. ASSUME NEW p \in Procs PROVE StageOK(p)'
  <2>1. CASE job[p].vm \in Slots
    BY <1>1, <2>1 DEF dir, IInv, StageOK, TearingDown, Occupied, Alive
  <2>2. CASE job[p].vm \notin Slots
    <3>1. pc[p] \in {"idle", "claim"} /\ job[p].vm = NoSlot
      BY <2>2, JobFields DEF IInv, Shape, TypeOK, JobOK
    <3> QED
      BY <1>1, <3>1 DEF StageOK, TearingDown
  <2> QED
    BY <2>1, <2>2
<1> QED
  BY <1>1, <1>2, <1>3, <1>4 DEF IInv, Alone

LEMMA RebootOK ==
  ASSUME IInv, Reboot
  PROVE  IInv'
<1>1. \A p \in Procs : pc'[p] = "idle" /\ job'[p].cmd = "none" /\ job'[p].vm = NoSlot
  BY DEF Reboot, NoJob
<1>2. Shape'
  <2>1. LedgerOK' /\ HostOK' /\ FilesOK'
    BY DEF Reboot, IInv, Shape, TypeOK, LedgerOK, HostOK, FilesOK, ledger, dir
  <2>2. ProcsOK'
    BY DEF Reboot, ProcsOK, Labels, Jobs, NoJob
  <2>3. \A p \in Procs : JobOK(p)'
    BY <1>1 DEF JobOK, CommandFits, CopiedFits
  <2> QED
    BY <2>1, <2>2, <2>3 DEF Shape, TypeOK
<1>3. ASSUME NEW s \in Slots PROVE SlotOK(s)'
  BY DEF Reboot, ledger, dir, IInv, SlotOK, Occupied, Alive
<1>4. \A p \in Procs : StageOK(p)'
  BY <1>1 DEF StageOK, TearingDown
<1> QED
  BY <1>1, <1>2, <1>3, <1>4 DEF IInv, Alone

LEMMA IInvHolds ==
  ASSUME OneOperator = TRUE
  PROVE  Spec => []IInv
<1>1. Init /\ Shape => IInv
  <2> SUFFICES ASSUME Init, Shape PROVE IInv
    OBVIOUS
  <2>1. \A p \in Procs : pc[p] = "idle" /\ job[p].vm = NoSlot
    BY DEF Init, NoJob
  <2>2. \A p \in Procs : StageOK(p)
    BY <2>1 DEF StageOK, TearingDown
  <2>3. \A s \in Slots : SlotOK(s)
    BY DEF Init, SlotOK, Occupied, Alive
  <2> QED
    BY <2>1, <2>2, <2>3 DEF IInv, Alone
<1>2. IInv /\ Shape' /\ [Next]_vars => IInv'
  <2> SUFFICES ASSUME IInv, Shape', [Next]_vars PROVE IInv'
    OBVIOUS
  <2>1. ASSUME NEW p \in Procs, Step(p) PROVE IInv'
    <3>1. \A s \in Slots : SlotOK(s)'
      BY <2>1, OwnSlotOK, OtherSlotsOK
    <3>2. \A q \in Procs : StageOK(q)'
      BY <2>1, OwnStageOK, OtherStagesOK
    <3> QED
      BY <2>1, <3>1, <3>2, StaysAlone DEF IInv
  <2>2. CASE UNCHANGED vars
    BY <2>2 DEF vars, ledger, host, dir, IInv, Alone, SlotOK, StageOK, TearingDown, Occupied, Alive
  <2> QED
    BY <2>1, <2>2, ExitOK, RebootOK DEF Next, Step
<1> QED
  BY <1>1, <1>2, ShapeHolds, PTL DEF Spec

-----------------------------------------------------------------------------
(* Snapshots: what is registered is whole *)

\* No two commands work under one snapshot name.
NameAlone ==
  \A p \in Procs, q \in Procs :
    p # q /\ job[p].name = job[q].name => job[p].name = NoName

\* The steps of snapshot while its name is not registered, and those after
\* the last file is copied.
Unregistered == {"pause", "create", "copy", "stop", "unforward", "untap", "rmdir", "record"}
AllCopied    == {"stop", "unforward", "untap", "rmdir", "record", "remove"}

\* How far a snapshot has come: nobody has registered its name meanwhile; the
\* memory files are there and of the same guest as the disk, unless that is
\* lost; the files copied so far are the chroot's.
SnapStage(p) ==
  job[p].cmd = "snapshot" =>
    /\ pc[p] \in Unregistered => job[p].name \notin snaps
    /\ At(p, "copy") =>
         /\ dump[job[p].vm] # NoSlot
         /\ InChroot(job[p].vm, 3) \in {dump[job[p].vm], Lost}
         /\ \A f \in Files :
              f <= job[p].copied => saved[job[p].name][f] = InChroot(job[p].vm, f)
    /\ pc[p] \in AllCopied => WholeSnapshot(job[p].name)
    /\ At(p, "remove") => job[p].name \in snaps

SnapInv ==
  /\ NameAlone
  /\ RegisteredSnapshotsWhole
  /\ \A p \in Procs : SnapStage(p)

\* A step writes the files of its own snapshot only, while it copies; it
\* registers its own name, and deletes one that no command has.
LEMMA FilesFootprint ==
  ASSUME Shape, NEW p \in Procs, Step(p), NEW n \in Names
  PROVE  saved'[n] = saved[n] \/ (At(p, "copy") /\ n = job[p].name)
<1> USE DEF Shape, TypeOK, FilesOK
<1>1. CASE CopyFile(p)
  BY <1>1 DEF CopyFile
<1>2. CASE Fail(p)
  BY <1>2 DEF Fail
<1>3. CASE UNCHANGED saved
  BY <1>3
<1> QED
  BY <1>1, <1>2, <1>3
     DEF Step, Start, StartRun, StartRestore, StartDestroy, StartSnapshot, StartPortsAdd,
         StartPortsRm, StartPortsReload, DeleteSnapshot, Begin, Work, Claim, SetupChroot,
         SetupRestoreChroot, SetupTap, Launch, Boot, Forward, Notify, Ask, Wait, Detach, Interrupt,
         Unclaim, CheckName, Pause, CreateSnapshot, Stop, StopForwards, TeardownTap,
         RemoveDir, Record, Remove, SetPorts, CheckAlive, Restart, Rejected, Kill

LEMMA NamesFootprint ==
  ASSUME OneOperator = TRUE, NEW p \in Procs, Step(p), NEW n
  PROVE  \/ n \in snaps' <=> n \in snaps
         \/ Record(p) /\ n = job[p].name
         \/ n \notin snaps' /\ \A q \in Procs : job[q].name # n
<1> USE DEF ledger
<1>1. CASE Record(p)
  BY <1>1 DEF Record
<1>2. ASSUME NEW m \in Names, DeleteSnapshot(p, m)
      PROVE  \/ n \in snaps' <=> n \in snaps
             \/ n \notin snaps' /\ \A q \in Procs : job[q].name # n
  BY <1>2 DEF DeleteSnapshot, NameFree
<1>3. CASE UNCHANGED snaps
  BY <1>3
<1> QED
  BY <1>1, <1>2, <1>3
     DEF Step, Start, StartRun, StartRestore, StartDestroy, StartSnapshot, StartPortsAdd,
         StartPortsRm, StartPortsReload, Begin, Work, Claim, SetupChroot,
         SetupRestoreChroot, SetupTap, Launch, Boot, Forward, Notify, Ask, Wait, Detach, Interrupt,
         Unclaim, CheckName, Pause, CreateSnapshot, CopyFile, Stop, StopForwards,
         TeardownTap, RemoveDir, Remove, SetPorts, CheckAlive, Restart, Rejected, Fail, Kill

\* A command takes a name that no other command is working under.
LEMMA NameIsTaken ==
  ASSUME ProcsOK, OneOperator = TRUE, NEW p \in Procs, Step(p)
  PROVE  \/ job'[p].name \in {job[p].name, NoName}
         \/ \A q \in Procs : job[q].name # job'[p].name
<1> USE DEF ProcsOK, Goto, Exit, Error, NoJob
<1>1. CASE Start(p)
  <2>1. ASSUME NEW cmd, NEW label, NEW v, NEW n, NEW P, NEW T, Begin(p, cmd, label, v, n, P, T)
        PROVE  job'[p].name = n
    BY <2>1 DEF Begin
  <2>2. CASE StartRun(p) \/ \E n \in Names : StartRestore(p, n)
    BY <2>1, <2>2 DEF StartRun, StartRestore, NameFree
  <2>3. CASE \E n \in Names : DeleteSnapshot(p, n)
    BY <2>3 DEF DeleteSnapshot
  <2>4. CASE \E s \in Slots : StartDestroy(p, s) \/ StartPortsReload(p, s)
    BY <2>1, <2>4 DEF StartDestroy, StartPortsReload
  <2>5. CASE \E s \in Slots, n \in Names : StartSnapshot(p, s, n)
    BY <2>1, <2>5 DEF StartSnapshot, NameFree
  <2>6. CASE \E s \in Slots, q \in Ports : StartPortsAdd(p, s, q) \/ StartPortsRm(p, s, q)
    BY <2>1, <2>6 DEF StartPortsAdd, StartPortsRm
  <2> QED
    BY <1>1, <2>2, <2>3, <2>4, <2>5, <2>6 DEF Start
<1>2. CASE Claim(p) \/ Boot(p) \/ Forward(p) \/ Restart(p) \/ CopyFile(p)
  <2>1. job'[p].name = job[p].name
    BY <1>2 DEF Claim, Boot, Forward, Restart, CopyFile, Jobs
  <2> QED
    BY <2>1
<1>3. CASE SetupChroot(p) \/ SetupRestoreChroot(p) \/ SetupTap(p) \/ Launch(p)
         \/ Notify(p) \/ Ask(p) \/ Wait(p) \/ Unclaim(p)
  BY <1>3 DEF SetupChroot, SetupRestoreChroot, SetupTap, Launch, Notify, Ask, Wait, Unclaim
<1>4. CASE CheckName(p) \/ Pause(p) \/ CreateSnapshot(p) \/ Stop(p) \/ StopForwards(p)
  BY <1>4 DEF CheckName, Pause, CreateSnapshot, Stop, StopForwards
<1>5. CASE TeardownTap(p) \/ Record(p) \/ Remove(p)
  BY <1>5 DEF TeardownTap, Record, Remove
<1>6. CASE RemoveDir(p) \/ SetPorts(p)
  BY <1>6 DEF RemoveDir, SetPorts
<1>7. CASE CheckAlive(p) \/ Rejected(p) \/ Detach(p) \/ Interrupt(p) \/ Fail(p) \/ Kill(p)
  BY <1>7 DEF CheckAlive, Rejected, Detach, Interrupt, Fail, Kill
<1> QED
  BY <1>1, <1>2, <1>3, <1>4, <1>5, <1>6, <1>7 DEF Step, Work

LEMMA NameStaysAlone ==
  ASSUME Shape, NameAlone, OneOperator = TRUE, NEW p \in Procs, Step(p)
  PROVE  NameAlone'
<1>1. \A q \in Procs : q # p => job'[q] = job[q]
  BY ProcsFootprint
<1>2. \A q \in Procs : q # p /\ job'[p].name = job'[q].name => job'[p].name = NoName
  BY <1>1, NameIsTaken DEF NameAlone, Shape, TypeOK
<1> QED
  BY <1>1, <1>2 DEF NameAlone

\* What the other commands rely on: their VM, their files and whether their
\* name is registered stay as they are.
LEMMA OtherSnapStages ==
  ASSUME IInv, NameAlone, OneOperator = TRUE, NEW p \in Procs, Step(p),
         NEW q \in Procs \ {p}, SnapStage(q)
  PROVE  SnapStage(q)'
<1>1. pc'[q] = pc[q] /\ job'[q] = job[q]
  BY ProcsFootprint DEF IInv
<1> SUFFICES ASSUME job[q].cmd = "snapshot" PROVE SnapStage(q)'
  BY <1>1 DEF SnapStage
<1>2. job[q].name \in Names /\ job[q].name # job[p].name
  BY NoNameAssumption DEF NameAlone, IInv, Shape, JobOK
<1>3. saved'[job[q].name] = saved[job[q].name]
  BY <1>2, FilesFootprint DEF IInv
<1>4. job[q].name \in snaps' <=> job[q].name \in snaps
  BY <1>2, NamesFootprint
<1>5. CASE job[q].vm = NoSlot
  <2>1. pc[q] \in {"idle", "claim"}
    BY <1>5 DEF IInv, Shape, JobOK
  <2> QED
    BY <1>1, <2>1 DEF SnapStage, At, Unregistered, AllCopied
<1>6. CASE job[q].vm # NoSlot
  <2>1. job[q].vm \in Slots /\ job[q].vm # job[p].vm
    BY <1>6, JobFields DEF IInv, Shape, TypeOK, Alone
  <2>2. SameHost(job[q].vm)
    BY <2>1, HostFootprint DEF IInv
  <2> QED
    BY <1>1, <1>3, <1>4, <2>2 DEF SnapStage, SameHost, At, InChroot, WholeSnapshot
<1> QED
  BY <1>5, <1>6

\* The last file makes the copy whole, and the ones before it extend it.
LEMMA CopyFileStage ==
  ASSUME IInv, NEW p \in Procs, CopyFile(p), SnapStage(p)
  PROVE  SnapStage(p)'
<1> DEFINE n == job[p].name
           s == job[p].vm
           c == job[p].copied
<1>1. /\ pc[p] = "copy" /\ job[p].cmd = "snapshot" /\ c \in 0 .. 2
      /\ n \in Names /\ s \in Slots /\ n \notin snaps
  BY JobFields DEF CopyFile, At, IInv, Shape, TypeOK, JobOK, CommandFits, CopiedFits,
                   SnapStage, Unregistered
<1>2. dump[s] # NoSlot /\ InChroot(s, 3) \in {dump[s], Lost}
  BY <1>1 DEF SnapStage, At
<1>3. /\ pc'[p] = (IF c = 2 THEN "stop" ELSE "copy")
      /\ job'[p].copied = c + 1 /\ job'[p].cmd = "snapshot"
      /\ job'[p].name = n /\ job'[p].vm = s
      /\ UNCHANGED <<dir, snaps>>
  BY <1>1 DEF CopyFile, IInv, Shape, TypeOK, ProcsOK, Jobs, ledger, host
<1>4. \A f \in Files : f <= c + 1 => saved'[n][f] = InChroot(s, f)
  <2>1. saved' = [saved EXCEPT ![n] = [saved[n] EXCEPT ![c + 1] = InChroot(s, c + 1)]]
    BY DEF CopyFile
  <2>2. \A f \in Files :
          saved'[n][f] = IF f = c + 1 THEN InChroot(s, c + 1) ELSE saved[n][f]
    BY <1>1, <2>1 DEF IInv, Shape, TypeOK, FilesOK
  <2>3. \A f \in Files : f <= c => saved[n][f] = InChroot(s, f)
    BY <1>1 DEF SnapStage, At
  <2> QED
    BY <1>1, <2>2, <2>3 DEF Files
<1>5. CASE c = 2
  <2>1. \A f \in Files : saved'[n][f] = InChroot(s, f)
    BY <1>4, <1>5 DEF Files
  <2>2. WholeSnapshot(n)'
    BY <1>2, <2>1, <1>3 DEF WholeSnapshot, Files, InChroot
  <2> QED
    BY <1>1, <1>3, <1>5, <2>2 DEF SnapStage, At, Unregistered, AllCopied
<1>6. CASE c # 2
  <2>1. \A f : InChroot(s, f)' = InChroot(s, f)
    BY <1>3 DEF InChroot, dir
  <2>2. dump'[s] = dump[s]
    BY <1>3 DEF dir
  <2>3. /\ pc'[p] = "copy" /\ job'[p].name \notin snaps'
        /\ dump'[job'[p].vm] # NoSlot /\ InChroot(job[p].vm, 3)' \in {dump'[job'[p].vm], Lost}
        /\ \A f \in Files : f <= job'[p].copied => saved'[job'[p].name][f] = InChroot(job[p].vm, f)'
    BY <1>1, <1>2, <1>3, <1>4, <1>6, <2>1, <2>2
  <2> QED
    BY <2>3 DEF SnapStage, At, AllCopied
<1> QED
  BY <1>5, <1>6

\* What a process does for a snapshot: the other steps end the command, or
\* belong to another one.
SnapshotStep(p) ==
  \/ CheckName(p) \/ Pause(p) \/ CreateSnapshot(p) \/ CopyFile(p) \/ Stop(p)
  \/ StopForwards(p) \/ TeardownTap(p) \/ RemoveDir(p) \/ Record(p)

LEMMA SnapshotSteps ==
  ASSUME Shape, NEW p \in Procs, Step(p), job'[p].cmd = "snapshot"
  PROVE  \/ \E s \in Slots, n \in Names : StartSnapshot(p, s, n)
         \/ job[p].cmd = "snapshot" /\ SnapshotStep(p)
<1>0. ProcsOK /\ JobOK(p)
  BY DEF Shape, TypeOK
<1>1. ~Exit(p)
  BY <1>0 DEF Exit, ProcsOK, NoJob
<1>2. ASSUME Start(p) PROVE \E s \in Slots, n \in Names : StartSnapshot(p, s, n)
  <2>0. ASSUME NEW cmd, NEW label, NEW v, NEW n, NEW P, NEW T, Begin(p, cmd, label, v, n, P, T)
        PROVE  cmd = "snapshot"
    BY <1>0, <2>0 DEF Begin, ProcsOK
  <2>1. ~StartRun(p) /\ \A n \in Names : ~StartRestore(p, n)
    BY <2>0 DEF StartRun, StartRestore
  <2>2. \A n \in Names : ~DeleteSnapshot(p, n)
    BY <1>0 DEF DeleteSnapshot, JobOK, CommandFits
  <2>3. \A s \in Slots : ~StartDestroy(p, s)
    BY <2>0 DEF StartDestroy
  <2>4. \A s \in Slots : ~StartPortsReload(p, s)
    BY <2>0 DEF StartPortsReload
  <2>5. \A s \in Slots, q \in Ports : ~StartPortsAdd(p, s, q) /\ ~StartPortsRm(p, s, q)
    BY <2>0 DEF StartPortsAdd, StartPortsRm
  <2> QED
    BY <1>2, <2>1, <2>2, <2>3, <2>4, <2>5 DEF Start
<1>3. ~Claim(p) /\ ~Boot(p) /\ ~Forward(p) /\ ~Restart(p)
  <2>1. ASSUME Claim(p) \/ Boot(p) \/ Forward(p) \/ Restart(p) PROVE FALSE
    <3>1. job'[p].cmd = job[p].cmd
      BY <1>0, <2>1 DEF Claim, Boot, Forward, Restart, ProcsOK, Jobs
    <3>2. pc[p] \in {"claim", "boot", "forward", "restart"}
      BY <2>1 DEF Claim, Boot, Forward, Restart, At
    <3> QED
      BY <1>0, <3>1, <3>2 DEF JobOK, CommandFits
  <2> QED
    BY <2>1
<1>4. Start(p) \/ job[p].cmd = "snapshot"
  BY <1>0, <1>1, <1>3
     DEF Step, Work, SetupChroot, SetupRestoreChroot, SetupTap, Launch, Notify, Ask, Wait,
         Unclaim, CheckName, Pause, CreateSnapshot, CopyFile, Stop, StopForwards,
         TeardownTap, RemoveDir, Record, Remove, SetPorts, CheckAlive, Rejected,
         Detach, Interrupt, Fail, Kill, Goto, Error, At, JobOK, CommandFits
<1>5. job[p].cmd = "snapshot" =>
        /\ ~SetupChroot(p) /\ ~SetupRestoreChroot(p) /\ ~SetupTap(p) /\ ~Launch(p)
        /\ ~Notify(p) /\ ~Ask(p) /\ ~SetPorts(p) /\ ~CheckAlive(p)
  BY <1>0, <1>1 DEF JobOK, CommandFits, At, SetupChroot, SetupRestoreChroot, SetupTap, Launch,
              Notify, Ask, AtAsk, SetPorts, CheckAlive
<1>6. ~Unclaim(p) /\ ~Remove(p) /\ ~Detach(p) /\ ~Interrupt(p) /\ ~Kill(p)
  BY <1>1 DEF Unclaim, Remove, Detach, Interrupt, Kill
<1>7. job[p].cmd = "snapshot" => ~Rejected(p) /\ ~Fail(p) /\ ~Wait(p)
  BY <1>1 DEF Rejected, Fail, Wait, Error
<1> QED
  BY <1>2, <1>3, <1>4, <1>5, <1>6, <1>7 DEF Step, Work, SnapshotStep

LEMMA OwnSnapStage ==
  ASSUME IInv, NEW p \in Procs, Step(p), SnapStage(p)
  PROVE  SnapStage(p)'
<1> SUFFICES ASSUME job'[p].cmd = "snapshot" PROVE SnapStage(p)'
  BY DEF SnapStage
<1>0. ProcsOK /\ HostOK /\ JobOK(p) /\ job[p].vm \in Slots \cup {NoSlot}
  BY JobFields DEF IInv, Shape, TypeOK
<1> USE DEF Unregistered, AllCopied
\* A step within the teardown.
<1>t. ASSUME NEW label \in {"unforward", "untap", "rmdir", "record"}, Goto(p, label),
             job[p].cmd = "snapshot", pc[p] \in {"stop", "unforward", "untap", "rmdir"},
             UNCHANGED <<snaps, saved>>
      PROVE  SnapStage(p)'
  BY <1>0, <1>t DEF Goto, ProcsOK, SnapStage, At, WholeSnapshot
<1>1. ASSUME NEW s \in Slots, NEW n \in Names, StartSnapshot(p, s, n) PROVE SnapStage(p)'
  <2>1. pc'[p] = "checkname"
    BY <1>0, <1>1 DEF StartSnapshot, Begin, ProcsOK
  <2> QED
    BY <2>1 DEF SnapStage, At
<1>2. CASE CheckName(p)
  BY <1>0, <1>2 DEF CheckName, Goto, ProcsOK, SnapStage, At, ledger
<1>3. CASE Pause(p)
  <2>1. job[p].vm \in Slots
    BY <1>0, <1>3 DEF Pause, At, JobOK
  <2> QED
    BY <1>0, <1>3, <2>1 DEF Pause, Goto, ProcsOK, HostOK, SnapStage, At, Alive, ledger
<1>4. CASE CreateSnapshot(p)
  <2>0. /\ job[p].vm \in Slots /\ SlotOK(job[p].vm)
    BY <1>0, <1>4 DEF CreateSnapshot, At, JobOK, IInv
  <2>1. /\ pc[p] = "create" /\ pc'[p] = "copy" /\ job' = job
        /\ UNCHANGED <<snaps, lost, chroot>> /\ job[p].copied = 0
        /\ dump'[job[p].vm] = guest[job[p].vm] /\ unit[job[p].vm] = "paused"
    BY <1>0, <1>4, <2>0
       DEF CreateSnapshot, Goto, At, ProcsOK, JobOK, CopiedFits, ledger, HostOK
  <2>2. \A f \in Files : ~(f <= job[p].copied)
    BY <2>1 DEF Files
  <2>3. InChroot(job[p].vm, 3)' \in {dump'[job[p].vm], Lost} /\ dump'[job[p].vm] # NoSlot
    BY <2>0, <2>1 DEF SlotOK, InChroot
  <2> QED
    BY <2>1, <2>2, <2>3 DEF SnapStage, At
<1>5. CASE CopyFile(p)
  BY <1>5, CopyFileStage
<1>6. CASE job[p].cmd = "snapshot" /\ (Stop(p) \/ StopForwards(p))
  BY <1>t, <1>6 DEF Stop, StopForwards, At, ledger
<1>7. CASE job[p].cmd = "snapshot" /\ (TeardownTap(p) \/ RemoveDir(p))
  BY <1>t, <1>7 DEF TeardownTap, RemoveDir, At, ledger
<1>8. CASE Record(p)
  <2>1. /\ pc[p] = "record" /\ pc'[p] = "remove" /\ job' = job /\ saved' = saved
        /\ job[p].name \in snaps'
    BY <1>0, <1>8 DEF Record, Goto, At, ProcsOK
  <2> QED
    BY <2>1 DEF SnapStage, At, WholeSnapshot
<1> QED
  BY <1>1, <1>2, <1>3, <1>4, <1>5, <1>6, <1>7, <1>8, SnapshotSteps DEF SnapshotStep, IInv

\* Nobody writes into the directory of a registered snapshot, and what is
\* registered was whole.
LEMMA RegisteredStayWhole ==
  ASSUME IInv, SnapInv, OneOperator = TRUE, NEW p \in Procs, Step(p)
  PROVE  RegisteredSnapshotsWhole'
<1> SUFFICES ASSUME NEW n \in snaps' PROVE WholeSnapshot(n)'
  BY DEF RegisteredSnapshotsWhole
<1>0. Shape /\ SnapStage(p) /\ JobOK(p)
  BY DEF IInv, SnapInv, Shape
<1>1. CASE Record(p) /\ n = job[p].name
  <2>1. job[p].cmd = "snapshot" /\ WholeSnapshot(n) /\ saved' = saved
    BY <1>0, <1>1 DEF Record, At, JobOK, CommandFits, SnapStage, AllCopied
  <2> QED
    BY <2>1 DEF WholeSnapshot
<1>2. CASE n \in snaps
  <2>1. WholeSnapshot(n) /\ n \in Names
    BY <1>0, <1>2 DEF SnapInv, RegisteredSnapshotsWhole, Shape, TypeOK, LedgerOK
  <2>2. ~(At(p, "copy") /\ n = job[p].name)
    BY <1>0, <1>2 DEF At, JobOK, CommandFits, SnapStage, Unregistered
  <2> QED
    BY <1>0, <2>1, <2>2, FilesFootprint DEF WholeSnapshot
<1>3. n \in snaps \/ (Record(p) /\ n = job[p].name)
  <2>1. ASSUME NEW m \in Names, DeleteSnapshot(p, m) PROVE n \in snaps
    BY <2>1 DEF DeleteSnapshot
  <2> QED
    BY <2>1, NamesFootprint DEF Record
<1> QED
  BY <1>1, <1>2, <1>3

LEMMA SnapInvHolds ==
  ASSUME OneOperator = TRUE
  PROVE  Spec => []SnapInv
<1>1. Init => SnapInv
  BY DEF Init, NoJob, SnapInv, NameAlone, RegisteredSnapshotsWhole, SnapStage
<1>2. IInv /\ SnapInv /\ [Next]_vars => SnapInv'
  <2> SUFFICES ASSUME IInv, SnapInv, [Next]_vars PROVE SnapInv'
    OBVIOUS
  <2>1. ASSUME NEW p \in Procs, Step(p) PROVE SnapInv'
    <3>1. \A q \in Procs : SnapStage(q)'
      BY <2>1, OwnSnapStage, OtherSnapStages DEF SnapInv
    <3>2. NameAlone'
      BY <2>1, NameStaysAlone DEF IInv, SnapInv
    <3>3. RegisteredSnapshotsWhole'
      BY <2>1, RegisteredStayWhole
    <3> QED
      BY <3>1, <3>2, <3>3 DEF SnapInv
  <2>2. ASSUME NEW v \in Slots, VMExits(v) PROVE SnapInv'
    <3>1. UNCHANGED <<snaps, saved, dir, pc, job>>
      BY <2>2 DEF VMExits, ledger
    <3>2. ASSUME NEW p \in Procs PROVE SnapStage(p)'
      BY <3>1 DEF dir, SnapInv, SnapStage, At, InChroot, WholeSnapshot
    <3>3. RegisteredSnapshotsWhole' /\ NameAlone'
      BY <3>1 DEF SnapInv, RegisteredSnapshotsWhole, NameAlone, WholeSnapshot
    <3> QED
      BY <3>2, <3>3 DEF SnapInv
  <2>3. CASE Reboot
    <3>1. \A p \in Procs : job'[p].cmd = "none" /\ job'[p].name = NoName
      BY <2>3 DEF Reboot, NoJob
    <3>2. RegisteredSnapshotsWhole'
      BY <2>3 DEF Reboot, ledger, SnapInv, RegisteredSnapshotsWhole, WholeSnapshot
    <3> QED
      BY <3>1, <3>2 DEF SnapInv, NameAlone, SnapStage
  <2>4. CASE UNCHANGED vars
    BY <2>4 DEF vars, ledger, host, dir, SnapInv, NameAlone, RegisteredSnapshotsWhole, SnapStage,
                At, InChroot, WholeSnapshot
  <2> QED
    BY <2>1, <2>2, <2>3, <2>4 DEF Next, Step
<1> QED
  BY <1>1, <1>2, IInvHolds, PTL DEF Spec

-----------------------------------------------------------------------------
(* The commands are clients of the slot ledger *)

\* Between its first step and its last, a command keeps its VM.
LEMMA KeepsCommand ==
  ASSUME Shape, NEW p \in Procs, Step(p), ~Start(p), ~Claim(p)
  PROVE  \/ job'[p].vm = job[p].vm /\ job'[p].cmd = job[p].cmd /\ pc[p] # "unclaim"
         \/ pc'[p] = "idle" /\ job'[p] = NoJob
<1>0. ProcsOK
  BY DEF Shape, TypeOK
<1>1. ASSUME Exit(p) PROVE pc'[p] = "idle" /\ job'[p] = NoJob
  BY <1>0, <1>1 DEF Exit, ProcsOK
<1>2. CASE Boot(p) \/ Forward(p) \/ CopyFile(p) \/ Restart(p)
  <2>1. job'[p].vm = job[p].vm /\ job'[p].cmd = job[p].cmd
    BY <1>0, <1>2 DEF Boot, Forward, CopyFile, Restart, ProcsOK, Jobs
  <2> QED
    BY <1>2, <2>1 DEF Boot, Forward, CopyFile, Restart, At
<1>3. CASE UNCHANGED job /\ pc[p] # "unclaim"
  BY <1>3
<1>4. CASE Rejected(p)
  <2>1. pc[p] # "unclaim"
    BY <1>4 DEF Rejected, CannotDo
  <2> QED
    BY <1>1, <1>3, <1>4, <2>1 DEF Rejected, Error, Goto
<1>5. CASE Fail(p)
  BY <1>1, <1>3, <1>5 DEF Fail, Error, Goto
<1>7. CASE Ask(p)
  BY <1>1, <1>3, <1>7 DEF Ask, AtAsk, At, Goto
<1>8. CASE Wait(p)
  BY <1>1, <1>3, <1>8 DEF Wait, At, Error, Goto
<1>6. CASE Exit(p)
  BY <1>1, <1>6
<1> QED
  BY <1>2, <1>3, <1>4, <1>5, <1>6, <1>7, <1>8
     DEF Step, Work, At, Goto, SetupChroot, SetupRestoreChroot, SetupTap, Launch, Notify,
         Detach, Interrupt, Unclaim, CheckName, Pause, CreateSnapshot, Stop, StopForwards,
         TeardownTap, RemoveDir, Record, Remove, SetPorts, CheckAlive, Kill

\* Only run and restore are granted slots, and only by Claim.
LEMMA GrantsOnlyEnd ==
  ASSUME Shape, NEW p \in Procs, Step(p), ~Claim(p)
  PROVE  Granted(p)' \in {Granted(p), NoSlot}
<1>1. CASE Start(p)
  <2>1. ASSUME NEW cmd, NEW label, NEW v, NEW n, NEW P, NEW T, Begin(p, cmd, label, v, n, P, T)
        PROVE  job'[p].vm = v /\ job'[p].cmd = cmd
    BY <2>1 DEF Begin, Shape, TypeOK, ProcsOK
  <2>2. CASE \E n \in Names : DeleteSnapshot(p, n)
    BY <2>2 DEF DeleteSnapshot, Granted
  <2>3. CASE StartRun(p) \/ \E n \in Names : StartRestore(p, n)
    BY <2>1, <2>3 DEF StartRun, StartRestore, Granted
  <2>4. CASE \E s \in Slots : StartDestroy(p, s) \/ StartPortsReload(p, s)
    BY <2>1, <2>4 DEF StartDestroy, StartPortsReload, Granted
  <2>5. CASE \E s \in Slots, n \in Names : StartSnapshot(p, s, n)
    BY <2>1, <2>5 DEF StartSnapshot, Granted
  <2>6. CASE \E s \in Slots, q \in Ports : StartPortsAdd(p, s, q) \/ StartPortsRm(p, s, q)
    BY <2>1, <2>6 DEF StartPortsAdd, StartPortsRm, Granted
  <2> QED
    BY <1>1, <2>2, <2>3, <2>4, <2>5, <2>6 DEF Start
<1>2. CASE ~Start(p)
  BY <1>2, KeepsCommand DEF NoJob, Granted
<1> QED
  BY <1>1, <1>2

\* One step of a command is one of the ledger's, or none.
LEMMA LedgerStep ==
  ASSUME Shape, NEW p \in Procs, Step(p)
  PROVE  [Ledger!Next]_Ledger!vars
<1> DEFINE granted == [q \in Procs |-> Granted(q)]
<1> USE DEF Ledger!vars
<1>1. \A q \in Procs \ {p} : Granted(q)' = Granted(q)
  BY ProcsFootprint DEF Granted
<1>2. CASE Claim(p)
  <2>1. PICK s \in Slots : /\ IsLowestFree(s) /\ rows' = rows \cup {s}
                           /\ job' = [job EXCEPT ![p].vm = s]
    BY <1>2 DEF Claim
  <2>2. Granted(p)' = s
    <3>1. job[p].cmd \in {"run", "restore"}
      BY <1>2 DEF Claim, At, Shape, JobOK, CommandFits
    <3>2. job'[p].vm = s /\ job'[p].cmd = job[p].cmd /\ pc'[p] = "chroot"
      BY <1>2, <2>1 DEF Claim, Shape, TypeOK, ProcsOK, Jobs
    <3> QED
      BY <3>1, <3>2 DEF Granted
  <2>3. granted' = [granted EXCEPT ![p] = s]
    BY <1>1, <2>2
  <2>4. Ledger!Claim(p)
    BY <2>1, <2>3 DEF Ledger!Claim, Ledger!Slots, Ledger!IsLowestFree, IsLowestFree, Slots
  <2> QED
    BY <2>4 DEF Ledger!Next
<1>3. CASE ~Claim(p) /\ rows' = rows
  <2>1. CASE Granted(p)' = Granted(p)
    BY <1>1, <1>3, <2>1
  <2>2. CASE Granted(p)' = NoSlot
    <3>1. granted' = [q \in Procs |-> IF q \in {p} THEN Ledger!NoSlot ELSE granted[q]]
      BY <1>1, <2>2 DEF NoSlot, Ledger!NoSlot
    <3>2. Ledger!Refuse({p}) /\ {p} \in SUBSET Procs
      BY <1>3, <3>1 DEF Ledger!Refuse
    <3> QED
      BY <3>2 DEF Ledger!Next
  <2> QED
    BY <1>3, <2>1, <2>2, GrantsOnlyEnd
<1>4. CASE (Unclaim(p) \/ Remove(p)) /\ rows' # rows
  <2>1. job[p].vm \in rows /\ rows' = rows \ {job[p].vm}
    BY <1>4 DEF Unclaim, Remove
  <2>2. Granted(p) = NoSlot
    BY <1>4 DEF Unclaim, Remove, At, Shape, JobOK, CommandFits, Granted
  <2>3. ~Claim(p)
    BY <1>4 DEF Unclaim, Remove, Claim, At
  <2>4. granted' = granted
    BY <1>1, <2>2, <2>3, GrantsOnlyEnd
  <2>5. Ledger!Release
    BY <2>1, <2>4 DEF Ledger!Release
  <2> QED
    BY <2>5 DEF Ledger!Next
<1> QED
  BY <1>2, <1>3, <1>4
     DEF Step, Start, StartRun, StartRestore, StartDestroy, StartSnapshot, StartPortsAdd,
         StartPortsRm, StartPortsReload, DeleteSnapshot, Begin, Work, SetupChroot,
         SetupRestoreChroot, SetupTap, Launch, Boot, Forward, Notify, Ask, Wait, Detach, Interrupt,
         CheckName, Pause, CreateSnapshot, CopyFile, Stop, StopForwards, TeardownTap,
         RemoveDir, Record, SetPorts, CheckAlive, Restart, Rejected, Fail, Kill,
         ledger

-----------------------------------------------------------------------------
(* The commands implement the abstract VM *)

\* The stage of a VM nobody is making, and of one that p is.
Idle(s) ==
  IF s \notin rows THEN "absent" ELSE IF unit[s] \in {"running", "paused"} THEN "up" ELSE "down"

Made(p, s) ==
  IF s \notin rows THEN "absent"
  ELSE CASE pc[p] \in {"chroot", "tap", "launch", "boot"} -> "starting"
         [] pc[p] \in {"notify", "forward", "ask", "wait"} -> "started"
         [] pc[p] = "unclaim"                             -> "failed"
         [] OTHER -> IF unit[s] \in {"running", "paused"} THEN "up" ELSE "down"

LEMMA IdleStage ==
  ASSUME NEW s
  PROVE  /\ Makers(s) = {} => Stage(s) = Idle(s)
         /\ Makers(s)' = {} => Stage(s)' = Idle(s)'
  BY DEF Stage, Idle

LEMMA MadeStage ==
  ASSUME NEW p, NEW s
  PROVE  /\ Makers(s) = {p} => Stage(s) = Made(p, s)
         /\ Makers(s)' = {p} => Stage(s)' = Made(p, s)'
<1>1. ASSUME Makers(s) = {p} PROVE Stage(s) = Made(p, s)
  <2>1. /\ (\E q \in Makers(s) : pc[q] \in {"chroot", "tap", "launch", "boot"})
             <=> pc[p] \in {"chroot", "tap", "launch", "boot"}
        /\ (\E q \in Makers(s) : pc[q] \in {"notify", "forward", "ask", "wait"})
             <=> pc[p] \in {"notify", "forward", "ask", "wait"}
        /\ (\E q \in Makers(s) : pc[q] = "unclaim") <=> pc[p] = "unclaim"
    BY <1>1
  <2> QED
    BY <2>1 DEF Stage, Made
<1>2. ASSUME Makers(s)' = {p} PROVE Stage(s)' = Made(p, s)'
  <2>1. /\ (\E q \in Makers(s)' : pc'[q] \in {"chroot", "tap", "launch", "boot"})
             <=> pc'[p] \in {"chroot", "tap", "launch", "boot"}
        /\ (\E q \in Makers(s)' : pc'[q] \in {"notify", "forward", "ask", "wait"})
             <=> pc'[p] \in {"notify", "forward", "ask", "wait"}
        /\ (\E q \in Makers(s)' : pc'[q] = "unclaim") <=> pc'[p] = "unclaim"
    BY <1>2
  <2> QED
    BY <2>1 DEF Stage, Made
<1> QED
  BY <1>1, <1>2

\* Who is making a command's VM: itself, or nobody.
LEMMA OwnMakers ==
  ASSUME Alone, NEW p \in Procs, NEW s \in Slots, s = job[p].vm
  PROVE  Makers(s) = IF job[p].cmd \in {"run", "restore"} THEN {p} ELSE {}
  BY NoSlotIsNone DEF Alone, Makers

\* A step changes no maker but its own process.
LEMMA OtherMakers ==
  ASSUME Shape, NEW p \in Procs, Step(p), NEW s
  PROVE  Makers(s)' \ {p} = Makers(s) \ {p}
  BY ProcsFootprint DEF Makers

\* A slot that the step's process is not making keeps its stage with its row
\* and its unit.
LEMMA SameStage ==
  ASSUME Shape, NEW p \in Procs, Step(p), NEW s \in Slots,
         p \notin Makers(s), p \notin Makers(s)',
         s \in rows' <=> s \in rows, unit'[s] = unit[s]
  PROVE  Stage(s)' = Stage(s)
<1>1. Makers(s)' = Makers(s)
  BY OtherMakers
<1>2. \A q \in Makers(s) : pc'[q] = pc[q]
  BY ProcsFootprint DEF Makers
<1> QED
  BY <1>1, <1>2 DEF Stage

\* Rows come by Claim and go by Unclaim and Remove; snapshots come by Record
\* and go by `snapshot delete`.
LEMMA RowsFootprint ==
  ASSUME NEW p \in Procs, Step(p), ~Claim(p), ~Unclaim(p), ~Remove(p)
  PROVE  rows' = rows
  BY DEF Step, Start, StartRun, StartRestore, StartDestroy, StartSnapshot, StartPortsAdd,
         StartPortsRm, StartPortsReload, DeleteSnapshot, Begin, Work, SetupChroot,
         SetupRestoreChroot, SetupTap, Launch, Boot, Forward, Notify, Ask, Wait, Detach, Interrupt,
         CheckName, Pause, CreateSnapshot, CopyFile, Stop, StopForwards, TeardownTap,
         RemoveDir, Record, SetPorts, CheckAlive, Restart, Rejected, Fail, Kill,
         ledger

LEMMA SnapsFootprint ==
  ASSUME NEW p \in Procs, Step(p), ~Record(p), ~\E n \in Names : DeleteSnapshot(p, n)
  PROVE  snaps' = snaps
  BY DEF Step, Start, StartRun, StartRestore, StartDestroy, StartSnapshot, StartPortsAdd,
         StartPortsRm, StartPortsReload, Begin, Work, Claim, SetupChroot,
         SetupRestoreChroot, SetupTap, Launch, Boot, Forward, Notify, Ask, Wait, Detach, Interrupt,
         Unclaim, CheckName, Pause, CreateSnapshot, CopyFile, Stop, StopForwards, TeardownTap,
         RemoveDir, Remove, SetPorts, CheckAlive, Restart, Rejected, Fail, Kill,
         ledger

\* What destroy, snapshot and the port commands do to their VM's stage.
LEMMA IdleMoves ==
  ASSUME IInv, IInv', NEW p \in Procs, Step(p), ~Start(p), ~Claim(p),
         NEW s \in Slots, s = job[p].vm, job[p].cmd \notin {"run", "restore"}
  PROVE  /\ \/ Stage(s) # "absent" /\ Stage(s)' \in {Stage(s), "down"}
            \/ Stage(s) = "down" /\ Stage(s)' = "absent"
         /\ Record(p) => Stage(s) = "down" /\ Stage(s)' = "down"
<1>0. /\ s \in rows /\ s # NoSlot /\ StageOK(p) /\ HostOK /\ CommandFits(pc[p], job[p].cmd)
  BY NoSlotIsNone DEF IInv, StageOK, Shape, TypeOK, JobOK
<1>1. Makers(s) = {} /\ Makers(s)' = {}
  <2>1. Makers(s) = {}
    BY OwnMakers DEF IInv
  <2>2. p \notin Makers(s)'
    BY <1>0, KeepsCommand DEF IInv, Makers, NoJob
  <2> QED
    BY <2>1, <2>2, OtherMakers DEF IInv
<1>2. Stage(s) = Idle(s) /\ Stage(s)' = Idle(s)'
  BY <1>1, IdleStage
<1>3. Idle(s) # "absent"
  BY <1>0 DEF Idle
<1>4. CASE Remove(p) \/ Record(p)
  <2>1. unit'[s] = "none" /\ unit[s] = "none"
    BY <1>0, <1>4 DEF Remove, Record, At, TearingDown, StageOK, Alive, host, dir
  <2>2. Idle(s) = "down" /\ (Record(p) => rows' = rows)
    BY <1>0, <2>1 DEF Idle, Record
  <2>3. Idle(s)' = IF s \in rows' THEN "down" ELSE "absent"
    BY <2>1 DEF Idle
  <2> QED
    BY <1>0, <1>2, <2>2, <2>3
<1>5. CASE Stop(p) \/ Pause(p)
  <2>1. /\ s \in rows' /\ ~Record(p)
        /\ \/ unit'[s] = "none"
           \/ unit[s] \in {"running", "paused"} /\ unit'[s] = "paused"
    <3>1. CASE Stop(p)
      <4>1. unit' = [unit EXCEPT ![s] = "none"] /\ rows' = rows /\ pc[p] = "stop"
        BY <3>1 DEF Stop, At, UnitGone, ledger
      <4>2. unit'[s] = "none"
        BY <1>0, <4>1 DEF HostOK
      <4> QED
        BY <1>0, <4>1, <4>2 DEF Record, At
    <3>2. CASE Pause(p)
      BY <1>0, <3>2 DEF Pause, Record, At, HostOK, ledger
    <3> QED
      BY <1>5, <3>1, <3>2
  <2>2. Idle(s)' \in {Idle(s), "down"}
    BY <1>0, <2>1 DEF Idle
  <2> QED
    BY <1>2, <1>3, <2>1, <2>2
<1>6. CASE unit' = unit /\ rows' = rows /\ ~Record(p)
  <2>1. Idle(s)' = Idle(s)
    BY <1>6 DEF Idle
  <2> QED
    BY <1>2, <1>3, <1>6, <2>1
<1>7. ~Unclaim(p) /\ ~Detach(p) /\ ~Interrupt(p) /\ ~Launch(p) /\ ~Boot(p)
  BY <1>0 DEF Unclaim, Detach, Interrupt, Launch, Boot, At, CommandFits
<1>8. Remove(p) \/ Record(p) \/ Stop(p) \/ Pause(p) \/ unit' = unit
  BY <1>7
     DEF Step, Work, SetupChroot, SetupRestoreChroot, SetupTap, Forward, Notify, Ask, Wait,
         CheckName, CreateSnapshot, CopyFile, StopForwards, TeardownTap, RemoveDir, SetPorts,
         CheckAlive, Restart, Rejected, Fail, Kill, host, dir
<1> QED
  BY <1>4, <1>5, <1>6, <1>7, <1>8, RowsFootprint

\* What run and restore do to the VM they make.
LEMMA MakingMoves ==
  ASSUME IInv, IInv', NEW p \in Procs, Step(p), ~Start(p), ~Claim(p),
         NEW s \in Slots, s = job[p].vm, job[p].cmd \in {"run", "restore"}
  PROVE  \/ Stage(s)' = Stage(s)
         \/ Stage(s) = "starting" /\ Stage(s)' = "started"
         \/ Stage(s) \in {"starting", "started"} /\ Stage(s)' = "failed"
         \/ Stage(s) = "failed" /\ Stage(s)' = "absent"
         \/ Stage(s) \in {"starting", "started", "failed"} /\ Stage(s)' \in {"up", "down"}
<1>0. /\ s \in rows /\ s # NoSlot /\ ProcsOK /\ JobOK(p)
      /\ pc[p] \in {"chroot", "tap", "launch", "boot", "notify", "forward", "wait",
                   "unclaim"}
  BY NoSlotIsNone DEF IInv, StageOK, Shape, TypeOK, JobOK, CommandFits, ProcsOK, Labels
<1>1. Makers(s) = {p}
  BY OwnMakers DEF IInv
<1>2. Stage(s) = Made(p, s)
  BY <1>1, MadeStage
<1>3. Stage(s) \in {"starting", "started", "failed"}
  BY <1>0, <1>2 DEF Made
<1>4. CASE job'[p] = NoJob
  <2>1. p \notin Makers(s)'
    BY <1>0, <1>4 DEF NoJob, Makers
  <2>2. Stage(s)' = Idle(s)'
    BY <1>1, <2>1, OtherMakers, IdleStage DEF IInv
  <2>3. CASE s \in rows'
    BY <1>3, <2>2, <2>3 DEF Idle
  <2>4. CASE s \notin rows'
    <3>1. Unclaim(p)
      BY <1>0, <2>4, RowsFootprint DEF Remove, At
    <3>2. Stage(s) = "failed"
      BY <1>0, <1>2, <3>1 DEF Unclaim, At, Made
    <3> QED
      BY <2>2, <2>4, <3>2 DEF Idle
  <2> QED
    BY <2>3, <2>4
<1>5. CASE job'[p].vm = job[p].vm /\ job'[p].cmd = job[p].cmd /\ pc[p] # "unclaim"
  <2>1. Makers(s)' = {p}
    BY <1>1, <1>5, OtherMakers DEF IInv, Makers
  <2>2. Stage(s)' = Made(p, s)'
    BY <2>1, MadeStage
  <2>3. rows' = rows
    BY <1>0, <1>5, RowsFootprint DEF Unclaim, Remove, At
  <2>4. \/ pc[p] \in {"chroot", "tap", "launch", "boot"}
           /\ pc'[p] \in {"chroot", "tap", "launch", "boot", "notify", "forward", "unclaim"}
        \/ /\ pc[p] \in {"notify", "forward", "wait"}
           /\ pc'[p] \in {"notify", "forward", "wait", "unclaim"}
    <3>1. ASSUME NEW label, Goto(p, label) PROVE pc'[p] = label
      BY <1>0, <3>1 DEF Goto, ProcsOK
    <3>2. ~Exit(p)
      BY <1>0, <1>5 DEF Exit, ProcsOK, NoJob
    <3>3. CASE Rejected(p) \/ Fail(p) \/ Wait(p)
      <4>1. Goto(p, "unclaim")
        BY <3>2, <3>3 DEF Rejected, Fail, Wait, Error
      <4> QED
        BY <1>0, <1>5, <3>1, <4>1
    <3>4. CASE SetupChroot(p) \/ SetupRestoreChroot(p) \/ SetupTap(p) \/ Launch(p) \/ Notify(p)
      BY <3>1, <3>4 DEF SetupChroot, SetupRestoreChroot, SetupTap, Launch, Notify, At
    <3>6. CASE Ask(p)
      BY <1>0, <3>1, <3>2, <3>6 DEF Ask, AtAsk, At
    <3>5. CASE Boot(p) \/ Forward(p)
      BY <1>0, <3>5 DEF Boot, Forward, At, ProcsOK
    <3> QED
      BY <1>0, <1>5, <3>2, <3>3, <3>4, <3>5, <3>6
         DEF Step, Work, At, Detach, Interrupt, Unclaim, CheckName, Pause, CreateSnapshot,
             CopyFile, Stop, StopForwards, TeardownTap, RemoveDir, Record, Remove, SetPorts,
             CheckAlive, Restart, Kill
  <2> QED
    BY <1>0, <1>2, <2>2, <2>3, <2>4 DEF Made
<1> QED
  BY <1>4, <1>5, KeepsCommand DEF IInv

\* What the abstract VM may do from one stage to another, snapshots aside.
LEMMA MovesAreSteps ==
  ASSUME NEW s \in Slots, UNCHANGED snaps,
         \A u \in Slots : u # s => Stage(u)' = Stage(u),
         \/ Stage(s)' = Stage(s)
         \/ Stage(s) = "starting" /\ Stage(s)' = "started"
         \/ Stage(s) \in {"starting", "started"} /\ Stage(s)' = "failed"
         \/ Stage(s) = "failed" /\ Stage(s)' = "absent"
         \/ Stage(s) \in {"starting", "started", "failed"} /\ Stage(s)' \in {"up", "down"}
         \/ Stage(s) \notin {"absent", "down"} /\ Stage(s)' = "down"
         \/ Stage(s) = "down" /\ Stage(s)' = "absent"
  PROVE  [VMs!Next]_VMs!vars
<1> DEFINE stage == [u \in Slots |-> Stage(u)]
<1> USE DEF VMs!vars, VMs!Slots, Slots
<1>1. stage' = [stage EXCEPT ![s] = Stage(s)'] /\ stage[s] = Stage(s)
  OBVIOUS
<1>2. CASE Stage(s)' = Stage(s)
  BY <1>2
<1>3. CASE Stage(s) = "starting" /\ Stage(s)' = "started"
  BY <1>1, <1>3 DEF VMs!Next, VMs!Boot, VMs!Move
<1>4. CASE Stage(s) \in {"starting", "started"} /\ Stage(s)' = "failed"
  BY <1>1, <1>4 DEF VMs!Next, VMs!GiveUp, VMs!Move
<1>5. CASE Stage(s) = "failed" /\ Stage(s)' = "absent"
  BY <1>1, <1>5 DEF VMs!Next, VMs!Abandon, VMs!Move
<1>6. CASE Stage(s) \in {"starting", "started", "failed"} /\ Stage(s)' = "up"
  BY <1>1, <1>6 DEF VMs!Next, VMs!Detach, VMs!Coming, VMs!Move
<1>7. CASE Stage(s) \notin {"absent", "down"} /\ Stage(s)' = "down"
  <2>1. stage' = [u \in Slots |-> IF u \in {s} THEN "down" ELSE stage[u]]
    BY <1>7
  <2>2. VMs!Lose({s}) /\ {s} \in SUBSET VMs!Present
    BY <1>7, <2>1 DEF VMs!Lose, VMs!Present
  <2> QED
    BY <2>2 DEF VMs!Next
<1>8. CASE Stage(s) = "down" /\ Stage(s)' = "absent"
  BY <1>1, <1>8 DEF VMs!Next, VMs!Release, VMs!Move
<1> QED
  BY <1>2, <1>3, <1>4, <1>5, <1>6, <1>7, <1>8

\* A command that begins changes no stage; `snapshot delete` forgets a name.
LEMMA StartIsAStep ==
  ASSUME IInv, NEW p \in Procs, Start(p)
  PROVE  [VMs!Next]_VMs!vars
<1>0. ProcsOK /\ pc[p] = "idle" /\ Shape /\ Step(p) /\ JobOK(p)
  BY DEF IInv, Shape, TypeOK, Step, Start, StartRun, StartRestore, StartDestroy, StartSnapshot,
         StartPortsAdd, StartPortsRm, StartPortsReload, DeleteSnapshot, Begin
<1>1. job[p].cmd = "none" /\ UNCHANGED <<rows, unit>>
  BY <1>0 DEF JobOK, CommandFits, Start, StartRun, StartRestore, StartDestroy, StartSnapshot,
              StartPortsAdd, StartPortsRm, StartPortsReload, DeleteSnapshot, Begin, ledger,
              host, dir
<1>2. ASSUME NEW s \in Slots PROVE p \notin Makers(s)'
  <2>1. ASSUME NEW cmd, NEW label, NEW v, NEW n, NEW P, NEW T, Begin(p, cmd, label, v, n, P, T),
               v = NoSlot \/ cmd \notin {"run", "restore"}
        PROVE  p \notin Makers(s)'
    <3>1. job'[p].vm = v /\ job'[p].cmd = cmd
      BY <1>0, <2>1 DEF Begin, ProcsOK
    <3> QED
      BY <2>1, <3>1, NoSlotIsNone DEF Makers
  <2>2. CASE \E n \in Names : DeleteSnapshot(p, n)
    BY <1>1, <2>2 DEF DeleteSnapshot, Makers
  <2>3. CASE StartRun(p) \/ \E n \in Names : StartRestore(p, n)
    BY <2>1, <2>3 DEF StartRun, StartRestore
  <2>4. CASE \E u \in Slots : StartDestroy(p, u) \/ StartPortsReload(p, u)
    BY <2>1, <2>4 DEF StartDestroy, StartPortsReload
  <2>5. CASE \E u \in Slots, n \in Names : StartSnapshot(p, u, n)
    BY <2>1, <2>5 DEF StartSnapshot
  <2>6. CASE \E u \in Slots, q \in Ports : StartPortsAdd(p, u, q) \/ StartPortsRm(p, u, q)
    BY <2>1, <2>6 DEF StartPortsAdd, StartPortsRm
  <2> QED
    BY <2>2, <2>3, <2>4, <2>5, <2>6 DEF Start
<1>3. \A s \in Slots : Stage(s)' = Stage(s)
  BY <1>0, <1>1, <1>2, SameStage DEF Makers
<1>4. [s \in Slots |-> Stage(s)]' = [s \in Slots |-> Stage(s)]
  BY <1>3
<1>5. CASE \E n \in Names : DeleteSnapshot(p, n)
  <2>1. \E n \in Names : VMs!Forget(n)
    BY <1>4, <1>5 DEF DeleteSnapshot, VMs!Forget
  <2> QED
    BY <2>1 DEF VMs!Next
<1>6. CASE ~\E n \in Names : DeleteSnapshot(p, n)
  <2>1. snaps' = snaps
    BY <1>0, <1>6, SnapsFootprint DEF Record, At
  <2> QED
    BY <1>4, <2>1 DEF VMs!vars
<1> QED
  BY <1>5, <1>6

\* The slot a run or restore claims starts its life.
LEMMA ClaimIsAStep ==
  ASSUME IInv, IInv', NEW p \in Procs, Claim(p)
  PROVE  [VMs!Next]_VMs!vars
<1>0. ProcsOK /\ Shape /\ Step(p) /\ job[p].vm = NoSlot /\ job[p].cmd \in {"run", "restore"}
  BY DEF IInv, Shape, TypeOK, Step, Work, Claim, At, JobOK, CommandFits
<1>1. PICK s \in Slots : /\ IsLowestFree(s) /\ rows' = rows \cup {s}
                         /\ job' = [job EXCEPT ![p].vm = s]
  BY DEF Claim
<1>2. job'[p].vm = s /\ job'[p].cmd = job[p].cmd /\ pc'[p] = "chroot" /\ snaps' = snaps
      /\ unit' = unit
  BY <1>0, <1>1 DEF Claim, ProcsOK, Jobs, host, dir
<1>3. ASSUME NEW u \in Slots, u # s PROVE Stage(u)' = Stage(u)
  <2>1. p \notin Makers(u) /\ p \notin Makers(u)'
    BY <1>0, <1>2, <1>3, NoSlotIsNone DEF Makers
  <2> QED
    BY <1>0, <1>1, <1>2, <1>3, <2>1, SameStage
<1>4. Stage(s)' = "starting"
  <2>1. Makers(s)' = {p}
    BY <1>0, <1>2, NoSlotIsNone DEF IInv, Alone, Makers
  <2>2. Stage(s)' = Made(p, s)'
    BY <2>1, MadeStage
  <2> QED
    BY <1>1, <1>2, <2>2 DEF Made
<1>5. Stage(s) = "absent" /\ \A u \in Slots : u < s => Stage(u) # "absent"
  <2>1. ASSUME NEW u PROVE Stage(u) = "absent" <=> u \notin rows
    BY DEF Stage
  <2> QED
    BY <1>1, <2>1 DEF IsLowestFree
<1>6. [u \in Slots |-> Stage(u)]' = [[u \in Slots |-> Stage(u)] EXCEPT ![s] = "starting"]
  BY <1>3, <1>4
<1>7. VMs!Claim(s)
  BY <1>2, <1>5, <1>6 DEF VMs!Claim, VMs!Move, VMs!Slots, Slots
<1> QED
  BY <1>7 DEF VMs!Next, VMs!Slots, Slots

\* One step of a command is one of the abstract VM's, or none.
LEMMA CommandIsAStep ==
  ASSUME IInv, IInv', NEW p \in Procs, Step(p), ~Start(p), ~Claim(p)
  PROVE  [VMs!Next]_VMs!vars
<1>0. Shape /\ ~\E n \in Names : DeleteSnapshot(p, n)
  BY DEF IInv, Start
<1>1. ASSUME NEW s \in Slots, s # job[p].vm PROVE Stage(s)' = Stage(s)
  <2>1. p \notin Makers(s) /\ p \notin Makers(s)'
    BY <1>0, <1>1, KeepsCommand, NoSlotIsNone DEF Makers, NoJob
  <2>2. s \in rows' <=> s \in rows
    BY <1>0, <1>1, RowsFootprint DEF Unclaim, Remove
  <2> QED
    BY <1>0, <1>1, <2>1, <2>2, SameStage, HostFootprint DEF SameHost
<1>2. CASE job[p].vm \notin Slots
  <2>1. [s \in Slots |-> Stage(s)]' = [s \in Slots |-> Stage(s)]
    BY <1>1, <1>2
  <2>2. snaps' = snaps
    BY <1>0, <1>2, SnapsFootprint, JobFields
       DEF Record, At, IInv, Shape, TypeOK, JobOK
  <2> QED
    BY <2>1, <2>2 DEF VMs!vars
<1>3. ASSUME NEW s \in Slots, s = job[p].vm, ~Record(p) PROVE [VMs!Next]_VMs!vars
  <2>1. UNCHANGED snaps /\ \A u \in Slots : u # s => Stage(u)' = Stage(u)
    BY <1>0, <1>1, <1>3, SnapsFootprint
  <2>2. CASE job[p].cmd \in {"run", "restore"}
    BY <1>3, <2>1, <2>2, MakingMoves, MovesAreSteps
  <2>3. CASE job[p].cmd \notin {"run", "restore"}
    BY <1>3, <2>1, <2>3, IdleMoves, MovesAreSteps
  <2> QED
    BY <2>2, <2>3
<1>4. ASSUME NEW s \in Slots, s = job[p].vm, Record(p) PROVE [VMs!Next]_VMs!vars
  <2>1. job[p].cmd = "snapshot" /\ job[p].name \in Names
    BY <1>4 DEF Record, At, IInv, Shape, JobOK, CommandFits
  <2>2. Stage(s) = "down" /\ Stage(s)' = "down"
    BY <1>4, <2>1, IdleMoves
  <2>3. [u \in Slots |-> Stage(u)]' = [u \in Slots |-> Stage(u)]
    BY <1>1, <1>4, <2>2
  <2>4. VMs!Save(s, job[p].name)
    BY <1>4, <2>2, <2>3 DEF Record, VMs!Save
  <2> QED
    BY <2>1, <2>4 DEF VMs!Next, VMs!Slots, Slots
<1> QED
  BY <1>2, <1>3, <1>4

\* A reboot brings every VM down at once, and every command with it.
LEMMA RebootIsAStep ==
  ASSUME Reboot
  PROVE  [VMs!Next]_VMs!vars
<1> DEFINE S == {s \in Slots : Stage(s) \notin {"absent", "down"}}
<1>1. ASSUME NEW s \in Slots PROVE Stage(s)' = IF s \in S THEN "down" ELSE Stage(s)
  <2>1. Makers(s)' = {}
    BY DEF Reboot, NoJob, Makers
  <2>2. Stage(s)' = IF s \in rows THEN "down" ELSE "absent"
    BY <2>1, IdleStage DEF Reboot, Idle, ledger
  <2>3. Stage(s) = "absent" <=> s \notin rows
    BY DEF Stage
  <2> QED
    BY <2>2, <2>3
<1>2. VMs!Lose(S)
  BY <1>1 DEF VMs!Lose, VMs!Slots, Slots, Reboot, ledger
<1> QED
  BY <1>2 DEF VMs!Next, VMs!Present, VMs!Slots, Slots

\* A unit that ends takes an up VM down; one that is being made is still that.
LEMMA ExitIsAStep ==
  ASSUME IInv, NEW s \in Slots, VMExits(s)
  PROVE  [VMs!Next]_VMs!vars
<1>1. /\ UNCHANGED <<rows, snaps, pc, job>> /\ unit'[s] = "none"
      /\ \A u \in Slots : u # s => unit'[u] = unit[u]
  BY DEF VMExits, UnitGone, IInv, Shape, TypeOK, HostOK, ledger
<1>2. \A u \in Slots : Makers(u)' = Makers(u)
  BY <1>1 DEF Makers
<1>3. \A u \in Slots : u # s => Stage(u)' = Stage(u)
  BY <1>1, <1>2 DEF Stage
<1>4. Stage(s)' = Stage(s) \/ (Stage(s) = "up" /\ Stage(s)' = "down")
  BY <1>1, <1>2 DEF Stage
<1> QED
  BY <1>1, <1>3, <1>4, MovesAreSteps

-----------------------------------------------------------------------------
(* Live VMs have rows, unless a call fails *)

\* How far run or restore has come, where restore may yet give its VM up: a VM
\* whose commands are all refused by the host, not failed, is down by then.
MakeStage(p, s) ==
  /\ pc[p] \in {"chroot", "tap", "launch", "unclaim"} => ~Alive(s)
  /\ pc[p] \in {"launch", "boot"} => tap[s]
  /\ pc[p] = "boot" => unit[s] \in {"none", "waiting"} /\ fwd[s] = {}
  /\ pc[p] \in {"notify", "forward"} /\ job[p].cmd = "restore" => job[p].todo \cap fwd[s] = {}

LiveInLedger == \A s \in Slots : Alive(s) => s \in rows

LiveInv ==
  /\ LiveInLedger
  /\ \A p \in Procs : job[p].vm # NoSlot => MakeStage(p, job[p].vm)

\* The hypotheses of a step, in one place.
LiveStep(p) == IInv /\ LiveInv /\ OneOperator = TRUE /\ "error" \notin Faults /\ Step(p)

LEMMA OtherMakeStages ==
  ASSUME NEW p \in Procs, LiveStep(p), NEW q \in Procs \ {p}, job'[q].vm # NoSlot
  PROVE  MakeStage(q, job[q].vm)'
<1> USE DEF LiveStep
<1>1. pc'[q] = pc[q] /\ job'[q] = job[q]
  BY ProcsFootprint DEF IInv
<1>2. PICK s \in Slots : s = job[q].vm /\ s # job[p].vm
  BY <1>1, JobFields DEF IInv, Shape, TypeOK, Alone
<1>3. SameHost(s) /\ MakeStage(q, s)
  BY <1>1, <1>2, HostFootprint DEF IInv, LiveInv
<1> QED
  BY <1>1, <1>2, <1>3 DEF SameHost, MakeStage, Alive

\* What the host refuses to do for a restore shows that its VM is down.
LEMMA RefusedIsDown ==
  ASSUME NEW p \in Procs, LiveStep(p), Rejected(p), job[p].vm # NoSlot, job[p].cmd = "restore"
  PROVE  ~Alive(job[p].vm)
<1> USE DEF LiveStep
<1>1. /\ MakeStage(p, job[p].vm) /\ CannotDo(p) /\ pc[p] \in Labels
      /\ CommandFits(pc[p], job[p].cmd) /\ pc[p] # "claim"
  BY DEF IInv, LiveInv, Shape, TypeOK, ProcsOK, JobOK, Rejected
<1>2. pc[p] \in {"chroot", "tap", "launch", "boot", "notify", "forward", "unclaim", "wait"}
  BY <1>1 DEF CommandFits, Labels
<1>3. CASE pc[p] = "forward"
  <2>1. PICK q \in job[p].todo : ~Alive(job[p].vm) \/ q \in fwd[job[p].vm]
    BY <1>1, <1>3 DEF CannotDo
  <2> QED
    BY <1>1, <1>3, <2>1 DEF MakeStage
<1>4. CASE pc[p] = "boot"
  BY <1>1, <1>4 DEF CannotDo, MakeStage, Alive
<1>5. CASE pc[p] \in {"unclaim", "notify", "wait"}
  BY <1>1, <1>5 DEF CannotDo
<1> QED
  BY <1>1, <1>2, <1>3, <1>4, <1>5 DEF MakeStage

\* A command's own step, while it keeps its VM.
LEMMA OwnMakeStage ==
  ASSUME NEW p \in Procs, LiveStep(p), NEW s \in Slots, s = job[p].vm, job'[p].vm = s
  PROVE  MakeStage(p, s)'
<1> USE DEF LiveStep
<1>0. /\ MakeStage(p, s) /\ SlotOK(s) /\ s # NoSlot /\ ProcsOK /\ HostOK
      /\ CommandFits(pc[p], job[p].cmd) /\ pc[p] \notin {"idle", "claim"}
  BY NoSlotIsNone DEF IInv, LiveInv, Shape, TypeOK, JobOK
<1>g. ASSUME NEW label, Goto(p, label) PROVE pc'[p] = label /\ job' = job
  BY <1>0, <1>g DEF Goto, ProcsOK
<1>e. ~Exit(p)
  BY <1>0 DEF Exit, ProcsOK, NoJob
<1>i. ASSUME pc'[p] \notin {"chroot", "tap", "launch", "unclaim", "boot", "notify", "forward"}
      PROVE  MakeStage(p, s)'
  BY <1>i DEF MakeStage
<1>1. CASE SetupChroot(p) \/ SetupRestoreChroot(p)
  BY <1>0, <1>1, <1>g DEF SetupChroot, SetupRestoreChroot, At, MakeStage, Alive
<1>2. CASE SetupTap(p)
  <2>1. pc[p] = "tap" /\ pc'[p] = "launch" /\ tap'[s] /\ unit' = unit
    BY <1>0, <1>2, <1>g DEF SetupTap, At, HostOK
  <2> QED
    BY <1>0, <2>1 DEF MakeStage, Alive
<1>3. CASE Launch(p)
  <2>1. pc[p] = "launch" /\ pc'[p] = "boot" /\ unit'[s] = "waiting" /\ UNCHANGED <<tap, fwd>>
    BY <1>0, <1>3, <1>g DEF Launch, At, HostOK
  <2>2. fwd[s] = {}
    BY <1>0, <1>3 DEF Launch, SlotOK
  <2> QED
    BY <1>0, <2>1, <2>2 DEF MakeStage
<1>4. CASE Boot(p)
  <2>1. pc[p] = "boot" /\ pc'[p] \in {"notify", "forward"} /\ fwd' = fwd
    BY <1>0, <1>4 DEF Boot, At, ProcsOK
  <2> QED
    BY <1>0, <2>1 DEF MakeStage
<1>5. CASE Forward(p)
  <2>1. PICK q \in job[p].todo : /\ fwd' = [fwd EXCEPT ![s] = fwd[s] \cup {q}]
                                 /\ job' = [job EXCEPT ![p].todo = job[p].todo \ {q}]
    BY <1>5 DEF Forward
  <2>2. /\ pc[p] = "forward" /\ pc' = pc /\ fwd'[s] = fwd[s] \cup {q}
        /\ job'[p].todo = job[p].todo \ {q} /\ job'[p].cmd = job[p].cmd
    BY <1>0, <1>5, <2>1 DEF Forward, At, ProcsOK, HostOK, Jobs
  <2> QED
    BY <1>0, <2>2 DEF MakeStage
<1>6. CASE CheckAlive(p)
  <2>1. job[p].cmd = "ports add" /\ Goto(p, "forward")
    BY <1>0, <1>6, <1>e DEF CheckAlive, At, CommandFits
  <2>2. pc'[p] = "forward" /\ job' = job
    BY <1>g, <2>1
  <2> QED
    BY <2>1, <2>2 DEF MakeStage
<1>7. CASE Rejected(p)
  <2>1. job[p].cmd = "restore" /\ Goto(p, "unclaim") /\ unit' = unit
    BY <1>7, <1>e DEF Rejected, Error, host, dir
  <2>2. pc'[p] = "unclaim" /\ ~Alive(s)
    BY <1>0, <1>7, <1>g, <2>1, RefusedIsDown
  <2> QED
    BY <2>1, <2>2 DEF MakeStage, Alive
<1>8. CASE CopyFile(p) \/ Restart(p)
  <2>1. pc'[p] \in {"copy", "stop", "restart"}
    BY <1>0, <1>8 DEF CopyFile, Restart, At, ProcsOK
  <2> QED
    BY <1>i, <2>1
<1>9. CASE \E label \in {"ask", "wait", "pause", "create", "copy", "unforward", "untap", "rmdir",
                         "record", "remove", "alive"} : Goto(p, label)
  BY <1>9, <1>g, <1>i
<1>10. CASE Ask(p) \/ CheckName(p) \/ Pause(p) \/ CreateSnapshot(p)
  BY <1>9, <1>10, <1>e DEF Ask, CheckName, Pause, CreateSnapshot
<1>13. CASE Notify(p)
  <2>1. pc[p] = "notify" /\ pc'[p] = "forward" /\ job' = job /\ fwd' = fwd
    BY <1>13, <1>g DEF Notify, At, host
  <2> QED
    BY <1>0, <2>1 DEF MakeStage
<1>14. CASE Wait(p)
  <2>1. Goto(p, "unclaim") /\ ~Alive(s) /\ unit' = unit
    BY <1>14, <1>e DEF Wait, Error, host
  <2>2. pc'[p] = "unclaim"
    BY <1>g, <2>1
  <2> QED
    BY <2>1, <2>2 DEF MakeStage, Alive
<1>11. CASE Stop(p) \/ StopForwards(p) \/ TeardownTap(p) \/ RemoveDir(p) \/ Record(p)
         \/ SetPorts(p)
  BY <1>9, <1>11 DEF Stop, StopForwards, TeardownTap, RemoveDir, Record, SetPorts
<1>12. ~Start(p) /\ ~Claim(p) /\ ~Fail(p)
  BY <1>0 DEF Start, StartRun, StartRestore, StartDestroy, StartSnapshot, StartPortsAdd,
              StartPortsRm, StartPortsReload, DeleteSnapshot, Begin, Claim, At, Fail
<1> QED
  BY <1>1, <1>2, <1>3, <1>4, <1>5, <1>6, <1>7, <1>8, <1>10, <1>11, <1>12, <1>13, <1>14, <1>e
     DEF Step, Work, Detach, Interrupt, Unclaim, Remove, Kill

\* A row goes only after its VM has: restore gives up VMs that are down.
LEMMA LiveStaysInLedger ==
  ASSUME NEW p \in Procs, LiveStep(p)
  PROVE  LiveInLedger'
<1> USE DEF LiveStep
<1> SUFFICES ASSUME NEW s \in Slots, Alive(s)' PROVE s \in rows'
  BY DEF LiveInLedger
<1>1. CASE s # job[p].vm
  <2>1. Alive(s) /\ s \in rows
    BY <1>1, HostFootprint DEF SameHost, Alive, IInv, LiveInv, LiveInLedger
  <2> QED
    BY <1>1, <2>1, LedgerFootprint DEF IInv
<1>2. CASE s = job[p].vm
  <2>0. job[p].vm # NoSlot /\ s \in rows
    BY <1>2, NoSlotIsNone DEF IInv, StageOK
  <2>1. CASE Unclaim(p) \/ Remove(p)
    <3>1. ~Alive(s) /\ unit' = unit
      BY <1>2, <2>0, <2>1 DEF Unclaim, Remove, At, LiveInv, MakeStage, IInv, StageOK,
                              TearingDown, host, dir
    <3> QED
      BY <3>1 DEF Alive
  <2>2. ~Claim(p)
    BY <2>0 DEF Claim, At, IInv, Shape, JobOK
  <2> QED
    BY <2>0, <2>1, <2>2, RowsFootprint
<1> QED
  BY <1>1, <1>2

LEMMA LiveInvHolds ==
  ASSUME OneOperator = TRUE, "error" \notin Faults
  PROVE  Spec => []LiveInv
<1>1. Init => LiveInv
  BY DEF Init, NoJob, LiveInv, LiveInLedger, Alive
<1>2. IInv /\ LiveInv /\ [Next]_vars => LiveInv'
  <2> SUFFICES ASSUME IInv, LiveInv, [Next]_vars PROVE LiveInv'
    OBVIOUS
  <2>1. ASSUME NEW p \in Procs, Step(p) PROVE LiveInv'
    <3>0. LiveStep(p)
      BY <2>1 DEF LiveStep
    <3>1. ASSUME job'[p].vm # NoSlot PROVE MakeStage(p, job[p].vm)'
      <4>0. ProcsOK /\ HostOK
        BY DEF IInv, Shape, TypeOK
      <4>1. CASE Start(p)
        <5>1. ASSUME NEW cmd, NEW label, NEW v, NEW n, NEW P, NEW T,
                     Begin(p, cmd, label, v, n, P, T)
              PROVE  pc'[p] = label
          BY <4>0, <5>1 DEF Begin, ProcsOK
        <5>2. ~\E n \in Names : DeleteSnapshot(p, n)
          BY <3>1 DEF DeleteSnapshot, IInv, Shape, JobOK
        <5>3. pc'[p] \in {"claim", "stop", "checkname", "setports", "restart"}
          BY <4>1, <5>1, <5>2 DEF Start, StartRun, StartRestore, StartDestroy, StartSnapshot,
                                  StartPortsAdd, StartPortsRm, StartPortsReload
        <5> QED
          BY <5>3 DEF MakeStage
      <4>2. CASE Claim(p)
        <5>1. PICK s \in Slots : s \notin rows /\ job' = [job EXCEPT ![p].vm = s]
          BY <4>2 DEF Claim, IsLowestFree
        <5>2. job'[p].vm = s /\ pc'[p] = "chroot" /\ unit' = unit
          BY <4>0, <4>2, <5>1 DEF Claim, ProcsOK, Jobs, host, dir
        <5> QED
          BY <5>1, <5>2 DEF LiveInv, LiveInLedger, MakeStage, Alive
      <4>3. CASE ~Start(p) /\ ~Claim(p)
        <5>1. job'[p].vm = job[p].vm
          BY <2>1, <3>1, <4>3, KeepsCommand DEF IInv, NoJob
        <5>2. PICK s \in Slots : s = job[p].vm
          BY <3>1, <4>0, <5>1, JobFields
        <5> QED
          BY <3>0, <5>1, <5>2, OwnMakeStage
      <4> QED
        BY <4>1, <4>2, <4>3
    <3>2. \A q \in Procs : job'[q].vm # NoSlot => MakeStage(q, job[q].vm)'
      BY <3>0, <3>1, OtherMakeStages
    <3> QED
      BY <3>0, <3>2, LiveStaysInLedger DEF LiveInv
  <2>2. ASSUME NEW v \in Slots, VMExits(v) PROVE LiveInv'
    <3>1. /\ UNCHANGED <<rows, tap, pc, job>>
          /\ \A s \in Slots : \/ unit'[s] = unit[s] /\ fwd'[s] = fwd[s]
                              \/ unit'[s] = "none" /\ fwd'[s] = {}
      BY <2>2 DEF VMExits, UnitGone, ledger, IInv, Shape, TypeOK, HostOK
    <3>2. ASSUME NEW p \in Procs, job'[p].vm # NoSlot PROVE MakeStage(p, job[p].vm)'
      <4>1. job[p].vm \in Slots /\ MakeStage(p, job[p].vm)
        BY <3>1, <3>2, JobFields DEF IInv, Shape, TypeOK, LiveInv
      <4> QED
        BY <3>1, <4>1 DEF MakeStage, Alive
    <3> QED
      BY <3>1, <3>2 DEF LiveInv, LiveInLedger, Alive
  <2>3. CASE Reboot
    BY <2>3 DEF Reboot, NoJob, LiveInv, LiveInLedger, Alive
  <2>4. CASE UNCHANGED vars
    <3>1. UNCHANGED <<rows, tap, unit, fwd, pc, job>>
      BY <2>4 DEF vars, ledger, host, dir
    <3> QED
      BY <3>1 DEF LiveInv, LiveInLedger, MakeStage, Alive
  <2> QED
    BY <2>1, <2>2, <2>3, <2>4 DEF Next, Step
<1> QED
  BY <1>1, <1>2, IInvHolds, PTL DEF Spec

-----------------------------------------------------------------------------
(* Forwarders: what runs is what is recorded, if no call fails and no labctl *)
(* is killed; VMs may exit and the host may reboot                           *)

\* A VM that no command is at work on: it runs, with its row's forwarders, or
\* it is down.
Steady(s) ==
  /\ unit[s] \in {"none", "running"}
  /\ unit[s] = "running" => fwd[s] = rowPorts[s]

\* While ports are being added or removed: what the forwarders still differ by.
Adding(p, s) ==
  /\ unit[s] \in {"none", "running"} /\ job[p].todo \subseteq rowPorts[s]
  /\ unit[s] = "running" => fwd[s] = rowPorts[s] \ job[p].todo

Removing(p, s) ==
  /\ unit[s] \in {"none", "running"} /\ job[p].todo \cap rowPorts[s] = {}
  /\ unit[s] = "running" => fwd[s] = rowPorts[s] \cup job[p].todo

\* What `ports add` and `ports rm` are about to write.
ToAdd(p, s) == job[p].ports = rowPorts[s] \cup job[p].todo /\ job[p].todo \cap rowPorts[s] = {}
ToRemove(p, s) == job[p].ports = rowPorts[s] \ job[p].todo /\ job[p].todo \subseteq rowPorts[s]

\* What a command leaves behind where it may stop with an error.
ForwardStage(p, s) ==
  /\ pc[p] \in {"chroot", "tap", "launch", "boot"} => job[p].ports = rowPorts[s]
  /\ pc[p] \in {"notify", "forward", "alive"} => Adding(p, s)
  /\ pc[p] = "unforward" /\ job[p].cmd = "ports rm" => Removing(p, s)
  /\ pc[p] = "setports" =>
       /\ Steady(s)
       /\ job[p].cmd = "ports add" => ToAdd(p, s)
       /\ job[p].cmd = "ports rm" => ToRemove(p, s)
  /\ pc[p] \in {"ask", "wait", "restart", "checkname", "pause"} => Steady(s)
  /\ pc[p] \in {"create", "copy"} => unit[s] \in {"none", "paused"}
  /\ pc[p] = "copy" => chroot[s] # NoSlot /\ dump[s] # NoSlot

FwdInv ==
  /\ \A s \in Slots : (\A p \in Procs : job[p].vm # s) => Steady(s)
  /\ \A p \in Procs : job[p].vm # NoSlot => ForwardStage(p, job[p].vm)

NoErrors == "error" \notin Faults /\ "kill" \notin Faults

FwdStep(p) == LiveStep(p) /\ FwdInv /\ NoErrors

LEMMA OtherForwards ==
  ASSUME NEW p \in Procs, FwdStep(p), NEW q \in Procs \ {p}, job'[q].vm # NoSlot
  PROVE  ForwardStage(q, job[q].vm)'
<1> USE DEF FwdStep, LiveStep
<1>1. pc'[q] = pc[q] /\ job'[q] = job[q]
  BY ProcsFootprint DEF IInv
<1>2. PICK s \in Slots : s = job[q].vm /\ s # job[p].vm /\ s \in rows
  BY <1>1, JobFields DEF IInv, Shape, TypeOK, Alone, StageOK
<1>3. SameHost(s) /\ rowPorts'[s] = rowPorts[s]
  BY <1>2, HostFootprint, PortsFootprint DEF IInv
<1>4. ForwardStage(q, s)
  BY <1>1, <1>2 DEF FwdInv
<1>5. /\ Steady(s) => Steady(s)'
      /\ Adding(q, s) => Adding(q, s)'
      /\ Removing(q, s) => Removing(q, s)'
      /\ ToAdd(q, s) => ToAdd(q, s)'
      /\ ToRemove(q, s) => ToRemove(q, s)'
      /\ Alive(s)' = Alive(s)
  BY <1>1, <1>3 DEF SameHost, Steady, Adding, Removing, ToAdd, ToRemove, Alive
<1>6. ForwardStage(q, s)'
  BY <1>1, <1>3, <1>4, <1>5, ZenonT(60) DEF SameHost, ForwardStage
<1> QED
  BY <1>1, <1>2, <1>6

\* A VM that neither was nor is this command's.
LEMMA OtherSteady ==
  ASSUME NEW p \in Procs, FwdStep(p), NEW s \in Slots, s # job[p].vm,
         \A q \in Procs : job'[q].vm # s
  PROVE  Steady(s)'
<1> USE DEF FwdStep, LiveStep
<1>1. \A q \in Procs : job[q].vm # s
  BY ProcsFootprint DEF IInv
<1>2. Steady(s) /\ (Alive(s) => s \in rows)
  BY <1>1 DEF FwdInv, LiveInv, LiveInLedger
<1>3. SameHost(s)
  BY HostFootprint DEF IInv
<1>4. unit[s] = "running" => rowPorts'[s] = rowPorts[s]
  BY <1>2, PortsFootprint DEF IInv, Alive
<1> QED
  BY <1>2, <1>3, <1>4 DEF SameHost, Steady

\* A command that begins finds its VM steady.
LEMMA StartForwards ==
  ASSUME NEW p \in Procs, FwdStep(p), Start(p), job'[p].vm # NoSlot
  PROVE  ForwardStage(p, job[p].vm)'
<1> USE DEF FwdStep, LiveStep
<1>0. ProcsOK /\ JobOK(p) /\ LedgerOK
  BY DEF IInv, Shape, TypeOK
<1>1. ASSUME NEW s \in Slots, VMFree(s) PROVE Steady(s)
  BY <1>1 DEF VMFree, FwdInv
<1>2. ASSUME NEW cmd, NEW label, NEW v, NEW n, NEW P, NEW T, Begin(p, cmd, label, v, n, P, T)
      PROVE  /\ pc'[p] = label /\ job'[p].vm = v /\ job'[p].cmd = cmd
             /\ job'[p].ports = P /\ job'[p].todo = T
             /\ UNCHANGED <<rowPorts, unit, fwd>>
  BY <1>0, <1>2 DEF Begin, ProcsOK, ledger, host, dir
<1> USE DEF ForwardStage, Steady
<1>3. CASE StartRun(p) \/ \E n \in Names : StartRestore(p, n) \/ DeleteSnapshot(p, n)
  <2>1. ~\E n \in Names : DeleteSnapshot(p, n)
    BY <1>0 DEF DeleteSnapshot, JobOK
  <2>2. job'[p].vm = NoSlot
    BY <1>2, <1>3, <2>1 DEF StartRun, StartRestore
  <2> QED
    BY <2>2
<1>4. ASSUME NEW s \in Slots, StartDestroy(p, s) PROVE ForwardStage(p, job[p].vm)'
  <2>1. pc'[p] = "stop"
    BY <1>2, <1>4 DEF StartDestroy
  <2> QED
    BY <2>1
<1>5. ASSUME NEW s \in Slots, NEW n \in Names, StartSnapshot(p, s, n)
      PROVE  ForwardStage(p, job[p].vm)'
  <2>1. pc'[p] = "checkname" /\ job'[p].vm = s /\ UNCHANGED <<rowPorts, unit, fwd>>
    BY <1>2, <1>5 DEF StartSnapshot
  <2> QED
    BY <1>1, <1>5, <2>1 DEF StartSnapshot
<1>6. ASSUME NEW s \in Slots, StartPortsReload(p, s) PROVE ForwardStage(p, job[p].vm)'
  <2>1. Begin(p, "ports reload", "restart", s, NoName, rowPorts[s], rowPorts[s]) /\ VMFree(s)
    BY <1>6 DEF StartPortsReload
  <2>2. pc'[p] = "restart" /\ job'[p].vm = s /\ UNCHANGED <<rowPorts, unit, fwd>>
    BY <1>0, <2>1 DEF Begin, ProcsOK, ledger, host, dir
  <2> QED
    BY <1>1, <2>1, <2>2
<1>7. ASSUME NEW s \in Slots, NEW q \in Ports, StartPortsAdd(p, s, q)
      PROVE  ForwardStage(p, job[p].vm)'
  <2>1. Begin(p, "ports add", "setports", s, NoName, rowPorts[s] \cup {q}, {q})
        /\ VMFree(s) /\ q \notin rowPorts[s]
    BY <1>7 DEF StartPortsAdd
  <2>2. /\ pc'[p] = "setports" /\ job'[p].vm = s /\ job'[p].cmd = "ports add"
        /\ job'[p].ports = rowPorts[s] \cup {q} /\ job'[p].todo = {q}
        /\ UNCHANGED <<rowPorts, unit, fwd>>
    BY <1>2, <2>1
  <2> QED
    BY <1>1, <2>1, <2>2 DEF ToAdd
<1>8. ASSUME NEW s \in Slots, NEW q \in Ports, StartPortsRm(p, s, q)
      PROVE  ForwardStage(p, job[p].vm)'
  <2>1. Begin(p, "ports rm", "setports", s, NoName, rowPorts[s] \ {q}, {q})
        /\ VMFree(s) /\ q \in rowPorts[s]
    BY <1>8 DEF StartPortsRm
  <2>2. /\ pc'[p] = "setports" /\ job'[p].vm = s /\ job'[p].cmd = "ports rm"
        /\ job'[p].ports = rowPorts[s] \ {q} /\ job'[p].todo = {q}
        /\ UNCHANGED <<rowPorts, unit, fwd>>
    BY <1>2, <2>1
  <2> QED
    BY <1>1, <2>1, <2>2 DEF ToRemove
<1> QED
  BY <1>3, <1>4, <1>5, <1>6, <1>7, <1>8 DEF Start

\* A claimed slot's row gets the ports the command brings along.
LEMMA ClaimForwards ==
  ASSUME NEW p \in Procs, FwdStep(p), Claim(p)
  PROVE  ForwardStage(p, job[p].vm)'
<1> USE DEF FwdStep, LiveStep
<1>1. PICK s \in Slots : /\ rowPorts' = [rowPorts EXCEPT ![s] = job[p].ports]
                         /\ job' = [job EXCEPT ![p].vm = s]
  BY DEF Claim
<1>2. job'[p].vm = s /\ job'[p].ports = job[p].ports /\ pc'[p] = "chroot"
  BY <1>1 DEF Claim, IInv, Shape, TypeOK, ProcsOK, Jobs
<1>3. rowPorts'[s] = job[p].ports
  BY <1>1 DEF IInv, Shape, TypeOK, LedgerOK
<1> QED
  BY <1>2, <1>3 DEF ForwardStage

\* Where a command may stop with an error its VM is down or steady.
LEMMA RejectedIsHarmless ==
  ASSUME NEW p \in Procs, FwdStep(p), Rejected(p), job[p].vm # NoSlot
  PROVE  Steady(job[p].vm)
<1> DEFINE s == job[p].vm
<1> USE DEF FwdStep, LiveStep
<1>0. /\ ForwardStage(p, s) /\ MakeStage(p, s) /\ StageOK(p) /\ CommandFits(pc[p], job[p].cmd)
      /\ s \in Slots /\ SlotOK(s) /\ CannotDo(p) /\ pc[p] \in Labels
  BY JobFields DEF IInv, LiveInv, FwdInv, Shape, TypeOK, ProcsOK, JobOK, Rejected
<1>1. ASSUME ~Alive(s) PROVE Steady(s)
  BY <1>1 DEF Alive, Steady
<1>2. CASE pc[p] \in {"chroot", "tap", "launch"}
  BY <1>0, <1>1, <1>2 DEF MakeStage
<1>3. CASE pc[p] = "boot"
  BY <1>0, <1>1, <1>3 DEF MakeStage, CannotDo, Alive
<1>4. CASE pc[p] = "forward"
  <2>1. PICK q \in job[p].todo : ~Alive(s) \/ q \in fwd[s]
    BY <1>0, <1>4 DEF CannotDo
  <2>2. Adding(p, s)
    BY <1>0, <1>4 DEF ForwardStage
  <2> QED
    BY <1>1, <2>1, <2>2 DEF Adding, Alive
<1>5. CASE pc[p] \in {"checkname", "pause", "restart"}
  BY <1>0, <1>5 DEF ForwardStage, CommandFits
<1>6. CASE pc[p] \in {"create", "copy"}
  <2>1. CASE pc[p] = "create"
    BY <1>0, <1>1, <2>1 DEF ForwardStage, CannotDo, SlotOK, Alive
  <2>2. CASE pc[p] = "copy"
    BY <1>0, <2>2 DEF ForwardStage, CannotDo
  <2> QED
    BY <1>6, <2>1, <2>2
<1>7. CASE pc[p] \in {"untap", "record"}
  BY <1>0, <1>1, <1>7 DEF StageOK, TearingDown, CommandFits
<1>8. CASE pc[p] \notin {"chroot", "tap", "launch", "boot", "forward", "checkname", "pause",
                         "restart", "create", "copy", "untap", "record", "claim"}
  BY <1>0, <1>8 DEF CannotDo
<1>9. pc[p] # "claim"
  BY DEF IInv, Shape, JobOK
<1> QED
  BY <1>2, <1>3, <1>4, <1>5, <1>6, <1>7, <1>8, <1>9

\* A command's own step: it keeps its VM and comes to its next stage, or lets
\* go of it and leaves it steady.
LEMMA OwnForwards ==
  ASSUME NEW p \in Procs, FwdStep(p), NEW s \in Slots, s = job[p].vm
  PROVE  \/ job'[p].vm = s /\ ForwardStage(p, s)'
         \/ job'[p].vm = NoSlot /\ Steady(s)'
<1> DEFINE Goal == \/ job'[p].vm = s /\ ForwardStage(p, s)'
                   \/ job'[p].vm = NoSlot /\ Steady(s)'
<1> USE DEF FwdStep, LiveStep
<1>0. /\ ForwardStage(p, s) /\ MakeStage(p, s) /\ StageOK(p) /\ SlotOK(s)
      /\ CommandFits(pc[p], job[p].cmd) /\ s = job[p].vm /\ s # NoSlot /\ s \in rows
      /\ ProcsOK /\ HostOK /\ LedgerOK /\ JobOK(p) /\ pc[p] \notin {"idle", "claim"}
  BY NoSlotIsNone DEF IInv, LiveInv, FwdInv, Shape, TypeOK, JobOK, StageOK
<1>e. ASSUME Exit(p), Steady(s)' PROVE Goal
  <2>1. job'[p].vm = NoSlot
    BY <1>0, <1>e DEF Exit, ProcsOK, NoJob
  <2> QED
    BY <1>e, <2>1
<1>g. ASSUME NEW label, Goto(p, label) PROVE pc'[p] = label /\ job' = job
  BY <1>0, <1>g DEF Goto, ProcsOK
<1>d. ASSUME unit'[s] = "none" PROVE Steady(s)'
  BY <1>d DEF Steady
<1>1. CASE SetupChroot(p) \/ SetupRestoreChroot(p) \/ SetupTap(p) \/ Launch(p)
  <2>1. /\ pc[p] \in {"chroot", "tap", "launch"} /\ pc'[p] \in {"tap", "launch", "boot"}
        /\ job' = job /\ rowPorts' = rowPorts
    BY <1>1, <1>g DEF SetupChroot, SetupRestoreChroot, SetupTap, Launch, At, ledger
  <2> QED
    BY <1>0, <2>1 DEF ForwardStage
<1>4. CASE Boot(p)
  <2>1. /\ pc[p] = "boot" /\ pc'[p] \in {"notify", "forward"} /\ unit'[s] = "running"
        /\ UNCHANGED <<rowPorts, fwd>>
    BY <1>0, <1>4 DEF Boot, Resume, At, ProcsOK, HostOK, ledger
  <2>2. job'[p].vm = s /\ job'[p].todo = job[p].ports
    BY <1>0, <1>4 DEF Boot, ProcsOK, Jobs
  <2> QED
    BY <1>0, <2>1, <2>2 DEF ForwardStage, MakeStage, Adding
<1>5. CASE Forward(p)
  <2>1. PICK q \in job[p].todo : /\ Alive(s) /\ fwd' = [fwd EXCEPT ![s] = fwd[s] \cup {q}]
                                 /\ job' = [job EXCEPT ![p].todo = job[p].todo \ {q}]
    BY <1>5 DEF Forward
  <2>2. job'[p].vm = s /\ job'[p].todo = job[p].todo \ {q} /\ fwd'[s] = fwd[s] \cup {q}
    BY <1>0, <2>1 DEF ProcsOK, Jobs, HostOK
  <2>3. pc[p] = "forward" /\ pc' = pc /\ UNCHANGED <<rowPorts, unit>>
    BY <1>5 DEF Forward, At, ledger
  <2>4. Adding(p, s)
    BY <1>0, <2>3 DEF ForwardStage
  <2>5. Adding(p, s)'
    BY <2>1, <2>2, <2>3, <2>4 DEF Adding, Alive
  <2> QED
    BY <2>2, <2>3, <2>5 DEF ForwardStage
<1>6. CASE Ask(p)
  <2>1. UNCHANGED <<rowPorts, unit, fwd>>
    BY <1>6 DEF Ask, ledger, host
  <2>2. Steady(s)'
    BY <1>0, <1>6, <2>1 DEF Ask, AtAsk, At, ForwardStage, Adding, Steady
  <2>3. CASE Exit(p)
    BY <1>e, <2>2, <2>3
  <2>4. CASE Goto(p, "wait")
    <3>1. pc'[p] = "wait" /\ job' = job
      BY <1>g, <2>4
    <3> QED
      BY <2>2, <3>1 DEF ForwardStage
  <2> QED
    BY <1>6, <2>3, <2>4 DEF Ask
<1>7. CASE Wait(p)
  <2>1. Steady(s)'
    BY <1>0, <1>7 DEF Wait, At, ForwardStage, Steady, ledger, host
  <2>2. CASE Goto(p, "unclaim")
    <3>1. pc'[p] = "unclaim" /\ job' = job
      BY <1>g, <2>2
    <3> QED
      BY <3>1 DEF ForwardStage
  <2> QED
    BY <1>7, <1>e, <2>1, <2>2 DEF Wait, Error
<1>8. CASE Detach(p) \/ Interrupt(p)
  <2>1. Steady(s)'
    BY <1>0, <1>8, <1>d DEF Detach, Interrupt, At, UnitGone, HostOK, ForwardStage, Steady,
                            ledger, host
  <2> QED
    BY <1>8, <1>e, <2>1 DEF Detach, Interrupt
<1>23. CASE Notify(p)
  <2>1. /\ pc[p] = "notify" /\ pc'[p] = "forward" /\ job' = job
        /\ UNCHANGED <<rowPorts, unit, fwd>>
    BY <1>23, <1>g DEF Notify, At, ledger, host
  <2> QED
    BY <1>0, <2>1 DEF ForwardStage, Adding
<1>9. CASE Unclaim(p)
  <2>1. unit'[s] = "none"
    BY <1>0, <1>9 DEF Unclaim, At, MakeStage, Alive, host, dir
  <2> QED
    BY <1>9, <1>d, <1>e, <2>1 DEF Unclaim
<1>10. CASE CheckName(p)
  <2>1. Goto(p, "pause") /\ pc[p] = "checkname" /\ UNCHANGED <<rowPorts, unit, fwd>>
    BY <1>10 DEF CheckName, At, ledger, host, dir
  <2>2. pc'[p] = "pause" /\ job' = job
    BY <1>g, <2>1
  <2> QED
    BY <1>0, <2>1, <2>2 DEF ForwardStage, Steady
<1>11. CASE Pause(p) \/ CreateSnapshot(p)
  <2>1. pc'[p] \in {"create", "copy"} /\ job' = job /\ unit'[s] = "paused"
    BY <1>0, <1>11, <1>g DEF Pause, CreateSnapshot, HostOK
  <2>2. pc'[p] = "copy" => chroot'[s] # NoSlot /\ dump'[s] # NoSlot
    <3>1. CASE Pause(p)
      BY <1>g, <3>1 DEF Pause
    <3>2. CASE CreateSnapshot(p)
      <4>1. unit[s] = "paused" /\ dump' = [dump EXCEPT ![s] = guest[s]] /\ chroot' = chroot
        BY <3>2 DEF CreateSnapshot
      <4> QED
        BY <1>0, <4>1 DEF SlotOK, HostOK
    <3> QED
      BY <1>11, <3>1, <3>2
  <2> QED
    BY <2>1, <2>2 DEF ForwardStage
<1>12. CASE CopyFile(p)
  <2>1. /\ job'[p].vm = s /\ pc'[p] \in {"copy", "stop"} /\ pc[p] = "copy"
        /\ UNCHANGED <<unit, chroot, dump>>
    BY <1>0, <1>12 DEF CopyFile, At, ProcsOK, Jobs, host, dir
  <2> QED
    BY <1>0, <2>1 DEF ForwardStage
<1>13. CASE Stop(p)
  <2>1. pc[p] = "stop" /\ pc'[p] = "unforward" /\ job' = job
    BY <1>13, <1>g DEF Stop, At
  <2>2. job[p].cmd # "ports rm"
    BY <1>0, <2>1 DEF CommandFits
  <2> QED
    BY <2>1, <2>2 DEF ForwardStage
<1>14. CASE StopForwards(p)
  <2>1. CASE job[p].cmd = "ports rm"
    <3>1. /\ pc[p] = "unforward" /\ pc'[p] = "ask" /\ job' = job
          /\ fwd'[s] = fwd[s] \ job[p].todo /\ UNCHANGED <<rowPorts, unit>>
      BY <1>0, <1>14, <1>g, <2>1 DEF StopForwards, At, HostOK, ledger
    <3>2. Removing(p, s)
      BY <1>0, <2>1, <3>1 DEF ForwardStage
    <3>3. Steady(s)'
      BY <3>1, <3>2 DEF Removing, Steady
    <3> QED
      BY <3>1, <3>3 DEF ForwardStage
  <2>2. CASE job[p].cmd # "ports rm"
    <3>1. pc'[p] = "untap" /\ job' = job
      BY <1>14, <1>g, <2>2 DEF StopForwards
    <3> QED
      BY <3>1 DEF ForwardStage
  <2> QED
    BY <2>1, <2>2
<1>15. CASE TeardownTap(p) \/ RemoveDir(p) \/ Record(p)
  <2>1. pc'[p] \in {"rmdir", "record", "remove"} /\ job' = job
    BY <1>15, <1>g DEF TeardownTap, RemoveDir, Record
  <2> QED
    BY <2>1 DEF ForwardStage
<1>16. CASE Remove(p)
  <2>1. unit'[s] = "none"
    BY <1>0, <1>16 DEF Remove, At, StageOK, TearingDown, Alive, host, dir
  <2> QED
    BY <1>16, <1>d, <1>e, <2>1 DEF Remove
<1>17. CASE SetPorts(p)
  <2>1. /\ pc[p] = "setports" /\ job' = job /\ UNCHANGED <<unit, fwd>>
        /\ pc'[p] = IF job[p].cmd = "ports add" THEN "alive" ELSE "unforward"
    BY <1>17, <1>g DEF SetPorts, At, host, dir
  <2>2. rowPorts'[s] = job[p].ports
    BY <1>0, <1>17 DEF SetPorts, LedgerOK
  <2>3. CASE job[p].cmd = "ports add"
    <3>1. Adding(p, s)'
      BY <1>0, <2>1, <2>2, <2>3 DEF ForwardStage, Steady, Adding, ToAdd
    <3> QED
      BY <2>1, <2>3, <3>1 DEF ForwardStage
  <2>4. CASE job[p].cmd = "ports rm"
    <3>1. Removing(p, s)'
      BY <1>0, <2>1, <2>2, <2>4 DEF ForwardStage, Steady, Removing, ToRemove
    <3> QED
      BY <2>1, <2>4, <3>1 DEF ForwardStage
  <2> QED
    BY <1>0, <2>1, <2>3, <2>4 DEF CommandFits
<1>18. CASE CheckAlive(p)
  <2>1. Adding(p, s) /\ UNCHANGED <<rowPorts, unit, fwd>>
    BY <1>0, <1>18 DEF CheckAlive, At, ForwardStage, ledger, host, dir
  <2>2. CASE Alive(s)
    <3>1. pc'[p] = "forward" /\ job' = job
      BY <1>18, <1>g, <2>2 DEF CheckAlive
    <3> QED
      BY <2>1, <3>1 DEF ForwardStage, Adding
  <2>3. CASE ~Alive(s)
    BY <1>18, <1>d, <1>e, <2>1, <2>3 DEF CheckAlive, Alive
  <2> QED
    BY <2>2, <2>3
<1>19. CASE Restart(p)
  <2>1. job'[p].vm = s /\ pc' = pc /\ pc[p] = "restart" /\ UNCHANGED <<rowPorts, unit, fwd>>
    BY <1>0, <1>19 DEF Restart, At, ProcsOK, Jobs, ledger, host, dir
  <2> QED
    BY <1>0, <2>1 DEF ForwardStage, Steady
<1>20. CASE Rejected(p)
  <2>1. Steady(s) /\ Error(p) /\ UNCHANGED <<rowPorts, unit, fwd>>
    BY <1>0, <1>20, RejectedIsHarmless DEF Rejected, ledger, host, dir
  <2>2. CASE job[p].cmd = "restore"
    <3>1. Goto(p, "unclaim")
      BY <1>0, <2>1, <2>2 DEF Error
    <3>2. pc'[p] = "unclaim" /\ job' = job
      BY <1>g, <3>1
    <3> QED
      BY <1>0, <3>2 DEF ForwardStage
  <2>3. CASE job[p].cmd # "restore"
    BY <1>e, <2>1, <2>3 DEF Error, Steady
  <2> QED
    BY <2>2, <2>3
<1>21. ~Start(p)
  BY <1>0 DEF Start, StartRun, StartRestore, StartDestroy, StartSnapshot, StartPortsAdd,
              StartPortsRm, StartPortsReload, DeleteSnapshot, Begin
<1>22. ~Claim(p) /\ ~Fail(p) /\ ~Kill(p)
  BY <1>0 DEF Claim, At, Fail, Kill, NoErrors
<1> QED
  BY <1>1, <1>4, <1>5, <1>6, <1>7, <1>8, <1>9, <1>10, <1>11, <1>12, <1>13, <1>14, <1>15, <1>16,
     <1>17, <1>18, <1>19, <1>20, <1>21, <1>22, <1>23 DEF Step, Work

LEMMA FwdInvHolds ==
  ASSUME OneOperator = TRUE, NoErrors
  PROVE  Spec => []FwdInv
<1>1. Init => FwdInv
  BY DEF Init, NoJob, FwdInv, Steady
<1>2. IInv /\ LiveInv /\ FwdInv /\ [Next]_vars => FwdInv'
  <2> SUFFICES ASSUME IInv, LiveInv, FwdInv, [Next]_vars PROVE FwdInv'
    OBVIOUS
  <2>1. ASSUME NEW p \in Procs, Step(p) PROVE FwdInv'
    <3>0. FwdStep(p)
      BY <2>1 DEF FwdStep, LiveStep, NoErrors
    <3>1. ASSUME NEW s \in Slots, \A q \in Procs : job'[q].vm # s PROVE Steady(s)'
      <4>1. CASE s = job[p].vm
        BY <3>0, <3>1, <4>1, OwnForwards, NoSlotIsNone
      <4>2. CASE s # job[p].vm
        BY <3>0, <3>1, <4>2, OtherSteady
      <4> QED
        BY <4>1, <4>2
    <3>2. ASSUME job'[p].vm # NoSlot PROVE ForwardStage(p, job[p].vm)'
      <4>1. CASE job[p].vm # NoSlot
        <5>1. PICK s \in Slots : s = job[p].vm
          BY <4>1, JobFields DEF IInv, Shape, TypeOK
        <5>2. job'[p].vm = s /\ ForwardStage(p, s)'
          BY <3>0, <3>2, <5>1, OwnForwards
        <5> QED
          BY <5>2
      <4>2. CASE Start(p) \/ Claim(p)
        BY <3>0, <3>2, <4>2, StartForwards, ClaimForwards
      <4>3. CASE job[p].vm = NoSlot /\ ~Start(p) /\ ~Claim(p)
        <5>1. pc[p] \in {"idle", "claim"} /\ ProcsOK
          BY <4>3 DEF IInv, Shape, TypeOK, JobOK
        <5>2. Rejected(p) \/ Fail(p) \/ Kill(p)
          BY <2>1, <4>3, <5>1
             DEF Step, Work, At, SetupChroot, SetupRestoreChroot, SetupTap, Launch, Boot,
                 Forward, Notify, Ask, AtAsk, Wait, Detach, Interrupt, Unclaim, CheckName,
                 Pause, CreateSnapshot, CopyFile, Stop, StopForwards, TeardownTap, RemoveDir,
                 Record, Remove, SetPorts, CheckAlive, Restart
        <5>3. Exit(p)
          BY <4>3, <5>2 DEF Rejected, Fail, Kill, Error
        <5> QED
          BY <3>2, <5>1, <5>3 DEF Exit, ProcsOK, NoJob
      <4> QED
        BY <4>1, <4>2, <4>3
    <3>3. \A q \in Procs : job'[q].vm # NoSlot => ForwardStage(q, job[q].vm)'
      BY <3>0, <3>2, OtherForwards
    <3> QED
      BY <3>1, <3>3 DEF FwdInv
  <2>2. ASSUME NEW v \in Slots, VMExits(v) PROVE FwdInv'
    <3>1. /\ UNCHANGED <<rows, rowPorts, chroot, dump, tap, pc, job>>
          /\ \A s \in Slots : \/ unit'[s] = unit[s] /\ fwd'[s] = fwd[s]
                              \/ unit'[s] = "none" /\ fwd'[s] = {}
      BY <2>2 DEF VMExits, UnitGone, ledger, dir, IInv, Shape, TypeOK, HostOK
    <3>2. \A s \in Slots : (\A p \in Procs : job'[p].vm # s) => Steady(s)'
      BY <3>1 DEF FwdInv, Steady
    <3>3. ASSUME NEW p \in Procs, job'[p].vm # NoSlot PROVE ForwardStage(p, job[p].vm)'
      <4>1. job[p].vm \in Slots /\ ForwardStage(p, job[p].vm)
        BY <3>1, <3>3, JobFields DEF IInv, Shape, TypeOK, FwdInv
      <4> QED
        BY <3>1, <4>1 DEF ForwardStage, Adding, Removing, ToAdd, ToRemove, Steady, Alive
    <3> QED
      BY <3>2, <3>3 DEF FwdInv
  <2>3. CASE Reboot
    BY <2>3 DEF Reboot, NoJob, FwdInv, Steady
  <2>4. CASE UNCHANGED vars
    <3>1. UNCHANGED <<rows, rowPorts, chroot, dump, tap, unit, fwd, pc, job>>
      BY <2>4 DEF vars, ledger, host, dir
    <3>2. ASSUME NEW p \in Procs, ForwardStage(p, job[p].vm) PROVE ForwardStage(p, job[p].vm)'
      BY <3>1, <3>2 DEF ForwardStage, Adding, Removing, ToAdd, ToRemove, Steady, Alive
    <3>3. \A s \in Slots : (\A p \in Procs : job'[p].vm # s) => Steady(s)'
      BY <3>1 DEF FwdInv, Steady
    <3> QED
      BY <3>1, <3>2, <3>3 DEF FwdInv
  <2> QED
    BY <2>1, <2>2, <2>3, <2>4 DEF Next, Step
<1> QED
  BY <1>1, <1>2, IInvHolds, LiveInvHolds, PTL DEF Spec, NoErrors

-----------------------------------------------------------------------------
(* Addresses, as long as nothing is restored *)

\* A directory and the guest booted from it have their own slot's addresses.
OwnAddresses ==
  /\ \A s \in Slots : chroot[s] \in {s, NoSlot} /\ guest[s] \in {s, NoSlot}
  /\ \A p \in Procs : job[p].cmd # "restore"

LEMMA OwnAddressesHold ==
  ASSUME "restore" \notin Commands
  PROVE  Spec => []OwnAddresses
<1>1. Init => OwnAddresses
  BY DEF Init, NoJob, OwnAddresses
<1>2. Shape /\ OwnAddresses /\ [Next]_vars => OwnAddresses'
  <2> SUFFICES ASSUME Shape, OwnAddresses, [Next]_vars PROVE OwnAddresses'
    OBVIOUS
  <2>0. ProcsOK /\ HostOK
    BY DEF Shape, TypeOK
  <2>1. ASSUME NEW p \in Procs, Step(p) PROVE OwnAddresses'
    <3>1. job'[p].cmd # "restore"
      <4>1. CASE Start(p)
        <5>1. ASSUME NEW cmd, NEW label, NEW v, NEW n, NEW P, NEW T,
                     Begin(p, cmd, label, v, n, P, T)
              PROVE  job'[p].cmd # "restore"
          BY <2>0, <5>1 DEF Begin, ProcsOK
        <5>2. CASE \E n \in Names : DeleteSnapshot(p, n)
          BY <5>2 DEF DeleteSnapshot, OwnAddresses
        <5> QED
          BY <4>1, <5>1, <5>2 DEF Start, StartRun, StartRestore, StartDestroy, StartSnapshot,
                                  StartPortsAdd, StartPortsRm, StartPortsReload
      <4>2. CASE Claim(p)
        BY <2>0, <4>2 DEF OwnAddresses, Claim, ProcsOK, Jobs
      <4>3. CASE ~Start(p) /\ ~Claim(p)
        BY <2>1, <4>3, KeepsCommand DEF OwnAddresses, NoJob
      <4> QED
        BY <4>1, <4>2, <4>3
    <3>2. ASSUME NEW s \in Slots PROVE chroot'[s] \in {s, NoSlot} /\ guest'[s] \in {s, NoSlot}
      <4>1. CASE s # job[p].vm
        BY <2>1, <4>1, HostFootprint DEF SameHost, OwnAddresses
      <4>2. CASE s = job[p].vm
        <5>0. chroot[s] \in {s, NoSlot} /\ guest[s] \in {s, NoSlot} /\ job[p].cmd # "restore"
          BY DEF OwnAddresses
        <5>1. CASE SetupChroot(p) \/ RemoveDir(p) \/ Fail(p)
          BY <2>0, <4>2, <5>0, <5>1 DEF SetupChroot, Fill, RemoveDir, Fail, HostOK, dir
        <5>2. CASE Boot(p) \/ Interrupt(p) \/ Stop(p)
          BY <2>0, <4>2, <5>0, <5>2 DEF Boot, Resume, Interrupt, Stop, UnitGone, HostOK, dir
        <5>3. CASE UNCHANGED <<chroot, guest>>
          BY <5>0, <5>3
        <5> QED
          BY <2>1, <5>0, <5>1, <5>2, <5>3
             DEF Step, Start, StartRun, StartRestore, StartDestroy, StartSnapshot,
                 StartPortsAdd, StartPortsRm, StartPortsReload, DeleteSnapshot, Begin, Work,
                 Claim, SetupRestoreChroot, SetupTap, Launch, Forward, Notify, Ask, Wait,
                 Detach, Unclaim, CheckName, Pause, CreateSnapshot, CopyFile, StopForwards,
                 TeardownTap, Record, Remove, SetPorts, CheckAlive, Restart, Rejected, Kill,
                 host, dir
      <4> QED
        BY <4>1, <4>2
    <3>3. \A q \in Procs : job'[q].cmd # "restore"
      BY <2>1, <3>1, ProcsFootprint DEF OwnAddresses
    <3> QED
      BY <3>2, <3>3 DEF OwnAddresses
  <2>2. ASSUME NEW s \in Slots, VMExits(s) PROVE OwnAddresses'
    BY <2>0, <2>2 DEF VMExits, UnitGone, HostOK, dir, OwnAddresses
  <2>3. CASE Reboot
    BY <2>3 DEF Reboot, NoJob, dir, OwnAddresses
  <2>4. CASE UNCHANGED vars
    BY <2>4 DEF vars, host, dir, OwnAddresses
  <2> QED
    BY <2>1, <2>2, <2>3, <2>4 DEF Next, Step
<1> QED
  BY <1>1, <1>2, ShapeHolds, PTL DEF Spec

-----------------------------------------------------------------------------
(* Commands count down: what CommandsEnd asks of the steps *)

\* At most so many steps are left to a command.
StepsLeft(label, todo, copied) ==
  LET all == Cardinality(Ports) IN
  CASE label = "idle"                          -> 0
    [] label \in {"unclaim", "remove"}         -> 1
    [] label \in {"ask", "wait", "record"}     -> 2
    [] label = "rmdir"                         -> 3
    [] label \in {"forward", "restart"}        -> 3 + Cardinality(todo)
    [] label = "untap"                         -> 4
    [] label = "unforward"                     -> 5
    [] label = "stop"                          -> 6
    [] label = "copy"                          -> 10 - copied
    [] label = "create"                        -> 11
    [] label = "pause"                         -> 12
    [] label = "checkname"                     -> 13
    [] label = "notify"                        -> 4 + Cardinality(todo)
    [] label \in {"boot", "alive"}             -> 5 + all
    [] label = "launch"                        -> 6 + all
    [] label \in {"tap", "setports"}           -> 7 + all
    [] label = "chroot"                        -> 8 + all
    [] label = "claim"                         -> 9 + all

Left(p) == StepsLeft(pc[p], job[p].todo, job[p].copied)

\* The count fits every command, and none but an idle process has nothing left.
Counted ==
  \A p \in Procs : /\ Left(p) \in 0 .. (13 + Cardinality(Ports))
                   /\ Left(p) = 0 <=> pc[p] = "idle"

\* A command's own step lowers the count, another's leaves it or ends the command.
CountsDown ==
  \A p \in Procs : pc[p] # "idle" =>
    /\ Step(p)  => Left(p)' < Left(p)
    /\ ~Step(p) => Left(p)' \in {Left(p), 0}

LEMMA TodoCounts ==
  ASSUME IsFiniteSet(Ports), NEW T \in SUBSET Ports
  PROVE  /\ IsFiniteSet(T) /\ Cardinality(T) \in Nat /\ Cardinality(Ports) \in Nat
         /\ Cardinality(T) <= Cardinality(Ports)
         /\ \A q \in T : Cardinality(T \ {q}) = Cardinality(T) - 1
<1>1. IsFiniteSet(T) /\ Cardinality(T) <= Cardinality(Ports)
  BY FS_Subset
<1> QED
  BY <1>1, FS_CardinalityType, FS_RemoveElement

LEMMA LeftBounds ==
  ASSUME IsFiniteSet(Ports), Shape, NEW p \in Procs
  PROVE  /\ Left(p) \in 0 .. (13 + Cardinality(Ports))
         /\ Left(p) = 0 <=> pc[p] = "idle"
<1>1. /\ job[p].todo \in SUBSET Ports /\ pc[p] \in Labels
      /\ pc[p] = "copy" => job[p].copied \in 0 .. 2
  BY JobFields DEF Shape, TypeOK, ProcsOK, JobOK, CopiedFits
<1>2. /\ Cardinality(job[p].todo) \in Nat /\ Cardinality(Ports) \in Nat
      /\ Cardinality(job[p].todo) <= Cardinality(Ports)
  BY <1>1, TodoCounts
<1> DEFINE all == Cardinality(Ports)
<1> HIDE DEF all
<1>3. CASE pc[p] \in {"notify", "forward", "restart"}
  <2>1. Left(p) \in {3 + Cardinality(job[p].todo), 4 + Cardinality(job[p].todo)}
    BY <1>3 DEF Left, StepsLeft
  <2> QED
    BY <1>2, <1>3, <2>1
<1>4. CASE pc[p] \in {"boot", "alive", "launch", "tap", "setports", "chroot", "claim"}
  <2>1. Left(p) \in {5 + all, 6 + all, 7 + all, 8 + all, 9 + all}
    BY <1>4 DEF Left, StepsLeft, all
  <2> QED
    BY <1>2, <1>4, <2>1 DEF all
<1>5. CASE pc[p] = "copy"
  BY <1>1, <1>2, <1>5 DEF Left, StepsLeft
<1>6. CASE pc[p] \in {"unclaim", "remove", "ask", "wait", "record", "rmdir", "untap", "unforward",
                      "stop", "create", "pause", "checkname"}
  <2>1. Left(p) \in 1 .. 13
    BY <1>6 DEF Left, StepsLeft
  <2> QED
    BY <1>2, <1>6, <2>1
<1>7. CASE pc[p] = "idle"
  BY <1>2, <1>7 DEF Left, StepsLeft
<1> QED
  BY <1>1, <1>3, <1>4, <1>5, <1>6, <1>7 DEF Labels

LEMMA ExitLeaves ==
  ASSUME IsFiniteSet(Ports), Shape, NEW p \in Procs, pc[p] # "idle",
         pc'[p] = "idle"
  PROVE  Left(p)' < Left(p)
<1>1. Left(p)' = 0
  BY DEF Left, StepsLeft
<1> QED
  BY <1>1, LeftBounds, TodoCounts

LEMMA GotoMoves ==
  ASSUME Shape, NEW p \in Procs, NEW label, Goto(p, label)
  PROVE  pc'[p] = label /\ job'[p] = job[p]
  BY DEF Goto, Shape, TypeOK, ProcsOK

\* Where an error leads.
LEMMA ErrorLeaves ==
  ASSUME IsFiniteSet(Ports), Shape, NEW p \in Procs, pc[p] \notin {"idle", "unclaim"}, Error(p)
  PROVE  Left(p)' < Left(p)
<1>1. CASE job[p].cmd = "restore" /\ job[p].vm # NoSlot
  <2>1. Left(p)' = 1
    <3>1. pc'[p] = "unclaim"
      BY <1>1, GotoMoves DEF Error
    <3> QED
      BY <3>1 DEF Left, StepsLeft
  <2>2. pc[p] \in {"chroot", "tap", "launch", "boot", "notify", "forward", "wait"}
    BY <1>1 DEF Shape, TypeOK, ProcsOK, Labels, JobOK, CommandFits
  <2>3. Cardinality(job[p].todo) \in Nat /\ Cardinality(Ports) \in Nat
    BY JobFields, TodoCounts DEF Shape, TypeOK
  <2>4. Left(p) >= 2
    BY <2>2, <2>3 DEF Left, StepsLeft
  <2>5. Left(p) \in Nat
    BY <2>3, LeftBounds
  <2> QED
    BY <2>1, <2>4, <2>5
<1>2. CASE ~(job[p].cmd = "restore" /\ job[p].vm # NoSlot)
  BY <1>2, ExitLeaves DEF Error, Exit, Shape, TypeOK, ProcsOK
<1> QED
  BY <1>1, <1>2

\* A port less to do.
LEMMA TodoLeaves ==
  ASSUME IsFiniteSet(Ports), Shape, NEW p \in Procs, pc[p] \in {"forward", "restart"},
         NEW q \in job[p].todo, job' = [job EXCEPT ![p].todo = job[p].todo \ {q}], pc' = pc
  PROVE  Left(p)' < Left(p)
<1>1. job[p].todo \in SUBSET Ports
  BY JobFields DEF Shape, TypeOK
<1>2. job'[p].todo = job[p].todo \ {q}
  BY DEF Shape, TypeOK, ProcsOK, Jobs
<1>3. /\ Left(p) = 3 + Cardinality(job[p].todo)
      /\ Left(p)' = 3 + Cardinality(job[p].todo \ {q})
  BY <1>2 DEF Left, StepsLeft
<1> QED
  BY <1>1, <1>3, TodoCounts

LEMMA StepCountsDown ==
  ASSUME IsFiniteSet(Ports), Shape, NEW p \in Procs, Step(p), pc[p] # "idle"
  PROVE  Left(p)' < Left(p)
<1> DEFINE all == Cardinality(Ports)
<1>0. /\ all \in Nat /\ ProcsOK /\ CommandFits(pc[p], job[p].cmd)
      /\ CopiedFits(pc[p], job[p].copied)
      /\ job[p].todo \in SUBSET Ports /\ job[p].ports \in SUBSET Ports
  BY TodoCounts, JobFields DEF Shape, TypeOK, JobOK
<1>1. CASE Exit(p)
  BY <1>0, <1>1, ExitLeaves DEF Exit, ProcsOK
<1>2. CASE Claim(p)
  <2>1. pc[p] = "claim" /\ pc'[p] = "chroot"
    BY <1>0, <1>2 DEF Claim, At, ProcsOK
  <2> QED
    BY <1>0, <2>1 DEF Left, StepsLeft
<1>3. CASE SetupChroot(p) \/ SetupRestoreChroot(p)
  <2>1. pc[p] = "chroot" /\ pc'[p] = "tap"
    BY <1>0, <1>3, GotoMoves DEF SetupChroot, SetupRestoreChroot, At
  <2> QED
    BY <1>0, <2>1 DEF Left, StepsLeft
<1>4. CASE SetupTap(p) \/ Launch(p)
  <2>1. \/ pc[p] = "tap" /\ pc'[p] = "launch"
        \/ pc[p] = "launch" /\ pc'[p] = "boot"
    BY <1>0, <1>4, GotoMoves DEF SetupTap, Launch, At
  <2> QED
    BY <1>0, <2>1 DEF Left, StepsLeft
<1>5. CASE Boot(p)
  <2>1. /\ pc[p] = "boot" /\ pc'[p] \in {"notify", "forward"}
        /\ job'[p].todo = job[p].ports
    BY <1>0, <1>5 DEF Boot, At, ProcsOK, Jobs
  <2>2. Cardinality(job[p].ports) \in Nat /\ Cardinality(job[p].ports) <= all
    BY <1>0, TodoCounts
  <2>3. /\ Left(p) = 5 + all
        /\ Left(p)' \in {3 + Cardinality(job[p].ports), 4 + Cardinality(job[p].ports)}
    BY <2>1 DEF Left, StepsLeft
  <2> QED
    BY <1>0, <2>2, <2>3
<1>6. CASE Forward(p) \/ Restart(p)
  BY <1>6, TodoLeaves DEF Forward, Restart, At
<1>7. CASE Notify(p)
  <2>0. pc[p] = "notify" /\ pc'[p] = "forward" /\ job'[p] = job[p]
    BY <1>7, GotoMoves DEF Notify, At
  <2>1. /\ Left(p) = 4 + Cardinality(job[p].todo)
        /\ Left(p)' = 3 + Cardinality(job[p].todo)
    BY <2>0 DEF Left, StepsLeft
  <2> QED
    BY <1>0, <2>1, TodoCounts
<1>16. CASE Ask(p)
  <2>1. CASE job[p].cmd \in {"run", "restore"} /\ Goto(p, "wait")
    <3>1. pc[p] \in {"forward", "restart"} /\ pc'[p] = "wait"
      BY <1>0, <1>16, <2>1, GotoMoves DEF Ask, AtAsk, At, CommandFits
    <3>2. Left(p)' = 2 /\ Left(p) = 3 + Cardinality(job[p].todo)
      BY <3>1 DEF Left, StepsLeft
    <3> QED
      BY <1>0, <3>2, TodoCounts
  <2> QED
    BY <1>1, <1>16, <2>1 DEF Ask
<1>17. CASE Wait(p)
  <2>1. pc[p] = "wait"
    BY <1>17 DEF Wait, At
  <2> QED
    BY <1>1, <1>17, <2>1, ErrorLeaves DEF Wait
<1>8. CASE CheckName(p) \/ Pause(p) \/ CreateSnapshot(p)
  <2>1. \/ pc[p] = "checkname" /\ pc'[p] = "pause"
        \/ pc[p] = "pause" /\ pc'[p] = "create"
        \/ pc[p] = "create" /\ pc'[p] = "copy" /\ job'[p].copied = 0
    BY <1>0, <1>8, GotoMoves DEF CheckName, Pause, CreateSnapshot, At, CopiedFits
  <2> QED
    BY <1>0, <2>1 DEF Left, StepsLeft
<1>9. CASE CopyFile(p)
  <2>1. /\ pc[p] = "copy" /\ job[p].copied \in 0 .. 2
        /\ pc'[p] = IF job[p].copied = 2 THEN "stop" ELSE "copy"
        /\ job'[p].copied = job[p].copied + 1
    BY <1>0, <1>9 DEF CopyFile, At, ProcsOK, Jobs, CopiedFits
  <2> QED
    BY <2>1 DEF Left, StepsLeft
<1>10. CASE Stop(p) \/ TeardownTap(p) \/ Record(p)
  <2>1. \/ pc[p] = "stop" /\ pc'[p] = "unforward"
        \/ pc[p] = "untap" /\ pc'[p] = "rmdir"
        \/ pc[p] = "record" /\ pc'[p] = "remove"
    BY <1>0, <1>10, GotoMoves DEF Stop, TeardownTap, Record, At
  <2> QED
    BY <1>0, <2>1 DEF Left, StepsLeft
<1>11. CASE StopForwards(p) \/ RemoveDir(p)
  <2>1. \/ pc[p] = "unforward" /\ pc'[p] \in {"ask", "untap"}
        \/ pc[p] = "rmdir" /\ pc'[p] \in {"record", "remove"}
    BY <1>0, <1>11, GotoMoves DEF StopForwards, RemoveDir, At
  <2> QED
    BY <1>0, <2>1 DEF Left, StepsLeft
<1>12. CASE SetPorts(p)
  <2>1. pc[p] = "setports" /\ pc'[p] \in {"alive", "unforward"}
    BY <1>0, <1>12, GotoMoves DEF SetPorts, At
  <2> QED
    BY <1>0, <2>1 DEF Left, StepsLeft
<1>13. CASE CheckAlive(p)
  <2>1. CASE Goto(p, "forward")
    <3>1. Left(p)' = 3 + Cardinality(job[p].todo) /\ Left(p) = 5 + all
      <4>1. pc[p] = "alive" /\ pc'[p] = "forward" /\ job'[p].todo = job[p].todo
        BY <1>13, <2>1, GotoMoves DEF CheckAlive, At
      <4> QED
        BY <4>1 DEF Left, StepsLeft
    <3> QED
      BY <1>0, <3>1, TodoCounts
  <2> QED
    BY <1>1, <1>13, <2>1 DEF CheckAlive
<1>14. CASE Rejected(p)
  BY <1>14, ErrorLeaves DEF Rejected, CannotDo
<1>15. CASE Fail(p)
  BY <1>15, ErrorLeaves DEF Fail
<1> QED
  BY <1>1, <1>2, <1>3, <1>4, <1>5, <1>6, <1>7, <1>8, <1>9, <1>10, <1>11, <1>12, <1>13,
     <1>14, <1>15, <1>16, <1>17
     DEF Step, Work, Start, StartRun, StartRestore, StartDestroy, StartSnapshot,
         StartPortsAdd, StartPortsRm, StartPortsReload, DeleteSnapshot, Begin,
         Detach, Interrupt, Unclaim, Remove, Kill

\* What others do to a command: nothing, but for the reboot that ends it.
LEMMA OthersLeaveCounts ==
  ASSUME Shape, [Next]_vars, NEW p \in Procs, ~Step(p)
  PROVE  Left(p)' \in {Left(p), 0}
<1>1. CASE pc'[p] = pc[p] /\ job'[p] = job[p]
  BY <1>1 DEF Left
<1>2. ASSUME NEW q \in Procs, Step(q) PROVE pc'[p] = pc[p] /\ job'[p] = job[p]
  BY <1>2, ProcsFootprint
<1>3. CASE Reboot
  BY <1>3 DEF Reboot, Left, StepsLeft
<1> QED
  BY <1>1, <1>2, <1>3 DEF Next, Step, VMExits, vars

-----------------------------------------------------------------------------
(* The theorems *)

\* With one command at a time on each VM, nothing on the host is forgotten:
\* what labctl made and did not remove has a row, or was given up by a restore.
THEOREM LedgerKnowsHost ==
  ASSUME OneOperator = TRUE
  PROVE  Spec => []LedgerCovers
<1>1. IInv => LedgerCovers
  BY DEF IInv, SlotOK, LedgerCovers
<1> QED
  BY <1>1, IInvHolds, PTL

\* run and restore fill a clean slot, unless a failed restore had given it up.
THEOREM ClaimedSlotsAreClean ==
  ASSUME OneOperator = TRUE
  PROVE  Spec => []FreshSlotIsClean
<1>1. IInv => FreshSlotIsClean
  BY DEF IInv, StageOK, At, FreshSlotIsClean
<1> QED
  BY <1>1, IInvHolds, PTL

\* A running or paused VM has its tap, its files and its guest.
THEOREM RunningVMsAreWhole ==
  ASSUME OneOperator = TRUE
  PROVE  Spec => []LiveVMWhole
<1>1. IInv => LiveVMWhole
  BY DEF IInv, SlotOK, LiveVMWhole
<1> QED
  BY <1>1, IInvHolds, PTL

\* What restore can be asked for can be loaded, however many earlier attempts
\* under the name failed half way.
THEOREM RegisteredSnapshotsAreWhole ==
  ASSUME OneOperator = TRUE
  PROVE  Spec => []RegisteredSnapshotsWhole
  BY SnapInvHolds, PTL DEF SnapInv

\* snapshot takes a VM down only when its three files are copied, and drops
\* its row only when the snapshot is registered.
THEOREM SnapshotsOutliveTheirVMs ==
  ASSUME OneOperator = TRUE
  PROVE  Spec => []SnapshotBeforeTeardown
<1>1. SnapInv => SnapshotBeforeTeardown
  BY DEF SnapInv, SnapStage, AllCopied, SnapshotBeforeTeardown
<1> QED
  BY <1>1, SnapInvHolds, PTL

\* A VM's forwarders are its row's ports when nobody is at work on it: whatever
\* commands came before, however VMs exited and the host rebooted - as long as
\* no call failed for a reason of its own and no labctl was killed half way.
THEOREM ForwardersFollowTheLedger ==
  ASSUME OneOperator = TRUE, "error" \notin Faults, "kill" \notin Faults
  PROVE  Spec => []ForwardsMatchLedger
<1>1. NoErrors
  BY DEF NoErrors
<1>2. FwdInv => ForwardsMatchLedger
  BY DEF FwdInv, Steady, ForwardsMatchLedger
<1> QED
  BY <1>1, <1>2, FwdInvHolds, PTL

\* Whatever commands run at once and whatever fails, labctl takes and frees
\* slots as one client of the atomic ledger among others: with StateDB's
\* refinement, a slot is granted to one run or restore at a time.
THEOREM CommandsUseLedger == Spec => ImplementsLedger
<1>1. Init => Ledger!Init
  BY DEF Init, NoJob, Granted, NoSlot, Ledger!Init, Ledger!NoSlot
<1>2. Shape /\ [Next]_vars => [Ledger!Next]_Ledger!vars
  <2> SUFFICES ASSUME Shape, [Next]_vars PROVE [Ledger!Next]_Ledger!vars
    OBVIOUS
  <2>1. ASSUME NEW s \in Slots, VMExits(s) PROVE UNCHANGED Ledger!vars
    BY <2>1 DEF VMExits, ledger, Granted, Ledger!vars
  <2>2. ASSUME Reboot PROVE Ledger!Refuse(Procs)
    BY <2>2 DEF Reboot, NoJob, ledger, Granted, NoSlot, Ledger!Refuse, Ledger!NoSlot
  <2>3. CASE UNCHANGED vars
    BY <2>3 DEF vars, ledger, Granted, Ledger!vars
  <2> QED
    BY <2>1, <2>2, <2>3, LedgerStep DEF Next, Step, Ledger!Next
<1> QED
  BY <1>1, <1>2, ShapeHolds, PTL DEF Spec, ImplementsLedger, Ledger!Spec

\* With one command at a time on each VM, whatever fails: a claimed slot's VM
\* comes up at most once; when the command that made it is over, it leaves the
\* table only after it has gone down, never to come up again; a snapshot is
\* registered while its VM is down and has its row; only restore gives up a VM
\* that may run, and only its own.
THEOREM CommandsImplementVM ==
  ASSUME OneOperator = TRUE
  PROVE  Spec => ImplementsVM
<1>1. Init => VMs!Init
  BY DEF Init, Stage, VMs!Init, VMs!Slots, Slots
<1>2. IInv /\ IInv' /\ [Next]_vars => [VMs!Next]_VMs!vars
  <2> SUFFICES ASSUME IInv, IInv', [Next]_vars PROVE [VMs!Next]_VMs!vars
    OBVIOUS
  <2>1. CASE UNCHANGED vars
    <3>1. \A s \in Slots : Makers(s)' = Makers(s)
      BY <2>1 DEF vars, Makers
    <3> QED
      BY <2>1, <3>1 DEF vars, ledger, host, dir, Stage, VMs!vars
  <2> QED
    BY <2>1, StartIsAStep, ClaimIsAStep, CommandIsAStep, ExitIsAStep, RebootIsAStep
       DEF Next, Step
<1> QED
  BY <1>1, <1>2, IInvHolds, PTL DEF Spec, ImplementsVM, VMs!Spec

\* The slot a run or restore is about to fill carries nobody's VM, unless a
\* call to the host fails for a reason of its own: kills, exits and reboots
\* alone leave no live VM without a row.
THEOREM OnlyErrorsLoseVMs ==
  ASSUME OneOperator = TRUE, "error" \notin Faults
  PROVE  Spec => []ClaimedSlotIsUnused
<1>1. IInv /\ LiveInv => ClaimedSlotIsUnused
  BY DEF IInv, Shape, JobOK, LiveInv, MakeStage, At, ClaimedSlotIsUnused
<1> QED
  BY <1>1, IInvHolds, LiveInvHolds, PTL

\* Only restore makes two guests share their addresses: without it they are
\* distinct, whatever commands run at once and whatever fails.
THEOREM OnlyRestoreSharesAddresses ==
  ASSUME "restore" \notin Commands
  PROVE  Spec => []GuestAddressesDistinct
<1>1. OwnAddresses => GuestAddressesDistinct
  BY DEF OwnAddresses, GuestAddressesDistinct
<1> QED
  BY <1>1, OwnAddressesHold, PTL

\* A command that nobody ends early is over after at most 13 steps and one for
\* each port, whatever the others and the host do meanwhile: each of its steps
\* brings it nearer, and no step of another takes it back.  With the fairness of
\* FairSpec this is why commands end.
THEOREM CommandsCountDown ==
  ASSUME IsFiniteSet(Ports)
  PROVE  Spec => []Counted /\ [][CountsDown]_vars
<1>1. Shape => Counted
  BY LeftBounds DEF Counted
<1>2. Shape /\ [Next]_vars => CountsDown
  BY StepCountsDown, OthersLeaveCounts DEF CountsDown
<1> QED
  BY <1>1, <1>2, ShapeHolds, PTL DEF Spec
=============================================================================
