----------------------------- MODULE Lifecycle -----------------------------
(***************************************************************************)
(* labctl's commands over the state database and the host (src/cmd/*.go,   *)
(* src/vm/vm.go).  Each labctl process runs one command at a time as a     *)
(* sequence of steps; a step is one SQL statement, one call to ip, cp,     *)
(* systemctl or the Firecracker API, or one file tree removed.  Between    *)
(* two steps other processes run, VMs exit, a call fails, labctl is killed *)
(* or the host reboots.  AllocateAndInsert is one step here: StateDB shows *)
(* that it is an atomic claim of the lowest free slot.                     *)
(***************************************************************************)
EXTENDS Integers

CONSTANTS Procs,        \* labctl processes that run at the same time
          MaxSlots,     \* the range of AllocateAndInsert's loop
          Names,        \* snapshot names
          Ports,        \* ports that may be forwarded
          Commands,     \* the commands the operator uses
          Faults,       \* the faults that happen
          OneOperator,  \* TRUE: no two commands at once on one VM or snapshot
          NoName        \* the absence of a snapshot name

AllCommands == {"run", "restore", "destroy", "snapshot", "snapshot delete",
                "ports add", "ports rm", "ports reload"}
AllFaults   == {"error", "kill", "exit", "reboot"}

ASSUME MaxSlotsAssumption == MaxSlots \in Nat \ {0}
ASSUME CommandsAssumption == Commands \subseteq AllCommands
ASSUME FaultsAssumption == Faults \subseteq AllFaults
ASSUME NoNameAssumption == NoName \notin Names
ASSUME OneOperatorAssumption == OneOperator \in BOOLEAN

Slots  == 0 .. (MaxSlots - 1)
NoSlot == -1
Files  == 1 .. 3        \* snapshotFiles: snapshot.bin, mem.bin, rootfs.ext4
Lost   == -2            \* a disk that was written over while its guest ran

VARIABLES
  \* the state database
  rows,       \* the vms table, as slots
  rowPorts,   \* its ports column
  snaps,      \* the snapshots table, as names
  snapPorts,  \* its ports column
  \* the host, per slot
  chroot,     \* vms/<id>: NoSlot, or whose addresses a guest booted from it has
  dump,       \* whose memory its snapshot.bin and mem.bin hold, or NoSlot: they
              \* are missing, torn, or older than the disk beside them
  lost,       \* the slots whose disk was written over while their guest ran
  tap,        \* the tap device exists
  unit,       \* the jailer unit and the state of its VM
  guest,      \* whose addresses the running guest has, or NoSlot
  fwd,        \* the ports whose socat unit is active
  saved,      \* snapshots/<name>: whose state each file holds, or NoSlot
  orphans,    \* history: slots a failed restore gave up with resources left
  \* the labctl processes
  pc,         \* the next step of each process
  job         \* its command and the local variables of the command

ledger == <<rows, rowPorts, snaps, snapPorts>>
dir    == <<chroot, dump, lost>>
host   == <<dir, tap, unit, guest, fwd>>
vars   == <<ledger, host, saved, orphans, pc, job>>

NoJob == [cmd |-> "none", vm |-> NoSlot, name |-> NoName, ports |-> {},
          todo |-> {}, copied |-> 0]

Init ==
  /\ rows = {} /\ rowPorts = [s \in Slots |-> {}]
  /\ snaps = {} /\ snapPorts = [n \in Names |-> {}]
  /\ chroot = [s \in Slots |-> NoSlot]
  /\ dump = [s \in Slots |-> NoSlot] /\ lost = {}
  /\ tap = [s \in Slots |-> FALSE]
  /\ unit = [s \in Slots |-> "none"]
  /\ guest = [s \in Slots |-> NoSlot]
  /\ fwd = [s \in Slots |-> {}]
  /\ saved = [n \in Names |-> [f \in Files |-> NoSlot]]
  /\ orphans = {}
  /\ pc = [p \in Procs |-> "idle"]
  /\ job = [p \in Procs |-> NoJob]

-----------------------------------------------------------------------------
(* Helpers *)

\* Broken variant: a slot is free when no unit runs there.
IsLowestIdle(s) ==
  s \in Slots /\ unit[s] = "none" /\ \A u \in Slots : u < s => unit[u] # "none"

IsLowestFree(s) == s \in Slots \ rows /\ \A u \in Slots : u < s => u \in rows

Alive(s) == unit[s] # "none"

Occupied(s) == chroot[s] # NoSlot \/ tap[s] \/ Alive(s) \/ fwd[s] # {}

\* Three files of one moment.  A guest whose disk a later command wrote over
\* (it ran without a row, see ClaimedSlotIsUnused) has no disk to save.
WholeSnapshot(n) ==
  /\ saved[n][1] # NoSlot /\ saved[n][2] = saved[n][1]
  /\ saved[n][3] \in {saved[n][1], Lost}

\* The discipline of a single operator.
VMFree(s)   == OneOperator => \A p \in Procs : job[p].vm # s
NameFree(n) == OneOperator => \A p \in Procs : job[p].name # n

At(p, label) == pc[p] = label
Goto(p, label) == pc' = [pc EXCEPT ![p] = label] /\ UNCHANGED job
Exit(p) == pc' = [pc EXCEPT ![p] = "idle"] /\ job' = [job EXCEPT ![p] = NoJob]

Begin(p, cmd, label, vm, name, ports, todo) ==
  /\ pc[p] = "idle"
  /\ cmd \in Commands
  /\ pc' = [pc EXCEPT ![p] = label]
  /\ job' = [job EXCEPT ![p] = [cmd |-> cmd, vm |-> vm, name |-> name,
                                ports |-> ports, todo |-> todo, copied |-> 0]]
  /\ UNCHANGED <<ledger, host, saved, orphans>>

\* A command returns an error; only restore undoes its claim first.
Error(p) ==
  IF job[p].cmd = "restore" /\ job[p].vm # NoSlot
    THEN Goto(p, "unclaim")
    ELSE Exit(p)

\* A jailer unit is gone: its guest, and the socat units bound to it.
UnitGone(s) ==
  /\ unit' = [unit EXCEPT ![s] = "none"]
  /\ guest' = [guest EXCEPT ![s] = NoSlot]
  /\ fwd' = [fwd EXCEPT ![s] = {}]

-----------------------------------------------------------------------------
(* Commands start: the row or the snapshot they read at the outset *)

StartRun(p) == Begin(p, "run", "claim", NoSlot, NoName, {}, {})

StartRestore(p, n) ==
  n \in snaps /\ NameFree(n)
  /\ Begin(p, "restore", "claim", NoSlot, n, snapPorts[n], {})

\* Broken variant: destroy removes the files before anything else.
StartDestroyFilesFirst(p, s) ==
  s \in rows /\ VMFree(s)
  /\ Begin(p, "destroy", "rmdir", s, NoName, rowPorts[s], {})

StartDestroy(p, s) ==
  s \in rows /\ VMFree(s)
  /\ Begin(p, "destroy", "stop", s, NoName, rowPorts[s], {})

StartSnapshot(p, s, n) ==
  s \in rows /\ VMFree(s) /\ NameFree(n)
  /\ Begin(p, "snapshot", "checkname", s, n, rowPorts[s], {})

StartPortsAdd(p, s, q) ==
  s \in rows /\ VMFree(s) /\ q \notin rowPorts[s]
  /\ Begin(p, "ports add", "setports", s, NoName, rowPorts[s] \cup {q}, {q})

StartPortsRm(p, s, q) ==
  s \in rows /\ VMFree(s) /\ q \in rowPorts[s]
  /\ Begin(p, "ports rm", "setports", s, NoName, rowPorts[s] \ {q}, {q})

StartPortsReload(p, s) ==
  s \in rows /\ VMFree(s) /\ rowPorts[s] # {}
  /\ Begin(p, "ports reload", "restart", s, NoName, rowPorts[s], rowPorts[s])

\* The registration goes, the directory stays.
DeleteSnapshot(p, n) ==
  /\ pc[p] = "idle" /\ "snapshot delete" \in Commands
  /\ n \in snaps /\ NameFree(n)
  /\ snaps' = snaps \ {n}
  /\ snapPorts' = [snapPorts EXCEPT ![n] = {}]
  /\ UNCHANGED <<rows, rowPorts, host, saved, orphans, pc, job>>

-----------------------------------------------------------------------------
(* run and restore *)

Claim(p) ==
  /\ At(p, "claim")
  /\ \E s \in Slots :
       /\ IsLowestFree(s)
       /\ rows' = rows \cup {s}
       /\ rowPorts' = [rowPorts EXCEPT ![s] = job[p].ports]
       /\ job' = [job EXCEPT ![p].vm = s]
  /\ pc' = [pc EXCEPT ![p] = "chroot"]
  /\ UNCHANGED <<snaps, snapPorts, host, saved, orphans>>

\* New files in a slot's directory, whatever it held; those of a VM that still
\* runs are replaced under it.
Fill(s, owner) ==
  /\ chroot' = [chroot EXCEPT ![s] = owner]
  /\ dump' = [dump EXCEPT ![s] = NoSlot]
  /\ lost' = IF guest[s] # NoSlot THEN lost \cup {s} ELSE lost \ {s}

\* run: mkdir, link the kernel, copy the image; the guest will get the
\* slot's addresses from the boot arguments.
SetupChroot(p) ==
  /\ At(p, "chroot") /\ job[p].cmd = "run"
  /\ Fill(job[p].vm, job[p].vm)
  /\ Goto(p, "tap")
  /\ UNCHANGED <<ledger, tap, unit, guest, fwd, saved, orphans>>

\* restore: copy the snapshot's three files; the guest will have the
\* addresses that are frozen in mem.bin.
SetupRestoreChroot(p) ==
  /\ At(p, "chroot") /\ job[p].cmd = "restore"
  /\ \A f \in Files : saved[job[p].name][f] # NoSlot
  /\ Fill(job[p].vm, saved[job[p].name][2])
  /\ Goto(p, "tap")
  /\ UNCHANGED <<ledger, tap, unit, guest, fwd, saved, orphans>>

\* ip tuntap add, attach to br0, up.
SetupTap(p) ==
  /\ At(p, "tap")
  /\ ~tap[job[p].vm]
  /\ tap' = [tap EXCEPT ![job[p].vm] = TRUE]
  /\ Goto(p, "launch")
  /\ UNCHANGED <<ledger, dir, unit, guest, fwd, saved, orphans>>

\* systemd-run: a unit of that name must not exist, nor may the console log's
\* directory be missing.  The jailer starts firecracker, which waits.
Launch(p) ==
  /\ At(p, "launch")
  /\ ~Alive(job[p].vm) /\ chroot[job[p].vm] # NoSlot
  /\ unit' = [unit EXCEPT ![job[p].vm] = "waiting"]
  /\ Goto(p, "boot")
  /\ UNCHANGED <<ledger, dir, tap, guest, fwd, saved, orphans>>

\* A guest starts on the disk there is, and its memory files get older than it.
Resume(s) ==
  /\ unit[s] = "waiting" /\ tap[s]
  /\ unit' = [unit EXCEPT ![s] = "running"]
  /\ guest' = [guest EXCEPT ![s] = chroot[s]]
  /\ dump' = [dump EXCEPT ![s] = NoSlot]
  /\ lost' = lost \ {s}

\* Broken variant: restore forgets the forwarders.
BootWithoutForwards(p) ==
  /\ At(p, "boot")
  /\ Resume(job[p].vm)
  /\ Goto(p, "forward")
  /\ UNCHANGED <<ledger, chroot, tap, fwd, saved, orphans>>

\* bootVM's requests up to InstanceStart, or snapshot/load with resume_vm.
Boot(p) ==
  /\ At(p, "boot")
  /\ Resume(job[p].vm)
  /\ pc' = [pc EXCEPT ![p] = IF job[p].cmd = "restore" THEN "notify" ELSE "forward"]
  /\ job' = [job EXCEPT ![p].todo = job[p].ports]
  /\ UNCHANGED <<ledger, chroot, tap, fwd, saved, orphans>>

\* A call of the guest's agent comes to an end, well or with an error.  A
\* paused guest need not answer CONNECT, and DialVsock sets no deadline for it.
Answered(s) == unit[s] # "paused"

\* NotifyRestore, whose error is only logged.
Notify(p) ==
  /\ At(p, "notify") /\ Answered(job[p].vm)
  /\ Goto(p, "forward")
  /\ UNCHANGED <<ledger, host, saved, orphans>>

\* LaunchPortForwards: a socat unit bound to the VM's unit, port by port.
Forward(p) ==
  /\ At(p, "forward")
  /\ \E q \in job[p].todo :
       /\ q \notin fwd[job[p].vm] /\ Alive(job[p].vm)
       /\ fwd' = [fwd EXCEPT ![job[p].vm] = @ \cup {q}]
       /\ job' = [job EXCEPT ![p].todo = @ \ {q}]
  /\ UNCHANGED <<ledger, dir, tap, unit, guest, saved, orphans, pc>>

\* The host's side is done, and the guest's proxies are started or stopped.  It
\* ends a ports command; run and restore end too, or attach to the console.
AtAsk(p) == At(p, "ask") \/ (pc[p] \in {"forward", "restart"} /\ job[p].todo = {})
Ask(p) ==
  /\ AtAsk(p) /\ Answered(job[p].vm)
  /\ \/ Exit(p)
     \/ job[p].cmd \in {"run", "restore"} /\ Goto(p, "wait")
  /\ UNCHANGED <<ledger, host, saved, orphans>>

\* Attached, and the unit is gone: an error if its state is "failed".
Wait(p) ==
  /\ At(p, "wait") /\ ~Alive(job[p].vm)
  /\ Exit(p) \/ Error(p)
  /\ UNCHANGED <<ledger, host, saved, orphans>>

\* Attached, and the operator detaches.
Detach(p) ==
  /\ At(p, "wait")
  /\ Exit(p)
  /\ UNCHANGED <<ledger, host, saved, orphans>>

\* Attached, and SIGINT or SIGTERM arrives: the VM is stopped.
Interrupt(p) ==
  /\ At(p, "wait")
  /\ UnitGone(job[p].vm)
  /\ Exit(p)
  /\ UNCHANGED <<ledger, dir, tap, saved, orphans>>

\* restore's error path: `_ = s.Remove(v.ID)`, whose own error is ignored.
Unclaim(p) ==
  /\ At(p, "unclaim")
  /\ \/ /\ rows' = rows \ {job[p].vm}
        /\ rowPorts' = [rowPorts EXCEPT ![job[p].vm] = {}]
        /\ orphans' = orphans \cup {s \in Slots : s = job[p].vm /\ Occupied(s)}
     \/ "error" \in Faults /\ UNCHANGED <<rows, rowPorts, orphans>>
  /\ Exit(p)
  /\ UNCHANGED <<snaps, snapPorts, host, saved>>

-----------------------------------------------------------------------------
(* destroy and snapshot *)

\* Broken variant: an existing snapshot of that name is not noticed.
CheckNameSkipped(p) ==
  /\ At(p, "checkname")
  /\ Goto(p, "pause")
  /\ UNCHANGED <<ledger, host, saved, orphans>>

CheckName(p) ==
  /\ At(p, "checkname")
  /\ job[p].name \notin snaps
  /\ Goto(p, "pause")
  /\ UNCHANGED <<ledger, host, saved, orphans>>

Pause(p) ==
  /\ At(p, "pause")
  /\ unit[job[p].vm] \in {"running", "paused"}
  /\ unit' = [unit EXCEPT ![job[p].vm] = "paused"]
  /\ Goto(p, "create")
  /\ UNCHANGED <<ledger, dir, tap, guest, fwd, saved, orphans>>

\* Broken variant: the answer to snapshot/create is not looked at.
CreateSnapshotUnchecked(p) ==
  /\ At(p, "create")
  /\ dump' \in {dump, [dump EXCEPT ![job[p].vm] = guest[job[p].vm]]}
  /\ Goto(p, "copy")
  /\ UNCHANGED <<ledger, chroot, lost, tap, unit, guest, fwd, saved, orphans>>

\* snapshot/create writes snapshot.bin and mem.bin into the chroot: the memory
\* of the guest, which is paused, so that its disk stays as it is.
CreateSnapshot(p) ==
  /\ At(p, "create")
  /\ unit[job[p].vm] = "paused" /\ chroot[job[p].vm] # NoSlot
  /\ dump' = [dump EXCEPT ![job[p].vm] = guest[job[p].vm]]
  /\ Goto(p, "copy")
  /\ UNCHANGED <<ledger, chroot, lost, tap, unit, guest, fwd, saved, orphans>>

\* What the loop over snapshotFiles finds in the chroot.
InChroot(s, f) == IF f # 3 THEN dump[s] ELSE IF s \in lost THEN Lost ELSE chroot[s]

\* Broken variants: the loop ends one file early, or the snapshot is registered
\* before the VM is stopped.
CopyFileUntil(p, last, next) ==
  /\ At(p, "copy")
  /\ chroot[job[p].vm] # NoSlot
  /\ saved' = [saved EXCEPT ![job[p].name][job[p].copied + 1] =
                 InChroot(job[p].vm, job[p].copied + 1)]
  /\ job' = [job EXCEPT ![p].copied = @ + 1]
  /\ pc' = [pc EXCEPT ![p] = IF job[p].copied = last THEN next ELSE "copy"]
  /\ UNCHANGED <<ledger, host, orphans>>
CopyFileShort(p)     == CopyFileUntil(p, 1, "stop")
CopyFileLong(p)      == CopyFileUntil(p, 3, "stop")
CopyFileUnstopped(p) == CopyFileUntil(p, 2, "record")

\* The files leave the chroot one by one, over whatever the name's directory
\* held.  The VM may be gone by now: its files are still there.
CopyFile(p) ==
  /\ At(p, "copy")
  /\ chroot[job[p].vm] # NoSlot
  /\ saved' = [saved EXCEPT ![job[p].name][job[p].copied + 1] =
                 InChroot(job[p].vm, job[p].copied + 1)]
  /\ job' = [job EXCEPT ![p].copied = @ + 1]
  /\ pc' = [pc EXCEPT ![p] = IF job[p].copied = 2 THEN "stop" ELSE "copy"]
  /\ UNCHANGED <<ledger, host, orphans>>

\* Broken variant: without isKnownUnit, stopping a unit that is gone fails.
StopKnown(p) ==
  /\ At(p, "stop")
  /\ Alive(job[p].vm)
  /\ UnitGone(job[p].vm)
  /\ Goto(p, "unforward")
  /\ UNCHANGED <<ledger, dir, tap, saved, orphans>>

\* systemctl stop; stopping a unit that is gone is no error.
Stop(p) ==
  /\ At(p, "stop")
  /\ UnitGone(job[p].vm)
  /\ Goto(p, "unforward")
  /\ UNCHANGED <<ledger, dir, tap, saved, orphans>>

\* StopPortForwards for the ports the command read; `ports rm`: for one port.
StopForwards(p) ==
  /\ At(p, "unforward")
  /\ LET gone == IF job[p].cmd = "ports rm" THEN job[p].todo ELSE job[p].ports
     IN fwd' = [fwd EXCEPT ![job[p].vm] = @ \ gone]
  /\ Goto(p, IF job[p].cmd = "ports rm" THEN "ask" ELSE "untap")
  /\ UNCHANGED <<ledger, dir, tap, unit, guest, saved, orphans>>

\* Broken variant: the error of `ip tuntap del` is ignored.
TeardownTapIgnored(p) ==
  /\ At(p, "untap")
  /\ Goto(p, "rmdir")
  /\ UNCHANGED <<ledger, host, saved, orphans>>

\* ip tuntap del: the device is busy while a firecracker has it open.
TeardownTap(p) ==
  /\ At(p, "untap")
  /\ ~Alive(job[p].vm)
  /\ tap' = [tap EXCEPT ![job[p].vm] = FALSE]
  /\ Goto(p, "rmdir")
  /\ UNCHANGED <<ledger, dir, unit, guest, fwd, saved, orphans>>

RemoveDir(p) ==
  /\ At(p, "rmdir")
  /\ chroot' = [chroot EXCEPT ![job[p].vm] = NoSlot]
  /\ dump' = [dump EXCEPT ![job[p].vm] = NoSlot]
  /\ lost' = lost \ {job[p].vm}
  /\ orphans' = orphans \ {job[p].vm}
  /\ Goto(p, IF job[p].cmd = "snapshot" THEN "record" ELSE "remove")
  /\ UNCHANGED <<ledger, tap, unit, guest, fwd, saved>>

\* InsertSnapshot, with the ports Get returned at the start.
Record(p) ==
  /\ At(p, "record")
  /\ job[p].name \notin snaps
  /\ snaps' = snaps \cup {job[p].name}
  /\ snapPorts' = [snapPorts EXCEPT ![job[p].name] = job[p].ports]
  /\ Goto(p, "remove")
  /\ UNCHANGED <<rows, rowPorts, host, saved, orphans>>

Remove(p) ==
  /\ At(p, "remove")
  /\ rows' = rows \ {job[p].vm}
  /\ rowPorts' = [rowPorts EXCEPT ![job[p].vm] = {}]
  /\ Exit(p)
  /\ UNCHANGED <<snaps, snapPorts, host, saved, orphans>>

-----------------------------------------------------------------------------
(* ports *)

\* UPDATE vms SET ports: the whole list, computed from the one that was read;
\* no error if the row is gone.
SetPorts(p) ==
  /\ At(p, "setports")
  /\ rowPorts' = [rowPorts EXCEPT ![job[p].vm] =
                    IF job[p].vm \in rows THEN job[p].ports ELSE {}]
  /\ Goto(p, IF job[p].cmd = "ports add" THEN "alive" ELSE "unforward")
  /\ UNCHANGED <<rows, snaps, snapPorts, host, saved, orphans>>

\* A VM that is not running: the port is recorded, and that is all.
CheckAlive(p) ==
  /\ At(p, "alive")
  /\ IF Alive(job[p].vm) THEN Goto(p, "forward") ELSE Exit(p)
  /\ UNCHANGED <<ledger, host, saved, orphans>>

\* RestartPortForwards: systemctl restart knows active units only, --collect
\* has discarded the others.
Restart(p) ==
  /\ At(p, "restart")
  /\ \E q \in job[p].todo :
       q \in fwd[job[p].vm] /\ job' = [job EXCEPT ![p].todo = @ \ {q}]
  /\ UNCHANGED <<ledger, host, saved, orphans, pc>>

-----------------------------------------------------------------------------
(* Errors, faults, and the whole *)

\* Broken variant: only the allocation returns an error, other calls are retried.
CannotDoRetry(p) == pc[p] = "claim" /\ rows = Slots

\* The step cannot be done: what its guard asks for is missing.
CannotDo(p) ==
  LET s == job[p].vm
      n == job[p].name
  IN CASE pc[p] = "claim"     -> rows = Slots
       [] pc[p] = "chroot"    -> job[p].cmd = "restore" /\ \E f \in Files : saved[n][f] = NoSlot
       [] pc[p] = "tap"       -> tap[s]
       [] pc[p] = "launch"    -> Alive(s) \/ chroot[s] = NoSlot
       [] pc[p] = "boot"      -> unit[s] # "waiting" \/ ~tap[s]
       [] pc[p] = "forward"   -> \E q \in job[p].todo : ~Alive(s) \/ q \in fwd[s]
       [] pc[p] = "checkname" -> n \in snaps
       [] pc[p] = "pause"     -> unit[s] \notin {"running", "paused"}
       [] pc[p] = "create"    -> unit[s] # "paused" \/ chroot[s] = NoSlot
       [] pc[p] = "copy"      -> chroot[s] = NoSlot \/ (job[p].copied < 2 /\ dump[s] = NoSlot)
       [] pc[p] = "untap"     -> Alive(s)
       [] pc[p] = "record"    -> n \in snaps
       [] pc[p] = "restart"   -> \E q \in job[p].todo : q \notin fwd[s]
       [] OTHER               -> FALSE

Rejected(p) ==
  /\ CannotDo(p)
  /\ Error(p)
  /\ UNCHANGED <<ledger, host, saved, orphans>>

\* A call fails for a reason of its own; what it had done stays done: the
\* directory is made and the copy fails, the tap is added and not attached,
\* cp or Firecracker leaves a torn file.
Fail(p) ==
  LET s == job[p].vm
      n == job[p].name
  IN /\ "error" \in Faults
     /\ pc[p] \notin {"idle", "alive", "unclaim"}
     /\ \/ UNCHANGED <<dir, tap, saved>>
        \/ /\ At(p, "chroot") /\ Fill(s, s)
           /\ UNCHANGED <<tap, saved>>
        \/ /\ At(p, "tap")
           /\ tap' = [tap EXCEPT ![s] = TRUE]
           /\ UNCHANGED <<dir, saved>>
        \/ /\ At(p, "create")
           /\ dump' = [dump EXCEPT ![s] = NoSlot]
           /\ UNCHANGED <<chroot, lost, tap, saved>>
        \/ /\ At(p, "copy")
           /\ saved' = [saved EXCEPT ![n][job[p].copied + 1] = NoSlot]
           /\ UNCHANGED <<dir, tap>>
     /\ Error(p)
     /\ UNCHANGED <<ledger, unit, guest, fwd, orphans>>

\* labctl is killed between two steps.
Kill(p) ==
  /\ "kill" \in Faults /\ pc[p] # "idle"
  /\ Exit(p)
  /\ UNCHANGED <<ledger, host, saved, orphans>>

\* The guest halts or firecracker dies; BindsTo takes the socat units along.
VMExits(s) ==
  /\ "exit" \in Faults /\ Alive(s)
  /\ UnitGone(s)
  /\ UNCHANGED <<ledger, dir, tap, saved, orphans, pc, job>>

\* Units, taps and processes are gone, the database and the files are not.
Reboot ==
  /\ "reboot" \in Faults
  /\ tap' = [s \in Slots |-> FALSE]
  /\ unit' = [s \in Slots |-> "none"]
  /\ guest' = [s \in Slots |-> NoSlot]
  /\ fwd' = [s \in Slots |-> {}]
  /\ pc' = [p \in Procs |-> "idle"]
  /\ job' = [p \in Procs |-> NoJob]
  /\ UNCHANGED <<ledger, dir, saved, orphans>>

Start(p) ==
  \/ StartRun(p)
  \/ \E n \in Names : StartRestore(p, n) \/ DeleteSnapshot(p, n)
  \/ \E s \in Slots :
       \/ StartDestroy(p, s) \/ StartPortsReload(p, s)
       \/ \E n \in Names : StartSnapshot(p, s, n)
       \/ \E q \in Ports : StartPortsAdd(p, s, q) \/ StartPortsRm(p, s, q)

Work(p) ==
  \/ Claim(p) \/ SetupChroot(p) \/ SetupRestoreChroot(p) \/ SetupTap(p) \/ Launch(p) \/ Boot(p)
  \/ Notify(p) \/ Forward(p) \/ Ask(p) \/ Wait(p) \/ Unclaim(p)
  \/ CheckName(p) \/ Pause(p) \/ CreateSnapshot(p) \/ CopyFile(p)
  \/ Stop(p) \/ StopForwards(p) \/ TeardownTap(p) \/ RemoveDir(p)
  \/ Record(p) \/ Remove(p)
  \/ SetPorts(p) \/ CheckAlive(p) \/ Restart(p)
  \/ Rejected(p)

Next ==
  \/ \E p \in Procs : Start(p) \/ Work(p) \/ Detach(p) \/ Interrupt(p) \/ Fail(p) \/ Kill(p)
  \/ \E s \in Slots : VMExits(s)
  \/ Reboot

Spec == Init /\ [][Next]_vars

\* A labctl process that is left alone executes its next statement.  Nothing
\* makes an operator detach, a VM exit, or a paused guest answer.
FairSpec == Spec /\ \A p \in Procs : WF_vars(Work(p))

-----------------------------------------------------------------------------
(* Properties *)

Labels == {"idle", "claim", "chroot", "tap", "launch", "boot", "notify", "forward",
           "ask", "wait", "unclaim", "checkname", "pause", "create", "copy", "stop",
           "unforward", "untap", "rmdir", "record", "remove", "setports", "alive", "restart"}

Jobs == [cmd : AllCommands \cup {"none"}, vm : Slots \cup {NoSlot},
         name : Names \cup {NoName}, ports : SUBSET Ports, todo : SUBSET Ports,
         copied : 0 .. 3]

LedgerOK ==
  /\ rows \in SUBSET Slots /\ rowPorts \in [Slots -> SUBSET Ports]
  /\ snaps \in SUBSET Names /\ snapPorts \in [Names -> SUBSET Ports]

HostOK ==
  /\ chroot \in [Slots -> Slots \cup {NoSlot}]
  /\ dump \in [Slots -> Slots \cup {NoSlot}] /\ lost \in SUBSET Slots
  /\ tap \in [Slots -> BOOLEAN]
  /\ unit \in [Slots -> {"none", "waiting", "running", "paused"}]
  /\ guest \in [Slots -> Slots \cup {NoSlot}]
  /\ fwd \in [Slots -> SUBSET Ports]

FilesOK ==
  /\ saved \in [Names -> [Files -> Slots \cup {NoSlot, Lost}]]
  /\ \A n \in Names : saved[n][1] # Lost /\ saved[n][2] # Lost
  /\ orphans \in SUBSET Slots

ProcsOK == pc \in [Procs -> Labels] /\ job \in [Procs -> Jobs]

TypeOK == LedgerOK /\ HostOK /\ FilesOK /\ ProcsOK

\* Nothing labctl made on the host is forgotten: a directory, tap, unit or
\* forwarder belongs to a row that `destroy` can name, whatever failed, was
\* killed or rebooted on the way - but for what a failed restore gave up
\* (restore.go:56).
LedgerCovers == \A s \in Slots : Occupied(s) => s \in rows \cup orphans

\* The slot run and restore claim is clean when its chroot is built, with
\* the same exception: the copy would go over a live VM's disk.
FreshSlotIsClean ==
  \A p \in Procs : At(p, "chroot") /\ job[p].vm \notin orphans => ~Occupied(job[p].vm)

\* The same without the exception - state.go:120 "AllocateAndInsert finds the
\* lowest unused index": the slot whose chroot is about to be filled does not
\* carry somebody's live VM.
ClaimedSlotIsUnused == \A p \in Procs : At(p, "chroot") => ~Alive(job[p].vm)

\* A VM never loses its tap or its files while it runs: teardown stops first.
LiveVMWhole ==
  \A s \in Slots : unit[s] \in {"running", "paused"} =>
    tap[s] /\ chroot[s] # NoSlot /\ guest[s] # NoSlot

\* `snapshot` destroys a VM only after its three files are all copied, from
\* one guest, and drops its row only after the snapshot is registered.
SnapshotBeforeTeardown ==
  \A p \in Procs : job[p].cmd = "snapshot" =>
    /\ pc[p] \in {"stop", "unforward", "untap", "rmdir", "record", "remove"} =>
         WholeSnapshot(job[p].name)
    /\ At(p, "remove") => job[p].name \in snaps

\* What `restore` can be asked for can be loaded: no torn or mixed files,
\* also when earlier attempts under the name failed half way, or the VM dies
\* while its files are copied (vm.go:558) - but for the disk of a VM that ran
\* without a row (restore.go:56), which is spoilt before snapshot starts.
RegisteredSnapshotsWhole == \A n \in snaps : WholeSnapshot(n)

\* README.md:282 "restore allocates a fresh VM (new ID/tap/IP/CID)": no two
\* running guests have the same addresses.
GuestAddressesDistinct ==
  \A s \in Slots, u \in Slots : s # u /\ guest[s] = guest[u] => guest[s] = NoSlot

\* README.md:263 "Forwarded ports are persisted per-VM in the state DB": when
\* no command is at work on a running VM, its forwarders are its row's ports.
ForwardsMatchLedger ==
  \A s \in Slots :
    unit[s] = "running" /\ (\A p \in Procs : job[p].vm # s) => fwd[s] = rowPorts[s]

\* The commands take and free slots as StateDB's callers may: the abstract
\* ledger it implements (state.go:120), where the last answer of a process is
\* the slot its run or restore holds and means to keep.
Granted(p) == IF job[p].cmd \in {"run", "restore"} /\ pc[p] # "unclaim" THEN job[p].vm ELSE NoSlot

Ledger == INSTANCE SlotLedger WITH Clients <- Procs, claimed <- rows,
                                   granted <- [p \in Procs |-> Granted(p)]
ImplementsLedger == Ledger!Spec

\* A VM comes up once per claim; when the command that made it is over, it
\* leaves the table only after it has gone down; and its snapshot is registered
\* in between (snapshot.go:43-56).  Only restore gives up a VM that may run
\* (restore.go:56), and only its own.
Makers(s) == {p \in Procs : job[p].vm = s /\ job[p].cmd \in {"run", "restore"}}

Stage(s) ==
  IF s \notin rows THEN "absent"
  ELSE CASE \E p \in Makers(s) : pc[p] \in {"chroot", "tap", "launch", "boot"} -> "starting"
         [] \E p \in Makers(s) : pc[p] \in {"notify", "forward", "ask", "wait"} -> "started"
         [] \E p \in Makers(s) : pc[p] = "unclaim"                             -> "failed"
         [] OTHER -> IF unit[s] \in {"running", "paused"} THEN "up" ELSE "down"

VMs == INSTANCE VMStages WITH stage <- [s \in Slots |-> Stage(s)]
ImplementsVM == VMs!Spec

\* Every command ends, however the host, the VM and other commands on the same
\* VM come between its steps - but for two that wait: at the console of a VM
\* that is up (vm.go:198), and for a paused guest's answer (vsock.go:37).
Attached(p)   == At(p, "wait") /\ Alive(job[p].vm)
Unanswered(p) == (At(p, "notify") \/ AtAsk(p)) /\ unit[job[p].vm] = "paused"
CommandsEnd ==
  \A p \in Procs :
    pc[p] # "idle" ~> pc[p] = "idle" \/ Attached(p) \/ Unanswered(p)

\* Without errors from the host, `destroy` frees its slot, in whatever state
\* earlier commands or the VM's own exit left it.
DestroyFrees ==
  \A p \in Procs, s \in Slots :
    job[p].cmd = "destroy" /\ job[p].vm = s ~> s \notin rows
=============================================================================
