# A TLA+ verification of labctl

`labctl` (Go, `src/cmd`, `src/vm`, `src/state`, `src/ociimage`) runs Firecracker microVMs on one
host. A small agent (Rust, `src/guest-agent`) is PID 1 in every guest. There is no daemon: each
`labctl` command is a process of its own that reads and writes a SQLite file, calls `ip`, `cp`,
`systemctl` and the Firecracker API one after the other, and exits. Nothing ties these calls
together, so what makes the program correct is the *order* of the calls, what each command does when
one of them fails, and what a later command finds of what an earlier one left behind. That is what
the modules here describe.

1. [Inventory](#1-inventory): the parts of the system
2. [Modules](#2-modules-and-the-code): which module models what, and how to read it against the code
3. [Runs](#3-runs): what TLC checks, the bounds, the fairness
4. [Proofs](#4-proofs): what holds for every value of the constants, and why
5. [Disagreements](#5-where-code-and-documentation-disagree) between code and documentation
6. [Not modelled](#6-what-is-not-modelled), and the [plan](#7-plan)

## 1. Inventory

| Part | State | Operations | Talks to | Hard because | Correct when |
|---|---|---|---|---|---|
| State database (`state/state.go`) | tables `vms`, `images`, `snapshots`; one pooled connection per process; SQLite's write lock | `AllocateAndInsert`, `Remove`, `Get`, `SetPorts`, `Insert…`/`Get…`/`Delete…` of images and snapshots | every command | a transaction of many statements; several processes, no `busy_timeout` | a slot has one owner; it is the lowest free one; BUSY is never self-inflicted; calls return |
| VM addressing (`state.go:403`, `vm.go:737`) | none: functions of the slot | `vmIP`, guest MAC, CID | `setup`'s bridge and masquerade rule | quotients and remainders up to slot 999 | addresses are distinct, usable, and reach the internet |
| VM lifecycle (`vm/vm.go`, `cmd/run.go`, `restore.go`, `destroy.go`, `snapshot.go`) | chroot directory, tap, jailer unit, saved files, the row | run, restore, destroy, snapshot, snapshot delete | database, host, Firecracker | a dozen steps per command, each may fail; labctl may be killed; VMs exit by themselves; hosts reboot | the row outlives the resources; teardown stops first; snapshots are whole before the VM goes |
| Port forwarding, host (`cmd/ports.go`, `vm.go:405-460`) | `ports` column, socat units bound to the VM's unit | ports add, rm, reload; launch and stop by run, restore, destroy, snapshot | database, systemd | read, compute, write back; units vanish with their VM | forwarders are what the row says; snapshots carry them |
| Port forwarding, guest (`tcp_vsock_proxy.rs`, `vm/status.go`) | a map of listener threads under a mutex; stop flags | start, stop | the host, over vsock, with a 2 s deadline | a thread per request, a thread per listener, join outside the lock, panics, requests the host has given up on | no listener is lost; stop means the port is free; the table looks atomic |
| Image registry (`cmd/image.go`, `cmd/run.go`, `ociimage/inject.go`) | `images` rows beside one file per name | import, delete, upgrade; run clones the file | database, file system | rows and files are kept in step by call order alone | a registered image is whole; a VM boots the image of its row; delete spares images in use |
| Image build (`ociimage`, `cmd/image_build.go`) | temporary directory, two pipes, the output file | export, extract, write config, install agent, mkfs | crane, tar, mkfs.ext4 | four parties over two pipes, any of which may fail; an error that looks like the end of the stream | an image reported as built is complete; no party is left waiting |
| Console attachment (`vm.go:163-224, 668-733`, `vsock.go`, `cmd/console.go`) | session goroutines, signal channels, terminal mode | `AttachConsole`, `AttachSession`, `waitOrBackground` | guest PTY, systemd | a select over unit exit, signal and console end; one signal goes to two channels | the terminal is restored before the end; the command ends when the VM does |
| Agent event loop (`main.rs`, `scheduler/`, `transport/*vsock.rs`, `boot/signals.rs`, `session/pty.rs`) | epoll set, timer, signal fd, threads, children | accept, reap, tick, start a shell and carry its bytes | hosts, the guest's processes | one thread serves all; signals coalesce; orphans change parents; two threads share a session; descriptors run out | no zombie stays; every source is served; a session lasts as long as host and processes |
| Agent boot, statistics, host `setup`, `list`, migrations | — | straight-line | kernel, nftables | — | — |

How they interact: commands share the **database** and the **host** and nothing else. The slot index
`i` that `AllocateAndInsert` hands out fixes every other name (id `vm<i>`, tap `tap<i>`, directory,
unit, IP, CID), so a slot that is handed out twice is two VMs in one place. The **agent** is reached
over vsock with one request per connection, and answers on that connection.

The hazards these parts are exposed to, each at its line and with the properties that would catch
it, are in `PROJECT.json` under `hazards`; one that no property covers says why.

## 2. Modules and the code

```
SlotLedger  <--implements--  StateDB        one slot, one owner
Addresses                                   slot -> IP, MAC
SlotLedger  <--client of---  Lifecycle      the commands over database and host; AllocateAndInsert,
                                            which StateDB shows to be atomic, is one step
VMStages    <--implements--  Lifecycle      a VM comes up once, goes down before its slot is free
PortTable   <--implements--  ProxyRegistry  the agent's forwarders
Images                                      rows and files of base images
PtyService  <--implements--  GuestAgent     port 1235: a shell for every connection
PtyService  <--extends-----  Console        the host's end, over what the service promises
ImageBuild                                  from a container image to a packed file
```

`MC*.tla` name the model values and the symmetry of the runs, `*_proofs.tla` hold theorems. Beside
some definitions stands a mutated twin (`CopyFileShort`, `AcquireConnUnpooled`,
`StoreStopForgotten`, …). No specification uses a twin; each is a plausible bug that one of the
properties has been seen to catch, so that a property that passes is known to be able to fail.

### StateDB, SlotLedger (`state/state.go`)

Threads of several labctl processes call `AllocateAndInsert` and `Remove`. Every SQL statement is an
action: take the process's one connection (`AcquireConn`), `BEGIN IMMEDIATE` or BUSY
(`BeginImmediate`, `Busy`), a `SELECT` per index (`ProbeTaken`, `ProbeFree`, `Exhausted`), the
`INSERT`, the `COMMIT`, the deferred rollback and the deferred `Close`. A statement may fail, a
process may be killed. `writer` is SQLite's reserved lock, `pool` the connection of each process.

`SlotLedger` is what a caller may rely on: `Claim` takes the lowest free slot in one step, or the
call is refused and changes nothing. `ImplementsLedger` says that `StateDB` implements it, the rows
being the claimed slots.

### Addresses (`state.go:403`, `vm.go:737`, `setup.go:64,108`)

`VmIP`, `GuestMAC` and the bridge's subnet as functions of the slot, on numbers instead of strings;
`Allocate` lets the fleet grow to the 1000 slots of the code.

### Lifecycle, VMStages (`cmd/*.go`, `vm/vm.go`)

A process runs one command; `pc` is its next step, `job` its local variables. A step is one SQL
statement, one host call or API request, or one file tree. All commands share one set of steps
because they share the code: `run` and `restore` are claim, chroot, tap, launch, boot, (for
`restore`) notify, forward, ask, and with `-a` wait; `destroy` is stop, unforward, untap, rmdir,
remove; `snapshot` is checkname, pause, create, copy (three times), then destroy's steps with record
before remove. `Ask` stands for all requests a command makes of the guest's agent at its end; what
the agent does with them is ProxyRegistry's matter. Here only their end counts, and a request to a
paused guest may have none: `DialVsock` sets no deadline for the answer to CONNECT (`Answered`). An
attached command waits until its unit is gone (`Wait`), the operator detaches (`Detach`) or a signal
stops the VM (`Interrupt`). `CannotDo` collects the conditions under which a step returns an error
and `Error` what the command then does: return, or for `restore` drop its row first
(`restore.go:56`, `Unclaim`). `Fail` is an error for a reason outside the model and leaves what the
step had done so far; `Kill`, `VMExits` and `Reboot` happen at any time when `Faults` has them.

Data is reduced to whose it is: a chroot, a saved file and a guest each carry the slot whose
addresses the guest was booted with, which is what tells a torn or mixed snapshot and a duplicate
address apart. `dump` is the memory in a chroot's `snapshot.bin` and `mem.bin`: written by
`CreateSnapshot`, stale as soon as a guest runs on, torn when the request fails. `lost` are the
slots whose disk was written over under a running guest, as `restore_orphan` shows it to happen; a
snapshot taken there has a memory and a disk that do not belong together, which the model keeps
apart as `Lost`. `CopyFile` takes what is in the chroot, whether firecracker is still alive or not:
`vm.go:558-562` does not ask. `orphans` is a history variable: the slots a failed restore has given
up while something of the VM was still there.

`WholeSnapshot` is what a restore can load: memory and disk of one guest at one moment. It excepts a
`Lost` disk, for which no snapshot could do better.

`OneOperator` chooses between two worlds. When TRUE no two commands work on one VM or one snapshot
name at a time (commands on *different* VMs still interleave at every step), which is the use the
code is written for: README.md:94 and image.go:221 call it a single-operator tool. An attached `run`
counts as a command at work on its VM. The runs have it TRUE. With FALSE the model has what two
operators on one VM do to each other (section 5), and the properties that hold all the same are
proved (section 4).

`VMStages` is what the commands promise about a VM, without their steps: a slot is claimed, its VM
comes up at most once, and when the command that made it is over, the VM leaves the table only after
it has gone down and never comes up again; its snapshot is registered in between. Only a failing
`restore` gives up a VM that may run (`GiveUp`, `Abandon`), and only its own. `Stage` reads a slot's
stage off its row, its unit, and where the run or restore that makes it has got to. A `run` that
fails takes its VM to up or down, as `Detach` or `Lose` would: it leaves what there is.

`ImplementsLedger` closes the loop with StateDB: seen as `SlotLedger`'s clients, the slot a process
was `Granted` being the one its run or restore works on, the commands take and give back slots only
as StateDB has been shown to allow.

### ProxyRegistry, PortTable (`tcp_vsock_proxy.rs`, `dispatch.rs`, `vm/status.go`)

Requests are numbered in sending order. The host's `GiveUp` is its two-second deadline; the guest
goes on with the request. In the guest a request's thread parses the port, locks the registry
(`lock().unwrap()`: with a poisoned mutex it panics), and then: *start* is refused for an occupied
key, binds, spawns the listener, inserts the entry; *stop* removes the entry, unlocks, sets the flag
and joins the listener. A listener closes its socket once it sees its flag. `SpawnPanics` and
`AcceptPanics` are failing thread creations, in the first case with the mutex held. `foreign` ports
are those other programs in the guest listen on. `found` is a history variable: the proxy that was
registered for its port when a request was sent.

`PortTable` is a set of open ports, one decision per request. `ImplementsTable` says that
`ProxyRegistry` implements it: the table is the map seen through the start that holds the lock, a
request is decided when it changes the map or is refused.

Abstractions: sending the answer is part of the step that finishes the request; programs that come
to listen later are not modelled; the bytes a proxy carries are left out; a `CONNECT` handshake that
is never answered is in Lifecycle, and a request that reaches the guest is answered here.

### Images (`cmd/image.go`, `cmd/run.go`, `ociimage/inject.go`)

One action per call of import (`StartImport`: the name is free; `Create`, `CopyIn`, `InsertImage`),
delete (`StartDelete`, `CountVMsUsingImage`, `DeleteImage`: the file stays), upgrade (`RemoveAgent`,
`WriteAgent`) and run (`ResolveImage`, then per VM `AllocateAndInsert`, `ReflinkCopy`). `Stop` is a
failing call or a killed process anywhere; it undoes nothing, as in the code. So a killed upgrade
leaves its loop mount, as does one whose `umount` fails (`mounts`, `LeaveMounted`); until somebody
unmounts it, the kernel may write through it into whatever the file has become (`Writeback`), which
does no harm to the image that was mounted and tears one that was imported over it. A file's content
is which import created it and whether it is absent, partial, whole, torn by two writers, or without
its agent. The imported path lies outside the images directory (section 5 has the other case). `cp
--reflink=always` is one step because the file system clones in one operation; which slot
`AllocateAndInsert` picks is StateDB's business; a restored VM's row has no image.

History variables carry the provisos: `racing` are the processes that overlapped another command on
the same name (or a `Writeback` to it), `alone` the images imported without such overlap and onto a
file that was not mounted, `disturbed` the VMs whose disk was copied by a racing run, `forced` the
images deleted with `--force`. `late` are the VMs whose row was inserted after an unforced delete of
their image had counted its users, or had removed it: no other overlap exempts a VM from
`ImagesInUseStay` (section 5). No guard reads any of them.

### GuestAgent, PtyService (`guest-agent/src`)

`loop` is where the agent's one loop is: waiting in epoll, dispatching what it returned (`events`),
reaping, or accepting on one of its two ports. A connection's way is in `pump`: the backlog,
accepted, its thread started, copying from the host to the pty, done; `out` is a session's second
thread, which copies from the pty. A PTY connection's name is also its shell's. What the kernel does
is written into the actions: `Exit` hands the children of a process to PID 1 and raises SIGCHLD,
which is one pending bit however many have died; reading or writing a pty fails once no process
holds it (`Holders`); `accept4` takes a descriptor first, so that at the limit it fails even with an
empty backlog (`Accept` and `SpawnThreads` are then disabled: the loop of `accept_connections`
spins). A closed connection sends no SIGHUP to a shell that runs, see section 5.

`PtyService` is what a host may rely on: a connection gets a shell or is ended; it is not ended
while the host stays and a process uses the pty; and when the host has closed and the last process
has let go it does end. `ImplementsPty` maps the two threads, the shell and whatever the shell
leaves on the pty to the one `line` of the service (`Line`), with the fairness.

Abstractions: bytes are one pending `key` per connection; a control connection carries one request,
whose work is `ProxyRegistry`'s; SIGTERM, which the signalfd swallows, is left out (the loop's
response is a reaping with nothing to reap); the clock never stops ticking (`TimerExpires`).

### Console (`vm.go`, `vsock.go`, `cmd/console.go`)

Extends `PtyService`: the guest and the hosts of other connections are the actions `Others`, and the
one connection `Attached` is labctl's. `session` is where `AttachConsole` and `AttachSession` are,
the deferred calls in their order (signal.Stop, restore, close) as actions; `main` is the select of
`waitOrBackground`, with `how` it ended. `signals` are the goroutines whose channel (of one) holds a
signal; Go delivers SIGINT to both. With `run` the process may end while the session goroutine still
has the terminal, which is what `TerminalRestored` is about. `Stop` may fail and its error is
dropped: `vm' \in {vm, "gone"}`.

Abstractions: the five seconds of `DialVsockRetry` are the choice between success and timeout; a
CONNECT that is never answered, and a `Restore` that fails, are left out.

### ImageBuild (`ociimage.go`, `ext4.go`, `cmd/image_build.go`)

The exporter goroutine, os/exec's copying goroutine, tar and the command. The io.Pipe has no buffer:
`Write` is the meeting of exporter and copier; tar's standard input holds one chunk. The archive's
end marker is in the last chunk, where `crane.Export` writes it; a stream that stops earlier,
between two members, is accepted by tar as well as refused (`TarExits`), so only `exportErr` tells a
whole image from a torn one. `Mkfs` packs whatever is there and calls it `whole` or `truncated`. A
build that is killed leaves its temporary directory, as one whose `os.RemoveAll` fails does (its
error is not looked at: `dir` is then `"left"`); no later build uses it.

## 3. Runs

| Run | Configuration | States | What it shows |
|---|---|---|---|
| `statedb` | 3 threads in 2 processes, 2 slots | 61,344 | `AllocateAndInsert`/`Remove` implement the atomic `SlotLedger`; the slot a SELECT found stays free and lowest until COMMIT; a BUSY always comes from another process; "no slot" is said only when all were taken; every call returns |
| `addresses` | all 1000 slots | 1,001 | IPs and MACs distinct, none the gateway's, a network's or a broadcast address |
| `addresses_internet` | all 1000 slots | violated | the 253rd VM has no internet |
| `lifecycle` | 2 processes, 2 slots, 1 snapshot name; run, restore, destroy, snapshot; all faults | 221,752 (symmetry) | what is on the host has a row; a claimed slot is clean; a running VM has its tap and files; a VM is torn down only after its snapshot is whole; a registered snapshot is whole; the commands are clients of `SlotLedger` and implement `VMStages` |
| `forwards` | 2 processes, 2 slots, 1 name, 1 port, all commands, VMs exit | 184,362 | forwarders are what the row says; a name that is free again is used again without mixing files; every command ends, but for one attached to a VM that is up; destroy frees its slot |
| `restore_orphan` | as `lifecycle` | violated | the slot of a live VM is claimed again |
| `restore_address` | as `lifecycle`, no faults | violated | two guests with one address |
| `proxies` | 2 labctls, 3 requests, ports 80 and 65536, 1 failing thread | 234,062 | no listener is lost; stop frees the port; a quiet request is answered by what it found, and decides the port; requests end; the registry implements `PortTable` |
| `images` | 2 processes, 2 names, 2 VMs, 2 imports | 2,065,132 (symmetry) | registered images are whole; VMs boot their image; delete spares images in use, but for a VM that came after its count |
| `guest` | 1 PTY session with a shell and 1 job, 1 control connection, 5 descriptors | 182,322 | no dead child is forgotten; every source is served unless descriptors run out; a session is what `PtyService` says |
| `console` | the session and 1 other connection, both commands, signals at any time | 17,370 | the terminal is restored first; the command ends once the VM has gone |
| `build` | 3 chunks, every party fails anywhere | 609 | what is reported as built is complete; nobody is left waiting |

Why the bounds are enough. Two processes interleave any two commands, and every property here that
one process can spoil for another needs no third (the proofs cover any number). Two slots give a VM that is claimed while another lives, freed slots below and
above, and a full table. One snapshot name is reused over and over, which is the interesting case;
two names do not share files. `lifecycle` retries it over the torn files of attempts that failed;
`snapshot delete`, after which it is used over a whole snapshot's files, is in `forwards`, because
with all faults besides it is more than one run can do. Three requests are a start, a stop and the
start or stop that overtakes them; 65536 is the port that `parse_port` refuses. Two imports are one
that failed or was deleted and its successor on the same name, or two that overlap. Five descriptors
let a whole session and a control connection live side by side, the loop serving all the while, and
are used up by them, so that it also spins; a shell and a job are an orphan and its parent, dying in
either order. The other connection of `console` is one whose acts the attached session must not
notice. Three chunks are a first, a middle and a last. Bounds are constants (`MaxSlots`, `MaxCalls`,
`MaxPanics`, `MaxIds`, `MaxFds`, `Chunks`); the proofs of section 4 hold for all their values.

Symmetry is used for processes, names and VMs in runs that check no liveness; the two refinements of
`lifecycle` treat all processes alike.

Deadlock is checked in `statedb`, `lifecycle` and `forwards`. `addresses`, `proxies` and `images`
may really stop: all slots are taken, all requests sent, all imports used up. So may `guest` (the VM
has gone), `console` and `build` (the command has ended).

Fairness. In `Lifecycle` a labctl process that is left alone executes its next call (`WF` of
`Work(p)`); exits and faults are never forced. Nor is an end of an attached command: `Work` has its
`Wait`, which needs the unit gone, and neither `Detach` nor `Interrupt`; and `Ask` and `Notify` need
a guest that is not paused. The kernel of a guest that runs answers CONNECT, also with a refusal. So
`CommandsEnd` has two exceptions, `Attached` and `Unanswered`. The second needs a guest that stays
paused, hence a failing snapshot or a second operator, and cannot occur in `forwards`: there no
command waits but at a console. (With `OneOperator` FALSE, failing calls and one slot, where it does
occur, `CommandsEnd` was checked too: 305,670 states.) In `StateDB` each
thread goes on in the same way, and `AcquireConn` is strongly fair: `database/sql` hands a returned connection to a waiting request, so
a thread cannot wait for ever while others come and go. In `ProxyRegistry` the threads of the guest
are scheduled by its kernel (`WF` of each request's and each listener's step) and `run_listener`
looks at its stop flag every 200 ms, whatever connects. `Images` states no liveness. In `GuestAgent`
the loop and the threads go on when they can; no process need exit or print, no host need close. In
`Console` the session and the main goroutine go on; nobody need detach, no signal need come and no
VM need stop. In `ImageBuild` each party goes on (tar with what it can read or with its exit, never
forced to fail), and `crane.Export` comes to its end: a registry that never answers would block it,
with the command, for good.

## 4. Proofs

All theorems are checked by TLAPS for every value of the constants under the named assumptions of
the modules (`MaxSlots` positive, `NoName` no name, …).

| Module | Theorems | Argument |
|---|---|---|
| `StateDB_proofs` | `TypeCorrect`, `PoolExclusion`, `SelectionStable`, `RefusalMeansFull`, `BusyComesFromOutside`, `CallsCountDown`, `ConnectionComesBack`, `Refinement` | The connection and the write lock have one holder each; a transaction's probed index has only taken slots below it, and no row changes while another holds the lock, so the slot chosen is lowest until COMMIT, where `SlotLedger`'s `Claim` happens. |
| `Addresses_proofs` | `TypeCorrect`, `DistinctIdentities`, `UsableAddresses`, `FirstSubnetOnly` | Quotient and remainder by 254 (256 for the MAC) determine the slot; holds up to 65022 slots. The internet is reached exactly while the fleet has at most 252 VMs. |
| `Lifecycle_proofs` | `TypeCorrect`, `LedgerKnowsHost`, `ClaimedSlotsAreClean`, `RunningVMsAreWhole`, `RegisteredSnapshotsAreWhole`, `SnapshotsOutliveTheirVMs`, `CommandsUseLedger`, `CommandsImplementVM`, `ForwardersFollowTheLedger`, `OnlyErrorsLoseVMs`, `OnlyRestoreSharesAddresses`, `CommandsCountDown` | See below. |
| `ProxyRegistry_proofs` | `TypeCorrect`, `EntriesAreServed`, `NoListenerIsLost`, `StopMeansFree`, `LastQuietRequestDecides`, `WaitsAreShort`, `Refinement` | The mutex has one holder, and what lies between the holder's steps is known: a port being started is in nobody's entry, a listener is in the map, in the hands of the start that will insert it, or of the stop that closes it. For `QuietRequestDecides`, `Quiet` adds that a latest request that is quiet is alone at its port in the guest, so that the only listener there is the registry's, and the map stays as the request left it; `found` is then what it met there, and decides its answer. |
| `Images_proofs` | `TypeCorrect`, `RegisteredImagesAreWhole`, `VMsBootTheirImage`, `DeleteSparesUsedImages` | `racing` misses no overlap; so the file of an import that nobody overlapped is what it wrote when it inserts its row, and the row a command found is still there when it uses it. A mount left on a file is of the image there, or of one before it, and then the file's image is not `alone`. A VM with the image an unforced delete has counted came after the count: this is all `DeleteSparesUsedImages` needs, and no overlap but that. Before its insert an import's id is known to no row, VM or process. |
| `GuestAgent_proofs` | `TypeCorrect`, `ZombiesAreReaped`, `SessionsKeepPromise` | `NoZombieForgotten` is inductive with the types: a signal is drained only on the way to `reap`, and that place is left only without zombies. For the refinement: which states of the two threads go together, that a shell lives on its own pty, and that `Line` changes only as the service allows; one step per action. |
| `Console_proofs` | `TypeCorrect`, `TerminalIsRestored`, `ConsoleUsesService` | The terminal is raw only between `MakeRaw` and `Restore`, and every end but two comes after the session's. Each step is one of `PtyService` or leaves its variables: with `SessionsKeepPromise`, the command runs over the agent as it is. |
| `ImageBuild_proofs` | `TypeCorrect`, `BuiltImagesAreComplete`, `NobodyIsStuck`, `BuildCountsDown` | While tar runs, what was written is extracted, in its input or in the copier's hands; the pipe is closed after the exporter's verdict, so a tar that saw an early end of the stream is contradicted by the channel. A command that has not read the whole stream closes its end of the pipe before it waits for the exporter, and a finished exporter has closed its own: so somebody can always go on. |

**Lifecycle's argument.** `LedgerCovers` is not inductive by itself: a step that builds a tap needs
to know that its process still owns the row. `IInv` adds what each label of `pc` implies about the
command's own VM, and that no two commands own one VM. On top of it stand

- `SnapInv`: no two commands use one name, the name stays unregistered until `Record`, and the files
  copied so far are of one moment: from `create` until the VM is down its guest stays paused or
  dies, so that what `create` wrote goes with the disk beside it, whichever of the two it is.
- `LiveInv`: a live VM has a row. It rests on what `restore` can still give up: when the host
  *refuses* a step, because a tap, a unit or a forwarder is there or missing, the VM is already down
  (`MakeStage`, `RefusedIsDown`). Only a call that *fails* can end a restore while its VM lives,
  which is the hypothesis of `OnlyErrorsLoseVMs`, and the counterexample of `restore_orphan`.
- `FwdInv`: on a VM that nobody works on the forwarders are the row's ports (`Steady`), and during a
  ports command they differ by `todo` (`Adding`, `Removing`). A failing call or a kill between the
  `UPDATE` and the last `systemd-run` leaves the difference for good, so both are excluded; VMs may
  exit and the host may reboot.
- `OwnAddresses`: without `restore` a directory and a guest have their own slot's addresses.

Which hypothesis which theorem needs:

| Theorem | One command per VM | Faults |
|---|---|---|
| `TypeCorrect`, `CommandsUseLedger`, `CommandsCountDown` (finitely many ports) | no | any |
| `OnlyRestoreSharesAddresses` (no `restore` command) | no | any |
| `LedgerKnowsHost`, `ClaimedSlotsAreClean`, `RunningVMsAreWhole`, the snapshot theorems, `CommandsImplementVM` | yes | any |
| `OnlyErrorsLoseVMs` | yes | kills, exits, reboots |
| `ForwardersFollowTheLedger` | yes | exits, reboots |

For `CommandsImplementVM` each action is shown to leave every `Stage` alone but its own VM's
(`SameStage`, `IdleMoves`), and to move that one as `VMStages` allows (`MakingMoves`); a reboot
takes all VMs down at once, which is why `Lose` has a set.

**Termination without fairness.** Of a liveness property two parts are safety, and are proved: that
steps are bounded, by a count that each lowers (`CommandsCountDown`, `CallsCountDown`,
`BuildCountsDown`), and that no one waits for one who waits (`ConnectionComesBack`, `WaitsAreShort`,
`NobodyIsStuck`). In `NobodyIsStuck` failing is no way out: an exporter at work can go on only if it
can write, has written all, or learns that its reader has gone. What is left to TLC is that the
fairness of the specifications turns this into progress.

Each inductive invariant (`IInv`, `SnapInv`, `LiveInv`, `FwdInv`, `Quiet`, `WaitInv`) was checked by
TLC before it was proved.

Only model-checked: the liveness properties (`CallsReturn`, `CommandsEnd`, `DestroyFrees`,
`RequestsEnd`, `LoopServes`, `AttachEnds`, `BuildEnds`, the fairness of `ImplementsPty`), which need
ENABLED and are out of the prover's reach. Every other property of a passing run is stated by a
theorem. The three that a run finds violated are stated with the hypothesis under which they do hold
(`FirstSubnetOnly`, `OnlyErrorsLoseVMs`, `OnlyRestoreSharesAddresses`). `TypeOK` is checked in the
runs of StateDB and Lifecycle; that of the other modules is proved and part of no run.

## 5. Where code and documentation disagree

Shown by a run that TLC finds violated (quotations in `PROJECT.json`, `findings`):

- `addresses_internet` — README.md:310 lets the addresses spill into further /24s; gateway, netmask
  and masquerade rule stay those of the first. `FirstSubnetOnly`: the first 252 VMs are unaffected.
- `restore_orphan` — a `restore` that fails after its VM has started removes the row and leaves the
  VM. `OnlyErrorsLoseVMs`: without failing calls this does not happen.
- `restore_address` — a restored guest keeps the IP and MAC of the VM it was saved from.
  `OnlyRestoreSharesAddresses`: nothing else does it.

Met while modelling, without a run:

- snapshot registers the port list it read when it began (snapshot.go:30, 53), and pausing, dumping
  and copying take seconds. A `ports add` that finishes meanwhile, in a second terminal, is neither
  in the snapshot nor, once the row is dropped, anywhere else, against README.md:263-264 ("so
  `snapshot`/`restore` carry them across"). Lifecycle has it when `OneOperator` is FALSE.
- `image delete` counts an image's VMs (image.go:179) and deletes its row (image.go:187) in two
  statements; a `run` that inserts its row in between references an image that goes without
  `--force`, whose help (image.go:194) is "remove even if VMs still reference this image". These are
  the VMs that `late` excepts from `ImagesInUseStay`; without the exception TLC finds the race in
  ten steps.
- `ports add`, `rm` and `reload` of a VM that a failed snapshot has left paused never return: the
  handshake of `DialVsock` has no deadline (vsock.go:37), the two seconds of `vm/status.go:83` are
  counted only after it.
- Detaching does not end an idle shell, against README.md:222 ("detaching kills that shell
  process"), `vm/status.go:19-20` and `vm.go:667`. The thread that reads the pty keeps it open until
  the shell writes something (`pty_vsock.rs:51`), and the shell itself has inherited a descriptor of
  the master: `rustix::io::dup` (`session/pty.rs:25`) sets no O_CLOEXEC. No SIGHUP comes; the shell
  stays with its thread and descriptors, and enough of them bring the loop to its limit.
- A session whose shell has exited is not closed until the host types something: the other thread
  waits for the host, and holds the connection (`pty_vsock.rs:57`). vm.go:665 says that the session
  "returns when the connection closes (VM exited or the guest process exited)".
- `vms/` is kept across a host reboot, with the rows, against README.md:293 ("Wiped on reboot"):
  nothing in the code or in `setup` wipes it. `Reboot` keeps both; a later `destroy` removes them.
- An attached `run` or `restore` polls its unit by name (vm.go:183, 379). If its VM is destroyed
  from another terminal and the slot is claimed again within 300 ms, it waits for the new VM, and
  ctrl+c stops that one, against vm.go:166-168, where the wait is for the VM it started. Lifecycle
  has this behaviour (`Wait`, `Interrupt`), and no property of it.
- `run --attach-console`: when the unit's exit wins the select the process ends without the deferred
  restore, and the terminal stays raw. A SIGINT from outside also ends the session, which may win
  the select: the command says "detached" and the VM runs on, against vm.go:168 ("the signal kills
  it"). The log's "ctrl+c to stop" (vm.go:176) is not so once the terminal is raw: the key goes to
  the guest. `Wait` looks every 300 ms, so a VM that ends by itself is mostly reported as
  "detached".
- `ports add` reads, computes and writes the list back without a transaction (ports.go:42,55): of
  two at once on one VM one is lost, its forwarder running unrecorded (README.md:263 "persisted
  per-VM").
- Launching a forward that is already running is an error, which vm.go:75 denies ("Idempotent"): a
  `ports rm` killed after its UPDATE leaves the unit, and `ports add` of that port then fails.
- `image build` writes Entrypoint, User and WorkingDir into the image's config
  (ociimage.go:191-198); the agent runs only `cmd` with `env` (`session/pty.rs:27-35`).

Smaller ones: the short help of `image delete` (image.go:160) says that it deletes the file, which
stays; `parse_port` in the agent says "must be 1-65535" and lets 0 through; `ports reload` cannot
bring back a socat unit that has exited, because `--collect` has discarded it and `systemctl
restart` then finds no unit; an `image upgrade` that fails after removing the old agent leaves the
registered image without one, and one that is killed leaves its mount; an `image import` whose path
is the file a deleted image of that name left behind (image.go:190 prints that path) truncates its
own source (image.go:199,205) and registers an empty image, after `checkExt4` has found it sound.

## 6. What is not modelled

- What crane, tar and mkfs.ext4 put into a file, and the bytes a session, a proxy or a request
  carries: I/O whose correctness is in the tools called.
- In Console and ProxyRegistry, a CONNECT handshake that is never answered (`vsock.go:37`, against a
  paused VM): Lifecycle has it for the commands, where `CommandsEnd` names it. A `term.Restore` that
  fails.
- The text of command output, `list` and `snapshot list`, flag parsing, environment variables.
- Guest boot (`boot/mount.rs`, `boot/time.rs`): system calls before the loop starts, and a panic if
  one fails. The parsing of /proc (`proc_stats.rs`) keeps no state; that it happens is `Tick`.
- Migrations: one-off commands run by hand.
- Host `setup`: only its addresses, in `Addresses`.
- `agentpb`: generated code. The messages appear as the requests of `ProxyRegistry` and
  `GuestAgent`.

## 7. Plan

Done, in this order: StateDB and SlotLedger (everything rests on the claim), Addresses, Lifecycle
(the core), ProxyRegistry and PortTable, Images, GuestAgent and PtyService, Console, ImageBuild,
VMStages; each with its proofs.

Next, the model:

1. In Lifecycle, a socat unit that exits by itself, and the promise of `ports reload`
   (README.md:263-265).
2. An import from the images directory (section 5).
3. A paused VM under `Console`: what a handshake without a deadline does to the attached session.

Next, the proofs: the safety parts of `AttachEnds` and `LoopServes` (who waits for whom in Console
and in the agent's loop), and what still holds in Images and Lifecycle for two commands on one VM.
