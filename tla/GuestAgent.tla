----------------------------- MODULE GuestAgent -----------------------------
(***************************************************************************)
(* The guest agent (src/guest-agent/src/main.rs), PID 1 of every VM: one   *)
(* thread waits in epoll and serves the signalfd, the timer and two vsock  *)
(* listeners; every accepted connection gets a thread, and a PTY           *)
(* connection a shell and a second thread (transport/pty_vsock.rs).  The   *)
(* agent reaps every orphan of the guest (boot/signals.rs).                *)
(*                                                                         *)
(* A PTY connection also names its shell.  The kernel's part (backlogs,    *)
(* SIGCHLD, reparenting, ptys, file descriptors) is in the actions of the  *)
(* code that meets it; the end of the VM stops everything at once.         *)
(***************************************************************************)
EXTENDS Integers, FiniteSets

CONSTANTS PtyConns,      \* connections to port 1235, each with its shell
          ControlConns,  \* connections to port 1234, one request each
          Children,      \* other processes, forked by shells
          PidOne,        \* the agent, as a parent
          NoTty,         \* a process that has let go of its session's pty
          MaxFds         \* descriptors the agent may have for connections

Conns == PtyConns \cup ControlConns
Procs == PtyConns \cup Children

ASSUME PidOneAssumption == PidOne \notin Procs
ASSUME NoTtyAssumption == NoTty \notin PtyConns
ASSUME DistinctAssumption ==
  /\ PtyConns \cap ControlConns = {}
  /\ PtyConns \cap Children = {}
ASSUME MaxFdsAssumption == MaxFds \in Nat

VARIABLES
  vm,       \* "up", or "gone" with all its processes
  host,     \* the host's end of each connection: none, open, closed
  key,      \* bytes the host sent are still to be read
  pump,     \* where the connection is: its backlog, the loop, or its thread
  out,      \* the second thread of a session: none, copy, done
  proc,     \* each process: none, running, zombie, reaped
  parent,   \* who may wait for it
  tty,      \* the session whose pty it holds open
  sigchld,  \* SIGCHLD is pending on the signalfd
  timer,    \* the timer has expired
  loop,     \* where the loop is: wait, dispatch, reap, or accepting on a port
  events    \* sources the last epoll_wait returned and the loop has yet to serve

connVars == <<host, key, pump, out>>
procVars == <<proc, parent, tty>>
loopVars == <<loop, events>>
vars == <<vm, connVars, procVars, sigchld, timer, loopVars>>

Ports == {"pty", "control"}
Sources == Ports \cup {"signal", "timer"}
Port(c) == IF c \in PtyConns THEN "pty" ELSE "control"
Backlog(port) == {c \in Conns : Port(c) = port /\ pump[c] = "queued"}
Running(p) == proc[p] = "running"
Holders(c) == {p \in Procs : Running(p) /\ tty[p] = c}
OwnZombies == {p \in Procs : proc[p] = "zombie" /\ parent[p] = PidOne}

\* A session's threads own the connection and the pty twice, by try_clone.
Fds == Cardinality({c \in Conns : pump[c] \in {"accepted", "start"}})
         + 2 * (Cardinality({c \in Conns : pump[c] = "copy"})
                  + Cardinality({c \in Conns : out[c] = "copy"}))

Init ==
  /\ vm = "up"
  /\ host = [c \in Conns |-> "none"]
  /\ key = [c \in Conns |-> FALSE]
  /\ pump = [c \in Conns |-> "none"]
  /\ out = [c \in Conns |-> "none"]
  /\ proc = [p \in Procs |-> "none"]
  /\ parent = [p \in Procs |-> PidOne]
  /\ tty = [p \in Procs |-> NoTty]
  /\ sigchld = FALSE
  /\ timer = FALSE
  /\ loop = "wait"
  /\ events = {}

-----------------------------------------------------------------------------
(* The host's end of a connection, and the end of the VM.                  *)

\* The guest's kernel completes the connection before the agent accepts it.
Dial(c) ==
  /\ vm = "up" /\ host[c] = "none"
  /\ host' = [host EXCEPT ![c] = "open"]
  /\ pump' = [pump EXCEPT ![c] = "queued"]
  /\ UNCHANGED <<vm, key, out, procVars, sigchld, timer, loopVars>>

Send(c) ==
  /\ vm = "up" /\ host[c] = "open"
  /\ key' = [key EXCEPT ![c] = TRUE]
  /\ UNCHANGED <<vm, host, pump, out, procVars, sigchld, timer, loopVars>>

HostCloses(c) ==
  /\ host[c] = "open"
  /\ host' = [host EXCEPT ![c] = "closed"]
  /\ UNCHANGED <<vm, key, pump, out, procVars, sigchld, timer, loopVars>>

\* The VM is stopped, or a thread the loop cannot create panics PID 1.
Halt ==
  /\ vm = "up"
  /\ vm' = "gone"
  /\ UNCHANGED <<connVars, procVars, sigchld, timer, loopVars>>

-----------------------------------------------------------------------------
(* The event loop: main.rs, scheduler/epoll.rs, boot/signals.rs.           *)

TimerExpires ==
  /\ vm = "up" /\ ~timer
  /\ timer' = TRUE
  /\ UNCHANGED <<vm, connVars, procVars, sigchld, loopVars>>

Ready == {s \in Sources : CASE s = "signal" -> sigchld
                            [] s = "timer" -> timer
                            [] OTHER -> Backlog(s) # {}}

GetEvents ==
  /\ loop = "wait" /\ Ready # {}
  /\ loop' = "dispatch"
  /\ events' = Ready
  /\ UNCHANGED <<vm, connVars, procVars, sigchld, timer>>

\* The next source served is any of them; the kernel orders the list.
Serve(s, place) ==
  /\ loop = "dispatch" /\ s \in events
  /\ events' = events \ {s}
  /\ loop' = place

DrainSignals ==
  /\ Serve("signal", "reap")
  /\ sigchld' = FALSE
  /\ UNCHANGED <<vm, connVars, procVars, timer>>

\* Broken variant: one child for each SIGCHLD.
ReapOne(p) ==
  /\ loop = "reap" /\ p \in OwnZombies
  /\ proc' = [proc EXCEPT ![p] = "reaped"]
  /\ loop' = "dispatch"
  /\ UNCHANGED <<vm, connVars, parent, tty, sigchld, timer, events>>

Reap(p) ==
  /\ loop = "reap" /\ p \in OwnZombies
  /\ proc' = [proc EXCEPT ![p] = "reaped"]
  /\ UNCHANGED <<vm, connVars, parent, tty, sigchld, timer, loopVars>>

\* wait4 finds no dead child, whether or not one is alive.
ReapedAll ==
  /\ loop = "reap" /\ OwnZombies = {}
  /\ loop' = "dispatch"
  /\ UNCHANGED <<vm, connVars, procVars, sigchld, timer, events>>

\* The handlers sample /proc and return, whatever they could read.
Tick ==
  /\ Serve("timer", "dispatch")
  /\ timer' = FALSE
  /\ UNCHANGED <<vm, connVars, procVars, sigchld>>

\* handle_events: the accept loop of that listener is entered.
HandleEvents(port) ==
  /\ Serve(port, port)
  /\ UNCHANGED <<vm, connVars, procVars, sigchld, timer>>

EndDispatch ==
  /\ loop = "dispatch" /\ events = {}
  /\ loop' = "wait"
  /\ UNCHANGED <<vm, connVars, procVars, sigchld, timer, events>>

\* accept4 takes a descriptor before it looks at the backlog.  Without one it
\* fails with EMFILE, which accept_connections ignores: the loop tries again.
Accept(c) ==
  /\ loop = Port(c) /\ pump[c] = "queued" /\ Fds < MaxFds
  /\ pump' = [pump EXCEPT ![c] = "accepted"]
  /\ UNCHANGED <<vm, host, key, out, procVars, sigchld, timer, loopVars>>

\* Broken variant: the loop itself waits for a connection's first bytes.
SpawnThreadsReading(port) ==
  /\ loop = port /\ Backlog(port) = {} /\ Fds < MaxFds
  /\ \A c \in Conns : pump[c] = "accepted" => key[c]
  /\ pump' = [c \in Conns |-> IF pump[c] = "accepted" THEN "start" ELSE pump[c]]
  /\ loop' = "dispatch"
  /\ UNCHANGED <<vm, host, key, out, procVars, sigchld, timer, events>>

\* EWOULDBLOCK; then a thread for each connection accepted.
SpawnThreads(port) ==
  /\ loop = port /\ Backlog(port) = {} /\ Fds < MaxFds
  /\ pump' = [c \in Conns |-> IF pump[c] = "accepted" THEN "start" ELSE pump[c]]
  /\ loop' = "dispatch"
  /\ UNCHANGED <<vm, host, key, out, procVars, sigchld, timer, events>>

-----------------------------------------------------------------------------
(* The threads of a connection: transport/pty_vsock.rs, vsock.rs.          *)

\* handle_pty_connection: the shell on a new pty, and the second thread.
StartSession(c) ==
  /\ c \in PtyConns /\ pump[c] = "start" /\ Fds + 3 <= MaxFds
  /\ pump' = [pump EXCEPT ![c] = "copy"]
  /\ out' = [out EXCEPT ![c] = "copy"]
  /\ proc' = [proc EXCEPT ![c] = "running"]
  /\ tty' = [tty EXCEPT ![c] = c]
  /\ UNCHANGED <<vm, host, key, parent, sigchld, timer, loopVars>>

\* The image's config or its command is missing (a failed exec leaves its own
\* SIGCHLD), or, with the shell running, a clone or the second thread fails.
StartFails(c) ==
  /\ c \in PtyConns /\ pump[c] = "start"
  /\ pump' = [pump EXCEPT ![c] = "done"]
  /\ \/ /\ sigchld' \in {sigchld, TRUE}
        /\ UNCHANGED <<proc, tty>>
     \/ /\ proc' = [proc EXCEPT ![c] = "running"]
        /\ tty' = [tty EXCEPT ![c] = c]
        /\ UNCHANGED sigchld
  /\ UNCHANGED <<vm, host, key, out, parent, timer, loopVars>>

\* Writing to a pty that no process holds fails with EIO and ends the thread.
CopyIn(c) ==
  /\ c \in PtyConns /\ pump[c] = "copy" /\ key[c]
  /\ key' = [key EXCEPT ![c] = FALSE]
  /\ pump' = [pump EXCEPT ![c] = IF Holders(c) = {} THEN "done" ELSE "copy"]
  /\ UNCHANGED <<vm, host, out, procVars, sigchld, timer, loopVars>>

\* Broken variant: the end is noticed only behind bytes.
CopyInEndsLate(c) ==
  /\ c \in PtyConns /\ pump[c] = "copy" /\ key[c] /\ host[c] = "closed"
  /\ pump' = [pump EXCEPT ![c] = "done"]
  /\ UNCHANGED <<vm, host, key, out, procVars, sigchld, timer, loopVars>>

CopyInEnds(c) ==
  /\ c \in PtyConns /\ pump[c] = "copy" /\ ~key[c] /\ host[c] = "closed"
  /\ pump' = [pump EXCEPT ![c] = "done"]
  /\ UNCHANGED <<vm, host, key, out, procVars, sigchld, timer, loopVars>>

\* Reading a pty that no process holds fails with EIO.
CopyOutEnds(c) ==
  /\ out[c] = "copy" /\ Holders(c) = {}
  /\ out' = [out EXCEPT ![c] = "done"]
  /\ UNCHANGED <<vm, host, key, pump, procVars, sigchld, timer, loopVars>>

\* The shell prints something and the host is not there to read it.
CopyOutFails(c) ==
  /\ out[c] = "copy" /\ Holders(c) # {} /\ host[c] = "closed"
  /\ out' = [out EXCEPT ![c] = "done"]
  /\ UNCHANGED <<vm, host, key, pump, procVars, sigchld, timer, loopVars>>

\* handle_connection: one request read and answered, or the host has left.
HandleConnection(c) ==
  /\ c \in ControlConns /\ pump[c] = "start"
  /\ key[c] \/ host[c] = "closed"
  /\ key' = [key EXCEPT ![c] = FALSE]
  /\ pump' = [pump EXCEPT ![c] = "done"]
  /\ UNCHANGED <<vm, host, out, procVars, sigchld, timer, loopVars>>

-----------------------------------------------------------------------------
(* The processes of the guest.  A session's end sends no SIGHUP to a shell  *)
(* that runs: the shell has inherited a descriptor of the pty's master     *)
(* (spawn_pty_process dups it without O_CLOEXEC), which so stays open.     *)

\* A shell starts a job, or a daemon that leaves it (and perhaps the pty).
Fork(p, d) ==
  /\ Running(p) /\ d \in Children /\ proc[d] = "none"
  /\ proc' = [proc EXCEPT ![d] = "running"]
  /\ \E q \in {p, PidOne}, t \in {tty[p], NoTty} :
       /\ parent' = [parent EXCEPT ![d] = q]
       /\ tty' = [tty EXCEPT ![d] = t]
  /\ UNCHANGED <<vm, connVars, sigchld, timer, loopVars>>

\* The children it leaves, dead ones too, become the agent's.
Exit(p) ==
  LET orphans == {d \in Procs : parent[d] = p} IN
  /\ Running(p)
  /\ proc' = [proc EXCEPT ![p] = "zombie"]
  /\ parent' = [d \in Procs |-> IF d \in orphans THEN PidOne ELSE parent[d]]
  /\ sigchld' = (sigchld \/ parent[p] = PidOne \/ \E d \in orphans : proc[d] = "zombie")
  /\ UNCHANGED <<vm, connVars, tty, timer, loopVars>>

Wait(d) ==
  /\ proc[d] = "zombie" /\ parent[d] # PidOne /\ Running(parent[d])
  /\ proc' = [proc EXCEPT ![d] = "reaped"]
  /\ UNCHANGED <<vm, connVars, parent, tty, sigchld, timer, loopVars>>

-----------------------------------------------------------------------------
EventLoop ==
  \/ GetEvents \/ DrainSignals \/ ReapedAll \/ Tick \/ EndDispatch
  \/ \E p \in Procs : Reap(p)
  \/ \E port \in Ports : HandleEvents(port) \/ SpawnThreads(port)
  \/ \E c \in Conns : Accept(c)

PumpThread(c) ==
  \/ StartSession(c) \/ StartFails(c) \/ CopyIn(c) \/ CopyInEnds(c)
  \/ HandleConnection(c)

Guest ==
  \/ EventLoop
  \/ TimerExpires
  \/ \E c \in Conns : PumpThread(c) \/ CopyOutEnds(c) \/ CopyOutFails(c)
  \/ \E p \in Procs : Exit(p) \/ Wait(p) \/ \E d \in Children : Fork(p, d)

GuestStep == vm = "up" /\ Guest

Next ==
  \/ GuestStep
  \/ Halt
  \/ \E c \in Conns : Dial(c) \/ Send(c) \/ HostCloses(c)

Spec == Init /\ [][Next]_vars

\* Threads of the agent that can go on do.  A shell need not exit or print, a
\* host need not close, the VM need not end.
Fairness ==
  /\ WF_vars(vm = "up" /\ EventLoop)
  /\ \A c \in Conns : /\ WF_vars(vm = "up" /\ PumpThread(c))
                      /\ WF_vars(vm = "up" /\ CopyOutEnds(c))

FairSpec == Spec /\ Fairness

-----------------------------------------------------------------------------
TypeOK ==
  /\ vm \in {"up", "gone"}
  /\ host \in [Conns -> {"none", "open", "closed"}]
  /\ key \in [Conns -> BOOLEAN]
  /\ pump \in [Conns -> {"none", "queued", "accepted", "start", "copy", "done"}]
  /\ out \in [Conns -> {"none", "copy", "done"}]
  /\ proc \in [Procs -> {"none", "running", "zombie", "reaped"}]
  /\ parent \in [Procs -> Procs \cup {PidOne}]
  /\ tty \in [Procs -> PtyConns \cup {NoTty}]
  /\ sigchld \in BOOLEAN
  /\ timer \in BOOLEAN
  /\ loop \in {"wait", "dispatch", "reap"} \cup Ports
  /\ events \subseteq Sources

\* One SIGCHLD stands for several deaths and an orphan may die unannounced
\* before it is the agent's; still no dead child of the agent waits without a
\* wakeup to come (drain_signals drains before it reaps).
NoZombieForgotten == OwnZombies # {} => sigchld \/ loop = "reap"

Starved == vm = "gone" \/ Fds >= MaxFds

\* last_beat is "proof the sampling loop is still alive" (stats.rs).
TickServed == timer ~> ~timer \/ Starved

BacklogServed(c) ==
  pump[c] = "queued" ~> pump[c] \notin {"queued", "accepted"} \/ Starved

\* "hangs up (and reaps) the child" (vm/status.go): the reaping.
OrphanReaped(p) ==
  (proc[p] = "zombie" /\ parent[p] = PidOne) ~> proc[p] = "reaped" \/ Starved

\* The loop always comes back to each of its sources, whatever the others
\* bring, unless it spins in accept for want of descriptors.
LoopServes ==
  /\ TickServed
  /\ \A c \in Conns : BacklogServed(c)
  /\ \A p \in Procs : OrphanReaped(p)

\* A session as the host sees it.
Line(c) ==
  CASE pump[c] = "none" -> "none"
    [] pump[c] \in {"queued", "accepted", "start"} -> "waiting"
    [] pump[c] = "done" /\ out[c] # "copy" -> "ended"
    [] pump[c] = "copy" \/ out[c] = "copy" -> IF Holders(c) = {} THEN "dead" ELSE "live"

Pty == INSTANCE PtyService WITH
         Conns <- PtyConns,
         host <- [c \in PtyConns |-> host[c]],
         line <- [c \in PtyConns |-> Line(c)]

\* Two threads, a shell and what it leaves behind are to the host one session:
\* never closed under an attached host while a process uses it, and closed,
\* descriptors and all, when both have gone.
ImplementsPty == Pty!Spec
=============================================================================
