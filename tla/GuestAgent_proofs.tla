------------------------- MODULE GuestAgent_proofs -------------------------
(***************************************************************************)
(* For any number of connections, processes and descriptors: no child of   *)
(* the agent is forgotten, and a session's threads, shell and descendants  *)
(* keep what PtyService promises a host.                                   *)
(***************************************************************************)
EXTENDS GuestAgent, TLAPS

Parents == \A p \in Procs : parent[p] # p
Zombies == TypeOK /\ Parents /\ NoZombieForgotten

LEMMA InitTyped == Init => TypeOK
  BY DEF Init, TypeOK, Ports, Sources, Procs

\* The host's end of a connection.
LEMMA HostStep ==
  ASSUME TypeOK, NEW c \in Conns, Dial(c) \/ Send(c) \/ HostCloses(c)
  PROVE  TypeOK' /\ UNCHANGED <<proc, parent, sigchld, loop>>
<1> USE DEF TypeOK, connVars, procVars, loopVars
<1>1. CASE Dial(c)
  BY <1>1 DEF Dial
<1>2. CASE Send(c)
  BY <1>2 DEF Send
<1>3. CASE HostCloses(c)
  BY <1>3 DEF HostCloses
<1> QED
  BY <1>1, <1>2, <1>3

\* The threads of a connection start a shell at most.
LEMMA ThreadStep ==
  ASSUME TypeOK, NEW c \in Conns, PumpThread(c) \/ CopyOutEnds(c) \/ CopyOutFails(c)
  PROVE  /\ TypeOK' /\ UNCHANGED <<parent, loop>> /\ (sigchld => sigchld')
         /\ UNCHANGED proc \/ proc' = [proc EXCEPT ![c] = "running"]
<1> USE DEF TypeOK, connVars, procVars, loopVars, Procs
<1>1. CASE StartSession(c)
  BY <1>1 DEF StartSession
<1>2. CASE StartFails(c)
  <2>1. CASE sigchld' \in {sigchld, TRUE} /\ UNCHANGED <<proc, tty>>
    <3>1. sigchld' \in BOOLEAN /\ (sigchld => sigchld')
      BY <2>1, Zenon
    <3> QED
      BY <1>2, <2>1, <3>1 DEF StartFails
  <2>2. CASE /\ proc' = [proc EXCEPT ![c] = "running"]
             /\ tty' = [tty EXCEPT ![c] = c]
             /\ UNCHANGED sigchld
    BY <1>2, <2>2 DEF StartFails
  <2> QED
    BY <1>2, <2>1, <2>2 DEF StartFails
<1>3. CASE CopyIn(c)
  BY <1>3 DEF CopyIn
<1>4. CASE CopyInEnds(c)
  BY <1>4 DEF CopyInEnds
<1>5. CASE HandleConnection(c)
  BY <1>5 DEF HandleConnection
<1>6. CASE CopyOutEnds(c)
  BY <1>6 DEF CopyOutEnds
<1>7. CASE CopyOutFails(c)
  BY <1>7 DEF CopyOutFails
<1> QED
  BY <1>1, <1>2, <1>3, <1>4, <1>5, <1>6, <1>7 DEF PumpThread

\* The loop leaves the reaping only with no dead child left, and forgets a
\* signal only to begin it.
LEMMA LoopStep ==
  ASSUME TypeOK, EventLoop
  PROVE  /\ TypeOK' /\ UNCHANGED parent
         /\ UNCHANGED proc \/ \E p \in Procs : proc' = [proc EXCEPT ![p] = "reaped"]
         /\ (sigchld => sigchld') \/ loop' = "reap"
         /\ loop = "reap" => loop' = "reap" \/ OwnZombies = {}
<1> USE DEF TypeOK, connVars, procVars, loopVars, Ports, Sources
<1>1. CASE GetEvents
  <2>1. Ready \subseteq Sources
    BY DEF Ready
  <2> QED
    BY <1>1, <2>1 DEF GetEvents
<1>2. CASE DrainSignals
  BY <1>2 DEF DrainSignals, Serve
<1>3. CASE ReapedAll
  BY <1>3 DEF ReapedAll
<1>4. CASE Tick
  BY <1>4 DEF Tick, Serve
<1>5. CASE EndDispatch
  BY <1>5 DEF EndDispatch
<1>6. CASE \E p \in Procs : Reap(p)
  BY <1>6 DEF Reap
<1>7. CASE \E port \in Ports : HandleEvents(port)
  BY <1>7 DEF HandleEvents, Serve
<1>8. CASE \E port \in Ports : SpawnThreads(port)
  BY <1>8 DEF SpawnThreads
<1>9. CASE \E c \in Conns : Accept(c)
  BY <1>9 DEF Accept
<1> QED
  BY <1>1, <1>2, <1>3, <1>4, <1>5, <1>6, <1>7, <1>8, <1>9 DEF EventLoop

\* Whoever dies is announced to the agent, or is not its child.
LEMMA ProcessStep ==
  ASSUME TypeOK, Parents, NEW p \in Procs,
         Exit(p) \/ Wait(p) \/ \E d \in Children : Fork(p, d)
  PROVE  /\ TypeOK' /\ Parents' /\ UNCHANGED loop /\ (sigchld => sigchld')
         /\ OwnZombies' \subseteq OwnZombies \/ sigchld'
<1> USE DEF TypeOK, connVars, procVars, loopVars, Procs, OwnZombies, Running
<1>1. CASE Exit(p)
  <2> DEFINE orphans == {d \in Procs : parent[d] = p}
  <2>1. TypeOK' /\ Parents' /\ UNCHANGED loop /\ (sigchld => sigchld')
    BY <1>1, PidOneAssumption DEF Exit, Parents
  <2>2. \A d \in Procs : d \in OwnZombies' => d \in OwnZombies \/ sigchld'
    <3> SUFFICES ASSUME NEW d \in Procs, d \in OwnZombies' PROVE d \in OwnZombies \/ sigchld'
      OBVIOUS
    <3>1. CASE d = p
      BY <1>1, <3>1 DEF Exit, Parents
    <3>2. CASE d # p
      BY <1>1, <3>2 DEF Exit
    <3> QED
      BY <3>1, <3>2
  <2> QED
    BY <2>1, <2>2
<1>2. CASE Wait(p)
  BY <1>2 DEF Wait, Parents
<1>3. CASE \E d \in Children : Fork(p, d)
  BY <1>3, PidOneAssumption DEF Fork, Parents
<1> QED
  BY <1>1, <1>2, <1>3

LEMMA GuestInv ==
  ASSUME Zombies, Guest
  PROVE  Zombies'
<1> USE DEF Zombies, Parents, NoZombieForgotten
<1>1. CASE EventLoop
  BY <1>1, LoopStep DEF OwnZombies, TypeOK
<1>2. CASE TimerExpires
  BY <1>2 DEF TimerExpires, TypeOK, OwnZombies, connVars, procVars, loopVars
<1>3. CASE \E c \in Conns : PumpThread(c) \/ CopyOutEnds(c) \/ CopyOutFails(c)
  BY <1>3, ThreadStep DEF OwnZombies, TypeOK
<1>4. CASE \E p \in Procs : Exit(p) \/ Wait(p) \/ \E d \in Children : Fork(p, d)
  BY <1>4, ProcessStep
<1> QED
  BY <1>1, <1>2, <1>3, <1>4 DEF Guest

LEMMA NextInv ==
  ASSUME Zombies, [Next]_vars
  PROVE  Zombies'
<1> USE DEF Zombies, Parents, NoZombieForgotten
<1>1. CASE GuestStep
  BY <1>1, GuestInv DEF GuestStep
<1>2. CASE Halt
  BY <1>2 DEF Halt, TypeOK, OwnZombies, connVars, procVars, loopVars
<1>3. CASE \E c \in Conns : Dial(c) \/ Send(c) \/ HostCloses(c)
  BY <1>3, HostStep DEF OwnZombies
<1>4. CASE UNCHANGED vars
  BY <1>4 DEF vars, TypeOK, OwnZombies, connVars, procVars, loopVars
<1> QED
  BY <1>1, <1>2, <1>3, <1>4 DEF Next

LEMMA Invariance == Spec => []Zombies
<1>1. Init => Zombies
  BY InitTyped, PidOneAssumption DEF Init, Zombies, Parents, NoZombieForgotten, OwnZombies
<1> QED
  BY <1>1, NextInv, PTL DEF Spec

\* Every connection, thread, process and source keeps to its states.
THEOREM TypeCorrect == Spec => []TypeOK
<1>1. Zombies => TypeOK
  BY DEF Zombies
<1> QED
  BY <1>1, Invariance, PTL

\* However deaths, adoptions and the loop interleave, a dead child of the agent
\* has a SIGCHLD pending or is being reaped.
THEOREM ZombiesAreReaped == Spec => []NoZombieForgotten
<1>1. Zombies => NoZombieForgotten
  BY DEF Zombies
<1> QED
  BY <1>1, Invariance, PTL

-----------------------------------------------------------------------------
(* What PtyService promises, except that a session ends at all.            *)

Shape ==
  \A c \in PtyConns :
    /\ host[c] = "none" <=> pump[c] = "none"
    /\ pump[c] \in {"none", "queued", "accepted", "start"} => out[c] = "none"
    /\ tty[c] \in {c, NoTty}

\* Whoever the host sees moves only when its threads or its last process do.
LEMMA LineKept ==
  ASSUME NEW b \in PtyConns, pump'[b] = pump[b], out'[b] = out[b],
         Holders(b) = {} <=> Holders(b)' = {}
  PROVE  Line(b)' = Line(b)
  BY DEF Line

LEMMA LineMoves ==
  ASSUME NEW c \in PtyConns, \A b \in PtyConns \ {c} : Line(b)' = Line(b)
  PROVE  [b \in PtyConns |-> Line(b)]'
           = [[b \in PtyConns |-> Line(b)] EXCEPT ![c] = Line(c)']
  OBVIOUS

LEMMA PtyStutters ==
  ASSUME UNCHANGED <<vm, host>>, \A b \in PtyConns : Line(b)' = Line(b)
  PROVE  UNCHANGED Pty!vars
  BY DEF Pty!vars

\* One session moves and nothing else of what the host sees.
LEMMA PtyMoves ==
  ASSUME NEW c \in PtyConns, vm = "up", UNCHANGED <<vm, host>>,
         \A b \in PtyConns \ {c} : Line(b)' = Line(b),
         \/ Line(c) = "waiting" /\ Line(c)' \in {"live", "ended"}
         \/ Line(c) = "live" /\ Line(c)' = "dead"
         \/ Line(c) = "dead" /\ Line(c)' = "ended"
         \/ Line(c) = "live" /\ Line(c)' = "ended" /\ host[c] = "closed"
         \/ Line(c)' = Line(c)
  PROVE  [Pty!Next]_(Pty!vars)
<1>1. [b \in PtyConns |-> Line(b)]'
        = [[b \in PtyConns |-> Line(b)] EXCEPT ![c] = Line(c)']
  BY LineMoves
<1>2. CASE Line(c) = "waiting" /\ Line(c)' \in {"live", "ended"}
  <2>1. Pty!Begin(c)
    BY <1>1, <1>2 DEF Pty!Begin, Pty!Moves
  <2> QED
    BY <2>1 DEF Pty!Next
<1>3. CASE Line(c) = "live" /\ Line(c)' = "dead"
  <2>1. Pty!Die(c)
    BY <1>1, <1>3 DEF Pty!Die, Pty!Moves
  <2> QED
    BY <2>1 DEF Pty!Next
<1>4. CASE \/ Line(c) = "dead" /\ Line(c)' = "ended"
           \/ Line(c) = "live" /\ Line(c)' = "ended" /\ host[c] = "closed"
  <2>1. Pty!End(c)
    BY <1>1, <1>4 DEF Pty!End, Pty!Moves
  <2> QED
    BY <2>1 DEF Pty!Next
<1>5. CASE Line(c)' = Line(c)
  <2>1. UNCHANGED Pty!vars
    BY <1>1, <1>5 DEF Pty!vars
  <2> QED
    BY <2>1
<1> QED
  BY <1>2, <1>3, <1>4, <1>5

LEMMA ShapeStep ==
  ASSUME TypeOK, Shape, [Next]_vars
  PROVE  Shape'
<1> USE DistinctAssumption DEF Shape, TypeOK, connVars, procVars, loopVars, Conns, Procs
<1>1. CASE EventLoop
  <2>1. CASE \E c \in Conns : Accept(c)
    BY <2>1 DEF Accept
  <2>2. CASE \E port \in Ports : SpawnThreads(port)
    BY <2>2 DEF SpawnThreads
  <2>3. CASE UNCHANGED <<host, pump, out, tty>>
    BY <2>3
  <2> QED
    BY <1>1, <2>1, <2>2, <2>3
    DEF EventLoop, GetEvents, DrainSignals, ReapedAll, Tick, EndDispatch, Reap, HandleEvents
<1>2. CASE \E c \in Conns : PumpThread(c) \/ CopyOutEnds(c) \/ CopyOutFails(c)
  <2>1. PICK c \in Conns : PumpThread(c) \/ CopyOutEnds(c) \/ CopyOutFails(c)
    BY <1>2
  <2>2. CASE StartSession(c)
    BY <2>2 DEF StartSession
  <2>3. CASE StartFails(c)
    <3>1. /\ c \in PtyConns /\ pump' = [pump EXCEPT ![c] = "done"]
          /\ pump[c] = "start" /\ UNCHANGED <<host, out>>
          /\ tty' = tty \/ tty' = [tty EXCEPT ![c] = c]
      BY <2>3, Zenon DEF StartFails
    <3> QED
      BY <3>1
  <2>4. CASE CopyIn(c) \/ CopyInEnds(c) \/ HandleConnection(c)
    BY <2>4 DEF CopyIn, CopyInEnds, HandleConnection
  <2>5. CASE CopyOutEnds(c) \/ CopyOutFails(c)
    BY <2>5 DEF CopyOutEnds, CopyOutFails
  <2> QED
    BY <2>1, <2>2, <2>3, <2>4, <2>5 DEF PumpThread
<1>3. CASE TimerExpires
  BY <1>3 DEF TimerExpires
<1>4. CASE \E p \in Procs : Exit(p) \/ Wait(p) \/ \E d \in Children : Fork(p, d)
  BY <1>4 DEF Exit, Wait, Fork
<1>5. CASE Halt
  BY <1>5 DEF Halt
<1>6. CASE \E c \in Conns : Dial(c) \/ Send(c) \/ HostCloses(c)
  BY <1>6 DEF Dial, Send, HostCloses
<1>7. CASE UNCHANGED vars
  BY <1>7 DEF vars
<1> QED
  BY <1>1, <1>2, <1>3, <1>4, <1>5, <1>6, <1>7 DEF Next, GuestStep, Guest

\* The loop moves a connection nearer to its session, which no host sees.
LEMMA LoopRefines ==
  ASSUME TypeOK, Shape, EventLoop
  PROVE  UNCHANGED Pty!vars
<1> USE DEF TypeOK, connVars, procVars, loopVars
<1>1. UNCHANGED <<vm, host, out, tty>> /\ \A p \in Procs : Running(p) <=> Running(p)'
  BY LoopStep DEF EventLoop, GetEvents, DrainSignals, ReapedAll, Tick, EndDispatch, Reap,
     HandleEvents, Accept, SpawnThreads, Running, OwnZombies
<1>2. \A b \in PtyConns : Holders(b)' = Holders(b)
  BY <1>1 DEF Holders
<1>3. \A b \in PtyConns : \/ pump'[b] = pump[b]
                          \/ /\ pump[b] \in {"queued", "accepted"}
                             /\ pump'[b] \in {"accepted", "start"}
  BY DEF EventLoop, GetEvents, DrainSignals, ReapedAll, Tick, EndDispatch, Reap,
     HandleEvents, Accept, SpawnThreads, Conns
<1>4. \A b \in PtyConns : Line(b)' = Line(b)
  <2> SUFFICES ASSUME NEW b \in PtyConns PROVE Line(b)' = Line(b)
    OBVIOUS
  <2>1. CASE pump'[b] = pump[b]
    BY <1>1, <1>2, <2>1, LineKept
  <2>2. CASE pump[b] \in {"queued", "accepted"} /\ pump'[b] \in {"accepted", "start"}
    BY <1>1, <2>2 DEF Line, Shape
  <2> QED
    BY <1>3, <2>1, <2>2
<1> QED
  BY <1>1, <1>4, PtyStutters

\* The two threads of a session.
LEMMA ThreadRefines ==
  ASSUME TypeOK, Shape, vm = "up", NEW c \in Conns,
         PumpThread(c) \/ CopyOutEnds(c) \/ CopyOutFails(c)
  PROVE  [Pty!Next]_(Pty!vars)
<1> USE DistinctAssumption DEF TypeOK, Shape, connVars, procVars, loopVars, Conns, Procs
<1>1. UNCHANGED <<vm, host>>
  BY DEF PumpThread, StartSession, StartFails, CopyIn, CopyInEnds, HandleConnection,
     CopyOutEnds, CopyOutFails
<1>2. \A b \in PtyConns \ {c} : pump'[b] = pump[b] /\ out'[b] = out[b]
  BY DEF PumpThread, StartSession, StartFails, CopyIn, CopyInEnds, HandleConnection,
     CopyOutEnds, CopyOutFails
<1>3. \A b \in PtyConns \ {c} : Holders(b)' = Holders(b)
  <2>1. CASE UNCHANGED <<proc, tty>>
    BY <2>1 DEF Holders, Running
  <2>2. CASE /\ c \in PtyConns
             /\ proc' = [proc EXCEPT ![c] = "running"]
             /\ tty' = [tty EXCEPT ![c] = c]
    BY <2>2, NoTtyAssumption DEF Holders, Running
  <2> QED
    BY <2>1, <2>2 DEF PumpThread, StartSession, StartFails, CopyIn, CopyInEnds,
       HandleConnection, CopyOutEnds, CopyOutFails
<1>4. \A b \in PtyConns \ {c} : Line(b)' = Line(b)
  BY <1>2, <1>3, LineKept
<1>5. CASE c \in ControlConns
  BY <1>1, <1>4, <1>5, PtyStutters
<1>6. CASE c \in PtyConns
  <2>1. CASE StartSession(c)
    <3>1. c \in Holders(c)'
      BY <1>6, <2>1 DEF StartSession, Holders, Running
    <3>2. Line(c) = "waiting" /\ Line(c)' = "live"
      BY <1>6, <2>1, <3>1 DEF StartSession, Line
    <3> QED
      BY <1>1, <1>4, <1>6, <3>2, PtyMoves
  <2>2. CASE StartFails(c)
    <3>1. Line(c) = "waiting" /\ Line(c)' = "ended"
      BY <1>6, <2>2 DEF StartFails, Line
    <3> QED
      BY <1>1, <1>4, <1>6, <3>1, PtyMoves
  <2>3. CASE CopyIn(c) \/ CopyInEnds(c) \/ CopyOutEnds(c) \/ CopyOutFails(c)
    <3>1. Holders(c)' = Holders(c)
      BY <2>3 DEF CopyIn, CopyInEnds, CopyOutEnds, CopyOutFails, Holders, Running
    <3>2. Line(c) = IF Holders(c) = {} THEN "dead" ELSE "live"
      BY <1>6, <2>3 DEF CopyIn, CopyInEnds, CopyOutEnds, CopyOutFails, Line
    <3>3. Line(c)' \in {Line(c), "ended"}
      BY <1>6, <2>3, <3>1, <3>2 DEF CopyIn, CopyInEnds, CopyOutEnds, CopyOutFails, Line
    <3>4. Line(c)' = Line(c) \/ Holders(c) = {} \/ host[c] = "closed"
      BY <1>6, <2>3, <3>1, LineKept DEF CopyIn, CopyInEnds, CopyOutEnds, CopyOutFails
    <3> QED
      BY <1>1, <1>4, <1>6, <3>2, <3>3, <3>4, PtyMoves
  <2> QED
    BY <1>6, <2>1, <2>2, <2>3 DEF PumpThread, HandleConnection
<1> QED
  BY <1>5, <1>6

\* A process may let go of one pty; whoever joins one finds it held.
LEMMA ProcessRefines ==
  ASSUME TypeOK, Shape, vm = "up", NEW p \in Procs,
         Exit(p) \/ Wait(p) \/ \E d \in Children : Fork(p, d)
  PROVE  [Pty!Next]_(Pty!vars)
<1> USE NoTtyAssumption DEF TypeOK, connVars, procVars, loopVars, Procs
<1>1. UNCHANGED <<vm, host, pump, out>>
  BY DEF Exit, Wait, Fork
<1>2. CASE Exit(p)
  <2>1. \A b \in PtyConns : Holders(b)' = Holders(b) \ {p}
    BY <1>2 DEF Exit, Holders, Running
  <2>2. \A b \in PtyConns : tty[p] # b => Holders(b)' = Holders(b)
    BY <2>1 DEF Holders
  <2>3. \A b \in PtyConns : tty[p] # b => Line(b)' = Line(b)
    BY <1>1, <2>2, LineKept
  <2>4. CASE tty[p] = NoTty
    <3>1. \A b \in PtyConns : Line(b)' = Line(b)
      BY <2>3, <2>4
    <3> QED
      BY <1>1, <3>1, PtyStutters
  <2>5. CASE tty[p] \in PtyConns
    <3>0. PICK c \in PtyConns : c = tty[p]
      BY <2>5
    <3>1. Holders(c) # {}
      BY <1>2, <3>0 DEF Exit, Holders, Running
    <3>2. Line(c)' = Line(c) \/ (Line(c) = "live" /\ Line(c)' = "dead")
      <4>1. CASE Holders(c)' # {}
        BY <1>1, <3>1, <4>1, LineKept
      <4>2. CASE Holders(c)' = {} /\ (pump[c] = "copy" \/ out[c] = "copy")
        BY <1>1, <3>1, <4>2 DEF Line, Shape
      <4>3. CASE ~(pump[c] = "copy" \/ out[c] = "copy")
        BY <1>1, <4>3 DEF Line, Shape
      <4> QED
        BY <4>1, <4>2, <4>3
    <3> QED
      BY <1>1, <2>3, <3>0, <3>2, PtyMoves
  <2> QED
    BY <2>4, <2>5
<1>3. CASE Wait(p)
  <2>1. \A b \in PtyConns : Holders(b)' = Holders(b)
    BY <1>3 DEF Wait, Holders, Running
  <2>2. \A b \in PtyConns : Line(b)' = Line(b)
    BY <1>1, <2>1, LineKept
  <2> QED
    BY <1>1, <2>2, PtyStutters
<1>4. CASE \E d \in Children : Fork(p, d)
  <2>1. PICK d \in Children : Fork(p, d)
    BY <1>4
  <2>2. \A b \in PtyConns : Holders(b) = {} <=> Holders(b)' = {}
    <3> SUFFICES ASSUME NEW b \in PtyConns PROVE Holders(b) = {} <=> Holders(b)' = {}
      OBVIOUS
    <3>1. Holders(b) \subseteq Holders(b)' /\ Holders(b)' \subseteq Holders(b) \cup {d}
      BY <2>1 DEF Fork, Holders, Running
    <3>2. d \in Holders(b)' => p \in Holders(b)
      BY <2>1 DEF Fork, Holders, Running
    <3> QED
      BY <3>1, <3>2
  <2>3. \A b \in PtyConns : Line(b)' = Line(b)
    BY <1>1, <2>2, LineKept
  <2> QED
    BY <1>1, <2>3, PtyStutters
<1> QED
  BY <1>2, <1>3, <1>4

LEMMA HostRefines ==
  ASSUME TypeOK, Shape, NEW c \in Conns, Dial(c) \/ Send(c) \/ HostCloses(c)
  PROVE  [Pty!Next]_(Pty!vars)
<1> USE DEF TypeOK, connVars, procVars, loopVars, Conns
<1>1. \A b \in PtyConns : Holders(b)' = Holders(b)
  BY DEF Dial, Send, HostCloses, Holders, Running
<1>2. \A b \in PtyConns \ {c} : Line(b)' = Line(b)
  BY <1>1, LineKept DEF Dial, Send, HostCloses
<1>3. CASE Dial(c) /\ c \in PtyConns
  <2>1. Line(c)' = "waiting"
    BY <1>3 DEF Dial, Line, Shape
  <2>2. [b \in PtyConns |-> Line(b)]'
          = [[b \in PtyConns |-> Line(b)] EXCEPT ![c] = "waiting"]
    BY <1>2, <1>3, <2>1, LineMoves
  <2>3. Pty!Dial(c)
    BY <1>3, <2>2 DEF Dial, Pty!Dial
  <2> QED
    BY <1>3, <2>3 DEF Pty!Next
<1>4. CASE HostCloses(c) /\ c \in PtyConns
  <2>1. \A b \in PtyConns : Line(b)' = Line(b)
    BY <1>1, <1>4, LineKept DEF HostCloses
  <2>2. Pty!HostCloses(c)
    BY <1>4, <2>1 DEF HostCloses, Pty!HostCloses
  <2> QED
    BY <1>4, <2>2 DEF Pty!Next
<1>5. CASE Send(c) \/ c \notin PtyConns
  <2>1. \A b \in PtyConns : Line(b)' = Line(b)
    BY <1>1, <1>5, LineKept DEF Dial, Send, HostCloses
  <2>2. vm' = vm /\ \A b \in PtyConns : host'[b] = host[b]
    BY <1>5 DEF Dial, Send, HostCloses
  <2> QED
    BY <2>1, <2>2 DEF Pty!vars
<1> QED
  BY <1>3, <1>4, <1>5

LEMMA StepRefines ==
  ASSUME TypeOK, Shape, [Next]_vars
  PROVE  [Pty!Next]_(Pty!vars)
<1>1. CASE GuestStep
  <2>1. CASE EventLoop
    BY <2>1, LoopRefines
  <2>2. CASE TimerExpires
    <3>1. UNCHANGED <<vm, host, pump, out, proc, tty>>
      BY <2>2 DEF TimerExpires, connVars, procVars
    <3>2. \A b \in PtyConns : Line(b)' = Line(b)
      BY <3>1, LineKept DEF Holders, Running
    <3> QED
      BY <3>1, <3>2, PtyStutters
  <2> QED
    BY <1>1, <2>1, <2>2, ThreadRefines, ProcessRefines DEF GuestStep, Guest
<1>2. CASE Halt
  <2>1. UNCHANGED <<host, pump, out, proc, tty>>
    BY <1>2 DEF Halt, connVars, procVars
  <2>2. \A b \in PtyConns : Line(b)' = Line(b)
    BY <2>1, LineKept DEF Holders, Running
  <2>3. Pty!Halt
    BY <1>2, <2>1, <2>2 DEF Halt, Pty!Halt
  <2> QED
    BY <2>3 DEF Pty!Next
<1>3. CASE \E c \in Conns : Dial(c) \/ Send(c) \/ HostCloses(c)
  BY <1>3, HostRefines
<1>4. CASE UNCHANGED vars
  <2>1. UNCHANGED <<vm, host, pump, out, proc, tty>>
    BY <1>4 DEF vars, connVars, procVars
  <2>2. \A b \in PtyConns : Line(b)' = Line(b)
    BY <2>1, LineKept DEF Holders, Running
  <2> QED
    BY <2>1, <2>2, PtyStutters
<1> QED
  BY <1>1, <1>2, <1>3, <1>4 DEF Next

\* For any number of sessions and of processes that shells leave behind, the
\* guest starts, keeps and closes connections as PtyService promises; that it
\* does close them is ImplementsPty's liveness part, which TLC checks.
THEOREM SessionsKeepPromise == Spec => Pty!Init /\ [][Pty!Next]_(Pty!vars)
<1>1. Init => Shape
  BY DEF Init, Shape, Conns, Procs
<1>2. TypeOK /\ Shape /\ [Next]_vars => Shape'
  BY ShapeStep
<1>3. Init => Pty!Init
  BY DEF Init, Pty!Init, Line, Conns
<1>4. TypeOK /\ Shape /\ [Next]_vars => [Pty!Next]_(Pty!vars)
  BY StepRefines
<1> QED
  BY <1>1, <1>2, <1>3, <1>4, TypeCorrect, PTL DEF Spec
=============================================================================
