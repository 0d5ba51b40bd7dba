--------------------------- MODULE ProxyRegistry ---------------------------
(***************************************************************************)
(* The guest side of a port forward, and the labctl processes that drive   *)
(* it.  The agent handles every request on a thread of its own             *)
(* (transport/vsock.rs); ProxyRegistry::start and stop                     *)
(* (transport/tcp_vsock_proxy.rs) share a map under a mutex, and every     *)
(* proxy has a listener thread that owns the TCP socket.  The host waits   *)
(* two seconds for an answer (vm/status.go) and then goes on, while the    *)
(* guest finishes what it began.                                           *)
(*                                                                         *)
(* A request is numbered by the order of sending; a listener thread has    *)
(* the number of the request that started it.                              *)
(***************************************************************************)
EXTENDS Integers

CONSTANTS Labctls,     \* labctl processes
          Ports,       \* TCP port numbers in requests
          MaxCalls,    \* bound: requests ever sent
          MaxPanics    \* bound: thread creations that fail

ASSUME MaxCallsAssumption == MaxCalls \in Nat
ASSUME MaxPanicsAssumption == MaxPanics \in Nat
ASSUME PortsAssumption == Ports \subseteq Nat \ {0}

Calls  == 1 .. MaxCalls
NoCall == 0
NoPort == 0
U16Max == 65535

VARIABLES
  sent,       \* the number of requests sent
  op, port,   \* what each request asks for
  awaits,     \* the request each labctl waits for, or NoCall
  after,      \* the port a `ports reload` has yet to start, or NoPort
  quiet,      \* history: no request for its port was in the guest when it was sent
  found,      \* history: the listener its port had in the registry when it was sent
  guest,      \* where the thread handling the request is
  verdict,    \* the thread's answer: none, ack or error
  took,       \* the listener a stop took out of the map
  thread,     \* the listener threads: none, bound, running, closed, dead
  stop,       \* their stop flags
  proxies,    \* the registry: the listener of each port, or NoCall
  mutex,      \* the request whose thread holds the registry's mutex
  poisoned,   \* a thread panicked while it held the mutex
  panics,     \* thread creations that failed
  foreign     \* ports that other programs in the guest listen on

hostVars == <<sent, op, port, after, quiet, found>>
lockVars == <<proxies, mutex, poisoned>>
listenerVars == <<thread, stop, panics>>
vars == <<hostVars, awaits, guest, verdict, took, lockVars, listenerVars, foreign>>

InGuest(c) == guest[c] \notin {"none", "done"}
Listening(l) == thread[l] \in {"bound", "running"}
Bound(p) == p \in foreign \/ \E l \in Calls : port[l] = p /\ Listening(l)

Init ==
  /\ sent = 0
  /\ op = [c \in Calls |-> "start"]
  /\ port = [c \in Calls |-> NoPort]
  /\ awaits = [w \in Labctls |-> NoCall]
  /\ after = [w \in Labctls |-> NoPort]
  /\ quiet = [c \in Calls |-> FALSE]
  /\ found = [c \in Calls |-> NoCall]
  /\ guest = [c \in Calls |-> "none"]
  /\ verdict = [c \in Calls |-> "none"]
  /\ took = [c \in Calls |-> NoCall]
  /\ thread = [c \in Calls |-> "none"]
  /\ stop = [c \in Calls |-> FALSE]
  /\ proxies = [p \in Ports |-> NoCall]
  /\ mutex = NoCall
  /\ poisoned = FALSE
  /\ panics = 0
  /\ foreign \in SUBSET Ports

-----------------------------------------------------------------------------
(* The host: StartTcpVsockProxy, StopTcpVsockProxy and ports reload *)

\* The agent's event loop accepts the connection and spawns its thread.
Send(w, what, p, next) ==
  /\ sent < MaxCalls /\ awaits[w] = NoCall
  /\ LET c == sent + 1 IN
       /\ sent' = c
       /\ op' = [op EXCEPT ![c] = what]
       /\ port' = [port EXCEPT ![c] = p]
       /\ awaits' = [awaits EXCEPT ![w] = c]
       /\ quiet' = [quiet EXCEPT ![c] = \A d \in Calls : port[d] = p => ~InGuest(d)]
       /\ found' = [found EXCEPT ![c] = proxies[p]]
       /\ guest' = [guest EXCEPT ![c] = "parse"]
  /\ after' = [after EXCEPT ![w] = next]
  /\ UNCHANGED <<verdict, took, lockVars, listenerVars, foreign>>

\* ports add; run and restore for the recorded ports, where an error is logged.
StartTcpVsockProxy(w) == after[w] = NoPort /\ \E p \in Ports : Send(w, "start", p, NoPort)

\* ports rm.
StopTcpVsockProxy(w) == after[w] = NoPort /\ \E p \in Ports : Send(w, "stop", p, NoPort)

\* ports reload: a stop, and a start whatever became of the stop.
ReloadStop(w)  == after[w] = NoPort /\ \E p \in Ports : Send(w, "stop", p, p)
ReloadStart(w) == after[w] # NoPort /\ Send(w, "start", after[w], NoPort)

\* The deadline passes, or the connection breaks: the guest is not told.
GiveUp(w) ==
  /\ awaits[w] # NoCall
  /\ awaits' = [awaits EXCEPT ![w] = NoCall]
  /\ UNCHANGED <<hostVars, guest, verdict, took, lockVars, listenerVars, foreign>>

-----------------------------------------------------------------------------
(* The guest: parse_port, then ProxyRegistry::start or stop *)

\* The connection closes, with an answer or, if the thread panics, with "none".
\* A labctl that waits for it goes on; one that has given up hears nothing.
Finish(c, answer) ==
  /\ guest' = [guest EXCEPT ![c] = "done"]
  /\ verdict' = [verdict EXCEPT ![c] = answer]
  /\ awaits' = [w \in Labctls |-> IF awaits[w] = c THEN NoCall ELSE awaits[w]]

ParsePort(c) ==
  /\ guest[c] = "parse"
  /\ \/ /\ port[c] <= U16Max
        /\ guest' = [guest EXCEPT ![c] = "lock"]
        /\ UNCHANGED <<awaits, verdict>>
     \/ port[c] > U16Max /\ Finish(c, "error")
  /\ UNCHANGED <<hostVars, took, lockVars, listenerVars, foreign>>

Lock(c) ==
  /\ guest[c] = "lock" /\ mutex = NoCall /\ ~poisoned
  /\ mutex' = c
  /\ guest' = [guest EXCEPT ![c] = "locked"]
  /\ UNCHANGED <<hostVars, awaits, verdict, took, proxies, poisoned, listenerVars, foreign>>

\* lock().unwrap() on a poisoned mutex.
UnwrapPanics(c) ==
  /\ guest[c] = "lock" /\ mutex = NoCall /\ poisoned
  /\ Finish(c, "none")
  /\ UNCHANGED <<hostVars, took, lockVars, listenerVars, foreign>>

\* "proxy already running", "failed to bind" and "no proxy running".
Refuse(c) ==
  /\ guest[c] = "locked"
  /\ \/ op[c] = "start" /\ (proxies[port[c]] # NoCall \/ Bound(port[c]))
     \/ op[c] = "stop" /\ proxies[port[c]] = NoCall
  /\ mutex' = NoCall
  /\ Finish(c, "error")
  /\ UNCHANGED <<hostVars, took, proxies, poisoned, listenerVars, foreign>>

Bind(c) ==
  /\ guest[c] = "locked" /\ op[c] = "start"
  /\ proxies[port[c]] = NoCall /\ ~Bound(port[c])
  /\ thread' = [thread EXCEPT ![c] = "bound"]
  /\ guest' = [guest EXCEPT ![c] = "spawn"]
  /\ UNCHANGED <<hostVars, awaits, verdict, took, lockVars, stop, panics, foreign>>

Spawn(c) ==
  /\ guest[c] = "spawn"
  /\ thread' = [thread EXCEPT ![c] = "running"]
  /\ guest' = [guest EXCEPT ![c] = "insert"]
  /\ UNCHANGED <<hostVars, awaits, verdict, took, lockVars, stop, panics, foreign>>

\* No thread to be had: spawn panics, drops the socket and poisons the mutex.
SpawnPanics(c) ==
  /\ guest[c] = "spawn" /\ panics < MaxPanics
  /\ panics' = panics + 1
  /\ thread' = [thread EXCEPT ![c] = "closed"]
  /\ mutex' = NoCall /\ poisoned' = TRUE
  /\ Finish(c, "none")
  /\ UNCHANGED <<hostVars, took, proxies, stop, foreign>>

InsertIfAwaited(c) ==
  /\ guest[c] = "insert"
  /\ proxies' = [proxies EXCEPT ![port[c]] =
                   IF \E w \in Labctls : awaits[w] = c THEN c ELSE NoCall]
  /\ mutex' = NoCall
  /\ Finish(c, "ack")
  /\ UNCHANGED <<hostVars, took, poisoned, listenerVars, foreign>>

Insert(c) ==
  /\ guest[c] = "insert"
  /\ proxies' = [proxies EXCEPT ![port[c]] = c]
  /\ mutex' = NoCall
  /\ Finish(c, "ack")
  /\ UNCHANGED <<hostVars, took, poisoned, listenerVars, foreign>>

RemoveEntryKeepingIt(c) ==
  /\ guest[c] = "locked" /\ op[c] = "stop" /\ proxies[port[c]] # NoCall
  /\ took' = [took EXCEPT ![c] = proxies[port[c]]]
  /\ mutex' = NoCall
  /\ guest' = [guest EXCEPT ![c] = "store"]
  /\ UNCHANGED <<hostVars, awaits, verdict, proxies, poisoned, listenerVars, foreign>>

\* The guard is dropped at the end of the statement that removes the entry.
RemoveEntry(c) ==
  /\ guest[c] = "locked" /\ op[c] = "stop" /\ proxies[port[c]] # NoCall
  /\ took' = [took EXCEPT ![c] = proxies[port[c]]]
  /\ proxies' = [proxies EXCEPT ![port[c]] = NoCall]
  /\ mutex' = NoCall
  /\ guest' = [guest EXCEPT ![c] = "store"]
  /\ UNCHANGED <<hostVars, awaits, verdict, poisoned, listenerVars, foreign>>

StoreStopForgotten(c) ==
  /\ guest[c] = "store"
  /\ guest' = [guest EXCEPT ![c] = "join"]
  /\ UNCHANGED <<hostVars, awaits, verdict, took, lockVars, listenerVars, foreign>>

StoreStop(c) ==
  /\ guest[c] = "store"
  /\ stop' = [stop EXCEPT ![took[c]] = TRUE]
  /\ guest' = [guest EXCEPT ![c] = "join"]
  /\ UNCHANGED <<hostVars, awaits, verdict, took, lockVars, thread, panics, foreign>>

JoinDetached(c) ==
  /\ guest[c] = "join"
  /\ Finish(c, "ack")
  /\ UNCHANGED <<hostVars, took, lockVars, listenerVars, foreign>>

\* A panic of the listener is an Err of join, which stop ignores.
Join(c) ==
  /\ guest[c] = "join" /\ thread[took[c]] \in {"closed", "dead"}
  /\ Finish(c, "ack")
  /\ UNCHANGED <<hostVars, took, lockVars, listenerVars, foreign>>

-----------------------------------------------------------------------------
(* run_listener: it looks at the flag between accepts and at least every 200 ms *)

CloseListener(l) ==
  /\ thread[l] = "running" /\ stop[l]
  /\ thread' = [thread EXCEPT ![l] = "closed"]
  /\ UNCHANGED <<hostVars, awaits, guest, verdict, took, lockVars, stop, panics, foreign>>

\* A connection is accepted and no thread can be made for it.
AcceptPanics(l) ==
  /\ thread[l] = "running" /\ panics < MaxPanics
  /\ panics' = panics + 1
  /\ thread' = [thread EXCEPT ![l] = "dead"]
  /\ UNCHANGED <<hostVars, awaits, guest, verdict, took, lockVars, stop, foreign>>

-----------------------------------------------------------------------------

Handle(c) ==
  \/ ParsePort(c) \/ Lock(c) \/ UnwrapPanics(c) \/ Refuse(c)
  \/ Bind(c) \/ Spawn(c) \/ Insert(c)
  \/ RemoveEntry(c) \/ StoreStop(c) \/ Join(c)

Command(w) ==
  \/ StartTcpVsockProxy(w) \/ StopTcpVsockProxy(w)
  \/ ReloadStop(w) \/ ReloadStart(w) \/ GiveUp(w)

Next ==
  \/ \E w \in Labctls : Command(w)
  \/ \E c \in Calls : Handle(c) \/ SpawnPanics(c) \/ CloseListener(c) \/ AcceptPanics(c)

\* The kernel schedules every thread of the agent.
Fairness == \A c \in Calls : WF_vars(Handle(c)) /\ WF_vars(CloseListener(c))

Spec == Init /\ [][Next]_vars /\ Fairness

-----------------------------------------------------------------------------
(* Properties *)

Holding(c) == guest[c] \in {"locked", "spawn", "insert"}
Stopping(c) == guest[c] \in {"store", "join"}

\* The type of every variable.
TypeOK ==
  /\ sent \in 0 .. MaxCalls
  /\ op \in [Calls -> {"start", "stop"}]
  /\ port \in [Calls -> Ports \cup {NoPort}]
  /\ awaits \in [Labctls -> Calls \cup {NoCall}]
  /\ after \in [Labctls -> Ports \cup {NoPort}]
  /\ quiet \in [Calls -> BOOLEAN] /\ found \in [Calls -> Calls \cup {NoCall}]
  /\ guest \in [Calls -> {"none", "parse", "lock", "locked", "spawn", "insert",
                          "store", "join", "done"}]
  /\ verdict \in [Calls -> {"none", "ack", "error"}]
  /\ took \in [Calls -> Calls \cup {NoCall}]
  /\ thread \in [Calls -> {"none", "bound", "running", "closed", "dead"}]
  /\ stop \in [Calls -> BOOLEAN]
  /\ proxies \in [Ports -> Calls \cup {NoCall}]
  /\ mutex \in Calls \cup {NoCall}
  /\ poisoned \in BOOLEAN
  /\ panics \in 0 .. MaxPanics
  /\ foreign \in SUBSET Ports

\* An entry of the registry is a proxy that serves its port and that nobody has
\* told to stop (or whose thread has panicked): start's "already running" is true.
EntryIsServed ==
  \A p \in Ports : proxies[p] # NoCall =>
    LET l == proxies[p] IN port[l] = p /\ thread[l] \in {"running", "dead"} /\ ~stop[l]

\* No listener is lost: while its socket is open, the registry has it, or the start
\* that made it is about to enter it, or a stop is closing it.  No request can close
\* any other, however the threads interleave and whatever the host gave up on.
ListenerIsReachable ==
  \A l \in Calls : Listening(l) =>
    \/ proxies[port[l]] = l
    \/ mutex = l /\ Holding(l)
    \/ \E c \in Calls : took[c] = l /\ Stopping(c)

\* stop joins the listener "so the port is guaranteed free before this returns":
\* once it answers Ack, the socket it took is closed.
StopFreesPort ==
  \A c \in Calls : op[c] = "stop" /\ verdict[c] = "ack" => ~Listening(took[c])

\* A request that found nobody else at its port, and was followed by none, is answered
\* by what it found and decides the port: a start is acknowledged and served by its own
\* listener if the port was free, and changes nothing if it was not; a stop is
\* acknowledged if there was a proxy, and leaves the port without one and its socket
\* free.  So the start of a `ports reload` whose stop was answered does not meet the
\* old socket.
QuietRequestDecides ==
  \A c \in Calls :
    LET p == port[c]
        free == found[c] = NoCall /\ p \notin foreign IN
    /\ guest[c] = "done" /\ verdict[c] # "none" /\ quiet[c] /\ p <= U16Max
    /\ \A d \in Calls : d > c => port[d] # p
    => IF op[c] = "start"
       THEN /\ verdict[c] = "ack" <=> free
            /\ proxies[p] = IF free THEN c ELSE found[c]
       ELSE /\ verdict[c] = "ack" <=> found[c] # NoCall
            /\ proxies[p] = NoCall /\ \A l \in Calls : port[l] = p => ~Listening(l)

\* Every request the agent takes up comes to an end, a stop does not wait for its
\* listener for ever: as requests are finitely many, the agent comes to rest.
RequestsEnd == <>[](\A c \in Calls : ~InGuest(c))

Asked == [c \in Calls |-> IF c <= sent THEN <<op[c], port[c]>> ELSE <<>>]
OpenPorts == {p \in Ports : proxies[p] # NoCall}
Verdicts == [c \in Calls |-> IF took[c] # NoCall THEN "ack" ELSE verdict[c]]

Table == INSTANCE PortTable WITH
  Requests <- Calls, asked <- Asked, open <- OpenPorts, verdict <- Verdicts

\* start and stop take effect in one step each, at the insertion and the removal:
\* the agent implements the abstract table of open ports.
ImplementsTable == Table!Spec
=============================================================================
