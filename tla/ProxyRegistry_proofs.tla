------------------------ MODULE ProxyRegistry_proofs ------------------------
(***************************************************************************)
(* For any number of labctl processes, requests, ports and failing         *)
(* threads: type correctness, that an entry of the registry is served,     *)
(* that no listener is lost, that stop frees the port, that a request with *)
(* its port to itself decides it, the refinement of the atomic PortTable,  *)
(* and that no request waits for one that waits.                           *)
(***************************************************************************)
EXTENDS ProxyRegistry, TLAPS

-----------------------------------------------------------------------------
(* The inductive invariant *)

\* A request that is in the guest has a port: without this, TypeOK is not inductive.
HasPort == \A c \in Calls : guest[c] # "none" => port[c] \in Ports

\* A request is in the guest once it is sent; its port parses past parse_port.
Sent ==
  \A c \in Calls :
    /\ guest[c] = "none" <=> c > sent
    /\ guest[c] \notin {"none", "parse", "done"} => port[c] <= U16Max

\* The mutex is held by the request that is in its critical section.
MutexHeld == \A c \in Calls : Holding(c) <=> mutex = c

\* A request that has not reached its bind or its removal has done nothing yet.
Untouched ==
  \A c \in Calls :
    /\ guest[c] # "done" => verdict[c] = "none"
    /\ ~Stopping(c) /\ guest[c] # "done" => took[c] = NoCall /\ ~stop[c]
    /\ guest[c] \in {"none", "parse", "lock", "locked"} => thread[c] = "none"

\* A start between bind and insertion owns the socket, and nobody knows it yet.
Starting ==
  \A c \in Calls :
    /\ guest[c] \in {"spawn", "insert"} => op[c] = "start" /\ proxies[port[c]] = NoCall
    /\ thread[c] = "bound" <=> guest[c] = "spawn"
    /\ guest[c] = "insert" => thread[c] \in {"running", "dead"}

\* A stop past its removal took the listener of a start that is done.
Taken ==
  \A c \in Calls :
    /\ Stopping(c) => op[c] = "stop" /\ took[c] # NoCall
    /\ took[c] # NoCall => op[c] = "stop" /\ guest[took[c]] = "done"
    /\ guest[c] = "done" /\ op[c] = "stop" /\ verdict[c] = "ack" =>
         took[c] # NoCall /\ thread[took[c]] \in {"closed", "dead"}

\* An entry is served by the listener of a start that is done, which no stop took.
Entered ==
  \A p \in Ports : proxies[p] # NoCall =>
    /\ guest[proxies[p]] = "done" /\ p <= U16Max
    /\ \A c \in Calls : took[c] # proxies[p]

Rest == /\ Sent /\ MutexHeld /\ Untouched /\ Starting /\ Taken /\ Entered
        /\ EntryIsServed /\ ListenerIsReachable

IInv == TypeOK /\ HasPort /\ Rest

-----------------------------------------------------------------------------
(* Type correctness *)

LEMMA SendKeepsTypes ==
  ASSUME TypeOK, HasPort, NEW w \in Labctls, NEW what \in {"start", "stop"}, NEW p \in Ports,
         NEW next \in Ports \cup {NoPort}, Send(w, what, p, next)
  PROVE  TypeOK' /\ HasPort'
<1>1. sent + 1 \in Calls /\ sent + 1 \in 0 .. MaxCalls
  BY MaxCallsAssumption DEF TypeOK, Send, Calls
<1> QED
  BY <1>1 DEF TypeOK, HasPort, Send, lockVars, listenerVars

\* Invariant proved here: one state, one type for every variable.
LEMMA TypesHold == Spec => [](TypeOK /\ HasPort)
<1> DEFINE Typed == TypeOK /\ HasPort
<1>1. Init => Typed
  <2> SUFFICES ASSUME Init PROVE Typed
    OBVIOUS
  <2>1. sent \in 0 .. MaxCalls /\ panics \in 0 .. MaxPanics
    BY MaxCallsAssumption, MaxPanicsAssumption DEF Init
  <2>2. HasPort
    BY DEF Init, HasPort
  <2> QED
    BY <2>1, <2>2 DEF Init, TypeOK
<1>2. Typed /\ [Next]_vars => Typed'
  <2> SUFFICES ASSUME TypeOK, HasPort, [Next]_vars PROVE Typed'
    OBVIOUS
  <2>1. ASSUME NEW w \in Labctls, Command(w) PROVE Typed'
    <3>1. CASE GiveUp(w)
      BY <3>1 DEF GiveUp, TypeOK, HasPort, hostVars, lockVars, listenerVars
    <3>2. CASE StartTcpVsockProxy(w)
      BY <3>2, SendKeepsTypes DEF StartTcpVsockProxy
    <3>3. CASE StopTcpVsockProxy(w)
      BY <3>3, SendKeepsTypes DEF StopTcpVsockProxy
    <3>4. CASE ReloadStop(w)
      BY <3>4, SendKeepsTypes DEF ReloadStop
    <3>5. CASE ReloadStart(w)
      <4>1. after[w] \in Ports
        BY <3>5 DEF ReloadStart, TypeOK
      <4> QED
        BY <4>1, <3>5, SendKeepsTypes DEF ReloadStart
    <3> QED
      BY <2>1, <3>1, <3>2, <3>3, <3>4, <3>5 DEF Command
  <2> USE DEF TypeOK, HasPort, hostVars, lockVars, listenerVars, Finish
  <2>2. ASSUME NEW c \in Calls, Handle(c) PROVE Typed'
    <3>1. CASE ParsePort(c)
      BY <3>1 DEF ParsePort
    <3>2. CASE Lock(c)
      BY <3>2 DEF Lock
    <3>3. CASE UnwrapPanics(c) \/ Refuse(c)
      BY <3>3 DEF UnwrapPanics, Refuse
    <3>4. CASE Bind(c) \/ Spawn(c)
      BY <3>4 DEF Bind, Spawn
    <3>5. CASE Insert(c)
      BY <3>5 DEF Insert
    <3>6. CASE RemoveEntry(c)
      BY <3>6 DEF RemoveEntry
    <3>7. CASE StoreStop(c)
      BY <3>7 DEF StoreStop
    <3>8. CASE Join(c)
      BY <3>8 DEF Join
    <3> QED
      BY <2>2, <3>1, <3>2, <3>3, <3>4, <3>5, <3>6, <3>7, <3>8 DEF Handle
  <2>3. ASSUME NEW c \in Calls, SpawnPanics(c) PROVE Typed'
    BY <2>3, MaxPanicsAssumption DEF SpawnPanics
  <2>4. ASSUME NEW c \in Calls, CloseListener(c) PROVE Typed'
    BY <2>4 DEF CloseListener
  <2>5. ASSUME NEW c \in Calls, AcceptPanics(c) PROVE Typed'
    BY <2>5, MaxPanicsAssumption DEF AcceptPanics
  <2>6. CASE UNCHANGED vars
    BY <2>6 DEF vars
  <2> QED
    BY <2>1, <2>2, <2>3, <2>4, <2>5, <2>6 DEF Next
<1> QED
  BY <1>1, <1>2, PTL DEF Spec

\* Every variable has its type, for every value of the constants.
THEOREM TypeCorrect == Spec => []TypeOK
  BY TypesHold, PTL

-----------------------------------------------------------------------------
(* The steps of the agent keep the invariant *)

LEMMA AgentKeepsRest ==
  ASSUME IInv, TypeOK', HasPort', NEW c \in Calls,
         Handle(c) \/ SpawnPanics(c) \/ CloseListener(c) \/ AcceptPanics(c)
  PROVE  Rest'
<1> USE DEF IInv, TypeOK, HasPort, Rest, Sent, MutexHeld, Untouched, Starting, Taken, Entered,
            EntryIsServed, ListenerIsReachable, Listening, Holding, Stopping, Bound, InGuest,
            Calls, NoCall, hostVars, lockVars, listenerVars, Finish
<1>1. ASSUME ParsePort(c) PROVE Rest'
  <2>1. Sent' /\ MutexHeld'
    BY <1>1, SMTT(20) DEF ParsePort
  <2>2. Untouched' /\ Starting'
    BY <1>1, SMTT(20) DEF ParsePort
  <2>3. Taken' /\ Entered'
    BY <1>1, SMTT(20) DEF ParsePort
  <2>4. EntryIsServed' /\ ListenerIsReachable'
    BY <1>1, SMTT(20) DEF ParsePort
  <2> QED
    BY <2>1, <2>2, <2>3, <2>4
<1>2. ASSUME Lock(c) PROVE Rest'
  BY <1>2 DEF Lock
<1>3. ASSUME UnwrapPanics(c) PROVE Rest'
  BY <1>3 DEF UnwrapPanics
<1>4. ASSUME Refuse(c) PROVE Rest'
  BY <1>4 DEF Refuse
<1>5. ASSUME Bind(c) PROVE Rest'
  BY <1>5 DEF Bind
<1>6. ASSUME Spawn(c) PROVE Rest'
  BY <1>6 DEF Spawn
<1>7. ASSUME Insert(c) PROVE Rest'
  BY <1>7 DEF Insert
<1>8. ASSUME RemoveEntry(c) PROVE Rest'
  BY <1>8 DEF RemoveEntry
<1>9. ASSUME StoreStop(c) PROVE Rest'
  BY <1>9 DEF StoreStop
<1>10. ASSUME Join(c) PROVE Rest'
  BY <1>10 DEF Join
<1>11. ASSUME SpawnPanics(c) PROVE Rest'
  BY <1>11 DEF SpawnPanics
<1>12. ASSUME CloseListener(c) PROVE Rest'
  BY <1>12 DEF CloseListener
<1>13. ASSUME AcceptPanics(c) PROVE Rest'
  BY <1>13 DEF AcceptPanics
<1> QED
  BY <1>1, <1>2, <1>3, <1>4, <1>5, <1>6, <1>7, <1>8, <1>9, <1>10, <1>11, <1>12, <1>13 DEF Handle

\* A new request is the only one that changes, and nobody knows it yet.
LEMMA SendKeepsRest ==
  ASSUME IInv, NEW w \in Labctls, NEW what \in {"start", "stop"}, NEW p \in Ports,
         NEW next, Send(w, what, p, next)
  PROVE  Rest'
<1> USE DEF IInv, TypeOK, HasPort, Rest, Sent, MutexHeld, Untouched, Starting, Taken, Entered,
            EntryIsServed, ListenerIsReachable, Listening, Holding, Stopping,
            Calls, NoCall, lockVars, listenerVars
<1>1. sent + 1 \in Calls /\ guest[sent + 1] = "none"
  BY MaxCallsAssumption DEF Send
<1> QED
  BY <1>1, MaxCallsAssumption DEF Send

LEMMA InitEstablishesRest == Init => Rest
  BY MaxCallsAssumption
     DEF Init, Rest, Sent, MutexHeld, Untouched, Starting, Taken, Entered, EntryIsServed,
         ListenerIsReachable, Listening, Holding, Stopping, Calls, NoCall

LEMMA StepKeepsRest == IInv /\ TypeOK' /\ HasPort' /\ [Next]_vars => Rest'
<1> SUFFICES ASSUME IInv, TypeOK', HasPort', [Next]_vars PROVE Rest'
  OBVIOUS
<1>1. ASSUME NEW w \in Labctls, Command(w) PROVE Rest'
  <2>1. CASE GiveUp(w)
    BY <2>1 DEF GiveUp, IInv, Rest, Sent, MutexHeld, Untouched, Starting, Taken, Entered,
                EntryIsServed, ListenerIsReachable, Listening, Holding, Stopping,
                hostVars, lockVars, listenerVars
  <2>2. CASE StartTcpVsockProxy(w)
    BY <2>2, SendKeepsRest DEF StartTcpVsockProxy
  <2>3. CASE StopTcpVsockProxy(w)
    BY <2>3, SendKeepsRest DEF StopTcpVsockProxy
  <2>4. CASE ReloadStop(w)
    BY <2>4, SendKeepsRest DEF ReloadStop
  <2>5. CASE ReloadStart(w)
    <3>1. after[w] \in Ports
      BY <2>5 DEF ReloadStart, IInv, TypeOK
    <3> QED
      BY <3>1, <2>5, SendKeepsRest DEF ReloadStart
  <2> QED
    BY <1>1, <2>1, <2>2, <2>3, <2>4, <2>5 DEF Command
<1>2. CASE UNCHANGED vars
  BY <1>2 DEF vars, IInv, Rest, Sent, MutexHeld, Untouched, Starting, Taken, Entered,
              EntryIsServed, ListenerIsReachable, Listening, Holding, Stopping,
              hostVars, lockVars, listenerVars
<1> QED
  BY <1>1, <1>2, AgentKeepsRest DEF Next

LEMMA IInvHolds == Spec => []IInv
<1>1. TypeOK /\ HasPort /\ Rest <=> IInv
  BY DEF IInv
<1>2. (TypeOK /\ HasPort) /\ (TypeOK /\ HasPort)' /\ Rest /\ [Next]_vars => Rest'
  BY <1>1, StepKeepsRest
<1> QED
  BY <1>1, <1>2, InitEstablishesRest, TypesHold, PTL DEF Spec

-----------------------------------------------------------------------------
(* Safety *)

\* "proxy already running" is true when start says so (tcp_vsock_proxy.rs:35).
THEOREM EntriesAreServed == Spec => []EntryIsServed
  BY IInvHolds, PTL DEF IInv, Rest

\* No interleaving of requests, late ones included, loses a listening socket.
THEOREM NoListenerIsLost == Spec => []ListenerIsReachable
  BY IInvHolds, PTL DEF IInv, Rest

\* "so the port is guaranteed free before this returns" (tcp_vsock_proxy.rs:67).
THEOREM StopMeansFree == Spec => []StopFreesPort
<1>1. IInv => StopFreesPort
  BY DEF IInv, Rest, Taken, Untouched, StopFreesPort, Listening
<1> QED
  BY <1>1, IInvHolds, PTL

-----------------------------------------------------------------------------
(* A request whose port is quiet decides it *)

\* No later request names the port of c.
Latest(c) == \A d \in Calls : d > c => port[d] # port[c]

\* What has not been sent asks for no port; a stop takes a listener of its port.
PortsMatch ==
  \A c \in Calls :
    /\ guest[c] = "none" => port[c] = NoPort /\ ~quiet[c]
    /\ took[c] # NoCall => port[took[c]] = port[c]

\* A request that was sent when its port was quiet has the port to itself until
\* the next one is sent.
AloneAtPort ==
  \A c \in Calls, d \in Calls :
    quiet[c] /\ Latest(c) /\ d # c /\ port[d] = port[c] => ~InGuest(d)

\* What such a request found at its port.
Free(c) == found[c] = NoCall /\ port[c] \notin foreign

\* Such a request finds the port as it was when it was sent until its own insertion
\* or removal, and leaves it, with its answer, as what it found asks for.
Decided(c) ==
  /\ InGuest(c) /\ ~Stopping(c) => proxies[port[c]] = found[c]
  /\ guest[c] \in {"spawn", "insert"} => Free(c)
  /\ Stopping(c) => found[c] # NoCall /\ proxies[port[c]] = NoCall
  /\ guest[c] = "done" /\ op[c] = "start" =>
       /\ verdict[c] = "ack" <=> Free(c)
       /\ proxies[port[c]] = IF Free(c) THEN c ELSE found[c]
  /\ guest[c] = "done" /\ op[c] = "stop" =>
       /\ verdict[c] = "ack" <=> found[c] # NoCall
       /\ proxies[port[c]] = NoCall

QuietDecides ==
  \A c \in Calls :
    quiet[c] /\ Latest(c) /\ port[c] <= U16Max
      /\ (guest[c] = "done" => verdict[c] # "none") => Decided(c)

Quiet == PortsMatch /\ AloneAtPort /\ QuietDecides

\* Unless c itself is at work on a socket, the only listener at its port is the
\* registry's: a start before it, or a stop, would still be in the guest.
LEMMA OnlyTheEntryListens ==
  ASSUME IInv, PortsMatch, AloneAtPort, NEW c \in Calls, quiet[c], Latest(c),
         guest[c] \notin {"spawn", "insert", "store", "join"},
         NEW l \in Calls, port[l] = port[c], Listening(l)
  PROVE  proxies[port[c]] = l
<1>1. CASE mutex = l /\ Holding(l)
  <2>1. InGuest(l)
    BY <1>1 DEF Holding, InGuest
  <2>2. l = c /\ guest[l] = "locked"
    BY <1>1, <2>1 DEF AloneAtPort, Holding
  <2> QED
    BY <2>2 DEF IInv, Rest, Untouched, Listening
<1>2. ASSUME NEW d \in Calls, took[d] = l, Stopping(d) PROVE FALSE
  <2>1. port[d] = port[c]
    BY <1>2 DEF PortsMatch, Calls, NoCall
  <2>2. InGuest(d) /\ d # c
    BY <1>2 DEF Stopping, InGuest
  <2> QED
    BY <2>1, <2>2 DEF AloneAtPort
<1> QED
  BY <1>1, <1>2 DEF IInv, Rest, ListenerIsReachable

\* A request works its way through the guest; what it asks for stays.
LEMMA AgentKeepsRequests ==
  ASSUME TypeOK, NEW c \in Calls,
         Handle(c) \/ SpawnPanics(c) \/ CloseListener(c) \/ AcceptPanics(c)
  PROVE  /\ UNCHANGED <<op, port, quiet, found, foreign>>
         /\ \A d \in Calls : /\ guest[d] = "none" <=> guest'[d] = "none"
                             /\ InGuest(d)' => InGuest(d)
         /\ \A d \in Calls \ {c} : guest'[d] = guest[d] /\ verdict'[d] = verdict[d]
         /\ \A d \in Calls : took'[d] = took[d] \/ (took'[d] = proxies[port[d]] /\ RemoveEntry(d))
<1> USE DEF TypeOK, InGuest, Finish, hostVars, lockVars, listenerVars
<1>1. CASE ParsePort(c) \/ Lock(c) \/ UnwrapPanics(c) \/ Refuse(c)
  BY <1>1 DEF ParsePort, Lock, UnwrapPanics, Refuse
<1>2. CASE Bind(c) \/ Spawn(c) \/ Insert(c) \/ StoreStop(c) \/ Join(c)
  BY <1>2 DEF Bind, Spawn, Insert, StoreStop, Join
<1>3. CASE RemoveEntry(c)
  BY <1>3 DEF RemoveEntry
<1>4. CASE SpawnPanics(c) \/ CloseListener(c) \/ AcceptPanics(c)
  BY <1>4 DEF SpawnPanics, CloseListener, AcceptPanics
<1> QED
  BY <1>1, <1>2, <1>3, <1>4 DEF Handle

\* Only an insertion opens an entry and only a removal ends one, of its own port.
LEMMA AgentKeepsEntries ==
  ASSUME TypeOK, NEW c \in Calls, NEW p \in Ports, p # port[c] \/ ~InGuest(c),
         Handle(c) \/ SpawnPanics(c) \/ CloseListener(c) \/ AcceptPanics(c)
  PROVE  proxies'[p] = proxies[p]
<1> USE DEF TypeOK, lockVars
<1>1. CASE Insert(c) \/ RemoveEntry(c)
  BY <1>1 DEF Insert, RemoveEntry, InGuest
<1>2. CASE UNCHANGED proxies
  BY <1>2
<1> QED
  BY <1>1, <1>2 DEF Handle, ParsePort, Lock, UnwrapPanics, Refuse, Bind, Spawn, StoreStop, Join,
                    SpawnPanics, CloseListener, AcceptPanics

\* The request's own steps: it opens or removes the entry, or finds out that
\* there is none to remove or that the port is taken.
LEMMA OwnStepDecides ==
  ASSUME IInv, Quiet, NEW c \in Calls, quiet[c], Latest(c), port[c] <= U16Max,
         guest'[c] # guest[c],
         Handle(c) \/ SpawnPanics(c) \/ CloseListener(c) \/ AcceptPanics(c),
         guest'[c] = "done" => verdict'[c] # "none"
  PROVE  Decided(c)'
<1> USE DEF IInv, TypeOK, Rest, Quiet, Finish, Stopping, InGuest, Free,
            hostVars, lockVars, listenerVars
<1>0. UNCHANGED <<op, port, found, foreign>> /\ port[c] \in Ports /\ guest[c] # "none"
  BY AgentKeepsRequests DEF HasPort, PortsMatch
<1>d. guest[c] # "done" => Decided(c)
  BY DEF QuietDecides
<1>1. CASE ParsePort(c)
  <2>1. port[c] \in Nat
    BY <1>0, PortsAssumption
  <2>2. ~(port[c] > U16Max)
    BY <2>1 DEF U16Max
  <2> QED
    BY <1>0, <1>d, <1>1, <2>2 DEF ParsePort, Decided
<1>2. CASE Lock(c) \/ Spawn(c)
  BY <1>0, <1>d, <1>2 DEF Lock, Spawn, Decided
<1>b. CASE Bind(c)
  <2>1. proxies[port[c]] = NoCall /\ port[c] \notin foreign /\ guest'[c] = "spawn"
        /\ guest[c] = "locked" /\ UNCHANGED proxies
    BY <1>b DEF Bind, Bound
  <2> QED
    BY <1>0, <1>d, <2>1 DEF Decided
<1>3. CASE UnwrapPanics(c) \/ SpawnPanics(c)
  BY <1>3 DEF UnwrapPanics, SpawnPanics
<1>4. CASE Refuse(c)
  <2>0. /\ guest[c] = "locked" /\ guest'[c] = "done" /\ verdict'[c] = "error"
        /\ UNCHANGED proxies /\ proxies[port[c]] = found[c]
    BY <1>d, <1>4 DEF Refuse, Decided
  <2>1. CASE op[c] = "stop"
    BY <1>0, <1>4, <2>0, <2>1 DEF Refuse, Decided
  <2>2. CASE op[c] = "start"
    <3>1. proxies[port[c]] # NoCall \/ Bound(port[c])
      BY <1>4, <2>2 DEF Refuse
    <3>2. ASSUME NEW l \in Calls, port[l] = port[c], Listening(l) PROVE proxies[port[c]] # NoCall
      <4>1. guest[c] = "locked" /\ PortsMatch /\ AloneAtPort
        BY <1>4 DEF Refuse
      <4>2. proxies[port[c]] = l
        BY <3>2, <4>1, OnlyTheEntryListens
      <4> QED
        BY <4>2 DEF Calls, NoCall
    <3>3. proxies[port[c]] # NoCall \/ port[c] \in foreign
      BY <3>1, <3>2 DEF Bound
    <3> QED
      BY <1>0, <2>0, <2>2, <3>3 DEF Decided
  <2> QED
    BY <2>1, <2>2
<1>5. CASE Insert(c)
  <2>1. /\ proxies'[port[c]] = c /\ op[c] = "start" /\ Free(c)
        /\ guest'[c] = "done" /\ verdict'[c] = "ack"
    BY <1>0, <1>d, <1>5 DEF Insert, Starting, Decided
  <2> QED
    BY <1>0, <2>1 DEF Decided
<1>6. CASE RemoveEntry(c)
  <2>1. /\ guest[c] = "locked" /\ guest'[c] = "store" /\ op[c] = "stop"
        /\ proxies[port[c]] # NoCall /\ proxies'[port[c]] = NoCall
    BY <1>0, <1>6 DEF RemoveEntry
  <2> QED
    BY <1>0, <1>d, <2>1 DEF Decided
<1>7. CASE StoreStop(c) \/ Join(c)
  <2>1. Stopping(c) /\ op[c] = "stop" /\ Decided(c) /\ UNCHANGED proxies
    BY <1>7 DEF StoreStop, Join, Taken, QuietDecides
  <2>2. guest'[c] = "join" \/ (guest'[c] = "done" /\ verdict'[c] = "ack")
    BY <1>7 DEF StoreStop, Join
  <2> QED
    BY <1>0, <2>1, <2>2 DEF Decided
<1>8. CASE CloseListener(c) \/ AcceptPanics(c)
  BY <1>8 DEF CloseListener, AcceptPanics
<1> QED
  BY <1>1, <1>2, <1>b, <1>3, <1>4, <1>5, <1>6, <1>7, <1>8 DEF Handle

LEMMA AgentKeepsQuiet ==
  ASSUME IInv, Quiet, NEW c \in Calls,
         Handle(c) \/ SpawnPanics(c) \/ CloseListener(c) \/ AcceptPanics(c)
  PROVE  Quiet'
<1>0. TypeOK
  BY DEF IInv
<1>1. UNCHANGED <<op, port, quiet, found, foreign>>
  BY <1>0, AgentKeepsRequests
<1>2. PortsMatch'
  <2>1. ASSUME NEW d \in Calls, RemoveEntry(d)
        PROVE  port[d] \in Ports /\ (proxies[port[d]] # NoCall => port[proxies[port[d]]] = port[d])
    BY <2>1 DEF RemoveEntry, IInv, HasPort, Rest, EntryIsServed
  <2> QED
    BY <1>0, <1>1, <2>1, AgentKeepsRequests DEF Quiet, PortsMatch
<1>3. AloneAtPort'
  BY <1>0, <1>1, AgentKeepsRequests DEF Quiet, AloneAtPort, Latest
<1>4. ASSUME NEW d \in Calls, quiet[d], Latest(d), port[d] <= U16Max,
             guest'[d] = "done" => verdict'[d] # "none"
      PROVE  Decided(d)'
  <2>1. CASE d = c /\ guest'[c] # guest[c]
    BY <1>4, <2>1, OwnStepDecides
  <2>2. CASE guest'[d] = guest[d] /\ verdict'[d] = verdict[d] /\ (d = c => ~InGuest(c))
    <3>1. Decided(d) /\ port[d] \in Ports
      BY <1>4, <2>2 DEF Quiet, QuietDecides, PortsMatch, IInv, HasPort
    <3>2. port[d] # port[c] \/ ~InGuest(c)
      BY <1>4, <2>2 DEF Quiet, AloneAtPort
    <3>3. proxies'[port[d]] = proxies[port[d]]
      BY <1>0, <3>1, <3>2, AgentKeepsEntries
    <3> QED
      BY <1>1, <2>2, <3>1, <3>3 DEF Decided, Stopping, InGuest, Free
  <2>3. CASE d = c /\ guest'[c] = guest[c]
    <3>1. CloseListener(c) \/ AcceptPanics(c)
      BY <1>0, <2>3 DEF Handle, ParsePort, Lock, UnwrapPanics, Refuse, Bind, Spawn, Insert,
                        RemoveEntry, StoreStop, Join, SpawnPanics, Finish, TypeOK
    <3>2. UNCHANGED <<guest, verdict, proxies>>
      BY <3>1 DEF CloseListener, AcceptPanics, lockVars
    <3> QED
      BY <1>1, <1>4, <2>3, <3>2 DEF Quiet, QuietDecides, Decided, Stopping, InGuest, Free
  <2> QED
    BY <1>0, <2>1, <2>2, <2>3, AgentKeepsRequests
<1> QED
  BY <1>1, <1>2, <1>3, <1>4 DEF Quiet, QuietDecides, Latest

\* A new request ends the say of the ones before it at its port; nobody is in
\* the guest for that port if it is itself quiet.
LEMMA SendKeepsQuiet ==
  ASSUME IInv, Quiet, NEW w \in Labctls, NEW what \in {"start", "stop"}, NEW p \in Ports,
         NEW next, Send(w, what, p, next)
  PROVE  Quiet'
<1> DEFINE r == sent + 1
<1>0. TypeOK /\ r \in Calls /\ guest[r] = "none" /\ \A c \in Calls : c > r => guest[c] = "none"
  BY MaxCallsAssumption DEF Send, IInv, TypeOK, Rest, Sent, Calls
<1>1. /\ port'[r] = p /\ guest'[r] = "parse"
      /\ quiet'[r] = \A d \in Calls : port[d] = p => ~InGuest(d)
      /\ \A d \in Calls \ {r} : /\ port'[d] = port[d] /\ guest'[d] = guest[d]
                                /\ quiet'[d] = quiet[d] /\ op'[d] = op[d]
                                /\ found'[d] = found[d]
      /\ found'[r] = proxies[p]
      /\ UNCHANGED <<verdict, took, proxies, foreign>>
  BY <1>0 DEF Send, TypeOK, lockVars
<1>2. p # NoPort
  BY PortsAssumption DEF NoPort
<1>3. \A c \in Calls : took[c] # NoCall => took[c] \in Calls /\ took[c] # r
  BY <1>0 DEF IInv, TypeOK, Rest, Taken
<1>4. PortsMatch'
  <2>1. took[r] = NoCall
    BY <1>0 DEF IInv, Rest, Untouched, Stopping
  <2> QED
    BY <1>1, <1>3, <2>1 DEF Quiet, PortsMatch
<1>5. ASSUME NEW c \in Calls \ {r}, quiet'[c], Latest(c)'
      PROVE  quiet[c] /\ Latest(c) /\ port[c] # p
  <2>1. quiet[c] /\ guest[c] # "none"
    BY <1>1, <1>5 DEF Quiet, PortsMatch
  <2>2. r > c
    BY <1>0, <2>1 DEF Calls
  <2>3. port[c] # p
    BY <1>0, <1>1, <1>5, <2>2 DEF Latest
  <2>4. port[c] # NoPort
    BY <2>1, PortsAssumption DEF IInv, HasPort, NoPort
  <2>5. port[r] = NoPort
    BY <1>0 DEF Quiet, PortsMatch
  <2> QED
    BY <1>1, <1>5, <2>1, <2>3, <2>4, <2>5 DEF Latest
<1>6. AloneAtPort'
  <2> SUFFICES ASSUME NEW c \in Calls, NEW d \in Calls, quiet'[c], Latest(c)', d # c,
                      port'[d] = port'[c]
               PROVE  ~InGuest(d)'
    BY DEF AloneAtPort
  <2>1. CASE c = r
    BY <1>1, <2>1 DEF InGuest
  <2>2. CASE c # r
    BY <1>1, <1>5, <2>2 DEF Quiet, AloneAtPort, InGuest
  <2> QED
    BY <2>1, <2>2
<1>7. QuietDecides'
  <2> SUFFICES ASSUME NEW c \in Calls, quiet'[c], Latest(c)', port'[c] <= U16Max,
                      guest'[c] = "done" => verdict'[c] # "none"
               PROVE  Decided(c)'
    BY DEF QuietDecides
  <2>1. CASE c = r
    BY <1>1, <2>1 DEF Decided, Stopping
  <2>2. CASE c # r
    <3>1. Decided(c)
      BY <1>1, <1>5, <2>2 DEF Quiet, QuietDecides
    <3> QED
      BY <1>1, <2>2, <3>1 DEF Decided, Stopping, InGuest, Free
  <2> QED
    BY <2>1, <2>2
<1> QED
  BY <1>4, <1>6, <1>7 DEF Quiet

LEMMA QuietHolds == Spec => []Quiet
<1>1. Init => Quiet
  BY DEF Init, Quiet, PortsMatch, AloneAtPort, QuietDecides
<1>2. IInv /\ Quiet /\ [Next]_vars => Quiet'
  <2> SUFFICES ASSUME IInv, Quiet, [Next]_vars PROVE Quiet'
    OBVIOUS
  <2>1. ASSUME NEW w \in Labctls, Command(w) PROVE Quiet'
    <3>1. CASE GiveUp(w)
      BY <3>1 DEF GiveUp, hostVars, lockVars, Quiet, PortsMatch, AloneAtPort, QuietDecides,
                  Latest, Decided, Free, InGuest, Stopping
    <3>2. CASE StartTcpVsockProxy(w) \/ StopTcpVsockProxy(w) \/ ReloadStop(w)
      BY <3>2, SendKeepsQuiet DEF StartTcpVsockProxy, StopTcpVsockProxy, ReloadStop
    <3>3. CASE ReloadStart(w)
      <4>1. after[w] \in Ports
        BY <3>3 DEF ReloadStart, IInv, TypeOK
      <4> QED
        BY <3>3, <4>1, SendKeepsQuiet DEF ReloadStart
    <3> QED
      BY <2>1, <3>1, <3>2, <3>3 DEF Command
  <2>2. CASE UNCHANGED vars
    BY <2>2 DEF vars, hostVars, lockVars, Quiet, PortsMatch, AloneAtPort, QuietDecides,
                Latest, Decided, Free, InGuest, Stopping
  <2> QED
    BY <2>1, <2>2, AgentKeepsQuiet DEF Next
<1> QED
  BY <1>1, <1>2, IInvHolds, PTL DEF Spec

\* The last of several requests that do not overlap is answered by the port's state
\* when it was sent and leaves the port as it asks, whatever earlier ones were given up
\* on; so the start of a `ports reload` whose stop was answered finds the port free.
THEOREM LastQuietRequestDecides == Spec => []QuietRequestDecides
<1>1. IInv /\ Quiet => QuietRequestDecides
  <2> SUFFICES ASSUME IInv, Quiet, NEW c \in Calls, guest[c] = "done", verdict[c] # "none",
                      quiet[c], port[c] <= U16Max, Latest(c)
               PROVE  IF op[c] = "start"
                        THEN /\ verdict[c] = "ack" <=> Free(c)
                             /\ proxies[port[c]] = IF Free(c) THEN c ELSE found[c]
                        ELSE /\ verdict[c] = "ack" <=> found[c] # NoCall
                             /\ proxies[port[c]] = NoCall
                             /\ \A l \in Calls : port[l] = port[c] => ~Listening(l)
    BY DEF QuietRequestDecides, Latest, Free
  <2>1. Decided(c) /\ op[c] \in {"start", "stop"}
    BY DEF Quiet, QuietDecides, IInv, TypeOK
  <2>2. ASSUME op[c] = "stop", NEW l \in Calls, port[l] = port[c], Listening(l) PROVE FALSE
    <3>1. proxies[port[c]] = l
      BY <2>2, OnlyTheEntryListens DEF Quiet
    <3> QED
      BY <2>1, <2>2, <3>1 DEF Decided, Calls, NoCall
  <2> QED
    BY <2>1, <2>2 DEF Decided
<1> QED
  BY <1>1, IInvHolds, QuietHolds, PTL

-----------------------------------------------------------------------------
(* Refinement of PortTable *)

\* A start takes effect at its insertion, a stop at its removal; the steps between
\* lock, bind, spawn, store and join, and the listeners', are invisible.
LEMMA SendRefines ==
  ASSUME IInv, NEW w \in Labctls, NEW what \in {"start", "stop"}, NEW p \in Ports,
         NEW next, Send(w, what, p, next)
  PROVE  Table!Next
<1> DEFINE r == sent + 1
<1>1. r \in Calls /\ sent \in Nat /\ sent' = r
  BY MaxCallsAssumption DEF Send, IInv, TypeOK, Calls
<1>2. Asked[r] = <<>>
  BY <1>1 DEF Asked, Calls
<1>3. Asked' = [Asked EXCEPT ![r] = <<what, p>>]
  <2>1. op' = [op EXCEPT ![r] = what] /\ port' = [port EXCEPT ![r] = p]
    BY DEF Send
  <2>2. ASSUME NEW c \in Calls PROVE Asked'[c] = [Asked EXCEPT ![r] = <<what, p>>][c]
    <3>1. CASE c = r
      BY <1>1, <2>1, <3>1 DEF Asked, IInv, TypeOK
    <3>2. CASE c # r
      <4>1. c <= r <=> c <= sent
        BY <1>1, <3>2 DEF Calls
      <4> QED
        BY <1>1, <2>1, <3>2, <4>1 DEF Asked, IInv, TypeOK
    <3> QED
      BY <3>1, <3>2
  <2> QED
    BY <2>2 DEF Asked
<1>4. UNCHANGED <<OpenPorts, Verdicts>>
  BY DEF Send, OpenPorts, Verdicts, lockVars
<1> QED
  BY <1>1, <1>2, <1>3, <1>4 DEF Table!Next, Table!Ask

LEMMA StepRefines == IInv /\ [Next]_vars => [Table!Next]_(Table!vars)
<1> SUFFICES ASSUME IInv, [Next]_vars PROVE [Table!Next]_(Table!vars)
  OBVIOUS
<1> USE DEF IInv, TypeOK, Rest, NoCall, Finish
<1>1. ASSUME NEW c \in Calls, UNCHANGED <<sent, op, port>>
      PROVE Asked' = Asked
  BY <1>1 DEF Asked
<1>2. ASSUME NEW c \in Calls, guest[c] \notin {"none", "parse", "done"}
      PROVE Asked[c] = <<op[c], port[c]>> /\ port[c] \in Ports
  BY <1>2 DEF Asked, Sent, HasPort, Calls
<1>3. ASSUME NEW c \in Calls, Insert(c) PROVE Table!Next
  <2>1. Verdicts[c] = "none" /\ Verdicts' = [Verdicts EXCEPT ![c] = "ack"]
    BY <1>3 DEF Insert, Verdicts, Untouched, Stopping
  <2>2. port[c] \notin OpenPorts /\ OpenPorts' = OpenPorts \cup {port[c]}
    BY <1>2, <1>3 DEF Insert, OpenPorts, Starting, Calls
  <2>3. Asked[c] = <<"start", port[c]>> /\ Asked' = Asked
    BY <1>1, <1>2, <1>3 DEF Insert, Starting, hostVars
  <2> QED
    BY <1>2, <1>3, <2>1, <2>2, <2>3 DEF Insert, Table!Next, Table!Open, Table!Decide
<1>4. ASSUME NEW c \in Calls, RemoveEntry(c) PROVE Table!Next
  <2>1. Verdicts[c] = "none" /\ Verdicts' = [Verdicts EXCEPT ![c] = "ack"]
    BY <1>4 DEF RemoveEntry, Verdicts, Untouched, Stopping
  <2>2. port[c] \in OpenPorts /\ OpenPorts' = OpenPorts \ {port[c]}
    BY <1>2, <1>4 DEF RemoveEntry, OpenPorts
  <2>3. Asked[c] = <<"stop", port[c]>> /\ Asked' = Asked
    BY <1>1, <1>2, <1>4 DEF RemoveEntry, hostVars
  <2> QED
    BY <1>2, <1>4, <2>1, <2>2, <2>3 DEF RemoveEntry, Table!Next, Table!Close, Table!Decide
<1>5. ASSUME NEW c \in Calls, guest[c] \in {"parse", "locked"}, Finish(c, "error"),
             op[c] = "stop" => proxies[port[c]] = NoCall,
             UNCHANGED <<sent, op, port, took, proxies>>
      PROVE Table!Next
  <2>1. Verdicts[c] = "none" /\ Verdicts' = [Verdicts EXCEPT ![c] = "error"]
    BY <1>5 DEF Verdicts, Untouched, Stopping
  <2>2. OpenPorts' = OpenPorts /\ (op[c] = "stop" => port[c] \notin OpenPorts)
    BY <1>5 DEF OpenPorts
  <2>3. Asked[c] = <<op[c], port[c]>> /\ port[c] \in Ports /\ Asked' = Asked
    BY <1>1, <1>5 DEF Asked, Sent, HasPort, Calls
  <2> QED
    BY <2>1, <2>2, <2>3 DEF Table!Next, Table!RefuseStart, Table!RefuseStop, Table!Decide
<1>6. ASSUME NEW c \in Calls, Refuse(c) PROVE Table!Next
  BY <1>5, <1>6 DEF Refuse, hostVars
<1>7. ASSUME NEW c \in Calls, ParsePort(c) PROVE [Table!Next]_(Table!vars)
  <2>1. CASE port[c] > U16Max
    <3>1. port[c] \in Ports /\ port[c] \in Nat
      BY <1>7, PortsAssumption DEF ParsePort, HasPort
    <3>2. ~(port[c] <= U16Max)
      BY <2>1, <3>1 DEF U16Max
    <3>3. proxies[port[c]] = NoCall
      BY <3>1, <3>2 DEF Entered
    <3>4. Finish(c, "error") /\ UNCHANGED <<sent, op, port, took, proxies>>
      BY <1>7, <3>2 DEF ParsePort, hostVars, lockVars
    <3> QED
      BY <1>5, <1>7, <3>3, <3>4 DEF ParsePort
  <2>2. CASE ~(port[c] > U16Max)
    BY <1>1, <1>7, <2>2 DEF ParsePort, hostVars, lockVars, Table!vars, OpenPorts, Verdicts
  <2> QED
    BY <2>1, <2>2
<1>8. ASSUME NEW c \in Calls, UNCHANGED <<sent, op, port, took, proxies>>,
             \A d \in Calls : took[d] = NoCall => verdict'[d] = verdict[d]
      PROVE UNCHANGED Table!vars
  BY <1>1, <1>8 DEF Table!vars, OpenPorts, Verdicts
<1>9. ASSUME NEW c \in Calls,
             Lock(c) \/ Bind(c) \/ Spawn(c) \/ StoreStop(c) \/ UnwrapPanics(c)
             \/ SpawnPanics(c) \/ CloseListener(c) \/ AcceptPanics(c) \/ Join(c)
      PROVE UNCHANGED Table!vars
  BY <1>8, <1>9 DEF Lock, Bind, Spawn, StoreStop, UnwrapPanics, SpawnPanics, CloseListener,
              AcceptPanics, Join, hostVars, lockVars, Untouched, Taken, Stopping
<1>10. ASSUME NEW w \in Labctls, Command(w) PROVE [Table!Next]_(Table!vars)
  <2>1. CASE GiveUp(w)
    BY <2>1 DEF GiveUp, hostVars, lockVars, Table!vars, Asked, OpenPorts, Verdicts
  <2>2. CASE StartTcpVsockProxy(w) \/ StopTcpVsockProxy(w) \/ ReloadStop(w)
    BY <2>2, SendRefines DEF StartTcpVsockProxy, StopTcpVsockProxy, ReloadStop
  <2>3. CASE ReloadStart(w)
    <3>1. after[w] \in Ports
      BY <2>3 DEF ReloadStart
    <3> QED
      BY <3>1, <2>3, SendRefines DEF ReloadStart
  <2> QED
    BY <1>10, <2>1, <2>2, <2>3 DEF Command
<1>11. CASE UNCHANGED vars
  BY <1>11 DEF vars, hostVars, lockVars, Table!vars, Asked, OpenPorts, Verdicts
<1> QED
  BY <1>3, <1>4, <1>6, <1>7, <1>9, <1>10, <1>11 DEF Next, Handle

\* The host may reason about its requests as if each took effect at once, or never.
THEOREM Refinement == Spec => ImplementsTable
<1>1. Init => Table!Init
  BY MaxCallsAssumption DEF Init, Table!Init, Calls, NoCall, Asked, OpenPorts, Verdicts
<1> QED
  BY <1>1, IInvHolds, StepRefines, PTL DEF Spec, ImplementsTable, Table!Spec

-----------------------------------------------------------------------------
(* Nobody waits for one who waits: what RequestsEnd asks of the states *)

\* A stop that joins has set the flag, of a thread that started.
Joins ==
  \A c \in Calls :
    /\ took[c] # NoCall => thread[took[c]] \in {"running", "closed", "dead"}
    /\ guest[c] = "join" => stop[took[c]]

\* The mutex is never held across a wait: its holder binds, spawns, inserts or
\* removes.  And the listener a stop joins has ended or is about to see its flag.
NobodyWaitsForAWaiter ==
  \A c \in Calls :
    /\ guest[c] = "lock" /\ mutex # NoCall => Holding(mutex) /\ mutex # c
    /\ guest[c] = "join" =>
         \/ thread[took[c]] \in {"closed", "dead"}
         \/ thread[took[c]] = "running" /\ stop[took[c]]

LEMMA JoinsHold == Spec => []Joins
<1>1. Init => Joins
  BY DEF Init, Joins
<1>2. IInv /\ Joins /\ [Next]_vars => Joins'
  <2> SUFFICES ASSUME IInv, Joins, [Next]_vars PROVE Joins'
    OBVIOUS
  <2>0. \A c \in Calls : c # NoCall
    BY DEF Calls, NoCall
  <2> USE DEF Joins, IInv, TypeOK, hostVars, lockVars, listenerVars, Finish
  <2>1. ASSUME NEW c \in Calls, RemoveEntry(c) PROVE Joins'
    <3>1. port[c] \in Ports /\ proxies[port[c]] \in Calls
      BY <2>1 DEF RemoveEntry, HasPort
    <3>2. thread[proxies[port[c]]] \in {"running", "dead"}
      BY <2>1, <3>1 DEF RemoveEntry, Rest, EntryIsServed
    <3> QED
      BY <2>1, <3>1, <3>2 DEF RemoveEntry
  <2>2. ASSUME NEW c \in Calls, StoreStop(c) PROVE Joins'
    <3>1. took[c] \in Calls
      BY <2>2 DEF StoreStop, Rest, Taken, Stopping
    <3> QED
      BY <2>2, <3>1 DEF StoreStop
  <2>3. ASSUME NEW c \in Calls, Bind(c) \/ Spawn(c) \/ SpawnPanics(c) PROVE Joins'
    <3>1. \A d \in Calls : took[d] # c
      BY <2>0, <2>3 DEF Bind, Spawn, SpawnPanics, Rest, Taken
    <3> QED
      BY <2>3, <3>1 DEF Bind, Spawn, SpawnPanics
  <2>4. ASSUME NEW c \in Calls, ParsePort(c) \/ Lock(c) \/ UnwrapPanics(c) \/ Refuse(c)
                                \/ Insert(c) \/ Join(c)
        PROVE  Joins'
    BY <2>4 DEF ParsePort, Lock, UnwrapPanics, Refuse, Insert, Join
  <2>5. ASSUME NEW l \in Calls, CloseListener(l) \/ AcceptPanics(l) PROVE Joins'
    BY <2>5 DEF CloseListener, AcceptPanics
  <2>6. ASSUME NEW w \in Labctls, Command(w) PROVE Joins'
    BY <2>6 DEF Command, StartTcpVsockProxy, StopTcpVsockProxy, ReloadStop, ReloadStart, Send,
                GiveUp
  <2>7. CASE UNCHANGED vars
    BY <2>7 DEF vars
  <2> QED
    BY <2>1, <2>2, <2>3, <2>4, <2>5, <2>6, <2>7 DEF Next, Handle
<1> QED
  BY <1>1, <1>2, IInvHolds, PTL DEF Spec

\* A request waits for the mutex, whose holder does not wait, or for a listener
\* that does not: stop joins outside the lock (tcp_vsock_proxy.rs:67-69), so no
\* chain of requests, timed out or not, blocks another for longer than that.
THEOREM WaitsAreShort == Spec => []NobodyWaitsForAWaiter
<1>1. IInv /\ Joins => NobodyWaitsForAWaiter
  <2> SUFFICES ASSUME IInv, Joins, NEW c \in Calls
               PROVE  /\ guest[c] = "lock" /\ mutex # NoCall => Holding(mutex) /\ mutex # c
                      /\ guest[c] = "join" =>
                           \/ thread[took[c]] \in {"closed", "dead"}
                           \/ thread[took[c]] = "running" /\ stop[took[c]]
    BY DEF NobodyWaitsForAWaiter
  <2>1. guest[c] = "lock" /\ mutex # NoCall => Holding(mutex) /\ mutex # c
    BY DEF IInv, TypeOK, Rest, MutexHeld, Holding
  <2>2. guest[c] = "join" => took[c] # NoCall
    BY DEF IInv, Rest, Taken, Stopping
  <2> QED
    BY <2>1, <2>2 DEF Joins
<1> QED
  BY <1>1, JoinsHold, IInvHolds, PTL
=============================================================================
