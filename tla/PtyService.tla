----------------------------- MODULE PtyService -----------------------------
(***************************************************************************)
(* What port 1235 of a VM promises (src/vm/status.go, the guest agent's    *)
(* transport/pty_vsock.rs): every connection gets a session of its own;    *)
(* the guest does not close it while the host stays and a process uses     *)
(* its pty, and does close it once both have gone.  A session whose        *)
(* processes have gone may stay open to a host that types nothing.         *)
(***************************************************************************)
CONSTANT Conns

VARIABLES
  vm,     \* "up", or "gone"
  host,   \* the host's end of each connection: none, open, closed
  line    \* the guest's: none, waiting, live, dead (no process), ended

vars == <<vm, host, line>>

Init ==
  /\ vm = "up"
  /\ host = [c \in Conns |-> "none"]
  /\ line = [c \in Conns |-> "none"]

Dial(c) ==
  /\ vm = "up" /\ host[c] = "none"
  /\ host' = [host EXCEPT ![c] = "open"]
  /\ line' = [line EXCEPT ![c] = "waiting"]
  /\ UNCHANGED vm

HostCloses(c) ==
  /\ host[c] = "open"
  /\ host' = [host EXCEPT ![c] = "closed"]
  /\ UNCHANGED <<vm, line>>

Moves(c, next) ==
  /\ vm = "up"
  /\ line' = [line EXCEPT ![c] = next]
  /\ UNCHANGED <<vm, host>>

\* A shell on a pty, or a session that cannot be started.
Begin(c) == line[c] = "waiting" /\ \E next \in {"live", "ended"} : Moves(c, next)

\* The last process that held the pty lets go of it.
Die(c) == line[c] = "live" /\ Moves(c, "dead")

End(c) ==
  /\ line[c] = "dead" \/ (line[c] = "live" /\ host[c] = "closed")
  /\ Moves(c, "ended")

Halt ==
  /\ vm = "up"
  /\ vm' = "gone"
  /\ UNCHANGED <<host, line>>

Next == Halt \/ \E c \in Conns : Dial(c) \/ HostCloses(c) \/ Begin(c) \/ Die(c) \/ End(c)

Released(c) == host[c] = "closed" /\ line[c] = "dead" /\ End(c)

Spec == Init /\ [][Next]_vars /\ \A c \in Conns : WF_vars(Released(c))
=============================================================================
