----------------------------- MODULE PortTable -----------------------------
(***************************************************************************)
(* What the guest agent's proxy registry promises: a set of open ports and *)
(* one verdict per request.  A start opens a closed port, a stop closes an *)
(* open one, each in a single step; a stop is refused only if the port is  *)
(* closed.  A start may be refused, a request may be dropped: neither      *)
(* changes the set.  ProxyRegistry shows that the locks, threads and stop  *)
(* flags of the agent implement this.                                      *)
(***************************************************************************)
CONSTANTS Ports, Requests

VARIABLES asked,     \* what each request asks: <<op, port>>, or <<>>
          open,      \* the ports with a proxy
          verdict    \* "none", "ack" or "error"

vars == <<asked, open, verdict>>

Init ==
  /\ asked = [r \in Requests |-> <<>>]
  /\ open = {}
  /\ verdict = [r \in Requests |-> "none"]

Ask(r) ==
  /\ asked[r] = <<>>
  /\ \E what \in {"start", "stop"}, p \in Ports :
       asked' = [asked EXCEPT ![r] = <<what, p>>]
  /\ UNCHANGED <<open, verdict>>

Decide(r, answer) ==
  /\ verdict[r] = "none"
  /\ verdict' = [verdict EXCEPT ![r] = answer]
  /\ UNCHANGED asked

Open(r, p) ==
  /\ asked[r] = <<"start", p>> /\ p \notin open
  /\ open' = open \cup {p}
  /\ Decide(r, "ack")

Close(r, p) ==
  /\ asked[r] = <<"stop", p>> /\ p \in open
  /\ open' = open \ {p}
  /\ Decide(r, "ack")

RefuseStart(r, p) ==
  /\ asked[r] = <<"start", p>>
  /\ UNCHANGED open
  /\ Decide(r, "error")

RefuseStop(r, p) ==
  /\ asked[r] = <<"stop", p>> /\ p \notin open
  /\ UNCHANGED open
  /\ Decide(r, "error")

Next ==
  \E r \in Requests :
    \/ Ask(r)
    \/ \E p \in Ports :
         Open(r, p) \/ Close(r, p) \/ RefuseStart(r, p) \/ RefuseStop(r, p)

Spec == Init /\ [][Next]_vars
=============================================================================
