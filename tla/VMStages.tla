------------------------------- MODULE VMStages -------------------------------
(***************************************************************************)
(* What labctl's commands promise about a VM, with no steps in sight.  A   *)
(* slot is claimed once, its VM is brought up once, and once the command   *)
(* that brought it up is over, the VM leaves the table only after it has   *)
(* gone down, and never comes up again.  A snapshot is registered while    *)
(* the VM it was taken from is down and still in the table.  Lifecycle     *)
(* shows that the commands implement this.                                 *)
(***************************************************************************)
EXTENDS Integers

CONSTANTS MaxSlots,   \* the number of slots (1000 in the code)
          Names       \* snapshot names

Slots == 0 .. (MaxSlots - 1)

VARIABLES stage,   \* of each slot
          snaps    \* the registered snapshots

vars == <<stage, snaps>>

\* run or restore still works on the slot: it builds the VM, has started it,
\* or is giving it up.
Coming == {"starting", "started", "failed"}
Stages == Coming \cup {"absent", "up", "down"}

Init == stage = [s \in Slots |-> "absent"] /\ snaps = {}

Move(s, from, to) ==
  /\ stage[s] \in from
  /\ stage' = [stage EXCEPT ![s] = to]
  /\ UNCHANGED snaps

\* The lowest slot without a VM is taken.
Claim(s) == (\A u \in Slots : u < s => stage[u] # "absent") /\ Move(s, {"absent"}, "starting")

Boot(s) == Move(s, {"starting"}, "started")

\* The command ends and leaves a VM that runs.
Detach(s) == Move(s, Coming, "up")

\* restore fails, and then drops its row whatever runs there.
GiveUp(s)  == Move(s, {"starting", "started"}, "failed")
Abandon(s) == Move(s, {"failed"}, "absent")

Present == {s \in Slots : stage[s] \notin {"absent", "down"}}

\* A VM, or at a reboot every VM, is down with nobody bringing it up.
Lose(S) ==
  /\ stage' = [s \in Slots |-> IF s \in S THEN "down" ELSE stage[s]]
  /\ UNCHANGED snaps

Release(s) == Move(s, {"down"}, "absent")

Save(s, n) ==
  /\ stage[s] = "down" /\ n \notin snaps
  /\ snaps' = snaps \cup {n}
  /\ UNCHANGED stage

Forget(n) == snaps' = snaps \ {n} /\ UNCHANGED stage

Next ==
  \/ \E S \in SUBSET Present : Lose(S)
  \/ \E s \in Slots :
       \/ Claim(s) \/ Boot(s) \/ Detach(s) \/ GiveUp(s) \/ Abandon(s) \/ Release(s)
       \/ \E n \in Names : Save(s, n)
  \/ \E n \in Names : Forget(n)

Spec == Init /\ [][Next]_vars
=============================================================================
