----------------------------- MODULE SlotLedger -----------------------------
(***************************************************************************)
(* What the vms table promises to its callers, with no SQL in sight: a     *)
(* claim takes the lowest slot nobody holds, in one step, and tells the    *)
(* caller which one it took; or it is refused and changes nothing.         *)
(* A slot is an index i: it fixes the VM's id vm<i>, tap tap<i>, IP and    *)
(* CID.  StateDB shows that AllocateAndInsert and Remove implement this.   *)
(***************************************************************************)
EXTENDS Integers

CONSTANTS Clients,   \* the callers of the state database
          MaxSlots   \* the number of slots (1000 in the code)

Slots  == 0 .. (MaxSlots - 1)
NoSlot == -1

VARIABLES claimed,   \* the slots that are taken
          granted    \* the last answer each client got: a slot, or NoSlot

vars == <<claimed, granted>>

IsLowestFree(s, taken) == s \notin taken /\ \A u \in Slots : u < s => u \in taken

Init == claimed = {} /\ granted = [c \in Clients |-> NoSlot]

Claim(c) ==
  \E s \in Slots :
    /\ IsLowestFree(s, claimed)
    /\ claimed' = claimed \cup {s}
    /\ granted' = [granted EXCEPT ![c] = s]

\* An error: BUSY, no slot left, a failed statement, a killed process.
Refuse(C) ==
  /\ granted' = [c \in Clients |-> IF c \in C THEN NoSlot ELSE granted[c]]
  /\ UNCHANGED claimed

Release ==
  \E s \in claimed : claimed' = claimed \ {s} /\ UNCHANGED granted

Next ==
  \/ \E c \in Clients : Claim(c)
  \/ \E C \in SUBSET Clients : Refuse(C)
  \/ Release

Spec == Init /\ [][Next]_vars
=============================================================================
