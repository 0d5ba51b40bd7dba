----------------------------- MODULE Addresses -----------------------------
(***************************************************************************)
(* The network identity labctl derives from a slot: IP and vsock CID       *)
(* (src/state/state.go), guest MAC (bootVM in src/vm/vm.go), against the   *)
(* bridge, gateway and masquerading rule that `labctl setup` installs      *)
(* (src/cmd/setup.go).  `labctl run --count n` fills the slots in order.   *)
(***************************************************************************)
EXTENDS Integers

CONSTANT MaxSlots   \* the range of the SELECT loop: 1000 in the code

\* Beyond 65022 slots the third octet would leave its byte.
ASSUME MaxSlotsAssumption == MaxSlots \in Nat \ {0} /\ MaxSlots <= 65022

Slots == 0 .. (MaxSlots - 1)
Byte  == 0 .. 255

VARIABLE fleet      \* the number of VMs allocated so far: slots 0 .. fleet - 1
vars == fleet

\* Broken variant: the gateway's own address is not skipped.
VmIPUnshifted(i) == <<172, 16, i \div 254, (i % 254) + 1>>

\* Broken variant: the last octet wraps before the third one moves on.
VmIPWrapped(i) == <<172, 16, (i + 2) \div 254, ((i + 2) % 253) + 1>>

VmIP(i) == <<172, 16, (i + 2) \div 254, ((i + 2) % 254) + 1>>

CID(i) == 3 + i

\* guest_mac is "AA:FC:00:00:%02x:%02x" of CID>>8 and CID&0xff.
GuestMAC(i) == <<170, 252, 0, 0, CID(i) \div 256, CID(i) % 256>>

\* `ip addr add 172.16.0.1/24 dev br0`; every guest gets it as its gateway,
\* with netmask 255.255.255.0.
Gateway == <<172, 16, 0, 1>>
OnBridgeSubnet(ip) == ip[1] = 172 /\ ip[2] = 16 /\ ip[3] = 0

Init == fleet = 0

Allocate == fleet < MaxSlots /\ fleet' = fleet + 1
Next == Allocate
Spec == Init /\ [][Next]_vars

-----------------------------------------------------------------------------
(* Properties *)

TypeOK == fleet \in 0 .. MaxSlots

Newest == fleet - 1

\* The VM just allocated shares neither its IP nor its MAC with any earlier
\* one on br0, though both are built from remainders.
IdentitiesDistinct ==
  \A i \in 0 .. (fleet - 2) :
    VmIP(i) # VmIP(Newest) /\ GuestMAC(i) # GuestMAC(Newest)

\* Its address is four bytes, a host address of its /24 (not .0, not .255),
\* never the gateway's, and its MAC is six bytes.
AddressesUsable ==
  fleet > 0 =>
    /\ VmIP(Newest) \in Byte \X Byte \X Byte \X (1 .. 254)
    /\ VmIP(Newest) # Gateway
    /\ \A b \in 1 .. 6 : GuestMAC(Newest)[b] \in Byte

\* README.md:312 "VMs get internet access without manual configuration":
\* that takes a gateway on the guest's own /24 and a source address the one
\* masquerade rule (saddr 172.16.0.0/24) matches.
InternetReachable == fleet > 0 => OnBridgeSubnet(VmIP(Newest))
=============================================================================
