-------------------------- MODULE Addresses_proofs --------------------------
(* For every fleet size: distinct and usable addresses, and which of them reach *)
(* the internet.                                                                 *)
EXTENDS Addresses, TLAPS

\* Division by the two constants the addresses are built with.
LEMMA Division254 ==
  ASSUME NEW n \in Nat
  PROVE  /\ n \div 254 \in Nat /\ n % 254 \in 0 .. 253
         /\ n = 254 * (n \div 254) + (n % 254)
  OBVIOUS

LEMMA Division256 ==
  ASSUME NEW n \in Nat
  PROVE  /\ n \div 256 \in Nat /\ n % 256 \in 0 .. 255
         /\ n = 256 * (n \div 256) + (n % 256)
  OBVIOUS

\* Quotient and remainder together determine the slot.
LEMMA IPInjective ==
  ASSUME NEW i \in Nat, NEW j \in Nat, VmIP(i) = VmIP(j)
  PROVE  i = j
<1>1. i + 2 \in Nat /\ j + 2 \in Nat
  OBVIOUS
<1>2. (i + 2) \div 254 = (j + 2) \div 254
  BY DEF VmIP
<1>3. (i + 2) % 254 = (j + 2) % 254
  <2>1. ((i + 2) % 254) + 1 = ((j + 2) % 254) + 1
    BY DEF VmIP
  <2> QED
    BY <1>1, <2>1, Division254
<1>4. i + 2 = j + 2
  BY <1>1, <1>2, <1>3, Division254
<1> QED
  BY <1>4

LEMMA MACInjective ==
  ASSUME NEW i \in Nat, NEW j \in Nat, GuestMAC(i) = GuestMAC(j)
  PROVE  i = j
<1>1. CID(i) \in Nat /\ CID(j) \in Nat
  BY DEF CID
<1>2. CID(i) \div 256 = CID(j) \div 256 /\ CID(i) % 256 = CID(j) % 256
  BY DEF GuestMAC
<1>3. CID(i) = CID(j)
  BY <1>1, <1>2, Division256
<1> QED
  BY <1>3 DEF CID

\* The last octet runs through 1 .. 254, and slot 0 starts above the gateway.
LEMMA IPUsable ==
  ASSUME NEW i \in Slots
  PROVE  VmIP(i) \in Byte \X Byte \X Byte \X (1 .. 254) /\ VmIP(i) # Gateway
<1> DEFINE n == i + 2
           q == n \div 254
           r == n % 254
<1>1. n \in Nat /\ 2 <= n /\ n <= 65023
  BY MaxSlotsAssumption DEF Slots
<1>2. VmIP(i) = <<172, 16, q, r + 1>>
  BY DEF VmIP
<1> HIDE DEF n
<1>3. q \in Nat /\ r \in 0 .. 253 /\ n = 254 * q + r
  BY <1>1, Division254
<1> HIDE DEF q, r
<1>4. q \in 0 .. 255 /\ ~(q = 0 /\ r = 0)
  BY <1>1, <1>3
<1>5. r + 1 \in 1 .. 254
  BY <1>3
<1>6. VmIP(i) \in Byte \X Byte \X Byte \X (1 .. 254)
  BY <1>2, <1>4, <1>5 DEF Byte
<1>7. q # 0 \/ r + 1 # 1
  BY <1>3, <1>4
<1> QED
  BY <1>2, <1>6, <1>7 DEF Gateway

LEMMA MACUsable ==
  ASSUME NEW i \in Slots, NEW b \in 1 .. 6
  PROVE  GuestMAC(i)[b] \in Byte
<1>0. CID(i) \in Nat
  BY MaxSlotsAssumption DEF Slots, CID
<1>1. CID(i) <= 65024
  BY MaxSlotsAssumption DEF Slots, CID
<1>2. CID(i) \div 256 \in Nat /\ CID(i) % 256 \in 0 .. 255
      /\ CID(i) = 256 * (CID(i) \div 256) + (CID(i) % 256)
  BY <1>0, Division256
<1>3. CID(i) \div 256 \in 0 .. 255
  BY <1>1, <1>2
<1> QED
  BY <1>2, <1>3 DEF GuestMAC, Byte

\* The loop never counts past the last slot.
THEOREM TypeCorrect == Spec => []TypeOK
<1>1. Init => TypeOK
  BY MaxSlotsAssumption DEF Init, TypeOK
<1>2. TypeOK /\ [Next]_vars => TypeOK'
  BY MaxSlotsAssumption DEF TypeOK, Next, Allocate, vars
<1> QED
  BY <1>1, <1>2, PTL DEF Spec

\* No two VMs ever share an IP or a MAC, for any fleet.
THEOREM DistinctIdentities == Spec => []IdentitiesDistinct
<1>1. TypeOK => IdentitiesDistinct
  <2> SUFFICES ASSUME TypeOK, NEW i \in 0 .. (fleet - 2)
               PROVE  VmIP(i) # VmIP(Newest) /\ GuestMAC(i) # GuestMAC(Newest)
    BY DEF IdentitiesDistinct
  <2>1. i \in Nat /\ Newest \in Nat /\ i # Newest
    BY MaxSlotsAssumption DEF TypeOK, Newest
  <2> QED
    BY <2>1, IPInjective, MACInjective
<1> QED
  BY <1>1, TypeCorrect, PTL

\* Every address stays in its bytes, off .0, .255 and the gateway's.
THEOREM UsableAddresses == Spec => []AddressesUsable
<1>1. TypeOK => AddressesUsable
  <2>1. TypeOK /\ fleet > 0 => Newest \in Slots
    BY MaxSlotsAssumption DEF TypeOK, Newest, Slots
  <2> QED
    BY <2>1, IPUsable, MACUsable DEF AddressesUsable
<1> QED
  BY <1>1, TypeCorrect, PTL

\* The VMs that README.md:312 is right about are the first 252, exactly: from
\* the next one on, address and gateway lie in different /24s.
THEOREM FirstSubnetOnly == Spec => [](InternetReachable <=> fleet <= 252)
<1>1. TypeOK => (InternetReachable <=> fleet <= 252)
  <2> SUFFICES ASSUME TypeOK, fleet > 0
               PROVE  OnBridgeSubnet(VmIP(Newest)) <=> fleet <= 252
    BY DEF InternetReachable, TypeOK
  <2> DEFINE n == Newest + 2
             q == n \div 254
  <2>1. n \in Nat /\ n = fleet + 1 /\ fleet \in Nat
    BY MaxSlotsAssumption DEF TypeOK, Newest
  <2>2. OnBridgeSubnet(VmIP(Newest)) <=> q = 0
    BY DEF OnBridgeSubnet, VmIP
  <2> HIDE DEF n
  <2>3. q \in Nat /\ n % 254 \in 0 .. 253 /\ n = 254 * q + (n % 254)
    BY <2>1, Division254
  <2> HIDE DEF q
  <2>4. q = 0 <=> n <= 253
    BY <2>1, <2>3
  <2> QED
    BY <2>1, <2>2, <2>4
<1> QED
  BY <1>1, TypeCorrect, PTL
=============================================================================
