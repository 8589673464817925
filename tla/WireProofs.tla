----------------------------- MODULE WireProofs -----------------------------
(***************************************************************************)
(* What the host reads from the wire, for any bytes a device sends and any *)
(* number and size of packets: the packets of an isochronous transfer are  *)
(* its data, and the BOS and string readers of the three systems agree.    *)
(***************************************************************************)
EXTENDS MCDescriptors, SequenceTheorems, FiniteSetTheorems, WellFoundedInduction, TLAPS

-----------------------------------------------------------------------------
(* Recursive functions on the numbers                                      *)

LEMMA LeastNat ==
  ASSUME NEW T \in SUBSET Nat, T # {}
  PROVE  \E x \in T : \A y \in T : x <= y
<1> DEFINE Rel == OpToRel(<, Nat)
<1>1. \A x, y \in Nat : x < y => <<x, y>> \in Rel
  BY DEF OpToRel
<1>2. IsWellFoundedOn(Rel, Nat)
  BY NatLessThanWellFounded
<1> HIDE DEF Rel
<1>3. PICK x \in T : \A y \in T : ~(<<y, x>> \in Rel)
  BY <1>2, WFMin
<1>4. \A y \in T : ~(y < x)
  BY <1>1, <1>3
<1>5. QED
  BY <1>3, <1>4

\* Induction over the numbers, for the set where a formula holds.
LEMMA SetInduction ==
  ASSUME NEW T \in SUBSET Nat, 0 \in T, \A n \in T : n + 1 \in T
  PROVE  T = Nat
<1>1. SUFFICES ASSUME Nat \ T # {} PROVE FALSE
  OBVIOUS
<1>2. PICK x \in Nat \ T : \A y \in Nat \ T : x <= y
  BY <1>1, LeastNat
<1>3. x # 0 /\ x - 1 \in Nat
  BY <1>2
<1>4. x - 1 \in T
  BY <1>2, <1>3
<1>5. QED
  BY <1>2, <1>3, <1>4

\* Up to a bound.
LEMMA InductionTo ==
  ASSUME NEW n \in Nat, NEW T, 0 \in T, \A k \in 1..n : k - 1 \in T => k \in T
  PROVE  0..n \subseteq T
<1> DEFINE G == {k \in Nat : k <= n => k \in T}
<1>1. \A k \in G : k + 1 \in G
  OBVIOUS
<1>2. 0 \in G /\ G \in SUBSET Nat
  OBVIOUS
<1> HIDE DEF G
<1>3. G = Nat
  BY <1>1, <1>2, SetInduction
<1>4. QED
  BY <1>3 DEF G

\* A state that starts at b and takes step g[k] has a value at every number up to n.
Steps(s, b, g, n) == /\ DOMAIN s = 0..n /\ s[0] = b
                     /\ \A k \in 1..n : s[k] = g[k][s[k - 1]]

LEMMA StepsExist ==
  ASSUME NEW V, NEW b \in V, NEW n \in Nat, NEW g, \A k \in 1..n : g[k] \in [V -> V]
  PROVE  \E s \in [0..n -> V] : Steps(s, b, g, n)
<1> DEFINE T == {m \in 0..n : \E s \in [0..m -> V] : Steps(s, b, g, m)}
<1>1. 0 \in T
  <2>1. Steps([k \in 0..0 |-> b], b, g, 0)
    BY DEF Steps
  <2>2. QED
    BY <2>1
<1>2. ASSUME NEW k \in 1..n, k - 1 \in T PROVE k \in T
  <2>1. PICK s \in [0..(k - 1) -> V] : Steps(s, b, g, k - 1)
    BY <1>2
  <2> DEFINE t == [j \in 0..k |-> IF j = k THEN g[k][s[k - 1]] ELSE s[j]]
  <2>2. \A j \in 0..k : t[j] \in V
    <3>1. k - 1 \in 0..(k - 1)
      OBVIOUS
    <3>2. s[k - 1] \in V
      BY <3>1
    <3>3. g[k][s[k - 1]] \in V
      BY <3>2
    <3>4. QED
      BY <3>3
  <2>3. t \in [0..k -> V]
    <3>1. t = [j \in 0..k |-> t[j]]
      OBVIOUS
    <3> HIDE DEF t
    <3>2. QED
      BY <2>2, <3>1
  <2>4. Steps(t, b, g, k)
    BY <2>1 DEF Steps
  <2>5. QED
    BY <2>3, <2>4
<1> HIDE DEF T
<1>3. 0..n \subseteq T
  BY <1>1, <1>2, InductionTo
<1>4. QED
  BY <1>3 DEF T
-----------------------------------------------------------------------------
(* Packets                                                                 *)

Summing(s, f, i) == s = [k \in 0..i |-> IF k = 0 THEN 0 ELSE s[k - 1] + f[k - 1]]

LEMMA SumSolved ==
  ASSUME NEW f, NEW i \in Nat, \A k \in 0..(i - 1) : f[k] \in Nat
  PROVE  \E s \in [0..i -> Nat] : Summing(s, f, i) /\ P!SumTo(f, i) = s[i]
<1> DEFINE g == [k \in 1..i |-> [x \in Nat |-> x + f[k - 1]]]
           sum == CHOOSE s : Summing(s, f, i)
<1>1. \A k \in 1..i : g[k] \in [Nat -> Nat]
  OBVIOUS
<1>2. PICK s \in [0..i -> Nat] : Steps(s, 0, g, i)
  <2> HIDE DEF g
  <2>1. QED
    BY <1>1, StepsExist
<1>3. Summing(s, f, i)
  <2>1. \A k \in 0..i : s[k] = IF k = 0 THEN 0 ELSE s[k - 1] + f[k - 1]
    <3>1. s[0] = 0
      BY <1>2 DEF Steps
    <3>2. ASSUME NEW k \in 1..i PROVE s[k] = s[k - 1] + f[k - 1]
      <4>1. s[k - 1] \in Nat
        OBVIOUS
      <4>2. s[k] = g[k][s[k - 1]]
        BY <1>2 DEF Steps
      <4>3. QED
        BY <4>1, <4>2
    <3>3. QED
      BY <3>1, <3>2
  <2>2. s = [k \in 0..i |-> s[k]]
    OBVIOUS
  <2>3. QED
    BY <2>1, <2>2 DEF Summing
<1>4. Summing(sum, f, i) /\ P!SumTo(f, i) = sum[i]
  BY <1>3, Zenon DEF P!SumTo, Summing
<1>5. ASSUME NEW t, Summing(t, f, i) PROVE t \in [0..i -> Nat]
  <2> DEFINE T == {k \in 0..i : t[k] \in Nat}
  <2>1. 0 \in T
    BY <1>5 DEF Summing
  <2>2. \A k \in 1..i : k - 1 \in T => k \in T
    BY <1>5 DEF Summing
  <2> HIDE DEF T
  <2>3. 0..i \subseteq T
    BY <2>1, <2>2, InductionTo
  <2>4. \A k \in 0..i : t[k] \in Nat
    BY <2>3 DEF T
  <2>5. t = [k \in 0..i |-> t[k]]
    BY <1>5 DEF Summing
  <2>6. QED
    BY <2>4, <2>5
<1> HIDE DEF sum
<1>6. QED
  BY <1>4, <1>5

\* A sum of equal lengths is a product.
LEMMA EqualSum ==
  ASSUME NEW f, NEW i \in Nat, NEW c \in Nat, \A k \in 0..(i - 1) : f[k] = c
  PROVE  P!SumTo(f, i) = i * c
<1>1. PICK s \in [0..i -> Nat] : Summing(s, f, i) /\ P!SumTo(f, i) = s[i]
  BY SumSolved
<1> DEFINE T == {k \in 0..i : s[k] = k * c}
<1>2. 0 \in T
  BY <1>1 DEF Summing
<1>3. ASSUME NEW k \in 1..i, k - 1 \in T PROVE k \in T
  <2>1. s[k] = s[k - 1] + f[k - 1]
    BY <1>1 DEF Summing
  <2>2. s[k - 1] = (k - 1) * c /\ f[k - 1] = c
    BY <1>3
  <2>3. (k - 1) * c + c = k * c
    OBVIOUS
  <2>4. QED
    BY <2>1, <2>2, <2>3
<1> HIDE DEF T
<1>4. 0..i \subseteq T
  BY <1>2, <1>3, InductionTo
<1>5. QED
  BY <1>1, <1>4 DEF T

\* Packets of one size that come one after the other.
LEMMA PacketsInRow ==
  ASSUME NEW c \in Nat, NEW n \in Nat
  PROVE  /\ \A i \in 0..n : i * c \in Nat
         /\ \A i, j \in 0..n : i <= j => i * c <= j * c
         /\ \A i \in 0..n : (i + 1) * c = i * c + c
<1>1. \A i \in 0..n : i * c \in Nat /\ (i + 1) * c = i * c + c
  OBVIOUS
<1>2. ASSUME NEW i \in 0..n, NEW j \in 0..n, i <= j PROVE i * c <= j * c
  <2>1. (j - i) * c \in Nat /\ j * c = i * c + (j - i) * c
    BY <1>2
  <2>2. QED
    BY <1>1, <2>1
<1>3. QED
  BY <1>1, <1>2

PacketTypes ==
    /\ system \in {"linux", "windows", "darwin"} /\ numPackets \in Nat /\ packetSize \in Nat
    /\ phase \in {"new", "flight", "done", "edited"} /\ failed \in BOOLEAN
    /\ DOMAIN asked = P!Index /\ \A i \in P!Index : asked[i] \in 0..packetSize
    /\ packets \in [P!Index -> [Length : 0..packetSize, ActualLength : 0..packetSize,
                                Status : {0, 1}]]

\* A packet has room for packetSize bytes, and on Linux and Windows asks for all of it.
FullPackets ==
    /\ system # "darwin" => \A i \in P!Index : asked[i] = packetSize
    /\ system # "windows" => \A i \in P!Index : packets[i].Length = packetSize

\* The latest completion has stored how much it has written.
LengthsStored ==
    phase = "done" /\ ~failed =>
      \A i \in P!Index :
        /\ wrote[i] = P!Positions(P!Placed(i), P!Placed(i) + packets[i].ActualLength)
        /\ system = "windows" => packets[i].Length = packets[i].ActualLength

PacketInv == PacketTypes /\ FullPackets /\ LengthsStored

LEMMA InitPackets == P!IsoInit => PacketInv
<1> SUFFICES ASSUME P!IsoInit PROVE PacketInv
  OBVIOUS
<1>0. numPackets \in Nat /\ packetSize \in Nat /\ packets = P!Fresh
  BY PacketConstants DEF P!IsoInit, P!PacketsAssumption
<1>1. PacketTypes
  <2>1. packets \in [P!Index -> [Length : 0..packetSize, ActualLength : 0..packetSize,
                                Status : {0, 1}]]
    BY <1>0 DEF P!Fresh, P!Packet
  <2>2. DOMAIN asked = P!Index /\ \A i \in P!Index : asked[i] \in 0..packetSize
    BY <1>0 DEF P!IsoInit
  <2>3. /\ system \in {"linux", "windows", "darwin"} /\ phase = "new" /\ failed = FALSE
    BY DEF P!IsoInit
  <2>4. QED
    BY <1>0, <2>1, <2>2, <2>3 DEF PacketTypes
<1>2. FullPackets
  BY DEF P!IsoInit, FullPackets, P!Fresh, P!Packet
<1>3. QED
  BY <1>1, <1>2 DEF P!IsoInit, PacketInv, LengthsStored

LEMMA NextPackets == PacketInv /\ P!IsoNext => PacketInv'
<1> SUFFICES ASSUME PacketInv, P!IsoNext PROVE PacketInv'
  OBVIOUS
<1>t. /\ UNCHANGED <<system, numPackets, packetSize>> /\ P!Index' = P!Index
      /\ numPackets \in Nat /\ packetSize \in Nat
  BY DEF PacketInv, PacketTypes, P!IsoNext, P!SetPacketLength, P!IsoSubmit, P!IsoComplete,
     P!IsoFail, P!Index
<1>1. ASSUME NEW i \in P!Index, NEW l \in 0..MaxSize, P!SetPacketLength(i, l) PROVE PacketInv'
  <2>1. /\ system = "darwin" /\ l \in 0..packetSize
        /\ packets' = [packets EXCEPT ![i].ActualLength = l]
        /\ phase' = IF phase = "done" THEN "edited" ELSE phase
        /\ UNCHANGED <<asked, failed, wrote>>
    BY <1>1 DEF P!SetPacketLength
  <2>2. PacketTypes'
    BY <1>t, <2>1 DEF PacketInv, PacketTypes
  <2>3. FullPackets'
    BY <1>t, <2>1 DEF PacketInv, PacketTypes, FullPackets
  <2>4. phase' # "done"
    BY <2>1
  <2>5. QED
    BY <2>2, <2>3, <2>4 DEF PacketInv, LengthsStored
<1>2. CASE P!IsoSubmit
  <2>1. /\ phase' = "flight" /\ asked' = [i \in P!Index |-> P!Requested(i)]
        /\ UNCHANGED <<packets, failed>>
    BY <1>2 DEF P!IsoSubmit
  <2>2. \A i \in P!Index : P!Requested(i) \in 0..packetSize
                           /\ (system # "darwin" => P!Requested(i) = packetSize)
    BY DEF P!Requested, PacketInv, PacketTypes
  <2>3. PacketTypes'
    BY <1>t, <2>1, <2>2 DEF PacketInv, PacketTypes
  <2>4. FullPackets'
    BY <1>t, <2>1, <2>2 DEF PacketInv, FullPackets
  <2>5. QED
    BY <2>1, <2>3, <2>4 DEF PacketInv, LengthsStored
<1>3. CASE P!IsoFail
  BY <1>3, <1>t DEF P!IsoFail, PacketInv, PacketTypes, FullPackets, LengthsStored
<1>4. ASSUME NEW act \in [P!Index -> 0..MaxSize], NEW status \in [P!Index -> {0, 1}],
             P!IsoComplete(act, status)
      PROVE  PacketInv'
  <2>1. /\ phase' = "done" /\ failed' = FALSE /\ asked' = asked
        /\ \A i \in P!Index : act[i] <= asked[i]
        /\ packets' = [i \in P!Index |-> P!Descriptor(i, act[i], status[i])]
        /\ wrote' = [i \in P!Index |-> P!Positions(P!Placed(i), P!Placed(i) + act[i])]
    BY <1>4 DEF P!IsoComplete
  <2>2. \A i \in P!Index : act[i] \in 0..packetSize
    BY <1>t, <2>1, PacketConstants DEF PacketInv, PacketTypes, P!PacketsAssumption
  <2>3. \A i \in P!Index :
          /\ packets'[i] \in [Length : 0..packetSize, ActualLength : 0..packetSize,
                              Status : {0, 1}]
          /\ packets'[i].ActualLength = act[i]
          /\ packets'[i].Length = IF system = "windows" THEN act[i] ELSE packetSize
    BY <1>t, <2>1, <2>2 DEF P!Descriptor, P!Packet, PacketInv, PacketTypes
  <2>4. DOMAIN packets' = P!Index /\ packets' = [i \in P!Index |-> packets'[i]]
    BY <2>1
  <2>5. PacketTypes'
    BY <1>t, <2>1, <2>3, <2>4 DEF PacketInv, PacketTypes
  <2>6. FullPackets'
    BY <1>t, <2>1, <2>3 DEF PacketInv, FullPackets
  <2>7. \A i \in P!Index : P!Placed(i)' = P!Placed(i)
    BY <1>t, <2>1 DEF P!Placed
  <2>8. LengthsStored'
    BY <1>t, <2>1, <2>3, <2>7 DEF LengthsStored, P!Positions
  <2>9. QED
    BY <2>5, <2>6, <2>8 DEF PacketInv
<1>5. QED
  BY <1>1, <1>2, <1>3, <1>4 DEF P!IsoNext

\* Where the slices of a packet are.
LEMMA SliceOfPacket ==
  ASSUME PacketInv, NEW i \in P!Index
  PROVE  LET start == i * packetSize
             own == P!Positions(start, start + packets[i].ActualLength)
         IN  /\ start \in Nat /\ start + packetSize <= P!BufferLen
             /\ packets[i].ActualLength \in 0..packetSize
             /\ P!IsoPacketBuffer(i) \in
                  {P!NoSlice, own, P!Positions(start, start + packets[i].Length)}
             /\ P!IsoPacketBufferSlices(i) \in {P!NoSlice, own, P!IsoPacketBuffer(i)}
             /\ system # "windows" => P!IsoPacketBuffer(i) \in {P!NoSlice, own}
             /\ system = "windows" =>
                  P!IsoPacketBuffer(i) = P!Positions(start, start + packets[i].Length)
             /\ packets[i].Status = 0 /\ phase = "done" /\ ~failed /\ system # "windows" =>
                  P!IsoPacketBuffer(i) = own
             /\ packets[i].Length \in 0..packetSize
<1> DEFINE start == i * packetSize
           a == packets[i].ActualLength
           l == packets[i].Length
<1>t. /\ a \in 0..packetSize /\ l \in 0..packetSize /\ packets[i].Status \in {0, 1}
      /\ i \in 0..numPackets /\ i + 1 \in 0..numPackets /\ numPackets \in Nat /\ packetSize \in Nat
      /\ system \in {"linux", "windows", "darwin"} /\ phase \in {"new", "flight", "done", "edited"}
  BY DEF PacketInv, PacketTypes, P!Index
<1>1. /\ start \in Nat /\ (i + 1) * packetSize = start + packetSize
      /\ start + packetSize <= P!BufferLen
  BY <1>t, PacketsInRow DEF P!BufferLen
<1> HIDE DEF start, a, l
<1>2. CASE system = "linux"
  <2>1. P!linuxOffset(i) = start
    <3> DEFINE f == [j \in P!Index |-> packets[j].Length]
    <3>1. \A j \in 0..(i - 1) : f[j] = packetSize
      BY <1>2, <1>t DEF PacketInv, FullPackets, P!Index
    <3>2. i \in Nat
      BY <1>t
    <3> HIDE DEF f
    <3>3. P!SumTo(f, i) = i * packetSize
      BY <1>t, <3>1, <3>2, EqualSum
    <3>4. QED
      BY <3>3 DEF f, P!linuxOffset, start
  <2>2. P!IsoPacketBuffer(i) = P!linuxPacketBuffer(i) /\ P!IsoPacketBufferSlices(i) = P!linuxSlices(i)
    BY <1>2 DEF P!IsoPacketBuffer, P!IsoPacketBufferSlices
  <2>3. QED
    BY <1>1, <1>2, <1>t, <2>1, <2>2
    DEF P!linuxPacketBuffer, P!linuxSlices, P!linuxReaped, start, a, l
<1>3. CASE system = "windows"
  <2>1. P!IsoPacketBufferSlices(i) = P!IsoPacketBuffer(i)
        /\ P!IsoPacketBuffer(i) = P!windowsPacketBuffer(i)
    BY <1>3 DEF P!IsoPacketBuffer, P!IsoPacketBufferSlices
  <2>2. P!windowsEnd(i) = start + l
    BY <1>1, <1>t DEF P!windowsEnd, P!LowerOf, start, l
  <2>3. QED
    BY <1>1, <1>3, <1>t, <2>1, <2>2 DEF P!windowsPacketBuffer, start, a, l
<1>4. CASE system = "darwin"
  <2>1. P!IsoPacketBufferSlices(i) = P!IsoPacketBuffer(i)
        /\ P!IsoPacketBuffer(i) = P!darwinPacketBuffer(i)
    BY <1>4 DEF P!IsoPacketBuffer, P!IsoPacketBufferSlices
  <2>2. P!darwinEnd(i) = start + a
    <3>1. P!BufferLen \in Nat
      BY <1>t DEF P!BufferLen
    <3>2. QED
      BY <1>1, <1>t, <3>1 DEF P!darwinEnd, P!LowerOf, start, a
  <2>3. QED
    BY <1>1, <1>4, <1>t, <2>1, <2>2 DEF P!darwinPacketBuffer, start, a, l
<1>5. QED
  BY <1>2, <1>3, <1>4, <1>t


LEMMA SlicesInBuffer == PacketInv => P!IsoTypeOK
<1> SUFFICES ASSUME PacketInv, NEW i \in P!Index
             PROVE  P!IsoPacketBuffer(i) \cup P!IsoPacketBufferSlices(i) \subseteq -1..(P!BufferLen - 1)
  BY DEF P!IsoTypeOK, PacketInv, PacketTypes
<1> DEFINE start == i * packetSize
           a == packets[i].ActualLength
           l == packets[i].Length
<1>1. /\ start \in Nat /\ start + packetSize <= P!BufferLen
      /\ a \in 0..packetSize /\ l \in 0..packetSize
      /\ P!IsoPacketBuffer(i) \in {P!NoSlice, P!Positions(start, start + a), P!Positions(start, start + l)}
      /\ P!IsoPacketBufferSlices(i) \in {P!NoSlice, P!Positions(start, start + a), P!IsoPacketBuffer(i)}
  BY SliceOfPacket
<1>2. packetSize \in Nat /\ P!BufferLen \in Nat
  BY DEF PacketInv, PacketTypes, P!BufferLen
<1> HIDE DEF start, a, l
<1>3. /\ P!NoSlice \subseteq -1..(P!BufferLen - 1)
      /\ P!Positions(start, start + a) \subseteq -1..(P!BufferLen - 1)
      /\ P!Positions(start, start + l) \subseteq -1..(P!BufferLen - 1)
  BY <1>1, <1>2 DEF P!NoSlice, P!Positions
<1>4. QED
  BY <1>1, <1>3

LEMMA SlicesHoldData == PacketInv => P!SlicesAreData
<1> SUFFICES ASSUME PacketInv, phase = "done", ~failed,
                    system = "darwin" => \A i \in P!Index : asked[i] = packetSize,
                    NEW i \in P!Index, packets[i].Status = 0
             PROVE  /\ P!IsoPacketBuffer(i) = wrote[i]
                    /\ P!IsoPacketBufferSlices(i) \in {wrote[i], P!NoSlice}
  BY DEF P!SlicesAreData
<1> DEFINE start == i * packetSize
           a == packets[i].ActualLength
           l == packets[i].Length
<1>1. wrote[i] = P!Positions(P!Placed(i), P!Placed(i) + a) /\ (system = "windows" => l = a)
  BY DEF PacketInv, LengthsStored
<1>2. P!Placed(i) = start
  <2>1. CASE system = "windows"
    BY <2>1 DEF P!Placed
  <2>2. CASE system # "windows"
    <3>1. \A j \in P!Index : asked[j] = packetSize
      BY <2>2 DEF PacketInv, PacketTypes, FullPackets
    <3>2. i \in Nat /\ packetSize \in Nat /\ \A j \in 0..(i - 1) : asked[j] = packetSize
      BY <3>1 DEF P!Index, PacketInv, PacketTypes
    <3>3. P!SumTo(asked, i) = start
      BY <3>2, EqualSum
    <3>4. QED
      BY <2>2, <3>3 DEF P!Placed
  <2>3. QED
    BY <2>1, <2>2
<1>3. /\ P!IsoPacketBufferSlices(i) \in {P!NoSlice, P!Positions(start, start + a), P!IsoPacketBuffer(i)}
      /\ system = "windows" => P!IsoPacketBuffer(i) = P!Positions(start, start + l)
      /\ system # "windows" => P!IsoPacketBuffer(i) = P!Positions(start, start + a)
  BY SliceOfPacket
<1> HIDE DEF start, a, l
<1>4. QED
  BY <1>1, <1>2, <1>3

LEMMA SlicesApart == PacketInv => P!SlicesDisjoint
<1> DEFINE room(i) == P!Positions(i * packetSize, i * packetSize + packetSize)
<1>1. ASSUME PacketInv, NEW i \in P!Index
      PROVE  /\ P!IsoPacketBuffer(i) \subseteq P!NoSlice \cup room(i)
             /\ P!IsoPacketBufferSlices(i) \subseteq P!NoSlice \cup room(i)
  <2> DEFINE start == i * packetSize
             a == packets[i].ActualLength
             l == packets[i].Length
  <2>1. /\ start \in Nat /\ a \in 0..packetSize /\ l \in 0..packetSize
        /\ P!IsoPacketBuffer(i) \in {P!NoSlice, P!Positions(start, start + a), P!Positions(start, start + l)}
        /\ P!IsoPacketBufferSlices(i) \in {P!NoSlice, P!Positions(start, start + a), P!IsoPacketBuffer(i)}
    BY <1>1, SliceOfPacket
  <2>2. packetSize \in Nat
    BY <1>1 DEF PacketInv, PacketTypes
  <2> HIDE DEF start, a, l
  <2>3. /\ P!Positions(start, start + a) \subseteq P!Positions(start, start + packetSize)
        /\ P!Positions(start, start + l) \subseteq P!Positions(start, start + packetSize)
    BY <2>1, <2>2 DEF P!Positions
  <2>4. QED
    BY <2>1, <2>3 DEF start
<1>2. ASSUME PacketInv, NEW i \in P!Index, NEW j \in P!Index, i < j
      PROVE  room(i) \cap room(j) = {}
  <2>1. /\ i \in 0..numPackets /\ j \in 0..numPackets /\ i + 1 \in 0..numPackets
        /\ i + 1 <= j /\ numPackets \in Nat /\ packetSize \in Nat
    BY <1>2 DEF PacketInv, PacketTypes, P!Index
  <2>2. /\ i * packetSize \in Nat /\ j * packetSize \in Nat
        /\ i * packetSize + packetSize <= j * packetSize
    <3>1. (i + 1) * packetSize = i * packetSize + packetSize
      BY <2>1, PacketsInRow
    <3>2. (i + 1) * packetSize <= j * packetSize
      BY <2>1, PacketsInRow
    <3>3. i * packetSize \in Nat /\ j * packetSize \in Nat
      BY <2>1, PacketsInRow
    <3>4. QED
      BY <3>1, <3>2, <3>3
  <2> DEFINE x == i * packetSize
             y == j * packetSize
  <2>3. x \in Nat /\ y \in Nat /\ x + packetSize <= y
    BY <2>2
  <2> HIDE DEF x, y
  <2>4. P!Positions(x, x + packetSize) \cap P!Positions(y, y + packetSize) = {}
    BY <2>1, <2>3 DEF P!Positions
  <2>5. QED
    BY <2>4 DEF x, y
<1> HIDE DEF room
<1>3. ASSUME PacketInv, NEW i \in P!Index, NEW j \in P!Index, i # j
      PROVE  /\ P!IsoPacketBuffer(i) \cap P!IsoPacketBuffer(j) \subseteq P!NoSlice
             /\ P!IsoPacketBufferSlices(i) \cap P!IsoPacketBufferSlices(j) \subseteq P!NoSlice
  <2>1. i < j \/ j < i
    BY <1>3 DEF P!Index, PacketInv, PacketTypes
  <2>2. room(i) \cap room(j) = {}
    BY <1>2, <1>3, <2>1
  <2>3. QED
    BY <1>1, <1>3, <2>2
<1>4. QED
  BY <1>3 DEF P!SlicesDisjoint

\* The slice of a packet is the data that the controller has put there, inside the
\* buffer and apart from every other packet's, for any number and size of packets
\* (isochronous_linux.go, isochronous_windows.go, isochronous_darwin.go).
THEOREM SlicesAreSound == MCSpec => []PacketsSound
<1> DEFINE Inv == part = "iso" => PacketInv
<1>1. MCInit => Inv
  BY InitPackets DEF MCInit
<1>2. Inv /\ [MCNext]_allVars => Inv'
  <2>1. PacketInv /\ UNCHANGED isoAll => PacketInv'
    BY DEF isoAll, PacketInv, PacketTypes, FullPackets, LengthsStored, P!Placed, P!Index, P!Positions
  <2>2. QED
    BY <2>1, NextPackets DEF MCNext, allVars
<1>3. Inv => PacketsSound
  BY SlicesInBuffer, SlicesHoldData, SlicesApart DEF PacketsSound
<1>4. QED
  BY <1>1, <1>2, <1>3, PTL DEF MCSpec
-----------------------------------------------------------------------------
(* BOS descriptors                                                         *)

Walk0 == [at : Nat, caps : Seq(Nat)]

\* One turn of the loop over the capabilities.
WalkOn(buf, w) ==
    IF B!CapabilityAt(buf, w.at)
      THEN [at |-> w.at + B!At(buf, w.at), caps |-> Append(w.caps, w.at)]
      ELSE w

Walks(s, buf, count) ==
    s = [i \in 0..count |-> IF i = 0 THEN [at |-> 5, caps |-> <<>>] ELSE WalkOn(buf, s[i - 1])]

\* The capabilities of a list lie in the buffer, one behind the other.
Chained(buf, caps) ==
    /\ caps \in Seq(Nat)
    /\ \A i \in 1..Len(caps) : B!CapabilityAt(buf, caps[i])
    /\ \A i \in 1..(Len(caps) - 1) : caps[i + 1] = caps[i] + B!At(buf, caps[i])

\* The loop is behind the last of them.
WalkedTo(buf, w) ==
    /\ w \in Walk0 /\ Chained(buf, w.caps)
    /\ Len(w.caps) > 0 => w.at = w.caps[Len(w.caps)] + B!At(buf, w.caps[Len(w.caps)])

LEMMA ByteOfBuffer ==
  ASSUME NEW buf \in Seq(Nat), NEW p \in Nat, B!CapabilityAt(buf, p)
  PROVE  B!At(buf, p) \in Nat /\ B!At(buf, p) >= 3 /\ p + B!At(buf, p) <= Len(buf)
<1>1. p + 1 \in 1..Len(buf)
  BY LenProperties DEF B!CapabilityAt
<1>2. buf[p + 1] \in Nat
  BY <1>1, ElementOfSeq
<1>3. QED
  BY <1>2 DEF B!CapabilityAt, B!At

LEMMA WalkOnKeeps ==
  ASSUME NEW buf \in Seq(Nat), NEW w, WalkedTo(buf, w)
  PROVE  WalkedTo(buf, WalkOn(buf, w))
<1>1. CASE ~B!CapabilityAt(buf, w.at)
  BY <1>1 DEF WalkOn
<1>2. CASE B!CapabilityAt(buf, w.at)
  <2> DEFINE p == w.at
             step == B!At(buf, p)
             n == Len(w.caps) + 1
             caps == Append(w.caps, p)
  <2>1. /\ w.caps \in Seq(Nat) /\ p \in Nat /\ step \in Nat /\ Len(w.caps) \in Nat
        /\ B!CapabilityAt(buf, p)
        /\ WalkOn(buf, w) = [at |-> p + step, caps |-> caps]
    BY <1>2, ByteOfBuffer, LenProperties DEF WalkedTo, Walk0, WalkOn
  <2>t. /\ \A i \in 1..Len(w.caps) : B!CapabilityAt(buf, w.caps[i])
        /\ \A i \in 1..(Len(w.caps) - 1) : w.caps[i + 1] = w.caps[i] + B!At(buf, w.caps[i])
        /\ Len(w.caps) > 0 => p = w.caps[Len(w.caps)] + B!At(buf, w.caps[Len(w.caps)])
    BY DEF WalkedTo, Chained
  <2> DEFINE old == w.caps
  <2> HIDE DEF p, step
  <2>2. /\ caps \in Seq(Nat) /\ Len(caps) = n /\ caps[n] = p
        /\ \A i \in 1..Len(old) : caps[i] = old[i]
    BY <2>1, AppendProperties
  <2> HIDE DEF caps, old
  <2>3. \A i \in 1..n : B!CapabilityAt(buf, caps[i])
    <3>1. \A i \in 1..n : i = n \/ i \in 1..Len(old)
      BY <2>1 DEF old
    <3>2. QED
      BY <2>1, <2>2, <2>t, <3>1 DEF old
  <2>4. ASSUME NEW i \in 1..(n - 1) PROVE caps[i + 1] = caps[i] + B!At(buf, caps[i])
    <3>1. i \in 1..Len(old) /\ caps[i] = old[i] /\ Len(old) \in Nat
      <4>1. Len(old) \in Nat /\ n - 1 = Len(old)
        BY <2>1 DEF old
      <4>2. i \in 1..Len(old)
        BY <4>1
      <4>3. QED
        BY <2>2, <4>1, <4>2
    <3>2. CASE i = Len(old)
      <4>1. i + 1 = n /\ Len(old) > 0
        BY <3>1, <3>2 DEF old
      <4>2. QED
        BY <2>2, <2>t, <3>1, <3>2, <4>1 DEF old
    <3>3. CASE i # Len(old)
      <4>1. i \in 1..(Len(old) - 1) /\ i + 1 \in 1..Len(old)
        BY <3>1, <3>3
      <4>2. caps[i + 1] = old[i + 1]
        BY <2>2, <4>1
      <4>3. old[i + 1] = old[i] + B!At(buf, old[i])
        BY <2>t, <4>1 DEF old
      <4>4. QED
        BY <3>1, <4>2, <4>3
    <3>4. QED
      BY <3>2, <3>3
  <2>5. Chained(buf, caps)
    BY <2>1, <2>2, <2>3, <2>4 DEF Chained
  <2>6. [at |-> p + step, caps |-> caps] \in Walk0
    BY <2>1, <2>2 DEF Walk0
  <2>7. WalkedTo(buf, [at |-> p + step, caps |-> caps])
    BY <2>1, <2>2, <2>5, <2>6 DEF WalkedTo, step
  <2>8. QED
    BY <2>1, <2>7
<1>3. QED
  BY <1>1, <1>2

\* The loop makes a chain of at most count capabilities.
LEMMA CapabilitiesChained ==
  ASSUME NEW buf \in Seq(Nat), NEW count \in Nat
  PROVE  Chained(buf, B!Capabilities(buf, count))
<1> DEFINE g == [k \in 1..count |-> [w \in Walk0 |-> WalkOn(buf, w)]]
           zero == [at |-> 5, caps |-> <<>>]
           step == CHOOSE s : Walks(s, buf, count)
<1>1. ASSUME NEW w \in Walk0 PROVE WalkOn(buf, w) \in Walk0
  <2>1. w.at \in Nat /\ w.caps \in Seq(Nat)
    BY DEF Walk0
  <2>2. CASE B!CapabilityAt(buf, w.at)
    <3>1. B!At(buf, w.at) \in Nat
      BY <2>1, <2>2, ByteOfBuffer
    <3>2. Append(w.caps, w.at) \in Seq(Nat)
      BY <2>1, AppendProperties
    <3>3. QED
      BY <2>1, <2>2, <3>1, <3>2 DEF WalkOn, Walk0
  <2>3. CASE ~B!CapabilityAt(buf, w.at)
    BY <2>3 DEF WalkOn
  <2>4. QED
    BY <2>2, <2>3
<1>2. zero \in Walk0 /\ WalkedTo(buf, zero)
  BY DEF Walk0, WalkedTo, Chained
<1>3. \A k \in 1..count : g[k] \in [Walk0 -> Walk0]
  BY <1>1
<1>4. PICK s \in [0..count -> Walk0] : Steps(s, zero, g, count)
  <2> HIDE DEF g, zero
  <2>1. QED
    BY <1>2, <1>3, StepsExist
<1>5. Walks(s, buf, count)
  <2>1. ASSUME NEW k \in 1..count PROVE s[k] = WalkOn(buf, s[k - 1])
    <3>1. s[k - 1] \in Walk0
      OBVIOUS
    <3>2. s[k] = g[k][s[k - 1]]
      BY <1>4 DEF Steps
    <3>3. QED
      BY <3>1, <3>2
  <2>2. s[0] = zero
    BY <1>4 DEF Steps
  <2>3. s = [k \in 0..count |-> s[k]]
    OBVIOUS
  <2>4. \A k \in 0..count : k # 0 => k \in 1..count
    OBVIOUS
  <2>5. QED
    BY <2>1, <2>2, <2>3, <2>4 DEF Walks
<1>6. Walks(step, buf, count) /\ B!Capabilities(buf, count) = step[count].caps
  BY <1>5, Zenon DEF B!Capabilities, Walks, WalkOn
<1> HIDE DEF step
<1> DEFINE T == {k \in 0..count : WalkedTo(buf, step[k])}
<1>7. 0 \in T
  BY <1>2, <1>6 DEF Walks
<1>8. ASSUME NEW k \in 1..count, k - 1 \in T PROVE k \in T
  <2>1. step[k] = WalkOn(buf, step[k - 1])
    BY <1>6 DEF Walks
  <2>2. WalkedTo(buf, step[k - 1])
    BY <1>8
  <2>3. WalkedTo(buf, step[k])
    BY <2>1, <2>2, WalkOnKeeps
  <2>4. QED
    BY <2>3
<1> HIDE DEF T
<1>9. 0..count \subseteq T
  BY <1>7, <1>8, InductionTo
<1>10. WalkedTo(buf, step[count])
  BY <1>9 DEF T
<1>11. QED
  BY <1>6, <1>10 DEF WalkedTo

\* Bytes of one buffer that another has as well.
SameBytes(buf, more) ==
    /\ buf \in Seq(Nat) /\ more \in Seq(Nat) /\ Len(buf) <= Len(more)
    /\ \A i \in 1..Len(buf) : more[i] = buf[i]

LEMMA OctetIsNat == ASSUME NEW x \in 0..255 PROVE x \in Nat
  OBVIOUS

LEMMA BosBytes ==
  ASSUME bos \in BosBlobs
  PROVE  /\ bos \in Seq(Nat) /\ Len(bos) \in Nat /\ Len(bos) >= 5
         /\ B!NumDeviceCaps \in Nat /\ B!BosTotal \in Nat
         /\ \A n \in Nat : /\ B!Filled(n) \in Seq(Nat) /\ Len(B!Filled(n)) = n
                           /\ n <= Len(bos) => SameBytes(B!Filled(n), bos)
                           /\ n >= Len(bos) => SameBytes(bos, B!Filled(n))
         /\ B!Filled(Len(bos)) = bos
         /\ \A n \in Nat : /\ SameBytes(B!Arrives(n), bos)
                           /\ n >= Len(bos) => B!Arrives(n) = bos
                           /\ Len(B!Arrives(n)) = B!LeastOf(n, Len(bos))
<1>1. bos \in Seq(0..255) /\ Len(bos) >= 5
  BY BosConstants DEF B!BosAssumption
<1>2. bos \in Seq(Nat) /\ Len(bos) \in Nat
  <2>1. bos \in [1..Len(bos) -> 0..255] /\ Len(bos) \in Nat
    BY <1>1, LenProperties, ElementOfSeq
  <2>2. bos \in [1..Len(bos) -> Nat]
    <3>1. ASSUME NEW i \in 1..Len(bos) PROVE bos[i] \in Nat
      <4>1. bos[i] \in 0..255
        BY <2>1
      <4>2. QED
        BY <4>1, OctetIsNat
    <3>2. bos = [i \in 1..Len(bos) |-> bos[i]]
      BY <2>1
    <3>3. QED
      BY <3>1, <3>2
  <2>3. QED
    BY <2>1, <2>2
<1>3. \A i \in 1..Len(bos) : bos[i] \in Nat
  BY <1>2, ElementOfSeq
<1>4. B!NumDeviceCaps \in Nat /\ B!BosTotal \in Nat
  <2>1. bos[3] \in Nat /\ bos[4] \in Nat /\ bos[5] \in Nat
    BY <1>1, <1>2, <1>3
  <2>2. QED
    BY <2>1 DEF B!NumDeviceCaps, B!BosTotal, B!At
<1>5. ASSUME NEW n \in Nat
      PROVE  /\ B!Filled(n) \in Seq(Nat) /\ Len(B!Filled(n)) = n
             /\ \A i \in 1..n : B!Filled(n)[i] = IF i <= Len(bos) THEN bos[i] ELSE 0
  <2>1. /\ B!Filled(n) \in [1..n -> Nat]
        /\ \A i \in 1..n : B!Filled(n)[i] = IF i <= Len(bos) THEN bos[i] ELSE 0
    BY <1>2, <1>3 DEF B!Filled
  <2>2. QED
    BY <2>1
<1>6. ASSUME NEW n \in Nat
      PROVE  /\ n <= Len(bos) => SameBytes(B!Filled(n), bos)
             /\ n >= Len(bos) => SameBytes(bos, B!Filled(n))
  BY <1>2, <1>5 DEF SameBytes
<1>7. B!Filled(Len(bos)) = bos
  <2>1. \A i \in 1..Len(bos) : B!Filled(Len(bos))[i] = bos[i]
    BY <1>2, <1>5
  <2>2. QED
    BY <1>2, <1>5, <2>1, SeqEqual
<1>8. ASSUME NEW n \in Nat
      PROVE  /\ SameBytes(B!Arrives(n), bos)
             /\ n >= Len(bos) => B!Arrives(n) = bos
             /\ Len(B!Arrives(n)) = B!LeastOf(n, Len(bos))
  <2> DEFINE m == B!LeastOf(n, Len(bos))
             buf == B!Arrives(n)
  <2>1. m \in Nat /\ m <= Len(bos) /\ buf = SubSeq(bos, 1, m)
        /\ (n >= Len(bos) => m = Len(bos))
    BY <1>2 DEF B!LeastOf, B!Arrives
  <2> HIDE DEF m, buf
  <2>2. buf \in Seq(Nat) /\ Len(buf) = m /\ \A i \in 1..m : buf[i] = bos[i]
    BY <1>2, <2>1, SubSeqProperties
  <2>3. SameBytes(buf, bos)
    BY <1>2, <2>1, <2>2 DEF SameBytes
  <2>4. n >= Len(bos) => buf = bos
    BY <1>2, <2>1, <2>2, SeqEqual
  <2>5. QED
    BY <2>2, <2>3, <2>4 DEF buf, m
<1>9. QED
  BY <1>1, <1>2, <1>4, <1>5, <1>6, <1>7, <1>8

\* A chain in a buffer is one in a buffer with more bytes.
LEMMA ChainInMore ==
  ASSUME NEW buf, NEW more, SameBytes(buf, more)
  PROVE  /\ \A p \in Nat : B!CapabilityAt(buf, p) =>
              /\ B!CapabilityAt(more, p) /\ B!At(more, p) = B!At(buf, p)
              /\ B!At(more, p + 1) = B!At(buf, p + 1) /\ B!At(more, p + 2) = B!At(buf, p + 2)
         /\ \A caps : Chained(buf, caps) => Chained(more, caps)
<1>1. ASSUME NEW p \in Nat, B!CapabilityAt(buf, p)
      PROVE  /\ B!CapabilityAt(more, p) /\ B!At(more, p) = B!At(buf, p)
             /\ B!At(more, p + 1) = B!At(buf, p + 1) /\ B!At(more, p + 2) = B!At(buf, p + 2)
  <2>1. /\ Len(buf) \in Nat /\ Len(more) \in Nat /\ Len(buf) <= Len(more)
        /\ p + 3 <= Len(buf)
    BY <1>1, LenProperties DEF SameBytes, B!CapabilityAt
  <2>2. p + 1 \in 1..Len(buf) /\ p + 1 + 1 \in 1..Len(buf) /\ p + 2 + 1 \in 1..Len(buf)
    BY <2>1
  <2>3. /\ B!At(more, p) = B!At(buf, p)
        /\ B!At(more, p + 1) = B!At(buf, p + 1) /\ B!At(more, p + 2) = B!At(buf, p + 2)
    BY <2>2 DEF SameBytes, B!At
  <2>4. B!At(buf, p) \in Nat /\ B!At(buf, p) >= 3 /\ p + B!At(buf, p) <= Len(buf)
    BY <1>1, ByteOfBuffer DEF SameBytes
  <2>5. B!CapabilityAt(more, p)
    BY <2>1, <2>3, <2>4 DEF B!CapabilityAt
  <2>6. QED
    BY <2>3, <2>5
<1>2. ASSUME NEW caps, Chained(buf, caps) PROVE Chained(more, caps)
  <2>1. caps \in Seq(Nat) /\ \A i \in 1..Len(caps) : caps[i] \in Nat /\ B!CapabilityAt(buf, caps[i])
    BY <1>2, ElementOfSeq DEF Chained
  <2>2. \A i \in 1..Len(caps) : B!CapabilityAt(more, caps[i]) /\ B!At(more, caps[i]) = B!At(buf, caps[i])
    BY <1>1, <2>1
  <2>3. Len(caps) \in Nat
    BY <2>1, LenProperties
  <2>4. \A i \in 1..(Len(caps) - 1) : i \in 1..Len(caps)
    BY <2>3
  <2>5. QED
    BY <1>2, <2>1, <2>2, <2>4 DEF Chained
<1>3. QED
  BY <1>1, <1>2

LEMMA FirstMatch ==
  ASSUME NEW caps \in Seq(Nat), NEW match \in SUBSET (1..Len(caps))
  PROVE  /\ match = {} => B!FirstOf(caps, match) = B!NotFound
         /\ match # {} => \E i \in match : /\ \A j \in match : i <= j
                                           /\ B!FirstOf(caps, match) = B!Ok(<<caps[i]>>)
<1>1. CASE match = {}
  BY <1>1 DEF B!FirstOf
<1>2. CASE match # {}
  <2> DEFINE i == CHOOSE x \in match : \A j \in match : x <= j
  <2>1. match \in SUBSET Nat
    BY LenProperties
  <2>2. \E x \in match : \A j \in match : x <= j
    BY <1>2, <2>1, LeastNat
  <2>3. i \in match /\ \A j \in match : i <= j
    BY <2>2, Zenon
  <2>4. B!FirstOf(caps, match) = B!Ok(<<caps[i]>>)
    BY <1>2 DEF B!FirstOf
  <2> HIDE DEF i
  <2>5. QED
    BY <1>2, <2>3, <2>4
<1>3. QED
  BY <1>1, <1>2

\* A chain ascends.
LEMMA ChainAscends ==
  ASSUME NEW buf \in Seq(Nat), NEW caps, Chained(buf, caps)
  PROVE  \A i, j \in 1..Len(caps) : i <= j => caps[i] <= caps[j]
<1>1. caps \in Seq(Nat) /\ Len(caps) \in Nat /\ \A i \in 1..Len(caps) : caps[i] \in Nat
  BY ElementOfSeq, LenProperties DEF Chained
<1>2. SUFFICES ASSUME NEW i \in 1..Len(caps)
               PROVE  \A j \in 1..Len(caps) : i <= j => caps[i] <= caps[j]
  OBVIOUS
<1> DEFINE n == Len(caps) - i
           T == {k \in 0..n : caps[i] <= caps[i + k]}
<1>3. n \in Nat /\ 0 \in T
  BY <1>1
<1>4. ASSUME NEW k \in 1..n, k - 1 \in T PROVE k \in T
  <2> DEFINE j == i + (k - 1)
  <2>1. j \in 1..(Len(caps) - 1) /\ j + 1 = i + k /\ caps[i] <= caps[j] /\ j \in 1..Len(caps)
        /\ j + 1 \in 1..Len(caps)
    BY <1>1, <1>4
  <2> HIDE DEF j
  <2>2. caps[j + 1] = caps[j] + B!At(buf, caps[j]) /\ B!CapabilityAt(buf, caps[j])
    BY <2>1 DEF Chained
  <2>3. B!At(buf, caps[j]) \in Nat
    BY <1>1, <2>1, <2>2, ByteOfBuffer
  <2>6. caps[i] \in Nat /\ caps[j] \in Nat /\ caps[j + 1] \in Nat
    BY <1>1, <2>1
  <2>4. caps[i] <= caps[j + 1]
    BY <2>1, <2>2, <2>3, <2>6
  <2>5. QED
    BY <2>1, <2>4
<1> HIDE DEF T
<1>5. 0..n \subseteq T
  BY <1>3, <1>4, InductionTo
<1>6. \A k \in 0..n : caps[i] <= caps[i + k]
  BY <1>5 DEF T
<1>7. ASSUME NEW j \in 1..Len(caps), i <= j PROVE caps[i] <= caps[j]
  <2>1. j - i \in 0..n /\ i + (j - i) = j
    BY <1>1, <1>7
  <2>2. caps[i] <= caps[i + (j - i)]
    BY <1>6, <2>1
  <2>3. QED
    BY <2>1, <2>2
<1>8. QED
  BY <1>7

\* The buffer that the properties look at.
BosBuffer == B!Filled(IF bosOs = "linux" THEN Len(bos) ELSE B!BosTotal)

BosInv ==
    /\ bos \in BosBlobs /\ bosOs \in {"linux", "windows", "darwin"}
    /\ listed \in {B!Pending, B!ReadBOSDescriptor}
    /\ \A t \in {3, 2} : found[t] \in {B!Pending, B!Search(t)}

LEMMA InitBos == B!BosInit => BosInv
  BY DEF B!BosInit, BosInv, B!SS_USB, B!USB2_EXT

LEMMA NextBos == BosInv /\ B!BosNext => BosInv'
<1> SUFFICES ASSUME BosInv, B!BosNext PROVE BosInv'
  OBVIOUS
<1>1. bos' = bos /\ bosOs' = bosOs
  BY DEF B!BosNext, B!readBOS, B!searchCapability
<1>2. B!ReadBOSDescriptor' = B!ReadBOSDescriptor /\ \A t : B!Search(t)' = B!Search(t)
  BY <1>1 DEF B!ReadBOSDescriptor, B!Search, B!BosTotal, B!Counted, B!NumDeviceCaps, B!Filled,
     B!SearchBuffer, B!Arrives
<1>3. CASE B!readBOS
  BY <1>1, <1>2, <1>3 DEF BosInv, B!readBOS
<1>4. ASSUME NEW u \in {3, 2}, B!searchCapability(u) PROVE BosInv'
  BY <1>1, <1>2, <1>4 DEF BosInv, B!searchCapability
<1>5. QED
  BY <1>3, <1>4 DEF B!BosNext, B!SS_USB, B!USB2_EXT

\* The list is a chain in that buffer.
LEMMA ListChained ==
  ASSUME bos \in BosBlobs, bosOs \in {"linux", "windows", "darwin"}
  PROVE  /\ BosBuffer \in Seq(Nat)
         /\ B!ReadBOSDescriptor.st # "ok" => B!ReadBOSDescriptor.caps = <<>>
         /\ Chained(BosBuffer, B!ReadBOSDescriptor.caps)
         /\ B!ReadBOSDescriptor.st = "ok" =>
              /\ B!ReadBOSDescriptor = B!Ok(B!Counted(B!Filled(B!BosTotal)))
              /\ Chained(B!Filled(B!BosTotal), B!Counted(B!Filled(B!BosTotal)))
<1> DEFINE buf == B!Filled(B!BosTotal)
<1>t. /\ bos \in Seq(Nat) /\ Len(bos) \in Nat /\ B!BosTotal \in Nat /\ B!NumDeviceCaps \in Nat
      /\ buf \in Seq(Nat) /\ B!Filled(Len(bos)) = bos
  BY BosBytes
<1>1. Chained(buf, B!Counted(buf))
  BY <1>t, CapabilitiesChained DEF B!Counted
<1>2. BosBuffer \in Seq(Nat)
  BY <1>t DEF BosBuffer
<1>3. B!ReadBOSDescriptor \in {B!Refused, B!Panic, B!Ok(B!Counted(buf))}
  BY DEF B!ReadBOSDescriptor
<1>4. bosOs = "linux" /\ B!ReadBOSDescriptor = B!Ok(B!Counted(buf)) => B!BosTotal <= Len(bos)
  BY <1>t DEF B!ReadBOSDescriptor, B!Refused, B!Ended, B!Ok
<1> HIDE DEF buf
<1>5. CASE B!ReadBOSDescriptor # B!Ok(B!Counted(buf))
  <2>1. B!ReadBOSDescriptor.st # "ok" /\ B!ReadBOSDescriptor.caps = <<>>
    BY <1>3, <1>5 DEF B!Refused, B!Panic, B!Ended
  <2>2. Chained(BosBuffer, <<>>)
    BY DEF Chained
  <2>3. QED
    BY <1>2, <2>1, <2>2
<1>6. CASE B!ReadBOSDescriptor = B!Ok(B!Counted(buf))
  <2>1. B!ReadBOSDescriptor.st = "ok" /\ B!ReadBOSDescriptor.caps = B!Counted(buf)
    BY <1>6 DEF B!Ok
  <2>2. SameBytes(buf, BosBuffer)
    <3>1. CASE bosOs = "linux"
      <4>1. B!BosTotal <= Len(bos)
        BY <1>4, <1>6, <3>1
      <4>2. SameBytes(buf, bos)
        BY <1>t, <4>1, BosBytes DEF buf
      <4>3. QED
        BY <1>t, <3>1, <4>2 DEF BosBuffer
    <3>2. CASE bosOs # "linux"
      <4>1. buf = BosBuffer
        BY <3>2 DEF BosBuffer, buf
      <4>2. QED
        BY <1>t, <4>1, LenProperties DEF SameBytes
    <3>3. QED
      BY <3>1, <3>2
  <2>3. Chained(BosBuffer, B!Counted(buf))
    BY <1>1, <2>2, ChainInMore
  <2>4. QED
    BY <1>1, <1>2, <1>6, <2>1, <2>3 DEF buf
<1>7. QED
  BY <1>5, <1>6

\* What a search finds is a capability of the type in that buffer.
LEMMA FoundInBuffer ==
  ASSUME bos \in BosBlobs, bosOs \in {"linux", "windows", "darwin"}, NEW t \in {3, 2},
         B!Search(t).st = "ok"
  PROVE  LET p == Head(B!Search(t).caps) IN
           /\ p \in Nat /\ B!CapabilityAt(BosBuffer, p) /\ B!At(BosBuffer, p + 2) = t
           /\ bosOs # "darwin" => B!At(BosBuffer, p) >= B!FullLength(t)
<1>t. /\ bos \in Seq(Nat) /\ Len(bos) \in Nat /\ B!BosTotal \in Nat /\ B!NumDeviceCaps \in Nat
      /\ FirstRead \in Nat /\ B!Filled(Len(bos)) = bos
  BY BosBytes, BosConstants DEF B!BosAssumption
<1>1. ASSUME NEW buf, SameBytes(buf, BosBuffer), NEW caps, Chained(buf, caps),
             NEW match \in SUBSET (1..Len(caps)), \A i \in match : B!At(buf, caps[i] + 2) = t,
             NEW r, r = B!FirstOf(caps, match), NEW res,
             \/ res = r /\ bosOs = "darwin"
             \/ res = B!Accept(buf, r, t),
             res.st = "ok"
      PROVE  LET p == Head(res.caps) IN
               /\ p \in Nat /\ B!CapabilityAt(BosBuffer, p) /\ B!At(BosBuffer, p + 2) = t
               /\ bosOs # "darwin" => B!At(BosBuffer, p) >= B!FullLength(t)
  <2>1. caps \in Seq(Nat) /\ \A i \in 1..Len(caps) : caps[i] \in Nat /\ B!CapabilityAt(buf, caps[i])
    BY <1>1, ElementOfSeq DEF Chained
  <2>2. res = r /\ r.st = "ok"
    BY <1>1 DEF B!Accept, B!Refused, B!Ended
  <2>3. match # {}
    <3>1. match = {} => r = B!NotFound
      BY <1>1, <2>1, FirstMatch
    <3>2. B!NotFound.st # "ok"
      BY DEF B!NotFound, B!Ended
    <3>3. QED
      BY <2>2, <3>1, <3>2
  <2>4. PICK i \in match : r = B!Ok(<<caps[i]>>)
    BY <1>1, <2>1, <2>3, FirstMatch
  <2> DEFINE p == caps[i]
  <2>5. Head(res.caps) = p /\ p \in Nat /\ B!CapabilityAt(buf, p) /\ B!At(buf, p + 2) = t
    BY <1>1, <2>1, <2>2, <2>4 DEF B!Ok
  <2> HIDE DEF p
  <2>6. /\ B!CapabilityAt(BosBuffer, p) /\ B!At(BosBuffer, p) = B!At(buf, p)
        /\ B!At(BosBuffer, p + 2) = B!At(buf, p + 2)
    BY <1>1, <2>5, ChainInMore
  <2>7. bosOs # "darwin" => B!At(buf, p) >= B!FullLength(t)
    <3>1. SUFFICES ASSUME bosOs # "darwin", ~(B!At(buf, p) >= B!FullLength(t)) PROVE FALSE
      OBVIOUS
    <3>2. B!At(buf, p) \in Nat /\ B!FullLength(t) \in Nat
      BY <1>1, <2>5, ByteOfBuffer DEF SameBytes, B!FullLength
    <3>3. B!At(buf, p) < B!FullLength(t)
      BY <3>1, <3>2
    <3>4. Head(r.caps) = p
      BY <2>2, <2>5
    <3>5. res = B!Refused
      BY <1>1, <2>2, <3>1, <3>3, <3>4 DEF B!Accept
    <3>6. QED
      BY <2>2, <3>5 DEF B!Refused, B!Ended
  <2>8. QED
    BY <2>5, <2>6, <2>7
<1>2. CASE bosOs = "linux"
  <2> DEFINE buf == B!SearchBuffer
             caps == B!Counted(buf)
             match == {i \in DOMAIN caps :
                         B!At(buf, caps[i] + 1) = B!DEVICE_CAPABILITY /\ B!At(buf, caps[i] + 2) = t}
  <2>1. SameBytes(buf, bos)
    BY <1>t, BosBytes DEF B!SearchBuffer
  <2>2. BosBuffer = bos
    BY <1>2, <1>t DEF BosBuffer
  <2>3. Chained(buf, caps)
    BY <1>t, <2>1, CapabilitiesChained DEF SameBytes, B!Counted
  <2>4. B!Search(t) = B!Refused \/ B!Search(t) = B!Accept(buf, B!FirstOf(caps, match), t)
    BY <1>2 DEF B!Search
  <2> HIDE DEF buf
  <2>5. match \in SUBSET (1..Len(caps)) /\ \A i \in match : B!At(buf, caps[i] + 2) = t
    BY <2>3, LenProperties DEF Chained
  <2>6. B!Search(t) # B!Refused
    BY DEF B!Refused, B!Ended
  <2> HIDE DEF caps, match
  <2>7. QED
    BY <1>1, <2>1, <2>2, <2>3, <2>4, <2>5, <2>6
<1>3. CASE bosOs # "linux"
  <2> DEFINE buf == B!Filled(B!BosTotal)
             caps == B!ReadBOSDescriptor.caps
             match == {i \in DOMAIN caps :
                         /\ bosOs = "windows" => B!At(buf, caps[i] + 1) = B!DEVICE_CAPABILITY
                         /\ B!At(buf, caps[i] + 2) = t}
  <2>1. BosBuffer = buf
    BY <1>3 DEF BosBuffer
  <2>2. SameBytes(buf, buf)
    BY <1>t, BosBytes, LenProperties DEF SameBytes
  <2>3. Chained(buf, caps)
    BY <2>1, ListChained
  <2>4. \/ B!Search(t) = B!ReadBOSDescriptor /\ B!ReadBOSDescriptor.st # "ok"
        \/ B!Search(t) = B!FirstOf(caps, match) /\ bosOs = "darwin"
        \/ B!Search(t) = B!Accept(buf, B!FirstOf(caps, match), t)
    BY <1>3 DEF B!Search
  <2> HIDE DEF buf
  <2>5. match \in SUBSET (1..Len(caps)) /\ \A i \in match : B!At(buf, caps[i] + 2) = t
    BY <2>3, LenProperties DEF Chained
  <2> HIDE DEF caps, match
  <2>6. SameBytes(buf, BosBuffer)
    BY <2>1, <2>2
  <2>7. QED
    BY <1>1, <2>3, <2>4, <2>5, <2>6
<1>4. QED
  BY <1>2, <1>3

LEMMA BosFieldsInBuffer == BosInv => B!CapabilityFieldsInBuffer
<1> SUFFICES ASSUME BosInv PROVE B!CapabilityFieldsInBuffer
  OBVIOUS
<1> DEFINE buf == BosBuffer
           caps == listed.caps
<1>t. bos \in BosBlobs /\ bosOs \in {"linux", "windows", "darwin"} /\ buf \in Seq(Nat)
      /\ Len(buf) \in Nat
  BY ListChained, LenProperties DEF BosInv
<1>1. ASSUME NEW t \in {3, 2}, found[t].st = "ok"
      PROVE  LET p == Head(found[t].caps) IN
               /\ B!At(buf, p + 2) = t
               /\ bosOs # "darwin" => /\ B!At(buf, p) >= B!FullLength(t)
                                      /\ p + B!FullLength(t) <= Len(buf)
  <2>1. found[t] = B!Search(t)
    BY <1>1 DEF BosInv, B!Pending, B!Ended
  <2> DEFINE p == Head(B!Search(t).caps)
  <2>2. /\ p \in Nat /\ B!CapabilityAt(BosBuffer, p) /\ B!At(BosBuffer, p + 2) = t
        /\ bosOs # "darwin" => B!At(BosBuffer, p) >= B!FullLength(t)
    BY <1>1, <1>t, <2>1, FoundInBuffer
  <2> HIDE DEF p
  <2>3. B!At(buf, p) \in Nat /\ p + B!At(buf, p) <= Len(buf) /\ B!FullLength(t) \in Nat
    BY <1>t, <2>2, ByteOfBuffer DEF B!FullLength
  <2> HIDE DEF buf
  <2>4. bosOs # "darwin" => p + B!FullLength(t) <= Len(buf)
    BY <1>t, <2>2, <2>3 DEF buf
  <2>5. QED
    BY <2>1, <2>2, <2>4 DEF p, buf
<1>2. Chained(buf, caps)
  <2>1. CASE listed = B!Pending
    BY <2>1 DEF B!Pending, B!Ended, Chained
  <2>2. CASE listed # B!Pending
    BY <1>t, <2>2, ListChained DEF BosInv
  <2>3. QED
    BY <2>1, <2>2
<1>3. DOMAIN caps = 1..Len(caps) /\ Len(caps) \in Nat /\ caps \in Seq(Nat)
  BY <1>2, LenProperties DEF Chained
<1> HIDE DEF caps
<1>4. ASSUME NEW i \in DOMAIN caps
      PROVE  /\ i + 1 \in DOMAIN caps => caps[i] + B!At(buf, caps[i]) = caps[i + 1]
             /\ caps[i] + B!At(buf, caps[i]) <= Len(buf)
  <2>1. i + 1 \in DOMAIN caps => i \in 1..(Len(caps) - 1)
    BY <1>3, <1>4
  <2>2. caps[i] \in Nat /\ B!CapabilityAt(buf, caps[i])
    BY <1>2, <1>3, ElementOfSeq DEF Chained
  <2>3. caps[i] + B!At(buf, caps[i]) <= Len(buf)
    BY <1>t, <2>2, ByteOfBuffer
  <2>4. QED
    BY <1>2, <2>1, <2>3 DEF Chained
<1>5. QED
  BY <1>1, <1>4 DEF B!CapabilityFieldsInBuffer, BosBuffer, B!SS_USB, B!USB2_EXT, caps

\* A device that announces what it sends has one list and one buffer on every backend.
LEMMA HonestBuffers ==
  ASSUME bos \in BosBlobs, bosOs \in {"linux", "windows", "darwin"}, B!Honest
  PROVE  /\ B!ReadBOSDescriptor = B!Ok(B!Counted(bos)) /\ Chained(bos, B!Counted(bos))
         /\ Len(B!Counted(bos)) = B!NumDeviceCaps /\ bos \in Seq(Nat)
         /\ \A t \in {3, 2} :
              LET caps == B!Counted(bos)
                  ofType == {i \in DOMAIN caps : B!At(bos, caps[i] + 2) = t}
              IN  B!Search(t) = B!FirstOf(caps, ofType)
<1> DEFINE caps == B!Counted(bos)
<1>t. /\ bos \in Seq(Nat) /\ Len(bos) \in Nat /\ Len(bos) >= 5 /\ B!NumDeviceCaps \in Nat
      /\ B!BosTotal = Len(bos) /\ B!Filled(B!BosTotal) = bos /\ FirstRead \in Nat
      /\ B!At(bos, 1) = B!BOS /\ Len(caps) = B!NumDeviceCaps
  BY BosBytes, BosConstants DEF B!BosAssumption, B!Honest
<1>1. B!ReadBOSDescriptor = B!Ok(caps)
  BY <1>t DEF B!ReadBOSDescriptor
<1>2. Chained(bos, caps)
  BY <1>t, CapabilitiesChained DEF B!Counted
<1>3. DOMAIN caps = 1..B!NumDeviceCaps
  BY <1>t, <1>2, LenProperties DEF Chained
<1>4. \A i \in 1..B!NumDeviceCaps :
        /\ B!At(bos, caps[i] + 1) = B!DEVICE_CAPABILITY
        /\ \A t \in {3, 2} : B!At(bos, caps[i] + 2) = t => B!At(bos, caps[i]) >= B!FullLength(t)
  BY DEF B!Honest, B!SS_USB, B!USB2_EXT
<1>5. B!SearchBuffer = bos
  <2>1. /\ Len(B!Arrives(FirstRead)) = B!LeastOf(FirstRead, Len(bos))
        /\ B!Arrives(Len(bos)) = bos
        /\ FirstRead >= Len(bos) => B!Arrives(FirstRead) = bos
    <3>1. \A n \in Nat : /\ Len(B!Arrives(n)) = B!LeastOf(n, Len(bos))
                         /\ n >= Len(bos) => B!Arrives(n) = bos
      BY BosBytes
    <3>2. Len(bos) >= Len(bos)
      BY <1>t
    <3>3. QED
      BY <1>t, <3>1, <3>2
  <2>2. QED
    BY <1>t, <2>1 DEF B!SearchBuffer, B!LeastOf
<1> HIDE DEF caps
<1>6. ASSUME NEW t \in {3, 2}
      PROVE  B!Search(t) = B!FirstOf(caps, {i \in DOMAIN caps : B!At(bos, caps[i] + 2) = t})
  <2> DEFINE ofType == {i \in DOMAIN caps : B!At(bos, caps[i] + 2) = t}
             r == B!FirstOf(caps, ofType)
  <2>1. /\ ofType = {i \in DOMAIN caps : B!At(bos, caps[i] + 1) = B!DEVICE_CAPABILITY
                                         /\ B!At(bos, caps[i] + 2) = t}
        /\ ofType = {i \in DOMAIN caps :
                       /\ bosOs = "windows" => B!At(bos, caps[i] + 1) = B!DEVICE_CAPABILITY
                       /\ B!At(bos, caps[i] + 2) = t}
    BY <1>3, <1>4
  <2>2. B!Accept(bos, r, t) = r
    <3>1. ASSUME r.st = "ok" PROVE ~(B!At(bos, Head(r.caps)) < B!FullLength(t))
      <4>1. caps \in Seq(Nat) /\ ofType \in SUBSET (1..Len(caps))
        BY <1>2, <1>3, <1>t DEF Chained, caps
      <4>2. ofType # {}
        <5> HIDE DEF ofType
        <5>1. ofType = {} => r = B!NotFound
          BY <4>1, FirstMatch
        <5>2. B!NotFound.st # "ok"
          BY DEF B!NotFound, B!Ended
        <5>3. QED
          BY <3>1, <5>1, <5>2
      <4>3. PICK i \in ofType : r = B!Ok(<<caps[i]>>)
        <5> HIDE DEF ofType
        <5>1. QED
          BY <4>1, <4>2, FirstMatch
      <4>4. Head(r.caps) = caps[i]
        BY <4>3 DEF B!Ok
      <4>5. B!At(bos, caps[i]) >= B!FullLength(t)
        BY <1>3, <1>4
      <4>6. caps[i] \in Nat /\ B!CapabilityAt(bos, caps[i])
        BY <1>2, <4>1, ElementOfSeq DEF Chained
      <4>7. B!At(bos, caps[i]) \in Nat /\ B!FullLength(t) \in Nat
        BY <1>t, <4>6, ByteOfBuffer DEF B!FullLength
      <4>8. QED
        BY <4>4, <4>5, <4>7
    <3>2. QED
      BY <3>1 DEF B!Accept
  <2>3. B!ReadBOSDescriptor.st = "ok" /\ B!ReadBOSDescriptor.caps = caps
    BY <1>1 DEF B!Ok, caps
  <2> HIDE DEF ofType, r
  <2>4. CASE bosOs = "linux"
    <3>1. B!Search(t) = B!Accept(bos, B!FirstOf(caps, ofType), t)
      BY <1>5, <1>t, <2>1, <2>4 DEF B!Search, caps
    <3>2. QED
      BY <2>2, <3>1 DEF r, ofType
  <2>5. CASE bosOs # "linux"
    <3>1. B!Search(t) = (IF bosOs = "darwin" THEN B!FirstOf(caps, ofType)
                         ELSE B!Accept(bos, B!FirstOf(caps, ofType), t))
      BY <1>t, <2>1, <2>3, <2>5 DEF B!Search
    <3>2. QED
      BY <2>2, <3>1 DEF r, ofType
  <2>6. QED
    BY <2>4, <2>5
<1>7. QED
  BY <1>1, <1>2, <1>6, <1>t DEF caps

LEMMA BosSearchAgrees == BosInv => B!SearchAgreesWithList
<1> SUFFICES ASSUME BosInv, B!Honest, listed # B!Pending
             PROVE  /\ listed.st = "ok" /\ Len(listed.caps) = B!NumDeviceCaps
                    /\ \A t \in {3, 2} : found[t] # B!Pending =>
                         LET ofType == {p \in B!ToSet(listed.caps) : B!At(bos, p + 2) = t} IN
                           IF ofType = {} THEN found[t] = B!NotFound
                           ELSE /\ Head(found[t].caps) \in ofType
                                /\ \A p \in ofType : Head(found[t].caps) <= p
  BY DEF B!SearchAgreesWithList, B!SS_USB, B!USB2_EXT
<1> DEFINE caps == B!Counted(bos)
<1>1. /\ B!ReadBOSDescriptor = B!Ok(caps) /\ Chained(bos, caps)
      /\ Len(caps) = B!NumDeviceCaps /\ bos \in Seq(Nat)
      /\ \A t \in {3, 2} :
           B!Search(t) = B!FirstOf(caps, {i \in DOMAIN caps : B!At(bos, caps[i] + 2) = t})
  BY HonestBuffers DEF BosInv
<1> HIDE DEF caps
<1>2. listed = B!Ok(caps) /\ listed.st = "ok" /\ listed.caps = caps
  BY <1>1 DEF BosInv, B!Ok
<1>3. caps \in Seq(Nat) /\ DOMAIN caps = 1..Len(caps) /\ \A i \in 1..Len(caps) : caps[i] \in Nat
  BY <1>1, ElementOfSeq, LenProperties DEF Chained
<1>4. ASSUME NEW t \in {3, 2}, found[t] # B!Pending
      PROVE  LET ofType == {p \in B!ToSet(caps) : B!At(bos, p + 2) = t} IN
               IF ofType = {} THEN found[t] = B!NotFound
               ELSE /\ Head(found[t].caps) \in ofType
                    /\ \A p \in ofType : Head(found[t].caps) <= p
  <2> DEFINE ofType == {p \in B!ToSet(caps) : B!At(bos, p + 2) = t}
             match == {i \in DOMAIN caps : B!At(bos, caps[i] + 2) = t}
  <2>1. found[t] = B!FirstOf(caps, match) /\ match \in SUBSET (1..Len(caps))
    BY <1>1, <1>3, <1>4 DEF BosInv
  <2>2. \A p : p \in ofType <=> \E i \in match : p = caps[i]
    BY DEF B!ToSet
  <2> HIDE DEF match, ofType
  <2>3. CASE match = {}
    <3>1. ofType = {}
      BY <2>2, <2>3
    <3>2. found[t] = B!NotFound
      BY <1>3, <2>1, <2>3, FirstMatch
    <3>3. QED
      BY <3>1, <3>2 DEF ofType
  <2>4. CASE match # {}
    <3>1. PICK i \in match : (\A j \in match : i <= j) /\ found[t] = B!Ok(<<caps[i]>>)
      BY <1>3, <2>1, <2>4, FirstMatch
    <3>2. Head(found[t].caps) = caps[i]
      BY <3>1 DEF B!Ok
    <3>3. caps[i] \in ofType /\ ofType # {}
      BY <2>2
    <3>4. \A j \in match : caps[i] <= caps[j]
      BY <1>1, <2>1, <3>1, ChainAscends
    <3>5. \A p \in ofType : caps[i] <= p
      BY <2>2, <3>4
    <3>6. QED
      BY <3>2, <3>3, <3>5 DEF ofType
  <2>5. QED
    BY <2>3, <2>4
<1>5. QED
  BY <1>1, <1>2, <1>4
-----------------------------------------------------------------------------
(* Strings                                                                 *)

Flattens(f, seqs) ==
    f = [i \in 1..Len(seqs) |-> IF i = 1 THEN seqs[i] ELSE f[i - 1] \o seqs[i]]

\* Joining sequences is the last value of a function that joins the first ones.
LEMMA FlattenSolved ==
  ASSUME NEW seqs \in Seq(Seq(Nat)), Len(seqs) > 0
  PROVE  \E f \in [1..Len(seqs) -> Seq(Nat)] :
           Flattens(f, seqs) /\ S!FlattenSeq(seqs) = f[Len(seqs)]
<1>0. PICK n \in Nat : n = Len(seqs)
  BY LenProperties
<1> DEFINE g == [k \in 1..(n - 1) |-> [x \in Seq(Nat) |-> x \o seqs[k + 1]]]
           f == CHOOSE h : Flattens(h, seqs)
<1>t. n \in Nat /\ n > 0 /\ \A i \in 1..n : seqs[i] \in Seq(Nat)
  BY <1>0, ElementOfSeq
<1>1. \A k \in 1..(n - 1) : g[k] \in [Seq(Nat) -> Seq(Nat)]
  <2>1. \A k \in 1..(n - 1), x \in Seq(Nat) : x \o seqs[k + 1] \in Seq(Nat)
    BY <1>t, ConcatProperties
  <2>2. QED
    BY <2>1
<1>2. PICK s \in [0..(n - 1) -> Seq(Nat)] : Steps(s, seqs[1], g, n - 1)
  <2>1. n - 1 \in Nat /\ seqs[1] \in Seq(Nat)
    BY <1>t
  <2> HIDE DEF g
  <2>2. QED
    BY <1>1, <2>1, StepsExist
<1> DEFINE h == [i \in 1..n |-> s[i - 1]]
<1>3. Flattens(h, seqs)
  <2>1. ASSUME NEW i \in 1..n PROVE h[i] = IF i = 1 THEN seqs[i] ELSE h[i - 1] \o seqs[i]
    <3>1. CASE i = 1
      BY <1>2, <3>1 DEF Steps
    <3>2. CASE i # 1
      <4>1. i - 1 \in 1..(n - 1) /\ i - 1 \in 1..n /\ i - 1 + 1 = i /\ i - 1 - 1 \in 0..(n - 1)
        BY <1>t, <3>2
      <4>2. s[i - 1] = g[i - 1][s[i - 1 - 1]] /\ s[i - 1 - 1] \in Seq(Nat)
        BY <1>2, <4>1 DEF Steps
      <4>3. s[i - 1] = s[i - 1 - 1] \o seqs[i]
        BY <4>1, <4>2
      <4>4. QED
        BY <3>2, <4>1, <4>3
    <3>3. QED
      BY <3>1, <3>2
  <2>2. h = [i \in 1..n |-> h[i]]
    OBVIOUS
  <2> HIDE DEF h
  <2>3. QED
    BY <1>0, <2>1, <2>2 DEF Flattens
<1>4. Flattens(f, seqs) /\ S!FlattenSeq(seqs) = f[n]
  <2>1. \E q : Flattens(q, seqs)
    BY <1>3
  <2>2. Flattens(f, seqs)
    BY <2>1, Zenon
  <2>3. Len(seqs) # 0
    OBVIOUS
  <2>4. S!FlattenSeq(seqs) = f[Len(seqs)]
    BY <2>3, Zenon DEF S!FlattenSeq, Flattens
  <2>5. QED
    BY <1>0, <2>2, <2>4
<1> HIDE DEF f, g, h
<1>5. f \in [1..n -> Seq(Nat)]
  <2> DEFINE T == {k \in 0..n : k = 0 \/ f[k] \in Seq(Nat)}
  <2>1. 0 \in T
    BY <1>t
  <2>2. ASSUME NEW k \in 1..n, k - 1 \in T PROVE k \in T
    <3>1. f[k] = IF k = 1 THEN seqs[k] ELSE f[k - 1] \o seqs[k]
      BY <1>0, <1>4 DEF Flattens
    <3>2. CASE k = 1
      BY <1>t, <3>1, <3>2
    <3>3. CASE k # 1
      <4>1. f[k - 1] \in Seq(Nat) /\ seqs[k] \in Seq(Nat)
        BY <1>t, <2>2, <3>3
      <4>2. f[k - 1] \o seqs[k] \in Seq(Nat)
        BY <4>1, ConcatProperties
      <4>3. QED
        BY <1>t, <3>1, <3>3, <4>2, k \in 0..n
    <3>4. QED
      BY <3>2, <3>3
  <2> HIDE DEF T
  <2>3. 0..n \subseteq T
    BY <1>t, <2>1, <2>2, InductionTo
  <2>4. \A k \in 1..n : f[k] \in Seq(Nat)
    BY <1>t, <2>3 DEF T
  <2>5. f = [k \in 1..n |-> f[k]]
    BY <1>0, <1>4 DEF Flattens
  <2>6. QED
    BY <2>4, <2>5
<1>6. QED
  BY <1>0, <1>4, <1>5

LEMMA FlattenAppend ==
  ASSUME NEW seqs \in Seq(Seq(Nat)), NEW x \in Seq(Nat)
  PROVE  /\ S!FlattenSeq(seqs) \in Seq(Nat)
         /\ S!FlattenSeq(Append(seqs, x)) = S!FlattenSeq(seqs) \o x
<1>0. PICK n \in Nat : n = Len(seqs)
  BY LenProperties
<1> DEFINE more == Append(seqs, x)
<1>1. /\ n \in Nat /\ more \in Seq(Seq(Nat)) /\ Len(more) = n + 1 /\ more[n + 1] = x
      /\ \A i \in 1..n : more[i] = seqs[i]
  BY <1>0, AppendProperties
<1> HIDE DEF more
<1>2. PICK g \in [1..(n + 1) -> Seq(Nat)] : Flattens(g, more) /\ S!FlattenSeq(more) = g[n + 1]
  <2>1. Len(more) > 0
    BY <1>1
  <2>2. \E q \in [1..Len(more) -> Seq(Nat)] :
          Flattens(q, more) /\ S!FlattenSeq(more) = q[Len(more)]
    BY <1>1, <2>1, FlattenSolved
  <2>3. QED
    BY <1>1, <2>2
<1>3. CASE n = 0
  <2>1. seqs = <<>>
    BY <1>0, <1>3, EmptySeq
  <2>2. S!FlattenSeq(seqs) = <<>>
    BY <1>3, <2>1 DEF S!FlattenSeq
  <2>3. g[n + 1] = x
    BY <1>1, <1>2, <1>3 DEF Flattens
  <2>4. <<>> \o x = x
    BY ConcatEmptySeq
  <2>5. QED
    BY <1>2, <2>2, <2>3, <2>4, EmptySeq DEF more
<1>4. CASE n # 0
  <2>1. PICK f \in [1..n -> Seq(Nat)] : Flattens(f, seqs) /\ S!FlattenSeq(seqs) = f[n]
    <3>1. Len(seqs) > 0
      BY <1>0, <1>4
    <3>2. \E q \in [1..Len(seqs) -> Seq(Nat)] :
            Flattens(q, seqs) /\ S!FlattenSeq(seqs) = q[Len(seqs)]
      BY <3>1, FlattenSolved
    <3>3. QED
      BY <1>0, <3>2
  <2> DEFINE T == {k \in 0..n : k = 0 \/ f[k] = g[k]}
  <2>2. 0 \in T
    BY <1>1
  <2>3. ASSUME NEW k \in 1..n, k - 1 \in T PROVE k \in T
    <3>1. f[k] = IF k = 1 THEN seqs[k] ELSE f[k - 1] \o seqs[k]
      BY <1>0, <2>1 DEF Flattens
    <3>2. g[k] = IF k = 1 THEN more[k] ELSE g[k - 1] \o more[k]
      <4>1. k \in 1..(n + 1)
        OBVIOUS
      <4>2. QED
        BY <1>1, <1>2, <4>1 DEF Flattens
    <3>3. k # 1 => f[k - 1] = g[k - 1]
      BY <2>3
    <3>4. more[k] = seqs[k]
      BY <1>1
    <3>5. f[k] = g[k]
      BY <3>1, <3>2, <3>3, <3>4
    <3>6. QED
      BY <3>5
  <2> HIDE DEF T
  <2>4. 0..n \subseteq T
    BY <1>1, <2>2, <2>3, InductionTo
  <2>5. f[n] = g[n]
    <3>1. n \in 0..n
      OBVIOUS
    <3>2. QED
      BY <1>4, <2>4, <3>1 DEF T
  <2>6. g[n + 1] = g[n] \o x
    <3>1. n + 1 \in 1..(n + 1) /\ n + 1 # 1 /\ (n + 1) - 1 = n
      BY <1>4
    <3>2. g[n + 1] = IF n + 1 = 1 THEN more[n + 1] ELSE g[(n + 1) - 1] \o more[n + 1]
      BY <1>1, <1>2, <3>1 DEF Flattens
    <3>3. QED
      BY <1>1, <3>1, <3>2
  <2>7. f[n] \in Seq(Nat)
    <3>1. n \in 1..n
      BY <1>4
    <3>2. QED
      BY <3>1
  <2>8. QED
    BY <1>2, <2>1, <2>5, <2>6, <2>7 DEF more
<1>5. QED
  BY <1>3, <1>4

\* The bytes of one code point.
Enc(p) ==
    IF p < 65536 THEN <<p % 256, p \div 256>>
    ELSE LET u == p - 65536
             hi == S!HighFrom + (u \div 1024)
             lo == S!LowFrom + (u % 1024)
         IN  <<hi % 256, hi \div 256, lo % 256, lo \div 256>>

LEMMA EncodedAppend ==
  ASSUME NEW points \in Seq(Nat), NEW p \in Nat
  PROVE  /\ S!Encoded(<<>>) = <<>> /\ S!Encoded(points) \in Seq(Nat)
         /\ S!Encoded(Append(points, p)) = S!Encoded(points) \o Enc(p)
<1>0. PICK n \in Nat : n = Len(points)
  BY LenProperties
<1> DEFINE seqs(ps) == [k \in DOMAIN ps |-> Enc(ps[k])]
<1>1. \A q \in Nat : Enc(q) \in Seq(Nat)
  <2> SUFFICES ASSUME NEW q \in Nat PROVE Enc(q) \in Seq(Nat)
    OBVIOUS
  <2>1. CASE q < 65536
    <3>1. q % 256 \in Nat /\ q \div 256 \in Nat
      OBVIOUS
    <3>2. QED
      BY <2>1, <3>1 DEF Enc
  <2>2. CASE ~(q < 65536)
    <3> DEFINE u == q - 65536
               hi == S!HighFrom + (u \div 1024)
               lo == S!LowFrom + (u % 1024)
    <3>1. hi \in Nat /\ lo \in Nat
      BY <2>2 DEF S!HighFrom, S!LowFrom
    <3> HIDE DEF hi, lo
    <3>2. hi % 256 \in Nat /\ hi \div 256 \in Nat /\ lo % 256 \in Nat /\ lo \div 256 \in Nat
      BY <3>1
    <3>3. Enc(q) = <<hi % 256, hi \div 256, lo % 256, lo \div 256>>
      BY <2>2 DEF Enc, hi, lo
    <3>4. QED
      BY <3>2, <3>3
  <2>3. QED
    BY <2>1, <2>2
<1>2. \A ps : S!Encoded(ps) = S!FlattenSeq(seqs(ps))
  BY DEF S!Encoded, Enc
<1>3. \A ps \in Seq(Nat) : seqs(ps) \in Seq(Seq(Nat)) /\ Len(seqs(ps)) = Len(ps)
  <2> SUFFICES ASSUME NEW ps \in Seq(Nat)
               PROVE  seqs(ps) \in Seq(Seq(Nat)) /\ Len(seqs(ps)) = Len(ps)
    OBVIOUS
  <2>1. DOMAIN ps = 1..Len(ps) /\ Len(ps) \in Nat /\ \A k \in 1..Len(ps) : ps[k] \in Nat
    BY LenProperties, ElementOfSeq
  <2>2. seqs(ps) \in [1..Len(ps) -> Seq(Nat)]
    BY <1>1, <2>1
  <2>3. QED
    BY <2>1, <2>2
<1>4. S!Encoded(<<>>) = <<>>
  <2>1. seqs(<<>>) = <<>>
    <3>1. <<>> \in Seq(Nat) /\ Len(<<>>) = 0
      BY EmptySeq
    <3>2. seqs(<<>>) \in Seq(Seq(Nat)) /\ Len(seqs(<<>>)) = 0
      BY <1>3, <3>1
    <3> HIDE DEF seqs
    <3>3. QED
      BY <3>2, EmptySeq
  <2>2. S!FlattenSeq(<<>>) = <<>>
    BY EmptySeq DEF S!FlattenSeq
  <2>3. QED
    BY <1>2, <2>1, <2>2
<1>5. seqs(Append(points, p)) = Append(seqs(points), Enc(p))
  <2> DEFINE more == Append(points, p)
             a == seqs(more)
             b == Append(seqs(points), Enc(p))
  <2>1. /\ more \in Seq(Nat) /\ Len(more) = n + 1 /\ more[n + 1] = p /\ n \in Nat
        /\ \A i \in 1..n : more[i] = points[i]
    BY <1>0, AppendProperties
  <2> HIDE DEF more
  <2>2. a \in Seq(Seq(Nat)) /\ Len(a) = n + 1 /\ DOMAIN more = 1..(n + 1) /\ DOMAIN points = 1..n
    BY <1>0, <1>3, <2>1, LenProperties
  <2>3. /\ b \in Seq(Seq(Nat)) /\ Len(b) = n + 1 /\ b[n + 1] = Enc(p)
        /\ \A i \in 1..n : b[i] = seqs(points)[i]
    <3>1. PICK c \in Seq(Seq(Nat)) : c = seqs(points) /\ Len(c) = n
      BY <1>0, <1>3
    <3>2. PICK e \in Seq(Nat) : e = Enc(p)
      BY <1>1
    <3>3. b = Append(c, e)
      BY <3>1, <3>2
    <3> HIDE DEF b
    <3>4. /\ b \in Seq(Seq(Nat)) /\ Len(b) = n + 1 /\ b[n + 1] = e
          /\ \A i \in 1..n : b[i] = c[i]
      BY <3>1, <3>3, AppendProperties
    <3>5. QED
      BY <3>1, <3>2, <3>4
  <2>4. \A i \in 1..n : a[i] = b[i]
    <3>1. \A i \in 1..n : a[i] = Enc(points[i]) /\ seqs(points)[i] = Enc(points[i])
      BY <2>1, <2>2
    <3>2. QED
      BY <2>3, <3>1
  <2>5. a[n + 1] = b[n + 1]
    BY <2>1, <2>2, <2>3
  <2> HIDE DEF a, b
  <2>6. \A i \in 1..(n + 1) : a[i] = b[i]
    <3>1. \A i \in 1..(n + 1) : i \in 1..n \/ i = n + 1
      OBVIOUS
    <3>2. QED
      BY <2>4, <2>5, <3>1
  <2>7. a = b
    BY <2>2, <2>3, <2>6, SeqEqual
  <2>8. QED
    BY <2>7 DEF a, b, more
<1> HIDE DEF seqs
<1>6. QED
  BY <1>1, <1>2, <1>3, <1>4, <1>5, FlattenAppend

Wide == {x \in Nat : x < 65536}

Pair(x) == <<x % 256, x \div 256>>

\* w is the units u in little-endian bytes.
PairsOf(w, u) ==
    /\ w \in Seq(Nat) /\ Len(w) = 2 * Len(u)
    /\ \A k \in 1..Len(u) : w[2 * k - 1] = u[k] % 256 /\ w[2 * k] = u[k] \div 256

LEMMA EncSmall ==
  \A x : x < 65536 => Enc(x) = <<x % 256, x \div 256>>
BY DEF Enc

LEMMA PairOfWide ==
  ASSUME NEW x \in Wide
  PROVE  x \in Nat /\ x < 65536 /\ x % 256 \in Nat /\ x \div 256 \in Nat
<1>1. x \in Nat /\ x < 65536
  BY DEF Wide
<1>2. QED
  BY <1>1

LEMMA PairsUnique ==
  ASSUME NEW u \in Seq(Wide), NEW v, NEW w, PairsOf(v, u), PairsOf(w, u)
  PROVE  v = w
<1>0. PICK n \in Nat : n = Len(u)
  BY LenProperties
<1>1. \A i \in 1..(2 * n) : \E k \in 1..n : i = 2 * k - 1 \/ i = 2 * k
  <2> TAKE i \in 1..(2 * n)
  <2>1. (i + 1) \div 2 \in 1..n
    OBVIOUS
  <2>2. i = 2 * ((i + 1) \div 2) - 1 \/ i = 2 * ((i + 1) \div 2)
    OBVIOUS
  <2>3. QED
    BY <2>1, <2>2
<1>2. \A k \in 1..n : v[2 * k - 1] = w[2 * k - 1] /\ v[2 * k] = w[2 * k]
  BY <1>0 DEF PairsOf
<1>3. \A i \in 1..(2 * n) : v[i] = w[i]
  BY <1>1, <1>2
<1>4. v \in Seq(Nat) /\ w \in Seq(Nat) /\ Len(v) = 2 * n /\ Len(w) = 2 * n
  BY <1>0 DEF PairsOf
<1>5. QED
  BY <1>3, <1>4, SeqEqual

LEMMA PairsAppend ==
  ASSUME NEW u \in Seq(Wide), NEW w, PairsOf(w, u), NEW x \in Wide
  PROVE  PairsOf(w \o Pair(x), Append(u, x)) /\ Append(u, x) \in Seq(Wide) /\ Pair(x) \in Seq(Nat)
<1>0. PICK n \in Nat : n = Len(u)
  BY LenProperties
<1>1. PICK a \in Nat, b \in Nat : a = x % 256 /\ b = x \div 256
  <2>1. x % 256 \in Nat /\ x \div 256 \in Nat
    BY PairOfWide
  <2>2. QED
    BY <2>1
<1>2. Pair(x) = <<a, b>> /\ Pair(x) \in Seq(Nat)
  BY <1>1 DEF Pair
<1> DEFINE more == Append(u, x)
<1>3. /\ more \in Seq(Wide) /\ Len(more) = n + 1 /\ more[n + 1] = x
      /\ \A k \in 1..n : more[k] = u[k]
  BY <1>0, AppendProperties
<1>4. w \in Seq(Nat) /\ Len(w) = 2 * n
  BY <1>0 DEF PairsOf
<1> DEFINE long == w \o <<a, b>>
<1>5. /\ long \in Seq(Nat) /\ Len(long) = 2 * n + 2
      /\ \A i \in 1..(2 * n) : long[i] = w[i]
      /\ long[2 * n + 1] = a /\ long[2 * n + 2] = b
  <2>1. PICK y : y \in Seq(Nat) /\ y = <<a, b>> /\ Len(y) = 2 /\ y[1] = a /\ y[2] = b
    <3>1. <<a, b>> \in Seq(Nat)
      OBVIOUS
    <3>2. Len(<<a, b>>) = 2 /\ <<a, b>>[1] = a /\ <<a, b>>[2] = b
      OBVIOUS
    <3>3. QED
      BY <3>1, <3>2
  <2>2. long = w \o y
    BY <2>1
  <2> HIDE DEF long
  <2>3. /\ long \in Seq(Nat) /\ Len(long) = 2 * n + 2
        /\ \A i \in 1..(2 * n + 2) : long[i] = IF i <= 2 * n THEN w[i] ELSE y[i - 2 * n]
    BY <1>4, <2>1, <2>2, ConcatProperties
  <2>4. long[2 * n + 1] = y[1] /\ long[2 * n + 2] = y[2]
    <3>1. /\ 2 * n + 1 \in 1..(2 * n + 2) /\ 2 * n + 2 \in 1..(2 * n + 2)
          /\ ~(2 * n + 1 <= 2 * n) /\ ~(2 * n + 2 <= 2 * n)
          /\ 2 * n + 1 - 2 * n = 1 /\ 2 * n + 2 - 2 * n = 2
      OBVIOUS
    <3>2. QED
      BY <2>3, <3>1
  <2>5. QED
    BY <2>1, <2>3, <2>4
<1> HIDE DEF more, long
<1>6. ASSUME NEW k \in 1..(n + 1)
      PROVE  long[2 * k - 1] = more[k] % 256 /\ long[2 * k] = more[k] \div 256
  <2>1. CASE k = n + 1
    <3>1. 2 * k - 1 = 2 * n + 1 /\ 2 * k = 2 * n + 2
      BY <2>1
    <3>2. QED
      BY <1>1, <1>3, <1>5, <2>1, <3>1
  <2>2. CASE k # n + 1
    <3>1. k \in 1..n /\ 2 * k - 1 \in 1..(2 * n) /\ 2 * k \in 1..(2 * n)
      BY <2>2
    <3>2. w[2 * k - 1] = u[k] % 256 /\ w[2 * k] = u[k] \div 256
      BY <1>0, <3>1 DEF PairsOf
    <3>3. QED
      BY <1>3, <1>5, <3>1, <3>2
  <2>3. QED
    BY <2>1, <2>2
<1>7. PairsOf(long, more)
  <2>1. Len(long) = 2 * Len(more)
    BY <1>3, <1>5
  <2>2. QED
    BY <1>3, <1>5, <1>6, <2>1 DEF PairsOf
<1>8. QED
  BY <1>2, <1>3, <1>7 DEF long, more

LEMMA PrefixGrows ==
  ASSUME NEW V, NEW u \in Seq(V), NEW k \in 1..Len(u)
  PROVE  /\ SubSeq(u, 1, k) = Append(SubSeq(u, 1, k - 1), u[k])
         /\ SubSeq(u, 1, k) \in Seq(V) /\ SubSeq(u, 1, k - 1) \in Seq(V) /\ u[k] \in V
         /\ SubSeq(u, 1, 0) = <<>> /\ SubSeq(u, 1, Len(u)) = u
<1>0. PICK n \in Nat : n = Len(u)
  BY LenProperties
<1>1. /\ SubSeq(u, 1, k) \in Seq(V) /\ Len(SubSeq(u, 1, k)) = k
      /\ \A i \in 1..k : SubSeq(u, 1, k)[i] = u[i]
  BY <1>0, SubSeqProperties
<1>2. /\ SubSeq(u, 1, k - 1) \in Seq(V) /\ Len(SubSeq(u, 1, k - 1)) = k - 1
      /\ \A i \in 1..(k - 1) : SubSeq(u, 1, k - 1)[i] = u[i]
  BY <1>0, SubSeqProperties
<1>3. u[k] \in V
  BY <1>0, ElementOfSeq
<1> DEFINE a == SubSeq(u, 1, k)
           b == SubSeq(u, 1, k - 1)
           c == Append(b, u[k])
<1> HIDE DEF a, b
<1>4. /\ c \in Seq(V) /\ Len(c) = k /\ c[k] = u[k]
      /\ \A i \in 1..(k - 1) : c[i] = u[i]
  <2>1. b \in Seq(V) /\ Len(b) = k - 1 /\ \A i \in 1..(k - 1) : b[i] = u[i]
    BY <1>2 DEF b
  <2>2. /\ c \in Seq(V) /\ Len(c) = (k - 1) + 1 /\ c[(k - 1) + 1] = u[k]
        /\ \A i \in 1..(k - 1) : c[i] = b[i]
    BY <1>3, <2>1, AppendProperties
  <2>3. (k - 1) + 1 = k
    BY <1>0
  <2> HIDE DEF c
  <2>4. QED
    BY <2>1, <2>2, <2>3
<1> HIDE DEF c
<1>5. \A i \in 1..k : a[i] = c[i]
  <2>1. \A i \in 1..k : i \in 1..(k - 1) \/ i = k
    BY <1>0
  <2>2. QED
    BY <1>1, <1>4, <2>1 DEF a
<1>6. a = c
  BY <1>1, <1>4, <1>5, SeqEqual DEF a
<1>7. SubSeq(u, 1, 0) = <<>>
  BY SubSeqProperties, EmptySeq
<1>8. SubSeq(u, 1, Len(u)) = u
  <2>1. /\ SubSeq(u, 1, n) \in Seq(V) /\ Len(SubSeq(u, 1, n)) = n
        /\ \A i \in 1..n : SubSeq(u, 1, n)[i] = u[i]
    BY <1>0, SubSeqProperties
  <2>2. QED
    BY <1>0, <2>1, SeqEqual
<1>9. QED
  BY <1>1, <1>2, <1>3, <1>6, <1>7, <1>8 DEF a, b, c

LEMMA PairsEmpty == PairsOf(<<>>, <<>>)
BY EmptySeq DEF PairsOf

\* A unit below 0x10000 is written as itself.
LEMMA EncodeUnits ==
  ASSUME NEW u \in Seq(Wide)
  PROVE  PairsOf(S!Encoded(u), u)
<1>0. PICK n \in Nat : n = Len(u)
  BY LenProperties
<1> DEFINE pre(k) == SubSeq(u, 1, k)
           T == {k \in 0..n : PairsOf(S!Encoded(pre(k)), pre(k))}
<1>1. pre(0) = <<>>
  BY SubSeqProperties, EmptySeq
<1>2. 0 \in T
  <2>1. S!Encoded(<<>>) = <<>>
    <3>1. <<>> \in Seq(Nat) /\ 0 \in Nat
      BY EmptySeq
    <3>2. QED
      BY <3>1, EncodedAppend
  <2>2. PairsOf(S!Encoded(pre(0)), pre(0))
    BY <1>1, <2>1, PairsEmpty, Zenon
  <2>3. QED
    BY <2>2
<1>3. ASSUME NEW k \in 1..n, k - 1 \in T PROVE k \in T
  <2>1. /\ pre(k) = Append(pre(k - 1), u[k]) /\ pre(k - 1) \in Seq(Wide) /\ u[k] \in Wide
    BY <1>0, PrefixGrows
  <2>2. PairsOf(S!Encoded(pre(k - 1)), pre(k - 1))
    BY <1>3
  <2> HIDE DEF pre
  <2>3. pre(k - 1) \in Seq(Nat) /\ u[k] \in Nat
    <3>1. Seq(Wide) \subseteq Seq(Nat)
      <4>1. \A x \in Wide : x \in Nat
        BY PairOfWide
      <4>2. QED
        BY <4>1
    <3>2. QED
      BY <2>1, <3>1, PairOfWide
  <2>4. S!Encoded(pre(k)) = S!Encoded(pre(k - 1)) \o Enc(u[k])
    BY <2>1, <2>3, EncodedAppend
  <2>5. Enc(u[k]) = Pair(u[k])
    <3>1. u[k] < 65536
      BY <2>1, PairOfWide
    <3>2. QED
      BY <3>1, EncSmall DEF Pair
  <2>6. PairsOf(S!Encoded(pre(k)), pre(k))
    BY <2>1, <2>2, <2>4, <2>5, PairsAppend
  <2>7. QED
    BY <2>6
<1> HIDE DEF T
<1>4. 0..n \subseteq T
  BY <1>2, <1>3, InductionTo
<1>5. pre(n) = u
  BY <1>0, SubSeqProperties, SeqEqual
<1>6. n \in T
  BY <1>4
<1>7. QED
  BY <1>5, <1>6 DEF T

\* utf16Decode's loop on the units u: where it is, and what it has written.
Decodes(at, u) ==
    at = [k \in 0..Len(u) |-> IF k = 0 THEN [next |-> 1, out |-> <<>>]
                              ELSE S!DecodeOn(u, at[k - 1])]

Decoded(u) == CHOOSE at : Decodes(at, u)

LEMMA DecodedText ==
  \A all : S!utf16Decode(all) = Decoded(S!UntilNul(all))[Len(S!UntilNul(all))].out
BY Zenon DEF S!utf16Decode, Decodes, Decoded

Decoding == [next : Nat \ {0}, out : Seq(Nat)]

\* The code point of a surrogate pair is written as the two units again.
LEMMA EncodePair ==
  ASSUME NEW a \in S!HighFrom..(S!LowFrom - 1), NEW b \in S!LowFrom..(S!LowEnd - 1),
         NEW v, v = (a - S!HighFrom) * 1024 + (b - S!LowFrom) + 65536
  PROVE  /\ v \in Nat
         /\ Enc(v) = <<a % 256, a \div 256, b % 256, b \div 256>>
<1>1. /\ a \in Nat /\ b \in Nat /\ 55296 <= a /\ a < 56320 /\ 56320 <= b /\ b < 57344
      /\ S!HighFrom = 55296 /\ S!LowFrom = 56320
  BY DEF S!HighFrom, S!LowFrom, S!LowEnd
<1>2. v - 65536 = (a - 55296) * 1024 + (b - 56320) /\ v \in Nat /\ ~(v < 65536)
  BY <1>1
<1> DEFINE q == v - 65536
<1>3. q \div 1024 = a - 55296 /\ q % 1024 = b - 56320
  BY <1>1, <1>2
<1>4. S!HighFrom + (q \div 1024) = a /\ S!LowFrom + (q % 1024) = b
  BY <1>1, <1>3
<1>5. Enc(v) = LET u == v - 65536
                   hi == S!HighFrom + (u \div 1024)
                   lo == S!LowFrom + (u % 1024)
               IN  <<hi % 256, hi \div 256, lo % 256, lo \div 256>>
  BY <1>2 DEF Enc
<1>6. QED
  BY <1>2, <1>4, <1>5

LEMMA EncodeOne ==
  ASSUME NEW out \in Seq(Nat), NEW a \in Wide
  PROVE  S!Encoded(Append(out, a)) = S!Encoded(out) \o Pair(a)
<1>1. a \in Nat
  BY PairOfWide
<1>2. Enc(a) = Pair(a)
  BY PairOfWide, EncSmall DEF Pair
<1>3. S!Encoded(Append(out, a)) = S!Encoded(out) \o Enc(a)
  BY <1>1, EncodedAppend, Zenon
<1>4. QED
  BY <1>2, <1>3, Zenon

LEMMA FourBytes ==
  ASSUME NEW a \in Nat, NEW b \in Nat, NEW c \in Nat, NEW d \in Nat
  PROVE  <<a, b>> \o <<c, d>> = <<a, b, c, d>>
<1> DEFINE x == <<a, b>>
           y == <<c, d>>
           z == <<a, b, c, d>>
<1>1. x \in Seq(Nat) /\ Len(x) = 2 /\ x[1] = a /\ x[2] = b
  <2>1. x \in Seq(Nat)
    OBVIOUS
  <2>2. Len(x) = 2 /\ x[1] = a /\ x[2] = b
    OBVIOUS
  <2>3. QED
    BY <2>1, <2>2
<1>2. y \in Seq(Nat) /\ Len(y) = 2 /\ y[1] = c /\ y[2] = d
  <2>1. y \in Seq(Nat)
    OBVIOUS
  <2>2. Len(y) = 2 /\ y[1] = c /\ y[2] = d
    OBVIOUS
  <2>3. QED
    BY <2>1, <2>2
<1>3. z \in Seq(Nat) /\ Len(z) = 4 /\ z[1] = a /\ z[2] = b /\ z[3] = c /\ z[4] = d
  <2>1. z \in Seq(Nat)
    OBVIOUS
  <2>2. Len(z) = 4 /\ z[1] = a /\ z[2] = b /\ z[3] = c /\ z[4] = d
    OBVIOUS
  <2>3. QED
    BY <2>1, <2>2
<1> HIDE DEF x, y, z
<1>4. /\ x \o y \in Seq(Nat) /\ Len(x \o y) = 4
      /\ \A i \in 1..4 : (x \o y)[i] = IF i <= 2 THEN x[i] ELSE y[i - 2]
  <2>1. /\ x \o y \in Seq(Nat) /\ Len(x \o y) = Len(x) + Len(y)
        /\ \A i \in 1..(Len(x) + Len(y)) :
             (x \o y)[i] = IF i <= Len(x) THEN x[i] ELSE y[i - Len(x)]
    BY <1>1, <1>2, ConcatProperties
  <2>2. QED
    BY <1>1, <1>2, <2>1
<1>5. PICK w : w = x \o y
  OBVIOUS
<1>6. w \in Seq(Nat) /\ Len(w) = 4 /\ \A i \in 1..4 : w[i] = IF i <= 2 THEN x[i] ELSE y[i - 2]
  BY <1>4, <1>5
<1>7. \A i \in 1..4 : i = 1 \/ i = 2 \/ i = 3 \/ i = 4
  OBVIOUS
<1>8. w[1] = z[1] /\ w[2] = z[2] /\ w[3] = z[3] /\ w[4] = z[4]
  BY <1>1, <1>2, <1>3, <1>6
<1>9. \A i \in 1..4 : w[i] = z[i]
  BY <1>7, <1>8
<1>10. w = z
  BY <1>3, <1>6, <1>9, SeqEqual
<1>11. QED
  BY <1>5, <1>10 DEF x, y, z

LEMMA JoinThree ==
  ASSUME NEW x \in Seq(Nat), NEW y \in Seq(Nat), NEW z \in Seq(Nat)
  PROVE  (x \o y) \o z = x \o (y \o z)
OBVIOUS

LEMMA DecodeOnTyped ==
  ASSUME NEW u \in Seq(Wide), NEW p \in Decoding
  PROVE  S!DecodeOn(u, p) \in Decoding
<1>0. PICK n \in Nat : n = Len(u)
  BY LenProperties
<1>1. p.next \in Nat \ {0} /\ p.out \in Seq(Nat)
  BY DEF Decoding
<1>2. CASE p.next > n
  BY <1>0, <1>2 DEF S!DecodeOn
<1>3. CASE ~(p.next > n) /\ S!PairAt(u, p.next)
  <2>1. /\ u[p.next] \in S!HighFrom..(S!LowFrom - 1)
        /\ u[p.next + 1] \in S!LowFrom..(S!LowEnd - 1)
    BY <1>3 DEF S!PairAt
  <2>2. PICK v \in Nat : v = (u[p.next] - S!HighFrom) * 1024 + (u[p.next + 1] - S!LowFrom) + 65536
    BY <2>1, EncodePair
  <2>3. S!DecodeOn(u, p) = [next |-> p.next + 2, out |-> Append(p.out, v)]
    BY <1>0, <1>3, <2>2 DEF S!DecodeOn
  <2>4. p.next + 2 \in Nat \ {0} /\ Append(p.out, v) \in Seq(Nat)
    BY <1>1, AppendProperties
  <2>5. QED
    BY <2>3, <2>4 DEF Decoding
<1>4. CASE ~(p.next > n) /\ ~S!PairAt(u, p.next)
  <2>1. p.next \in 1..n
    BY <1>1, <1>4
  <2>2. u[p.next] \in Nat
    BY <1>0, <2>1, ElementOfSeq, PairOfWide
  <2>3. S!DecodeOn(u, p) = [next |-> p.next + 1, out |-> Append(p.out, u[p.next])]
    BY <1>0, <1>4 DEF S!DecodeOn
  <2>4. p.next + 1 \in Nat \ {0} /\ Append(p.out, u[p.next]) \in Seq(Nat)
    BY <1>1, <2>2, AppendProperties
  <2>5. QED
    BY <2>3, <2>4 DEF Decoding
<1>5. QED
  BY <1>2, <1>3, <1>4

LEMMA DecodeSolved ==
  ASSUME NEW all, NEW u \in Seq(Wide), u = S!UntilNul(all)
  PROVE  \E at \in [0..Len(u) -> Decoding] :
           /\ at[0] = [next |-> 1, out |-> <<>>]
           /\ \A k \in 1..Len(u) : at[k] = S!DecodeOn(u, at[k - 1])
           /\ S!utf16Decode(all) = at[Len(u)].out
<1>0. PICK n \in Nat : n = Len(u)
  BY LenProperties
<1> DEFINE g == [k \in 1..n |-> [p \in Decoding |-> S!DecodeOn(u, p)]]
           start == [next |-> 1, out |-> <<>>]
           at == Decoded(u)
<1>1. \A k \in 1..n : g[k] \in [Decoding -> Decoding]
  BY DecodeOnTyped
<1>2. start \in Decoding
  BY EmptySeq DEF Decoding
<1>3. PICK s \in [0..n -> Decoding] : Steps(s, start, g, n)
  <2> HIDE DEF g, start
  <2>1. QED
    BY <1>1, <1>2, StepsExist
<1>4. \A k \in 1..n : s[k] = S!DecodeOn(u, s[k - 1])
  <2> TAKE k \in 1..n
  <2>1. s[k - 1] \in Decoding
    OBVIOUS
  <2>2. s[k] = g[k][s[k - 1]]
    BY <1>3 DEF Steps
  <2>3. QED
    BY <2>1, <2>2
<1>5. s[0] = start
  BY <1>3 DEF Steps
<1> HIDE DEF start, g
<1>6. Decodes(s, u)
  <2>1. \A k \in 0..n : s[k] = IF k = 0 THEN start ELSE S!DecodeOn(u, s[k - 1])
    BY <1>4, <1>5
  <2>2. s = [k \in 0..n |-> s[k]]
    OBVIOUS
  <2>3. s = [k \in 0..n |-> IF k = 0 THEN start ELSE S!DecodeOn(u, s[k - 1])]
    BY <2>1, <2>2
  <2>4. QED
    BY <1>0, <2>3 DEF Decodes, start
<1>7. Decodes(at, u)
  BY <1>6, Zenon DEF Decoded
<1>8. S!utf16Decode(all) = at[n].out
  BY <1>0, DecodedText
<1> HIDE DEF at
<1>9. at = [k \in 0..n |-> IF k = 0 THEN start ELSE S!DecodeOn(u, at[k - 1])]
  BY <1>0, <1>7 DEF Decodes, start
<1>10. at[0] = start /\ \A k \in 1..n : at[k] = S!DecodeOn(u, at[k - 1])
  <2>1. \A k \in 0..n : at[k] = IF k = 0 THEN start ELSE S!DecodeOn(u, at[k - 1])
    BY <1>9
  <2>2. QED
    BY <2>1
<1>11. at \in [0..n -> Decoding]
  <2> DEFINE T == {k \in 0..n : at[k] \in Decoding}
  <2>1. 0 \in T
    BY <1>2, <1>10
  <2>2. ASSUME NEW k \in 1..n, k - 1 \in T PROVE k \in T
    <3>1. S!DecodeOn(u, at[k - 1]) \in Decoding
      BY <2>2, DecodeOnTyped
    <3>2. QED
      BY <1>10, <3>1
  <2> HIDE DEF T
  <2>3. 0..n \subseteq T
    BY <2>1, <2>2, InductionTo
  <2>4. \A k \in 0..n : at[k] \in Decoding
    BY <2>3 DEF T
  <2>5. at = [k \in 0..n |-> at[k]]
    BY <1>9
  <2>6. QED
    BY <2>4, <2>5
<1>12. QED
  BY <1>0, <1>8, <1>10, <1>11 DEF start

\* What the loop has written encodes to the units it has read.
LEMMA DecodeOnInverts ==
  ASSUME NEW u \in Seq(Wide), NEW p \in Decoding, p.next \in 1..Len(u),
         PairsOf(S!Encoded(p.out), SubSeq(u, 1, p.next - 1))
  PROVE  LET q == S!DecodeOn(u, p) IN
         /\ q.next \in (p.next + 1)..(Len(u) + 1)
         /\ PairsOf(S!Encoded(q.out), SubSeq(u, 1, q.next - 1))
<1>0. PICK n \in Nat : n = Len(u)
  BY LenProperties
<1>1. PICK i \in 1..n : i = p.next
  BY <1>0
<1>2. PICK out \in Seq(Nat) : out = p.out
  BY DEF Decoding
<1> DEFINE pre(k) == SubSeq(u, 1, k)
<1>3. \A k \in 1..n : /\ pre(k) = Append(pre(k - 1), u[k]) /\ pre(k) \in Seq(Wide)
                      /\ pre(k - 1) \in Seq(Wide) /\ u[k] \in Wide
  BY <1>0, PrefixGrows
<1>4. PairsOf(S!Encoded(out), pre(i - 1))
  BY <1>1, <1>2
<1> HIDE DEF pre
<1>5. S!Encoded(out) \in Seq(Nat)
  BY <1>4 DEF PairsOf
<1>6. /\ PairsOf(S!Encoded(out) \o Pair(u[i]), pre(i)) /\ Pair(u[i]) \in Seq(Nat)
  BY <1>3, <1>4, PairsAppend
<1>7. PICK w \in Seq(Nat) : w = S!Encoded(out)
  BY <1>5
<1>8. PICK a \in Wide : a = u[i]
  BY <1>3
<1>12. a \in Nat /\ a < 65536
  BY PairOfWide
<1>9. CASE S!PairAt(u, i)
  <2>1. i + 1 \in 1..n /\ (i + 1) - 1 = i
    BY <1>0, <1>9 DEF S!PairAt
  <2>2. PICK b \in Wide : b = u[i + 1]
    BY <1>3, <2>1
  <2>3. a \in S!HighFrom..(S!LowFrom - 1) /\ b \in S!LowFrom..(S!LowEnd - 1)
    BY <1>8, <1>9, <2>2 DEF S!PairAt
  <2>4. PICK v : v = (a - S!HighFrom) * 1024 + (b - S!LowFrom) + 65536
    OBVIOUS
  <2>6. PairsOf(w \o Pair(a), pre(i)) /\ Pair(a) \in Seq(Nat)
    BY <1>6, <1>7, <1>8
  <2>7. pre(i + 1) = Append(pre(i), b)
    BY <1>3, <2>1, <2>2
  <2>8. PairsOf((w \o Pair(a)) \o Pair(b), pre(i + 1)) /\ Pair(b) \in Seq(Nat)
    BY <1>3, <2>6, <2>7, PairsAppend
  <2>11. S!Encoded(Append(out, v)) = (w \o Pair(a)) \o Pair(b)
    <3>1. v \in Nat /\ Enc(v) = <<a % 256, a \div 256, b % 256, b \div 256>>
      BY <2>3, <2>4, EncodePair
    <3>2. /\ a % 256 \in Nat /\ a \div 256 \in Nat
          /\ b % 256 \in Nat /\ b \div 256 \in Nat
      BY PairOfWide
    <3>3. Enc(v) = Pair(a) \o Pair(b)
      BY <3>1, <3>2, FourBytes DEF Pair
    <3>4. v \in Nat
      BY <3>1
    <3>5. Pair(a) \in Seq(Nat) /\ Pair(b) \in Seq(Nat)
      BY <2>6, <2>8
    <3>6. S!Encoded(Append(out, v)) = S!Encoded(out) \o Enc(v)
      BY <3>4, EncodedAppend, Zenon
    <3>7. (w \o Pair(a)) \o Pair(b) = w \o (Pair(a) \o Pair(b))
      BY <3>5, JoinThree, Zenon
    <3>8. QED
      BY <1>7, <3>3, <3>6, <3>7, Zenon
  <2>12. S!DecodeOn(u, p) = [next |-> i + 2, out |-> Append(out, v)]
    BY <1>0, <1>1, <1>2, <1>8, <1>9, <2>2, <2>4 DEF S!DecodeOn
  <2>13. i + 2 \in (i + 1)..(n + 1) /\ (i + 2) - 1 = i + 1
    BY <2>1
  <2>14. PairsOf(S!Encoded(Append(out, v)), SubSeq(u, 1, (i + 2) - 1))
    BY <2>8, <2>11, <2>13 DEF pre
  <2>15. QED
    BY <1>0, <1>1, <2>12, <2>13, <2>14
<1>10. CASE ~S!PairAt(u, i)
  <2>2. S!Encoded(Append(out, a)) = w \o Pair(a)
    BY <1>7, EncodeOne
  <2>3. S!DecodeOn(u, p) = [next |-> i + 1, out |-> Append(out, a)]
    BY <1>0, <1>1, <1>2, <1>8, <1>10 DEF S!DecodeOn
  <2>4. i + 1 \in (i + 1)..(n + 1) /\ (i + 1) - 1 = i
    OBVIOUS
  <2>5. PairsOf(S!Encoded(Append(out, a)), SubSeq(u, 1, (i + 1) - 1))
    BY <1>6, <1>7, <1>8, <2>2, <2>4 DEF pre
  <2>6. QED
    BY <1>0, <1>1, <2>3, <2>4, <2>5
<1>11. QED
  BY <1>9, <1>10

\* utf16Decode loses nothing but what is behind the first NUL.
LEMMA DecodeInverts ==
  ASSUME NEW all, NEW u \in Seq(Wide), u = S!UntilNul(all)
  PROVE  PairsOf(S!Encoded(S!utf16Decode(all)), u)
<1>0. PICK n \in Nat : n = Len(u)
  BY LenProperties
<1>1. PICK at \in [0..n -> Decoding] :
        /\ at[0] = [next |-> 1, out |-> <<>>]
        /\ \A k \in 1..n : at[k] = S!DecodeOn(u, at[k - 1])
        /\ S!utf16Decode(all) = at[n].out
  BY <1>0, DecodeSolved
<1> DEFINE Good(k) == /\ at[k].next \in (k + 1)..(n + 1) \/ at[k].next = n + 1
                      /\ PairsOf(S!Encoded(at[k].out), SubSeq(u, 1, at[k].next - 1))
           T == {k \in 0..n : Good(k)}
<1>2. 0 \in T
  <2>1. at[0].next = 1 /\ at[0].out = <<>>
    BY <1>1
  <2>2. S!Encoded(<<>>) = <<>>
    <3>1. <<>> \in Seq(Nat) /\ 0 \in Nat
      BY EmptySeq
    <3>2. QED
      BY <3>1, EncodedAppend
  <2>3. SubSeq(u, 1, 0) = <<>>
    BY SubSeqProperties, EmptySeq
  <2>4. PairsOf(S!Encoded(at[0].out), SubSeq(u, 1, at[0].next - 1))
    BY <2>1, <2>2, <2>3, PairsEmpty
  <2>5. QED
    BY <2>1, <2>4
<1>3. ASSUME NEW k \in 1..n, k - 1 \in T PROVE k \in T
  <2>1. /\ at[k - 1].next \in k..(n + 1) \/ at[k - 1].next = n + 1
        /\ PairsOf(S!Encoded(at[k - 1].out), SubSeq(u, 1, at[k - 1].next - 1))
    BY <1>3
  <2>2. at[k] = S!DecodeOn(u, at[k - 1]) /\ at[k - 1] \in Decoding
    BY <1>1
  <2> HIDE DEF Good, T
  <2>3. CASE at[k - 1].next = n + 1
    <3>1. at[k] = at[k - 1]
      BY <1>0, <2>2, <2>3 DEF S!DecodeOn
    <3>2. QED
      BY <2>1, <2>3, <3>1 DEF Good, T
  <2>4. CASE at[k - 1].next # n + 1
    <3>1. at[k - 1].next \in 1..n /\ at[k - 1].next >= k
      BY <2>1, <2>4
    <3>2. /\ at[k].next \in (at[k - 1].next + 1)..(n + 1)
          /\ PairsOf(S!Encoded(at[k].out), SubSeq(u, 1, at[k].next - 1))
      BY <1>0, <2>1, <2>2, <3>1, DecodeOnInverts
    <3>3. at[k].next \in (k + 1)..(n + 1)
      BY <3>1, <3>2
    <3>4. QED
      BY <3>2, <3>3 DEF Good, T
  <2>5. QED
    BY <2>3, <2>4
<1> HIDE DEF T
<1>4. 0..n \subseteq T
  BY <1>2, <1>3, InductionTo
<1>5. at[n].next = n + 1 /\ PairsOf(S!Encoded(at[n].out), SubSeq(u, 1, at[n].next - 1))
  <2>1. n \in T
    BY <1>4
  <2>2. QED
    BY <2>1 DEF T
<1>6. SubSeq(u, 1, n) = u
  BY <1>0, SubSeqProperties, SeqEqual
<1>7. PairsOf(S!Encoded(at[n].out), u)
  <2>1. at[n].next - 1 = n
    BY <1>5
  <2>2. QED
    BY <1>5, <1>6, <2>1
<1>8. QED
  BY <1>1, <1>7

\* No high surrogate is followed by a low one.
PairFree(u) == \A k \in DOMAIN u : ~S!PairAt(u, k)

\* The last rune written is not the first half of a pair whose second half is next.
Loose(u, p) ==
    /\ Len(p.out) # 0
    /\ p.out[Len(p.out)] \in S!HighFrom..(S!LowFrom - 1)
    /\ p.next <= Len(u)
    => u[p.next] \notin S!LowFrom..(S!LowEnd - 1)

\* A turn of the loop leaves no pair behind: it writes one rune for a pair, and a
\* high surrogate alone only when no low one follows.
LEMMA DecodeOnPairFree ==
  ASSUME NEW u \in Seq(Wide), NEW p \in Decoding, PairFree(p.out), Loose(u, p)
  PROVE  LET q == S!DecodeOn(u, p) IN PairFree(q.out) /\ Loose(u, q)
<1>0. PICK n \in Nat : n = Len(u)
  BY LenProperties
<1>1. PICK i \in Nat : i = p.next
  BY DEF Decoding
<1>2. PICK out \in Seq(Nat) : out = p.out
  BY DEF Decoding
<1>3. PICK m \in Nat : m = Len(out) /\ DOMAIN out = 1..m
  BY LenProperties
<1>4. /\ \A k \in 1..(m - 1) : /\ out[k] \in S!HighFrom..(S!LowFrom - 1)
                               => out[k + 1] \notin S!LowFrom..(S!LowEnd - 1)
      /\ m # 0 /\ out[m] \in S!HighFrom..(S!LowFrom - 1) /\ i <= n
         => u[i] \notin S!LowFrom..(S!LowEnd - 1)
  <2>1. \A k \in 1..(m - 1) : k \in DOMAIN out /\ k < Len(out)
    BY <1>3
  <2>2. QED
    BY <1>0, <1>1, <1>2, <1>3, <2>1 DEF PairFree, Loose, S!PairAt
<1>5. ASSUME NEW v \in Nat,
             m # 0 /\ out[m] \in S!HighFrom..(S!LowFrom - 1) => v \notin S!LowFrom..(S!LowEnd - 1)
      PROVE  /\ PairFree(Append(out, v))
             /\ Len(Append(out, v)) = m + 1 /\ Append(out, v)[m + 1] = v
  <2> DEFINE w == Append(out, v)
  <2>1. /\ Len(w) = m + 1 /\ DOMAIN w = 1..(m + 1) /\ w[m + 1] = v
        /\ \A k \in 1..m : w[k] = out[k]
    <3>1. /\ Append(out, v) \in Seq(Nat) /\ Len(Append(out, v)) = Len(out) + 1
          /\ \A k \in 1..Len(out) : Append(out, v)[k] = out[k]
          /\ Append(out, v)[Len(out) + 1] = v
      BY AppendProperties
    <3>2. QED
      BY <1>3, <3>1, LenProperties
  <2> HIDE DEF w
  <2>2. ASSUME NEW k \in 1..(m + 1), S!PairAt(w, k) PROVE FALSE
    <3>1. /\ k \in 1..m /\ w[k] \in S!HighFrom..(S!LowFrom - 1)
          /\ w[k + 1] \in S!LowFrom..(S!LowEnd - 1)
      BY <2>1, <2>2 DEF S!PairAt
    <3>2. CASE k = m
      BY <1>5, <2>1, <3>1, <3>2
    <3>3. CASE k # m
      <4>1. k \in 1..(m - 1) /\ k + 1 \in 1..m
        BY <3>1, <3>3
      <4>2. w[k] = out[k] /\ w[k + 1] = out[k + 1]
        BY <2>1, <4>1
      <4>3. QED
        BY <1>4, <3>1, <4>1, <4>2
    <3>4. QED
      BY <3>2, <3>3
  <2>3. PairFree(w)
    BY <2>1, <2>2 DEF PairFree
  <2>4. QED
    BY <2>1, <2>3 DEF w
<1>6. CASE i > n
  <2>1. S!DecodeOn(u, p) = p
    BY <1>0, <1>1, <1>6 DEF S!DecodeOn
  <2>2. QED
    BY <2>1
<1>7. CASE ~(i > n) /\ S!PairAt(u, i)
  <2>1. PICK a \in S!HighFrom..(S!LowFrom - 1), b \in S!LowFrom..(S!LowEnd - 1) :
          a = u[i] /\ b = u[i + 1]
    BY <1>7 DEF S!PairAt
  <2>2. PICK v \in Nat : v = (a - S!HighFrom) * 1024 + (b - S!LowFrom) + 65536 /\ v >= 65536
    <3>1. /\ a \in Nat /\ b \in Nat /\ 55296 <= a /\ 56320 <= b
          /\ S!HighFrom = 55296 /\ S!LowFrom = 56320
      <4>1. S!HighFrom = 55296 /\ S!LowFrom = 56320 /\ S!LowEnd = 57344
        BY DEF S!HighFrom, S!LowFrom, S!LowEnd
      <4>2. a \in 55296..56319 /\ b \in 56320..57343
        BY <4>1
      <4>3. QED
        BY <4>1, <4>2
    <3>2. (a - 55296) * 1024 + (b - 56320) + 65536 \in Nat
      BY <3>1
    <3>3. (a - 55296) * 1024 + (b - 56320) + 65536 >= 65536
      BY <3>1
    <3>4. QED
      BY <3>1, <3>2, <3>3
  <2>3. v \notin S!LowFrom..(S!LowEnd - 1) /\ v \notin S!HighFrom..(S!LowFrom - 1)
    <3>1. S!LowEnd = 57344 /\ S!LowFrom = 56320
      BY DEF S!LowFrom, S!LowEnd
    <3>2. \A x \in S!LowFrom..(S!LowEnd - 1) : x < 65536
      BY <3>1
    <3>3. S!HighFrom = 55296 /\ \A x \in S!HighFrom..(S!LowFrom - 1) : x < 65536
      BY <3>1 DEF S!HighFrom
    <3>4. QED
      BY <2>2, <3>2, <3>3
  <2>4. S!DecodeOn(u, p) = [next |-> i + 2, out |-> Append(out, v)]
    BY <1>0, <1>1, <1>2, <1>7, <2>1, <2>2 DEF S!DecodeOn
  <2>5. PairFree(Append(out, v)) /\ Len(Append(out, v)) = m + 1 /\ Append(out, v)[m + 1] = v
    BY <1>5, <2>3
  <2>6. QED
    BY <2>3, <2>4, <2>5 DEF Loose
<1>8. CASE ~(i > n) /\ ~S!PairAt(u, i)
  <2>1. i \in 1..n
    BY <1>1, <1>8 DEF Decoding
  <2>2. PICK a \in Nat : a = u[i]
    BY <1>0, <2>1, ElementOfSeq, PairOfWide
  <2>3. S!DecodeOn(u, p) = [next |-> i + 1, out |-> Append(out, a)]
    BY <1>0, <1>1, <1>2, <1>8, <2>2 DEF S!DecodeOn
  <2>4. PairFree(Append(out, a)) /\ Len(Append(out, a)) = m + 1 /\ Append(out, a)[m + 1] = a
    BY <1>4, <1>5, <2>1, <2>2
  <2>5. a \in S!HighFrom..(S!LowFrom - 1) /\ i + 1 <= n => u[i + 1] \notin S!LowFrom..(S!LowEnd - 1)
    BY <1>0, <1>8, <2>1, <2>2 DEF S!PairAt
  <2>6. QED
    BY <1>0, <2>3, <2>4, <2>5 DEF Loose
<1>9. QED
  BY <1>6, <1>7, <1>8

\* utf16Decode leaves no surrogate pair.
LEMMA DecodedPairFree ==
  ASSUME NEW all, NEW u \in Seq(Wide), u = S!UntilNul(all)
  PROVE  PairFree(S!utf16Decode(all))
<1>0. PICK n \in Nat : n = Len(u)
  BY LenProperties
<1>1. PICK at \in [0..n -> Decoding] :
        /\ at[0] = [next |-> 1, out |-> <<>>]
        /\ \A k \in 1..n : at[k] = S!DecodeOn(u, at[k - 1])
        /\ S!utf16Decode(all) = at[n].out
  BY <1>0, DecodeSolved
<1> DEFINE T == {k \in 0..n : PairFree(at[k].out) /\ Loose(u, at[k])}
<1>2. 0 \in T
  <2>1. at[0].out = <<>> /\ Len(<<>>) = 0 /\ DOMAIN <<>> = {}
    BY <1>1
  <2>2. QED
    BY <2>1 DEF PairFree, Loose
<1>3. ASSUME NEW k \in 1..n, k - 1 \in T PROVE k \in T
  <2>1. at[k - 1] \in Decoding /\ at[k] = S!DecodeOn(u, at[k - 1])
    BY <1>1
  <2>2. PairFree(at[k - 1].out) /\ Loose(u, at[k - 1])
    BY <1>3
  <2>3. PairFree(at[k].out) /\ Loose(u, at[k])
    BY <2>1, <2>2, DecodeOnPairFree
  <2>4. QED
    BY <2>3
<1> HIDE DEF T
<1>4. 0..n \subseteq T
  BY <1>2, <1>3, InductionTo
<1>5. n \in T
  BY <1>4
<1>6. QED
  BY <1>1, <1>5 DEF T

\* m of the units come before the first that is 0.
EndsAt(units, m) ==
    /\ m \in 0..Len(units)
    /\ \A k \in 1..m : units[k] # 0
    /\ m < Len(units) => units[m + 1] = 0

LEMMA UntilNulIs ==
  ASSUME NEW units \in Seq(Wide)
  PROVE  \E m \in 0..Len(units) : EndsAt(units, m) /\ S!UntilNul(units) = SubSeq(units, 1, m)
<1>0. PICK n \in Nat : n = Len(units)
  BY LenProperties
<1>d. DOMAIN units = 1..n
  BY <1>0, LenProperties
<1> DEFINE nul == {k \in DOMAIN units : units[k] = 0}
           least == CHOOSE k \in nul : \A j \in nul : k <= j
<1>1. nul \in SUBSET Nat /\ \A k \in nul : k \in 1..n /\ units[k] = 0
  BY <1>d
<1>2. \A k \in 1..n : k \notin nul => units[k] # 0
  BY <1>d
<1>3. S!UntilNul(units) = IF nul = {} THEN units ELSE SubSeq(units, 1, least - 1)
  BY Zenon DEF S!UntilNul
<1> HIDE DEF nul
<1>4. CASE nul = {}
  <2>1. SubSeq(units, 1, n) = units
    BY <1>0, SubSeqProperties, SeqEqual
  <2>2. \A k \in 1..n : units[k] # 0
    BY <1>2, <1>4
  <2>3. EndsAt(units, n)
    BY <1>0, <2>2 DEF EndsAt
  <2>4. S!UntilNul(units) = SubSeq(units, 1, n)
    BY <1>3, <1>4, <2>1
  <2>5. n \in 0..Len(units)
    BY <1>0
  <2>6. QED
    BY <2>3, <2>4, <2>5
<1>5. CASE nul # {}
  <2>1. \E k \in nul : \A j \in nul : k <= j
    BY <1>1, <1>5, LeastNat
  <2>2. least \in nul /\ \A j \in nul : least <= j
    BY <2>1, Zenon
  <2> HIDE DEF least
  <2>3. least \in 1..n /\ units[least] = 0
    BY <1>1, <2>2
  <2>4. PICK m \in 0..n : m = least - 1 /\ least = m + 1
    BY <2>3
  <2>5. \A k \in 1..m : units[k] # 0
    <3> TAKE k \in 1..m
    <3>1. k \in 1..n /\ ~(least <= k)
      BY <2>4
    <3>2. k \notin nul
      BY <2>2, <3>1
    <3>3. QED
      BY <1>2, <3>1, <3>2
  <2>6. EndsAt(units, m)
    BY <1>0, <2>3, <2>4, <2>5 DEF EndsAt
  <2>7. S!UntilNul(units) = SubSeq(units, 1, m)
    BY <1>3, <1>5, <2>4
  <2>8. m \in 0..Len(units)
    BY <1>0
  <2>9. QED
    BY <2>6, <2>7, <2>8
<1>6. QED
  BY <1>4, <1>5

\* Two lists with the same units up to there end at the same place.
LEMMA EndsTogether ==
  ASSUME NEW u, NEW v, NEW m \in Nat, NEW k \in Nat, EndsAt(u, m), EndsAt(v, k),
         \A i \in 1..(m + 1) : i <= Len(u) => i <= Len(v) /\ v[i] = u[i],
         Len(u) \in Nat, Len(v) \in Nat, m = Len(u) => m = Len(v) \/ v[m + 1] = 0
  PROVE  k = m
<1>1. ASSUME k < m PROVE FALSE
  <2>1. k + 1 \in 1..m /\ k + 1 \in 1..(m + 1) /\ k + 1 <= Len(u)
    BY <1>1 DEF EndsAt
  <2>2. k + 1 <= Len(v) /\ v[k + 1] = u[k + 1]
    BY <2>1
  <2>3. v[k + 1] = 0
    BY <2>2 DEF EndsAt
  <2>4. u[k + 1] # 0
    BY <2>1 DEF EndsAt
  <2>5. QED
    BY <2>2, <2>3, <2>4
<1>2. ASSUME m < k PROVE FALSE
  <2>1. m + 1 \in 1..k /\ m + 1 \in 1..(m + 1) /\ m + 1 <= Len(v) /\ m # Len(v)
    BY <1>2 DEF EndsAt
  <2>2. v[m + 1] # 0
    BY <2>1 DEF EndsAt
  <2>3. CASE m = Len(u)
    BY <2>1, <2>2, <2>3
  <2>4. CASE m # Len(u)
    <3>1. m < Len(u) /\ m + 1 <= Len(u)
      BY <2>4 DEF EndsAt
    <3>2. u[m + 1] = 0
      BY <3>1 DEF EndsAt
    <3>3. v[m + 1] = u[m + 1]
      BY <2>1, <3>1
    <3>4. QED
      BY <2>2, <3>2, <3>3
  <2>5. QED
    BY <2>3, <2>4
<1>3. QED
  BY <1>1, <1>2

LEMMA TwoOctets ==
  ASSUME NEW x \in Nat, NEW y \in Nat, x < 256, y < 256
  PROVE  x + 256 * y \in Wide
<1>1. x + 256 * y \in Nat /\ x + 256 * y < 65536
  OBVIOUS
<1>2. QED
  BY <1>1 DEF Wide

LEMMA OctetIsSmall == \A x \in 0..255 : x \in Nat /\ x < 256
OBVIOUS

LEMMA OctetOfString ==
  ASSUME str \in Seq(0..255), NEW i \in Nat
  PROVE  /\ S!Octet(i) \in Nat /\ S!Octet(i) < 256
         /\ i < Len(str) => S!Octet(i) = str[i + 1]
         /\ i >= Len(str) => S!Octet(i) = 0
<1>1. Len(str) \in Nat
  BY LenProperties
<1>2. CASE i < Len(str)
  <2>1. i + 1 \in 1..Len(str)
    BY <1>1, <1>2
  <2>2. str[i + 1] \in 0..255
    BY <2>1, ElementOfSeq
  <2>3. S!Octet(i) = str[i + 1]
    BY <1>2 DEF S!Octet
  <2>4. S!Octet(i) \in 0..255
    BY <2>2, <2>3
  <2>5. S!Octet(i) \in Nat /\ S!Octet(i) < 256
    BY <2>4, OctetIsSmall
  <2>6. QED
    BY <1>1, <1>2, <2>3, <2>5
<1>3. CASE ~(i < Len(str))
  <2>1. S!Octet(i) = 0
    BY <1>3 DEF S!Octet
  <2>2. QED
    BY <1>1, <1>3, <2>1
<1>4. QED
  BY <1>2, <1>3

LEMMA UnitsOfString ==
  ASSUME str \in Seq(0..255), NEW length \in Nat
  PROVE  /\ S!Units(length) \in Seq(Wide) /\ Len(S!Units(length)) = S!NumUnits(length)
         /\ S!NumUnits(length) \in Nat
         /\ \A k \in 1..S!NumUnits(length) :
              S!Units(length)[k] = S!Octet(2 * k) + 256 * S!Octet(2 * k + 1)
<1>1. PICK n \in Nat : n = S!NumUnits(length)
  <2>1. S!NumUnits(length) \in Nat
    BY DEF S!NumUnits
  <2>2. QED
    BY <2>1
<1>2. S!Units(length) = [k \in 1..n |-> S!Octet(2 * k) + 256 * S!Octet(2 * k + 1)]
  BY <1>1 DEF S!Units
<1>3. ASSUME NEW k \in 1..n PROVE S!Octet(2 * k) + 256 * S!Octet(2 * k + 1) \in Wide
  <2>1. 2 * k \in Nat /\ 2 * k + 1 \in Nat
    OBVIOUS
  <2>2. S!Octet(2 * k) \in Nat /\ S!Octet(2 * k) < 256
    BY <2>1, OctetOfString
  <2>3. S!Octet(2 * k + 1) \in Nat /\ S!Octet(2 * k + 1) < 256
    BY <2>1, OctetOfString
  <2>4. QED
    BY <2>2, <2>3, TwoOctets
<1>4. S!Units(length) \in [1..n -> Wide]
  BY <1>2, <1>3
<1>5. S!Units(length) \in Seq(Wide) /\ Len(S!Units(length)) = n
  <2>1. PICK u \in [1..n -> Wide] : u = S!Units(length)
    BY <1>4
  <2>2. u \in Seq(Wide) /\ Len(u) = n
    OBVIOUS
  <2>3. QED
    BY <2>1, <2>2
<1>6. \A k \in 1..n : S!Units(length)[k] = S!Octet(2 * k) + 256 * S!Octet(2 * k + 1)
  BY <1>2
<1>7. QED
  BY <1>1, <1>5, <1>6

\* The bytes that arrived behind the two of the header.
Arrivals == SubSeq(str, 3, S!Lesser(str[1], Len(str)))

LEMMA ArrivalsAre ==
  ASSUME str \in Seq(0..255), Len(str) >= 2
  PROVE  /\ S!Arrived \in Nat /\ S!Arrived = S!Lesser(str[1], Len(str))
         /\ Arrivals \in Seq(Nat) /\ Len(Arrivals) \in Nat
         /\ Len(Arrivals) = IF S!Arrived < 2 THEN 0 ELSE S!Arrived - 2
         /\ \A i \in 1..Len(Arrivals) : Arrivals[i] = S!Octet(i + 1) /\ Arrivals[i] = str[i + 2]
         /\ S!NumUnits(S!Arrived) = Len(Arrivals) \div 2
<1>1. PICK n \in Nat : n = Len(str) /\ n >= 2
  BY LenProperties
<1>2. S!Octet(0) = str[1] /\ str[1] \in Nat
  <2>1. S!Octet(0) = str[0 + 1] /\ S!Octet(0) \in Nat
    BY <1>1, OctetOfString
  <2>2. QED
    BY <2>1
<1>3. PICK a \in 0..n : a = S!Arrived /\ a = S!Lesser(str[1], Len(str))
  BY <1>1, <1>2 DEF S!Arrived, S!Lesser
<1>4. str \in Seq(Nat)
  <2>1. 0..255 \subseteq Nat
    OBVIOUS
  <2>2. QED
    BY <2>1, SeqMonotonic
<1>5. /\ SubSeq(str, 3, a) \in Seq(Nat)
      /\ Len(SubSeq(str, 3, a)) = IF 3 <= a THEN a - 3 + 1 ELSE 0
      /\ \A i \in 1..(a - 3 + 1) : SubSeq(str, 3, a)[i] = str[3 + i - 1]
  <2>1. \A i \in 3..a : i \in 1..Len(str)
    BY <1>1
  <2>2. QED
    BY <1>4, <2>1, SubSeqProperties
<1> DEFINE c == Arrivals
<1>6. c = SubSeq(str, 3, a)
  BY <1>3 DEF Arrivals
<1> HIDE DEF c
<1>7. c \in Seq(Nat) /\ Len(c) = IF a < 2 THEN 0 ELSE a - 2
  BY <1>5, <1>6
<1>8. ASSUME NEW i \in 1..Len(c) PROVE c[i] = S!Octet(i + 1) /\ c[i] = str[i + 2]
  <2>1. i \in 1..(a - 3 + 1) /\ 3 + i - 1 = i + 2 /\ i + 1 \in Nat /\ i + 1 < n /\ (i + 1) + 1 = i + 2
    BY <1>7
  <2>2. c[i] = str[i + 2]
    BY <1>5, <1>6, <2>1
  <2>3. S!Octet(i + 1) = str[(i + 1) + 1]
    BY <1>1, <2>1, OctetOfString
  <2>4. QED
    BY <2>1, <2>2, <2>3
<1>9. S!NumUnits(a) = Len(c) \div 2
  BY <1>7 DEF S!NumUnits
<1>10. QED
  BY <1>3, <1>7, <1>8, <1>9 DEF c

LEMMA PrefixIs ==
  ASSUME NEW V, NEW s, NEW n \in Nat, \A i \in 1..n : s[i] \in V
  PROVE  /\ SubSeq(s, 1, n) \in Seq(V) /\ Len(SubSeq(s, 1, n)) = n
         /\ \A i \in 1..n : SubSeq(s, 1, n)[i] = s[i]
<1>1. /\ SubSeq(s, 1, n) \in Seq(V) /\ Len(SubSeq(s, 1, n)) = IF 1 <= n THEN n - 1 + 1 ELSE 0
      /\ \A i \in 1..(n - 1 + 1) : SubSeq(s, 1, n)[i] = s[1 + i - 1]
  BY SubSeqProperties
<1>2. PICK t : t = SubSeq(s, 1, n)
  OBVIOUS
<1>3. t \in Seq(V) /\ Len(t) = n /\ \A i \in 1..n : t[i] = s[i]
  BY <1>1, <1>2
<1>4. QED
  BY <1>2, <1>3

LEMMA PrefixAt ==
  ASSUME NEW s, NEW n \in Nat
  PROVE  \A i \in 1..n : SubSeq(s, 1, n)[i] = s[i]
<1> DEFINE V == {s[i] : i \in 1..n}
<1>1. \A i \in 1..n : s[i] \in V
  OBVIOUS
<1> HIDE DEF V
<1>2. QED
  BY <1>1, PrefixIs

LEMMA OctetsOfUnit ==
  ASSUME NEW x \in Nat, NEW y \in Nat, x < 256, y < 256
  PROVE  /\ (x + 256 * y) % 256 = x /\ (x + 256 * y) \div 256 = y
         /\ x + 256 * y = 0 <=> x = 0 /\ y = 0
OBVIOUS

\* The units of what arrived are its bytes two by two.
LEMMA UnitsArrived ==
  ASSUME str \in Seq(0..255), Len(str) >= 2,
         NEW k \in 1..(Len(Arrivals) \div 2), NEW u, u = S!Units(S!Arrived)[k]
  PROVE  /\ Arrivals[2 * k - 1] = u % 256 /\ Arrivals[2 * k] = u \div 256
         /\ u = 0 <=> Arrivals[2 * k - 1] = 0 /\ Arrivals[2 * k] = 0
<1>1. /\ Len(Arrivals) \in Nat /\ S!Arrived \in Nat /\ S!NumUnits(S!Arrived) = Len(Arrivals) \div 2
      /\ \A i \in 1..Len(Arrivals) : Arrivals[i] = S!Octet(i + 1)
  BY ArrivalsAre
<1>2. k \in Nat /\ 2 * k - 1 \in 1..Len(Arrivals) /\ 2 * k \in 1..Len(Arrivals) /\ (2 * k - 1) + 1 = 2 * k
  BY <1>1
<1>3. Arrivals[2 * k - 1] = S!Octet(2 * k) /\ Arrivals[2 * k] = S!Octet(2 * k + 1)
  BY <1>1, <1>2
<1>4. 2 * k \in Nat /\ 2 * k + 1 \in Nat
  BY <1>2
<1>5. S!Octet(2 * k) \in Nat /\ S!Octet(2 * k) < 256
  BY <1>4, OctetOfString
<1>6. S!Octet(2 * k + 1) \in Nat /\ S!Octet(2 * k + 1) < 256
  BY <1>4, OctetOfString
<1>7. u = S!Octet(2 * k) + 256 * S!Octet(2 * k + 1)
  <2>1. k \in 1..S!NumUnits(S!Arrived)
    BY <1>1
  <2>2. QED
    BY <1>1, <2>1, UnitsOfString
<1>8. QED
  <2>1. PICK x \in Nat, y \in Nat :
          /\ x < 256 /\ y < 256 /\ u = x + 256 * y
          /\ Arrivals[2 * k - 1] = x /\ Arrivals[2 * k] = y
    BY <1>3, <1>5, <1>6, <1>7
  <2>2. u % 256 = x /\ u \div 256 = y /\ (u = 0 <=> x = 0 /\ y = 0)
    BY <2>1, OctetsOfUnit
  <2>3. QED
    BY <2>1, <2>2

LEMMA BodyIs ==
  ASSUME str \in Seq(0..255), Len(str) >= 2,
         NEW m \in Nat, EndsAt(S!Units(S!Arrived), m)
  PROVE  /\ m <= Len(Arrivals) \div 2
         /\ S!Body = IF m < Len(Arrivals) \div 2 THEN SubSeq(Arrivals, 1, 2 * m) ELSE Arrivals
         /\ S!Whole = SubSeq(Arrivals, 1, 2 * m)
<1> DEFINE bytes == Arrivals
           units == S!Units(S!Arrived)
           q == Len(bytes) \div 2
           nul == {k \in 0..(Len(bytes) \div 2 - 1) : bytes[2 * k + 1] = 0 /\ bytes[2 * k + 2] = 0}
           least == CHOOSE k \in nul : \A j \in nul : k <= j
<1>1. S!Body = IF nul = {} THEN bytes ELSE SubSeq(bytes, 1, 2 * least)
  BY Zenon DEF S!Body, Arrivals
<1>2. bytes \in Seq(Nat) /\ Len(bytes) \in Nat /\ S!Arrived \in Nat /\ S!NumUnits(S!Arrived) = Len(bytes) \div 2
  BY ArrivalsAre
<1>3. Len(units) = Len(bytes) \div 2
  BY <1>2, UnitsOfString
<1>4. ASSUME NEW k \in 0..(Len(bytes) \div 2 - 1) PROVE k \in nul <=> units[k + 1] = 0
  <2>1. k + 1 \in 1..(Len(bytes) \div 2) /\ 2 * (k + 1) - 1 = 2 * k + 1 /\ 2 * (k + 1) = 2 * k + 2
    BY <1>2
  <2>2. units[k + 1] = 0 <=> bytes[2 * (k + 1) - 1] = 0 /\ bytes[2 * (k + 1)] = 0
    BY <2>1, UnitsArrived
  <2>3. QED
    BY <2>1, <2>2
<1>5. \A k \in nul : k \in 0..(Len(bytes) \div 2 - 1)
  OBVIOUS
<1>6. /\ m \in 0..Len(units) /\ \A k \in 1..m : units[k] # 0
      /\ m < Len(units) => units[m + 1] = 0
  BY DEF EndsAt
<1>7. PICK n \in Nat : n = Len(bytes) \div 2
  BY <1>2
<1>8. PICK len \in Nat : len = Len(bytes)
  BY <1>2
<1> HIDE DEF bytes, units, nul
<1>9. m <= n /\ \A k \in nul : k \in Nat /\ m <= k /\ k < n
  <2>1. m <= n
    BY <1>3, <1>6, <1>7
  <2>2. ASSUME NEW k \in nul PROVE k \in Nat /\ m <= k /\ k < n
    <3>1. k \in 0..(Len(bytes) \div 2 - 1)
      BY <1>5
    <3>2. k \in Nat /\ k < n
      BY <1>7, <3>1
    <3>3. units[k + 1] = 0
      BY <1>4, <3>1
    <3>4. k + 1 \notin 1..m
      BY <1>6, <3>3
    <3>5. QED
      BY <3>2, <3>4
  <2>3. QED
    BY <2>1, <2>2
<1>10. CASE m < n
  <2>1. m \in nul
    <3>1. m \in 0..(Len(bytes) \div 2 - 1)
      BY <1>7, <1>10
    <3>2. units[m + 1] = 0
      BY <1>3, <1>6, <1>7, <1>10
    <3>3. QED
      BY <1>4, <3>1, <3>2
  <2>2. \E k \in nul : \A j \in nul : k <= j
    BY <1>9, <2>1
  <2>3. least \in nul /\ \A j \in nul : least <= j
    BY <2>2, Zenon
  <2> HIDE DEF least
  <2>4. least = m
    BY <1>9, <2>1, <2>3
  <2>5. S!Body = SubSeq(bytes, 1, 2 * m)
    BY <1>1, <2>1, <2>4
  <2>6. 2 * m <= len
    BY <1>7, <1>8, <1>10
  <2>7. PICK w \in Seq(Nat) : w = SubSeq(bytes, 1, 2 * m) /\ Len(w) = 2 * m
    <3>1. \A i \in 1..(2 * m) : bytes[i] \in Nat
      <4>1. \A i \in 1..(2 * m) : i \in 1..Len(bytes)
        BY <1>8, <2>6
      <4>2. QED
        BY <1>2, <4>1, ElementOfSeq
    <3>2. 2 * m \in Nat
      OBVIOUS
    <3>3. SubSeq(bytes, 1, 2 * m) \in Seq(Nat) /\ Len(SubSeq(bytes, 1, 2 * m)) = 2 * m
      BY <3>1, <3>2, PrefixIs, Zenon
    <3>4. QED
      BY <3>3
  <2>8. S!Whole = SubSeq(w, 1, 2 * ((2 * m) \div 2))
    BY <2>5, <2>7 DEF S!Whole
  <2>9. 2 * ((2 * m) \div 2) = 2 * m
    OBVIOUS
  <2>10. SubSeq(w, 1, 2 * m) = w
    BY <2>7, SubSeqProperties, SeqEqual
  <2>11. S!Whole = w
    BY <2>8, <2>9, <2>10
  <2>12. QED
    BY <1>7, <1>9, <1>10, <2>5, <2>7, <2>11 DEF bytes
<1>11. CASE ~(m < n)
  <2>1. nul = {}
    BY <1>9, <1>11
  <2>2. S!Body = bytes
    BY <1>1, <2>1
  <2>3. m = n
    BY <1>9, <1>11
  <2>4. S!Whole = SubSeq(bytes, 1, 2 * n)
    BY <1>7, <2>2 DEF S!Whole
  <2>5. QED
    BY <1>7, <1>9, <1>11, <2>2, <2>3, <2>4 DEF bytes
<1>12. QED
  BY <1>10, <1>11

\* What the decoder reads up to the first NUL is what the body holds.
LEMMA WholeIs ==
  ASSUME str \in Seq(0..255), Len(str) >= 2
  PROVE  /\ S!UntilNul(S!Units(S!Arrived)) \in Seq(Wide)
         /\ PairsOf(S!Whole, S!UntilNul(S!Units(S!Arrived)))
<1> DEFINE units == S!Units(S!Arrived)
<1>1. /\ Arrivals \in Seq(Nat) /\ Len(Arrivals) \in Nat /\ S!Arrived \in Nat
      /\ S!NumUnits(S!Arrived) = Len(Arrivals) \div 2
  BY ArrivalsAre
<1>2. units \in Seq(Wide) /\ Len(units) = Len(Arrivals) \div 2
  BY <1>1, UnitsOfString
<1>3. PICK m \in 0..Len(units) : EndsAt(units, m) /\ S!UntilNul(units) = SubSeq(units, 1, m)
  BY <1>2, UntilNulIs
<1>4. m \in Nat /\ m <= Len(Arrivals) \div 2
  BY <1>1, <1>2
<1>5. S!Whole = SubSeq(Arrivals, 1, 2 * m)
  BY <1>3, <1>4, BodyIs
<1>6. \A k \in 1..m : Arrivals[2 * k - 1] = units[k] % 256 /\ Arrivals[2 * k] = units[k] \div 256
  <2> TAKE k \in 1..m
  <2>1. k \in 1..(Len(Arrivals) \div 2)
    BY <1>1, <1>4
  <2>2. QED
    BY <2>1, UnitsArrived
<1> HIDE DEF units
<1>7. PICK w \in Seq(Nat) : /\ w = S!Whole /\ Len(w) = 2 * m
                            /\ \A i \in 1..(2 * m) : w[i] = Arrivals[i]
  <2>1. \A i \in 1..(2 * m) : Arrivals[i] \in Nat
    <3>1. \A i \in 1..(2 * m) : i \in 1..Len(Arrivals)
      BY <1>1, <1>4
    <3>2. QED
      BY <1>1, <3>1, ElementOfSeq
  <2>2. 2 * m \in Nat
    BY <1>4
  <2>3. /\ SubSeq(Arrivals, 1, 2 * m) \in Seq(Nat) /\ Len(SubSeq(Arrivals, 1, 2 * m)) = 2 * m
        /\ \A i \in 1..(2 * m) : SubSeq(Arrivals, 1, 2 * m)[i] = Arrivals[i]
    <3>1. SubSeq(Arrivals, 1, 2 * m) \in Seq(Nat)
      BY <2>1, <2>2, PrefixIs, Zenon
    <3>2. Len(SubSeq(Arrivals, 1, 2 * m)) = 2 * m
      BY <2>1, <2>2, PrefixIs, Zenon
    <3>3. \A i \in 1..(2 * m) : SubSeq(Arrivals, 1, 2 * m)[i] = Arrivals[i]
      BY <2>2, PrefixAt, Zenon
    <3>4. QED
      BY <3>1, <3>2, <3>3
  <2>4. QED
    BY <1>5, <2>3
<1>8. PICK u \in Seq(Wide) : /\ u = S!UntilNul(units) /\ Len(u) = m
                             /\ \A i \in 1..m : u[i] = units[i]
  <2>1. \A i \in 1..m : units[i] \in Wide
    BY <1>2, <1>4, ElementOfSeq
  <2>2. QED
    <3>m. m \in Nat
      BY <1>4
    <3>1. /\ SubSeq(units, 1, m) \in Seq(Wide) /\ Len(SubSeq(units, 1, m)) = m
          /\ \A i \in 1..m : SubSeq(units, 1, m)[i] = units[i]
      <4>1. SubSeq(units, 1, m) \in Seq(Wide)
        BY <2>1, <3>m, PrefixIs, Zenon
      <4>2. Len(SubSeq(units, 1, m)) = m
        BY <2>1, <3>m, PrefixIs, Zenon
      <4>3. \A i \in 1..m : SubSeq(units, 1, m)[i] = units[i]
        BY <3>m, PrefixAt, Zenon
      <4>4. QED
        BY <4>1, <4>2, <4>3
    <3>2. QED
      BY <1>3, <3>1
<1>9. ASSUME NEW k \in 1..m PROVE w[2 * k - 1] = u[k] % 256 /\ w[2 * k] = u[k] \div 256
  <2>1. 2 * k - 1 \in 1..(2 * m) /\ 2 * k \in 1..(2 * m)
    BY <1>4
  <2>2. w[2 * k - 1] = Arrivals[2 * k - 1] /\ w[2 * k] = Arrivals[2 * k]
    BY <1>7, <2>1
  <2>3. u[k] = units[k]
    BY <1>8
  <2>4. QED
    BY <1>6, <2>2, <2>3
<1>10. PairsOf(w, u)
  BY <1>7, <1>8, <1>9 DEF PairsOf
<1>11. QED
  BY <1>7, <1>8, <1>10 DEF units

\* Linux reads on behind a short answer. The zeros there end the text where the
\* answer ends, but when half a unit arrived, which they complete.
LEMMA ReadBehind ==
  ASSUME str \in Seq(0..255), Len(str) >= 2, S!Octet(0) > Len(str),
         NEW u, u = S!UntilNul(S!Units(S!Octet(0)))
  PROVE  /\ u \in Seq(Wide)
         /\ \/ PairsOf(S!Whole, u)
            \/ S!Body # S!Whole /\ PairsOf(Append(S!Body, 0), u)
<1> DEFINE have == S!Units(S!Arrived)
           more == S!Units(S!Octet(0))
<1>1. PICK n \in Nat, c \in Nat : n = Len(str) /\ c = S!Octet(0) /\ n >= 2 /\ c > n
  <2>1. Len(str) \in Nat
    BY LenProperties
  <2>2. 0 \in Nat
    OBVIOUS
  <2>3. S!Octet(0) \in Nat
    BY <2>2, OctetOfString
  <2>4. QED
    BY <2>1, <2>3
<1>2. S!Arrived = n
  BY <1>1 DEF S!Arrived, S!Lesser
<1>3. PICK q \in Nat : q = (n - 2) \div 2 /\ S!NumUnits(n) = q
  BY <1>1 DEF S!NumUnits
<1>4. PICK r \in Nat : r = (c - 2) \div 2 /\ S!NumUnits(c) = r
  <2>1. ~(c < 2) /\ c - 2 \in Nat
    BY <1>1
  <2>2. (c - 2) \div 2 \in Nat
    BY <2>1
  <2>3. S!NumUnits(c) = (c - 2) \div 2
    BY <2>1 DEF S!NumUnits
  <2>4. QED
    BY <2>2, <2>3
<1>5. q <= r
  BY <1>1, <1>3, <1>4
<1>6. have \in Seq(Wide) /\ Len(have) = q /\ \A k \in 1..q : have[k] = S!Octet(2 * k) + 256 * S!Octet(2 * k + 1)
  BY <1>1, <1>2, <1>3, UnitsOfString
<1>7. more \in Seq(Wide) /\ Len(more) = r /\ \A k \in 1..r : more[k] = S!Octet(2 * k) + 256 * S!Octet(2 * k + 1)
  BY <1>1, <1>4, UnitsOfString
<1>8. \A k \in 1..q : k <= r /\ more[k] = have[k]
  BY <1>5, <1>6, <1>7
<1>9. PICK m \in 0..q : EndsAt(have, m) /\ S!UntilNul(have) = SubSeq(have, 1, m)
  BY <1>6, UntilNulIs
<1>10. PICK k \in 0..r : EndsAt(more, k) /\ u = SubSeq(more, 1, k)
  BY <1>7, UntilNulIs
<1>11. PairsOf(S!Whole, S!UntilNul(have))
  BY WholeIs
<1>w. PICK w : /\ w = S!Whole /\ w \in Seq(Nat) /\ Len(w) = 2 * m
               /\ \A i \in 1..m : w[2 * i - 1] = have[i] % 256 /\ w[2 * i] = have[i] \div 256
  <2> HIDE DEF have
  <2>1. \A i \in 1..m : have[i] \in Wide
    BY <1>6, <1>9, ElementOfSeq
  <2>2. /\ Len(SubSeq(have, 1, m)) = m
        /\ \A i \in 1..m : SubSeq(have, 1, m)[i] = have[i]
    BY <1>9, <2>1, PrefixIs
  <2>3. PICK t : t = SubSeq(have, 1, m) /\ Len(t) = m /\ \A i \in 1..m : t[i] = have[i]
    BY <2>2
  <2>4. PICK w : w = S!Whole /\ PairsOf(w, t)
    BY <1>9, <1>11, <2>3
  <2>5. w \in Seq(Nat) /\ Len(w) = 2 * m
    BY <2>3, <2>4 DEF PairsOf
  <2>6. \A i \in 1..m : w[2 * i - 1] = have[i] % 256 /\ w[2 * i] = have[i] \div 256
    <3>1. \A i \in 1..Len(t) : w[2 * i - 1] = t[i] % 256 /\ w[2 * i] = t[i] \div 256
      BY <2>4 DEF PairsOf
    <3> TAKE i \in 1..m
    <3>2. t[i] = have[i] /\ i \in 1..Len(t)
      BY <2>3
    <3>3. w[2 * i - 1] = t[i] % 256 /\ w[2 * i] = t[i] \div 256
      BY <3>1, <3>2
    <3>4. QED
      BY <3>2, <3>3
  <2>7. QED
    BY <2>4, <2>5, <2>6
<1> HIDE DEF have, more
<1>12. /\ u \in Seq(Wide) /\ Len(u) = k /\ \A i \in 1..k : u[i] = more[i]
  <2>1. \A i \in 1..k : more[i] \in Wide
    BY <1>7, <1>10, ElementOfSeq
  <2>2. k \in Nat
    BY <1>10
  <2>3. QED
    BY <1>10, <2>1, <2>2, PrefixIs
<1>13. ASSUME k = m PROVE PairsOf(w, u)
  <2>1. \A i \in 1..m : u[i] = have[i]
    <3> TAKE i \in 1..m
    <3>1. i \in 1..q /\ i \in 1..k
      BY <1>9, <1>13
    <3>2. QED
      BY <1>8, <1>12, <3>1
  <2>2. Len(u) = m /\ Len(w) = 2 * Len(u) /\ w \in Seq(Nat)
    BY <1>w, <1>12, <1>13
  <2>3. \A i \in 1..m : w[2 * i - 1] = u[i] % 256 /\ w[2 * i] = u[i] \div 256
    BY <1>w, <2>1
  <2>4. QED
    BY <2>2, <2>3 DEF PairsOf
<1>14. CASE m < q \/ q = r \/ more[q + 1] = 0
  <2>1. \A i \in 1..(m + 1) : i <= q => i <= r /\ more[i] = have[i]
    <3> TAKE i \in 1..(m + 1)
    <3>1. i <= q => i \in 1..q
      OBVIOUS
    <3>2. QED
      BY <1>8, <3>1
  <2>2. m = q => m = r \/ more[m + 1] = 0
    BY <1>14
  <2>3. m \in Nat /\ k \in Nat
    OBVIOUS
  <2>4. k = m
    <3>1. \A i \in 1..(m + 1) : i <= Len(have) => i <= Len(more) /\ more[i] = have[i]
      BY <1>6, <1>7, <2>1
    <3>2. m = Len(have) => m = Len(more) \/ more[m + 1] = 0
      BY <1>6, <1>7, <2>2
    <3>3. Len(have) \in Nat /\ Len(more) \in Nat
      BY <1>6, <1>7
    <3>4. EndsAt(have, m) /\ EndsAt(more, k)
      BY <1>9, <1>10
    <3>5. QED
      BY <2>3, <3>1, <3>2, <3>3, <3>4, EndsTogether
  <2>5. QED
    BY <1>12, <1>13, <1>w, <2>4
<1>15. CASE m = q /\ q < r /\ more[q + 1] # 0
  <2>1. q + 1 \in 1..r /\ 2 * (q + 1) = 2 * q + 2 /\ 2 * q + 2 \in Nat /\ 2 * q + 3 \in Nat
        /\ 2 * (q + 1) + 1 = 2 * q + 3
    BY <1>15
  <2>2. more[q + 1] = S!Octet(2 * q + 2) + 256 * S!Octet(2 * q + 3)
    BY <1>7, <2>1
  <2>3. 2 * q + 3 >= n
    BY <1>1, <1>3
  <2>4. S!Octet(2 * q + 3) = 0
    BY <1>1, <2>1, <2>3, OctetOfString
  <2>5. PICK s \in Nat : s = S!Octet(2 * q + 2) /\ s < 256
    BY <2>1, OctetOfString
  <2>6. more[q + 1] = s /\ s # 0
    BY <1>15, <2>2, <2>4, <2>5
  <2>7. 2 * q + 2 < n
    <3>1. 2 * q + 2 >= n => S!Octet(2 * q + 2) = 0
      BY <1>1, <2>1, OctetOfString
    <3>2. QED
      BY <2>5, <2>6, <3>1
  <2>8. n = 2 * q + 3
    BY <1>1, <1>3, <2>3, <2>7
  <2>9. q + 1 < r => more[q + 2] = 0
    <3> SUFFICES ASSUME q + 1 < r PROVE more[q + 2] = 0
      OBVIOUS
    <3>1. q + 2 \in 1..r /\ 2 * (q + 2) \in Nat /\ 2 * (q + 2) + 1 \in Nat
          /\ 2 * (q + 2) >= n /\ 2 * (q + 2) + 1 >= n
      BY <2>8
    <3>2. more[q + 2] = S!Octet(2 * (q + 2)) + 256 * S!Octet(2 * (q + 2) + 1)
      BY <1>7, <3>1
    <3>3. S!Octet(2 * (q + 2)) = 0
      BY <1>1, <3>1, OctetOfString
    <3>4. S!Octet(2 * (q + 2) + 1) = 0
      BY <1>1, <3>1, OctetOfString
    <3>5. QED
      BY <3>2, <3>3, <3>4
  <2>10. EndsAt(more, q + 1)
    <3>1. \A i \in 1..(q + 1) : more[i] # 0
      <4> TAKE i \in 1..(q + 1)
      <4>1. CASE i = q + 1
        BY <2>6, <4>1
      <4>2. CASE i # q + 1
        <5>1. i \in 1..q /\ i \in 1..m
          BY <1>15, <4>2
        <5>2. have[i] # 0
          BY <1>9, <5>1 DEF EndsAt
        <5>3. QED
          BY <1>8, <5>1, <5>2
      <4>3. QED
        BY <4>1, <4>2
    <3>2. q + 1 \in 0..Len(more) /\ (q + 1) + 1 = q + 2
      BY <1>7, <2>1
    <3>3. QED
      BY <1>7, <2>9, <3>1, <3>2 DEF EndsAt
  <2>11. k = q + 1
    <3>1. q + 1 \in Nat /\ k \in Nat /\ Len(more) \in Nat
      BY <1>7
    <3>2. \A i \in 1..((q + 1) + 1) : i <= Len(more) => i <= Len(more) /\ more[i] = more[i]
      OBVIOUS
    <3>3. q + 1 = Len(more) => q + 1 = Len(more) \/ more[(q + 1) + 1] = 0
      OBVIOUS
    <3>4. QED
      BY <1>10, <2>10, <3>1, <3>2, <3>3, EndsTogether
  <2>12. /\ Arrivals \in Seq(Nat) /\ Len(Arrivals) = 2 * q + 1
         /\ \A i \in 1..(2 * q + 1) : Arrivals[i] = S!Octet(i + 1)
    <3>1. (IF n < 2 THEN 0 ELSE n - 2) = 2 * q + 1
      BY <2>8
    <3>2. QED
      BY <1>2, <3>1, ArrivalsAre
  <2>13. S!Body = Arrivals /\ S!Whole = SubSeq(Arrivals, 1, 2 * m)
    <3>1. ~(m < (2 * q + 1) \div 2) /\ m \in Nat
      BY <1>15
    <3>2. QED
      BY <1>9, <2>12, <3>1, BodyIs DEF have
  <2>14. PICK b \in Seq(Nat) : b = S!Body /\ Len(b) = 2 * q + 1 /\ b[2 * q + 1] = s
    <3>1. 2 * q + 1 \in 1..(2 * q + 1) /\ (2 * q + 1) + 1 = 2 * q + 2
      OBVIOUS
    <3>2. QED
      BY <2>5, <2>12, <2>13, <3>1
  <2>15. \A i \in 1..(2 * q) : w[i] = b[i]
    <3>1. \A i \in 1..(2 * m) : Arrivals[i] \in Nat
      <4>1. \A i \in 1..(2 * m) : i \in 1..Len(Arrivals)
        BY <1>15, <2>12
      <4>2. QED
        BY <2>12, <4>1, ElementOfSeq
    <3>2. 2 * m \in Nat
      OBVIOUS
    <3>3. \A i \in 1..(2 * m) : SubSeq(Arrivals, 1, 2 * m)[i] = Arrivals[i]
      BY <3>1, <3>2, PrefixIs
    <3>4. QED
      BY <1>15, <1>w, <2>13, <2>14, <3>3
  <2>16. PICK z : /\ z = Append(b, 0) /\ z \in Seq(Nat) /\ Len(z) = 2 * q + 2 /\ z[2 * q + 2] = 0
                  /\ \A i \in 1..(2 * q + 1) : z[i] = b[i]
    <3>1. 0 \in Nat /\ (2 * q + 1) + 1 = 2 * q + 2
      OBVIOUS
    <3>2. PICK z : z = Append(b, 0)
      OBVIOUS
    <3>3. /\ z \in Seq(Nat) /\ Len(z) = (2 * q + 1) + 1 /\ z[(2 * q + 1) + 1] = 0
          /\ \A i \in 1..(2 * q + 1) : z[i] = b[i]
      BY <2>14, <3>1, <3>2, AppendProperties
    <3>4. QED
      BY <3>1, <3>2, <3>3
  <2>17. ASSUME NEW i \in 1..k PROVE z[2 * i - 1] = u[i] % 256 /\ z[2 * i] = u[i] \div 256
    <3>1. CASE i = q + 1
      <4>1. u[i] = s /\ s % 256 = s /\ s \div 256 = 0
        <5>1. s % 256 = s /\ s \div 256 = 0
          BY <2>5
        <5>2. u[i] = s
          BY <1>12, <2>6, <3>1
        <5>3. QED
          BY <5>1, <5>2
      <4>2. 2 * i - 1 = 2 * q + 1 /\ 2 * i = 2 * q + 2 /\ 2 * q + 1 \in 1..(2 * q + 1)
        BY <3>1
      <4>3. z[2 * q + 1] = s
        BY <2>14, <2>16, <4>2
      <4>4. QED
        BY <2>16, <4>1, <4>2, <4>3
    <3>2. CASE i # q + 1
      <4>1. i \in 1..q /\ i \in 1..m /\ 2 * i - 1 \in 1..(2 * q) /\ 2 * i \in 1..(2 * q)
            /\ 2 * i - 1 \in 1..(2 * q + 1) /\ 2 * i \in 1..(2 * q + 1)
        BY <1>15, <2>11, <3>2
      <4>2. z[2 * i - 1] = w[2 * i - 1] /\ z[2 * i] = w[2 * i]
        BY <2>15, <2>16, <4>1
      <4>3. u[i] = have[i]
        BY <1>8, <1>12, <4>1
      <4>4. QED
        BY <1>w, <4>1, <4>2, <4>3
    <3>3. QED
      BY <3>1, <3>2
  <2>18. PairsOf(z, u)
    <3>1. Len(u) = k /\ Len(z) = 2 * Len(u) /\ z \in Seq(Nat)
      <4>1. Len(u) = q + 1 /\ 2 * (q + 1) = 2 * q + 2
        BY <1>12, <2>11
      <4>2. Len(z) = 2 * Len(u)
        BY <2>16, <4>1
      <4>3. QED
        BY <1>12, <2>16, <4>2
    <3>2. QED
      BY <2>17, <3>1 DEF PairsOf
  <2>19. b # w
    BY <1>15, <1>w, <2>14
  <2>20. QED
    BY <1>12, <1>w, <2>14, <2>16, <2>18, <2>19
<1>16. QED
  BY <1>5, <1>14, <1>15

\* What StringDescriptor returned, for the string of the device and the index.
StrInv ==
    /\ str \in StrBlobs /\ strOs \in S!Decoders /\ strIndex \in {0, 1}
    /\ runes = S!NotRead \/ runes = S!StringDescriptor(strIndex)

LEMMA InitStr == S!StrInit => StrInv
BY DEF S!StrInit, StrInv

LEMMA NextStr == StrInv /\ S!StrNext => StrInv'
<1> SUFFICES ASSUME StrInv, S!StrNext PROVE StrInv'
  OBVIOUS
<1>1. PICK index \in {0, 1} : S!readString(index)
  BY DEF S!StrNext
<1>2. str' = str /\ strOs' = strOs /\ strIndex' = index /\ runes' = S!StringDescriptor(index)
  BY <1>1 DEF S!readString
<1>3. S!StringDescriptor(strIndex)' = S!StringDescriptor(index)
  BY <1>2 DEF S!StringDescriptor, S!decodeStringDescriptor, S!Units, S!Arrived, S!Octet
<1>4. QED
  BY <1>2, <1>3 DEF StrInv

\* The answer to a call for an index other than 0, by decoder.
LEMMA Answers ==
  ASSUME StrInv, runes # S!NotRead, strIndex # 0
  PROVE  \/ /\ strOs = "linux"
            /\ runes = IF S!Octet(0) < 2 THEN S!BadString
                       ELSE S!Text(S!UntilNul(S!Units(S!Octet(0))))
         \/ /\ strOs = "winusb"
            /\ runes = IF Len(str) < 2 THEN S!BadString
                       ELSE IF S!Octet(0) = 0 THEN S!StrPanic
                       ELSE S!Text(S!UntilNul(S!Units(S!Arrived)))
         \/ /\ strOs \notin {"linux", "winusb"}
            /\ runes = S!Text(IF Len(str) < 2 THEN <<>> ELSE S!utf16Decode(S!Units(S!Arrived)))
<1>1. runes = S!StringDescriptor(strIndex)
  BY DEF StrInv
<1>2. QED
  BY <1>1 DEF S!StringDescriptor, S!utf16ToRunes, S!decodeStringDescriptor

LEMMA OctetZero ==
  ASSUME str \in Seq(0..255)
  PROVE  /\ Len(str) \in Nat /\ S!Octet(0) \in Nat
         /\ Len(str) >= 1 => S!Octet(0) = str[1]
         /\ Len(str) = 0 => S!Octet(0) = 0
<1>1. Len(str) \in Nat
  BY LenProperties
<1>2. 0 \in Nat /\ 0 + 1 = 1
  OBVIOUS
<1>3. S!Octet(0) \in Nat
  BY <1>2, OctetOfString
<1>4. QED
  BY <1>1, <1>2, <1>3 DEF S!Octet

\* The text of a string that was announced: the units that arrived, up to the first
\* NUL; on Linux those that the length byte announces.
LEMMA TextOf ==
  ASSUME StrInv, runes # S!NotRead, strIndex # 0, S!Announced
  PROVE  /\ runes.st = "ok"
         /\ \/ strOs = "linux" /\ runes.text = S!UntilNul(S!Units(S!Octet(0)))
            \/ strOs = "winusb" /\ runes.text = S!UntilNul(S!Units(S!Arrived))
            \/ /\ strOs \notin {"linux", "winusb"}
               /\ runes.text = S!utf16Decode(S!Units(S!Arrived))
<1>1. str \in Seq(0..255)
  BY StrConstants DEF StrInv, S!StrAssumption
<1>2. Len(str) \in Nat /\ Len(str) >= 2 /\ S!Octet(0) \in Nat /\ S!Octet(0) >= 2
  BY <1>1, OctetZero DEF S!Announced
<1>3. ~(S!Octet(0) < 2) /\ ~(Len(str) < 2) /\ S!Octet(0) # 0
  BY <1>2
<1>4. QED
  BY <1>3, Answers DEF S!Text

\* A text of at least one rune comes from an answer of at least two bytes.
LEMMA ShortAnswer ==
  ASSUME str \in Seq(0..255), S!UntilNul(S!Units(S!Octet(0))) # <<>>
  PROVE  Len(str) >= 2
<1>1. PICK n \in Nat, c \in Nat : n = Len(str) /\ c = S!Octet(0)
  <2>1. Len(str) \in Nat
    BY LenProperties
  <2>2. 0 \in Nat
    OBVIOUS
  <2>3. QED
    BY <2>1, <2>2, OctetOfString
<1> SUFFICES ASSUME n < 2 PROVE FALSE
  BY <1>1
<1>2. PICK units \in Seq(Wide), r \in Nat :
        /\ units = S!Units(c) /\ r = Len(units)
        /\ \A k \in 1..r : units[k] = S!Octet(2 * k) + 256 * S!Octet(2 * k + 1)
  <2>1. /\ S!Units(c) \in Seq(Wide) /\ Len(S!Units(c)) = S!NumUnits(c) /\ S!NumUnits(c) \in Nat
        /\ \A k \in 1..S!NumUnits(c) : S!Units(c)[k] = S!Octet(2 * k) + 256 * S!Octet(2 * k + 1)
    BY UnitsOfString
  <2>2. QED
    BY <2>1
<1>3. PICK m \in 0..r : EndsAt(units, m) /\ S!UntilNul(units) = SubSeq(units, 1, m)
  BY <1>2, UntilNulIs
<1>4. CASE m = 0
  <2>1. SubSeq(units, 1, 0) = <<>>
    BY SubSeqProperties, EmptySeq
  <2>2. QED
    BY <1>1, <1>2, <1>3, <1>4, <2>1
<1>5. CASE m # 0
  <2>1. 1 \in 1..m /\ 1 \in 1..r /\ 2 >= n /\ 3 >= n /\ 2 \in Nat /\ 3 \in Nat /\ 2 * 1 = 2 /\ 2 * 1 + 1 = 3
    BY <1>5
  <2>2. units[1] # 0
    BY <1>3, <2>1 DEF EndsAt
  <2>3. units[1] = S!Octet(2) + 256 * S!Octet(3)
    BY <1>2, <2>1
  <2>4. S!Octet(2) = 0
    BY <1>1, <2>1, OctetOfString
  <2>5. S!Octet(3) = 0
    BY <1>1, <2>1, OctetOfString
  <2>6. QED
    BY <2>2, <2>3, <2>4, <2>5
<1>6. QED
  BY <1>4, <1>5

\* Written as UTF-16 again, the text is the whole units of the answer's body; on
\* Linux a half unit at the end of a short answer may have become a rune. The
\* decoder of usbwire.go leaves no pair, the other two one rune for every unit.
LEMMA TextEncodes ==
  ASSUME StrInv, runes # S!NotRead, strIndex # 0, S!Announced
  PROVE  \/ /\ strOs = "linux" /\ runes.text \in Seq(Wide)
            /\ \/ S!Encoded(runes.text) = S!Whole
               \/ /\ Len(str) < str[1] /\ S!Body # S!Whole
                  /\ S!Encoded(runes.text) = Append(S!Body, 0)
         \/ /\ strOs = "winusb" /\ runes.text \in Seq(Wide)
            /\ S!Encoded(runes.text) = S!Whole
         \/ /\ strOs \notin {"linux", "winusb"} /\ PairFree(runes.text)
            /\ S!Encoded(runes.text) = S!Whole
<1>1. str \in Seq(0..255) /\ Len(str) \in Nat /\ Len(str) >= 2
  BY LenProperties, StrConstants DEF StrInv, S!StrAssumption, S!Announced
<1>2. \A u \in Seq(Wide) : PairsOf(S!Whole, u) => S!Encoded(u) = S!Whole
  BY EncodeUnits, PairsUnique
<1>3. /\ S!UntilNul(S!Units(S!Arrived)) \in Seq(Wide)
      /\ PairsOf(S!Whole, S!UntilNul(S!Units(S!Arrived)))
  BY <1>1, WholeIs
<1>4. /\ S!UntilNul(S!Units(S!Arrived)) \in Seq(Wide)
      /\ S!Encoded(S!UntilNul(S!Units(S!Arrived))) = S!Whole
  BY <1>2, <1>3
<1>5. CASE strOs \notin {"linux", "winusb"} /\ runes.text = S!utf16Decode(S!Units(S!Arrived))
  <2>1. PairsOf(S!Encoded(S!utf16Decode(S!Units(S!Arrived))), S!UntilNul(S!Units(S!Arrived)))
    BY <1>3, DecodeInverts
  <2>2. PairFree(S!utf16Decode(S!Units(S!Arrived)))
    BY <1>3, DecodedPairFree
  <2>3. QED
    BY <1>3, <1>5, <2>1, <2>2, PairsUnique
<1>6. CASE strOs = "linux" /\ runes.text = S!UntilNul(S!Units(S!Octet(0)))
  <2>1. S!Octet(0) = str[1] /\ S!Octet(0) \in Nat
    BY <1>1, OctetZero
  <2>2. CASE S!Octet(0) > Len(str)
    <3>1. PICK u \in Seq(Wide) :
            /\ u = runes.text
            /\ \/ PairsOf(S!Whole, u)
               \/ S!Body # S!Whole /\ PairsOf(Append(S!Body, 0), u)
      BY <1>1, <1>6, <2>2, ReadBehind
    <3>2. PairsOf(S!Encoded(u), u)
      BY EncodeUnits
    <3>3. S!Encoded(u) = S!Whole \/ (S!Body # S!Whole /\ S!Encoded(u) = Append(S!Body, 0))
      BY <3>1, <3>2, PairsUnique
    <3>4. Len(str) < str[1]
      BY <1>1, <2>1, <2>2
    <3>5. QED
      BY <1>6, <3>1, <3>3, <3>4
  <2>3. CASE ~(S!Octet(0) > Len(str))
    <3>1. S!Arrived = S!Octet(0)
      BY <1>1, <2>1, <2>3 DEF S!Arrived, S!Lesser
    <3>2. QED
      BY <1>4, <1>6, <3>1
  <2>4. QED
    BY <2>2, <2>3
<1>7. CASE strOs = "winusb" /\ runes.text = S!UntilNul(S!Units(S!Arrived))
  BY <1>4, <1>7
<1>8. QED
  BY <1>5, <1>6, <1>7, TextOf

\* No units before the first NUL are no text.
LEMMA EmptyDecoded ==
  ASSUME NEW all, NEW u \in Seq(Wide), u = S!UntilNul(all)
  PROVE  Len(u) = 0 => S!utf16Decode(all) = <<>>
<1>1. PICK n \in Nat : n = Len(u)
  BY LenProperties
<1>2. PICK at \in [0..n -> Decoding] :
        /\ at[0] = [next |-> 1, out |-> <<>>]
        /\ \A k \in 1..n : at[k] = S!DecodeOn(u, at[k - 1])
        /\ S!utf16Decode(all) = at[n].out
  BY <1>1, DecodeSolved
<1>3. n = 0 => S!utf16Decode(all) = at[0].out
  BY <1>2
<1>4. QED
  BY <1>1, <1>2, <1>3

\* Fewer than two bytes behind the header are no unit, and no text.
LEMMA NoUnits ==
  ASSUME str \in Seq(0..255), NEW length \in Nat, length < 2
  PROVE  S!UntilNul(S!Units(length)) = <<>> /\ S!utf16Decode(S!Units(length)) = <<>>
<1>1. S!NumUnits(length) = 0
  BY DEF S!NumUnits
<1>2. PICK units \in Seq(Wide) : units = S!Units(length) /\ Len(units) = 0
  BY <1>1, UnitsOfString
<1>3. units = <<>>
  BY <1>2, EmptySeq
<1>4. DOMAIN units = {}
  BY <1>3
<1>5. S!UntilNul(units) = <<>>
  BY <1>3, <1>4 DEF S!UntilNul
<1>6. PICK u \in Seq(Wide) : u = S!UntilNul(units) /\ Len(u) = 0
  BY <1>2, <1>3, <1>5
<1>7. S!utf16Decode(units) = <<>>
  BY <1>6, EmptyDecoded
<1>8. QED
  BY <1>2, <1>5, <1>7

\* Other than a string that was asked for and announced, no answer has a text.
LEMMA StrAnswered == StrInv => S!StringsAnswered
<1> SUFFICES ASSUME StrInv, runes # S!NotRead PROVE S!StringsAnswered
  BY DEF S!StringsAnswered
<1>a. CASE strIndex # 0 /\ S!Announced
  <2>1. runes.st = "ok"
    BY <1>a, TextOf
  <2>2. QED
    BY <1>a, <2>1 DEF S!StringsAnswered
<1> SUFFICES ASSUME ~(strIndex # 0 /\ S!Announced), runes.text # <<>>
             PROVE  FALSE
  BY <1>a DEF S!StringsAnswered
<1>1. str \in Seq(0..255)
  BY StrConstants DEF StrInv, S!StrAssumption
<1>2. PICK n \in Nat, c \in Nat :
        n = Len(str) /\ c = S!Octet(0) /\ (n >= 1 => c = str[1]) /\ (n = 0 => c = 0)
  BY <1>1, OctetZero
<1>3. strIndex # 0
  BY DEF StrInv, S!StringDescriptor, S!Text
<1>4. n < 2 \/ c < 2
  BY <1>2, <1>3 DEF S!Announced
<1>5. S!BadString.text = <<>> /\ S!StrPanic.text = <<>>
  BY DEF S!BadString, S!StrPanic
<1>6. CASE strOs = "linux"
  <2>1. runes = IF c < 2 THEN S!BadString ELSE S!Text(S!UntilNul(S!Units(S!Octet(0))))
    BY <1>2, <1>3, <1>6, Answers
  <2>2. ~(c < 2) /\ S!UntilNul(S!Units(S!Octet(0))) # <<>>
    BY <1>5, <2>1 DEF S!Text
  <2>3. n >= 2
    BY <1>1, <1>2, <2>2, ShortAnswer
  <2>4. QED
    BY <1>4, <2>2, <2>3
<1>7. ASSUME ~(n < 2) PROVE S!Arrived \in Nat /\ S!Arrived < 2
  <2>1. c < 2 /\ n >= 2
    BY <1>4, <1>7
  <2>2. S!Arrived = c
    BY <1>2, <2>1 DEF S!Arrived, S!Lesser
  <2>3. QED
    BY <2>1, <2>2
<1>8. CASE strOs = "winusb"
  <2>1. ~(n < 2) /\ S!UntilNul(S!Units(S!Arrived)) # <<>>
    BY <1>2, <1>3, <1>5, <1>8, Answers DEF S!Text
  <2>2. QED
    BY <1>1, <1>7, <2>1, NoUnits
<1>9. CASE strOs \notin {"linux", "winusb"}
  <2>1. ~(n < 2) /\ S!utf16Decode(S!Units(S!Arrived)) # <<>>
    BY <1>2, <1>3, <1>9, Answers DEF S!Text
  <2>2. QED
    BY <1>1, <1>7, <2>1, NoUnits
<1>10. QED
  BY <1>6, <1>8, <1>9

LEMMA StrDecoded == StrInv => S!DecodingInvertsEncoding
BY TextEncodes DEF S!DecodingInvertsEncoding, PairFree

LEMMA StrAgree == StrInv => S!DecodersAgree
<1> SUFFICES ASSUME StrInv, runes # S!NotRead, strIndex # 0, S!Announced, strOs # "usbwire"
             PROVE  /\ \A k \in DOMAIN runes.text : runes.text[k] < 65536
                    /\ \/ S!Encoded(runes.text) = S!Whole
                       \/ /\ strOs = "linux" /\ Len(str) < str[1] /\ S!Body # S!Whole
                          /\ S!Encoded(runes.text) = Append(S!Body, 0)
  BY DEF S!DecodersAgree
<1>1. strOs \in {"linux", "winusb"}
  BY DEF StrInv, S!Decoders
<1>2. runes.text \in Seq(Wide)
  BY <1>1, TextEncodes
<1>3. ASSUME NEW k \in DOMAIN runes.text PROVE runes.text[k] < 65536
  <2>1. PICK u \in Seq(Wide) : u = runes.text
    BY <1>2
  <2>2. u[k] \in Wide
    BY <1>3, <2>1, ElementOfSeq, LenProperties
  <2>3. QED
    BY <2>1, <2>2, PairOfWide
<1>4. QED
  BY <1>1, <1>3, TextEncodes

\* The readers of BOS and of string descriptors agree on the three systems.
SystemsInv ==
    /\ part = "bos" => BosInv
    /\ part = "string" => StrInv

\* Whatever the device sends, the list of capabilities and the search for one agree,
\* and a string that was announced is answered with its units up to the first NUL:
\* usbwire.go decodes the surrogate pairs, Linux and WinUSB return a rune per unit
\* and so agree with it where there is none. readBOS, searchCapability and
\* StringDescriptor of the three systems.
THEOREM WireReadersAgree == MCSpec => []SystemsAgree
<1>1. MCInit => SystemsInv
  BY InitBos, InitStr DEF MCInit, SystemsInv
<1>2. SystemsInv /\ [MCNext]_allVars => SystemsInv'
  <2> SUFFICES ASSUME SystemsInv, [MCNext]_allVars PROVE SystemsInv'
    OBVIOUS
  <2>1. CASE part = "bos" /\ B!BosNext /\ UNCHANGED part
    BY <2>1, NextBos DEF SystemsInv
  <2>2. CASE part = "string" /\ S!StrNext /\ UNCHANGED part
    BY <2>2, NextStr DEF SystemsInv
  <2>3. CASE part' = part /\ part \notin {"bos", "string"}
    BY <2>3 DEF SystemsInv
  <2>4. CASE UNCHANGED allVars
    <3>1. UNCHANGED <<part, bosAll, strAll>>
      BY <2>4 DEF allVars
    <3>2. BosInv' = BosInv
      BY <3>1 DEF bosAll, BosInv, B!ReadBOSDescriptor, B!Search, B!BosTotal, B!Counted,
         B!NumDeviceCaps, B!Filled, B!SearchBuffer, B!Arrives
    <3>3. StrInv' = StrInv
      BY <3>1 DEF strAll, StrInv, S!StringDescriptor, S!decodeStringDescriptor, S!Units,
         S!Arrived, S!Octet
    <3>4. QED
      BY <3>1, <3>2, <3>3 DEF SystemsInv
  <2>5. QED
    BY <2>1, <2>2, <2>3, <2>4 DEF MCNext
<1>3. SystemsInv => SystemsAgree
  BY BosFieldsInBuffer, BosSearchAgrees, StrAnswered, StrDecoded, StrAgree DEF SystemsInv, SystemsAgree
<1>4. QED
  BY <1>1, <1>2, <1>3, PTL DEF MCSpec
=============================================================================
