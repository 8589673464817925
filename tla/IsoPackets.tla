------------------------------ MODULE IsoPackets ------------------------------
(***************************************************************************)
(* The packets of an isochronous transfer on the three systems: what       *)
(* Submit asks for, what a completion stores, and which part of the buffer *)
(* IsoPacketBuffer and IsoPacketBufferSlices give for a packet.            *)
(*                                                                         *)
(* A slice is a set of positions of the buffer; packets and positions      *)
(* count from 0. When and how a transfer completes is the subject of       *)
(* UsbfsAsync, WinUsbIso and DarwinPump.                                   *)
(***************************************************************************)
EXTENDS Integers, FiniteSets

CONSTANTS MaxPackets, MaxSize    \* bounds on numPackets and packetSize

PacketsAssumption == MaxPackets \in Nat /\ MaxSize \in Nat

VARIABLES
    system, numPackets, packetSize,
    asked,       \* lengths the URB, the buffer or the frame list asks for
    packets,     \* the descriptors the transfer shows
    phase,       \* "new", "flight", "done", "edited": a length was set after "done"
    failed,      \* the latest completion reported an error, no packets
    wrote        \* where the controller has put the data of a packet, latest run

isoVars == <<system, numPackets, packetSize, asked, packets, phase, failed, wrote>>

Index == 0..(numPackets - 1)
BufferLen == numPackets * packetSize
Positions(start, end) == start..(end - 1)

\* Length, actual length and status of a packet.
Packet(l, a, s) == [Length |-> l, ActualLength |-> a, Status |-> s]

Fresh == [i \in Index |-> Packet(IF system = "windows" THEN 0 ELSE packetSize, 0, 0)]

\* f[0] + ... + f[i - 1]
SumTo(f, i) == LET sum[k \in 0..i] == IF k = 0 THEN 0 ELSE sum[k - 1] + f[k - 1] IN sum[i]
-----------------------------------------------------------------------------
(* NewIsochronousTransfer, SetPacketLength, Submit                         *)

IsoInit ==
    /\ system \in {"linux", "windows", "darwin"}
    /\ numPackets \in 1..MaxPackets /\ packetSize \in 1..MaxSize
    /\ asked = [i \in Index |-> packetSize] /\ packets = Fresh
    /\ phase = "new" /\ failed = FALSE /\ wrote = [i \in Index |-> {}]

\* packetLengths[i] is the length to ask for until a completion stores the
\* received one in its place; nothing stops a caller from setting it later.
SetPacketLength(i, length) ==
    /\ system = "darwin" /\ length \in 0..packetSize
    /\ packets' = [packets EXCEPT ![i].ActualLength = length]
    /\ phase' = IF phase = "done" THEN "edited" ELSE phase
    /\ UNCHANGED <<system, numPackets, packetSize, asked, failed, wrote>>

\* A length that was never set asks for a full packet.
Requested(i) == IF system # "darwin" \/ packets[i].ActualLength = 0 THEN packetSize
                ELSE packets[i].ActualLength

\* A macOS transfer can be submitted once. The descriptors keep what an earlier
\* completion has left in them.
IsoSubmit ==
    /\ phase = "new" \/ (phase = "done" /\ system # "darwin")
    /\ phase' = "flight" /\ wrote' = [i \in Index |-> {}]
    /\ asked' = [i \in Index |-> Requested(i)]
    /\ UNCHANGED <<system, numPackets, packetSize, packets, failed>>
-----------------------------------------------------------------------------
(* Completion                                                              *)

\* usbfs and IOKit put packets one after the other by requested length, WinUSB
\* at multiples of the packet size.
Placed(i) == IF system = "windows" THEN i * packetSize
             ELSE SumTo(asked, i)

\* WinUSB has one length for a packet, the received one.
Descriptor(i, act, status) ==
    CASE system = "linux"   -> Packet(packetSize, act, status)
      [] system = "windows" -> Packet(act, act, status)
      [] system = "darwin"  -> Packet(packetSize, act, status)

IsoComplete(act, status) ==
    /\ phase = "flight" /\ phase' = "done" /\ failed' = FALSE
    /\ \A i \in Index : act[i] <= asked[i]
    /\ packets' = [i \in Index |-> Descriptor(i, act[i], status[i])]
    /\ wrote' = [i \in Index |-> Positions(Placed(i), Placed(i) + act[i])]
    /\ UNCHANGED <<system, numPackets, packetSize, asked>>

\* The Linux callback gets an error, or GetOverlappedResult fails: the
\* descriptors stay what they were.
IsoFail ==
    /\ phase = "flight" /\ system # "darwin"
    /\ phase' = "done" /\ failed' = TRUE
    /\ UNCHANGED <<system, numPackets, packetSize, asked, packets, wrote>>

IsoNext == \/ \E i \in Index, l \in 0..MaxSize : SetPacketLength(i, l)
           \/ IsoSubmit \/ IsoFail
           \/ \E act \in [Index -> 0..MaxSize], status \in [Index -> {0, 1}] :
                IsoComplete(act, status)
-----------------------------------------------------------------------------
(* IsoPacketBuffer and IsoPacketBufferSlices. NoSlice is an error, nil, or *)
(* a call that waits.                                                      *)

NoSlice == {-1}

LowerOf(a, b) == IF a < b THEN a ELSE b

AfterActual(i) == SumTo([j \in Index |-> packets[j].ActualLength], i)

\* for i := 0; i < packetIndex; i++ { offset += Length }
linuxOffset(i) == SumTo([j \in Index |-> packets[j].Length], i)

\* waitForReaping lets a call through.
linuxReaped == phase = "done"

linuxPacketBuffer(i) ==
    IF ~linuxReaped \/ failed \/ packets[i].Status # 0 THEN NoSlice
    ELSE Positions(linuxOffset(i), linuxOffset(i) + packets[i].ActualLength)

\* Error packets and empty ones get nil.
linuxNilSlice(i) == packets[i].Status # 0 \/ packets[i].ActualLength = 0

linuxSlices(i) == IF ~linuxReaped \/ linuxNilSlice(i) THEN NoSlice
                  ELSE Positions(linuxOffset(i), linuxOffset(i) + packets[i].ActualLength)

\* min(start + Length, start + packetSize)
windowsEnd(i) == LowerOf(i * packetSize + packets[i].Length, (i + 1) * packetSize)

windowsPacketBuffer(i) == Positions(i * packetSize, windowsEnd(i))

darwinEnd(i) == LowerOf(i * packetSize + packets[i].ActualLength, BufferLen)

darwinPacketBuffer(i) == Positions(i * packetSize, darwinEnd(i))

IsoPacketBuffer(i) == CASE system = "linux"   -> linuxPacketBuffer(i)
                        [] system = "windows" -> windowsPacketBuffer(i)
                        [] system = "darwin"  -> darwinPacketBuffer(i)

IsoPacketBufferSlices(i) == IF system = "linux" THEN linuxSlices(i) ELSE IsoPacketBuffer(i)
-----------------------------------------------------------------------------
(* Properties                                                              *)

\* The variables stay in their domains, and no slice leaves the buffer.
IsoTypeOK ==
    /\ phase \in {"new", "flight", "done", "edited"} /\ failed \in BOOLEAN
    /\ \A i \in Index : IsoPacketBuffer(i) \cup IsoPacketBufferSlices(i)
                          \subseteq -1..(BufferLen - 1)

\* After a successful completion the slice of a packet without an error is
\* exactly where the controller has put the packet's data; on macOS as long as
\* SetPacketLength has shortened no packet before it.
SlicesAreData ==
    phase = "done" /\ ~failed /\ (system = "darwin" => \A i \in Index : asked[i] = packetSize) =>
        \A i \in Index : packets[i].Status = 0 =>
            /\ IsoPacketBuffer(i) = wrote[i]
            /\ IsoPacketBufferSlices(i) \in {wrote[i], NoSlice}

\* Slices of different packets have no byte in common: after a completion, after
\* a failed one, on Windows and macOS also before the first and in flight, with
\* the lengths an earlier completion or SetPacketLength has left.
SlicesDisjoint ==
    \A i, j \in Index : i # j =>
        /\ IsoPacketBuffer(i) \cap IsoPacketBuffer(j) \subseteq NoSlice
        /\ IsoPacketBufferSlices(i) \cap IsoPacketBufferSlices(j) \subseteq NoSlice
=============================================================================
