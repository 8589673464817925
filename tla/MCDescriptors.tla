---------------------------- MODULE MCDescriptors ----------------------------
(***************************************************************************)
(* The three descriptor readers and the packets of isochronous transfers   *)
(* in one run: a behaviour is about one of the four, its part.             *)
(*                                                                         *)
(* Configurations: a header and up to MaxParts descriptors, some of them   *)
(* malformed, with a total length that is right, cuts the last descriptor, *)
(* announces more than there is, or is too small. BOS descriptors and      *)
(* strings are built the same way.                                         *)
(***************************************************************************)
EXTENDS WinEndpoints

CONSTANTS MaxParts, MaxCaps, MaxUnits, BosBlobs, StrBlobs, FirstRead, MaxPackets, MaxSize

VARIABLES part, bos, bosOs, listed, found, str, strOs, strIndex, runes,
    system, numPackets, packetSize, asked, packets, phase, failed, wrote

Iface(n, alt) == <<9, 4, n, alt, 1, 255, 0, 0, 0>>
Endp(addr, kind) == <<7, 5, addr, kind, 0, 2, 0>>

Coll(n, k) == [own |-> TRUE, usable |-> TRUE, opens |-> TRUE, iface |-> n, collection |-> k]

\* Collections out of order, of another device, of a keyboard, and one that is busy.
MCCandidates == {<<Coll(1, 1), Coll(0, 2), Coll(0, 1)>>,
                 <<[Coll(0, 1) EXCEPT !.own = FALSE], [Coll(0, 1) EXCEPT !.usable = FALSE],
                   [Coll(0, 2) EXCEPT !.opens = FALSE], Coll(1, 1), Coll(0, 4), Coll(0, 3)>>}

Parts == {Iface(0, 0), Iface(0, 1), Iface(255, 0), Endp(129, 3), Endp(2, 2),
          <<6, 48, 1, 0, 0, 0>>, <<4, 48, 1, 0>>, <<3, 36, 7>>,
          <<8, 4, 1, 0, 0, 0, 0, 0>>, <<5, 5, 1, 0, 0>>, <<0, 0>>, <<1>>}

UpTo(n, S) == UNION {[1..k -> S] : k \in 0..n}

Header(total) == <<9, 2, total, 0, 1, 1, 0, 128, 50>>

CutOff(t) == Header(8 + Len(t)) \o SubSeq(t, 1, Len(t) - 1)

MCBlobs == UNION {{Header(total) \o t :
                     total \in {0, 5, 9 + Len(t), 8 + Len(t), 11 + Len(t)}} :
                    t \in {FlattenSeq(s) : s \in UpTo(MaxParts, Parts)}}
           \cup {CutOff(FlattenSeq(s)) : s \in UpTo(MaxParts - 1, Parts) \ {<<>>}}

Caps == {<<10, 16, 3, 0, 14, 0, 1, 10, 255, 7>>, <<7, 16, 2, 2, 0, 0, 0>>, <<4, 16, 3, 0>>,
         <<7, 17, 2, 2, 0, 0, 0>>, <<3, 16, 9>>, <<2, 16>>, <<0>>}

MCBosBlobs == UNION {{<<5, type, total, 0, Len(s) + more>> \o FlattenSeq(s) :
                        type \in {15, 2}, more \in {0, 1},
                        total \in {0, 4, 4 + Len(FlattenSeq(s)), 5 + Len(FlattenSeq(s)), 7 + Len(FlattenSeq(s))}} :
                       s \in UpTo(MaxCaps, Caps)}

MCStrBlobs == {<<>>, <<2>>} \cup
              UNION {{<<length, 3>> \o FlattenSeq(s) :
                        length \in {0, 1, 2, 3, 2 + Len(FlattenSeq(s)), 5 + Len(FlattenSeq(s))}} :
                       s \in UpTo(MaxUnits, {<<65, 0>>, <<0, 0>>, <<0, 216>>, <<1, 220>>, <<66>>})}

B == INSTANCE BosDescriptor
S == INSTANCE StringDescriptor
P == INSTANCE IsoPackets

ASSUME PacketConstants == P!PacketsAssumption
ASSUME BosConstants == B!BosAssumption
ASSUME StrConstants == S!StrAssumption

bosAll == <<bos, bosOs, listed, found>>
strAll == <<str, strOs, strIndex, runes>>
isoAll == <<system, numPackets, packetSize, asked, packets, phase, failed, wrote>>
allVars == <<vars, part, bosAll, strAll, isoAll>>

NoBos == bos = <<>> /\ bosOs = "none" /\ listed = B!Pending /\ found = <<>>
NoStr == str = <<>> /\ strOs = "none" /\ strIndex = 0 /\ runes = S!NotRead
NoConfig == /\ dev = <<>> /\ os = "none" /\ pc = "none" /\ data = <<>> /\ pos = 9
            /\ cur = NoAlt /\ saved = <<>> /\ cextra = <<>> /\ result = "none"
            /\ rpos = 0 /\ rifs = <<>> /\ reps = <<>>
NoIso == /\ system = "none" /\ numPackets = 0 /\ packetSize = 0 /\ asked = <<>>
         /\ packets = <<>> /\ phase = "new" /\ failed = FALSE /\ wrote = <<>>

MCInit == \/ part = "config" /\ Init /\ NoBos /\ NoStr /\ NoIso
          \/ part = "bos" /\ NoConfig /\ B!BosInit /\ NoStr /\ NoIso
          \/ part = "string" /\ NoConfig /\ NoBos /\ S!StrInit /\ NoIso
          \/ part = "iso" /\ NoConfig /\ NoBos /\ NoStr /\ P!IsoInit

MCNext == \/ part = "config" /\ Next /\ UNCHANGED <<part, bosAll, strAll, isoAll>>
          \/ part = "bos" /\ B!BosNext /\ UNCHANGED <<vars, part, strAll, isoAll>>
          \/ part = "string" /\ S!StrNext /\ UNCHANGED <<vars, part, bosAll, isoAll>>
          \/ part = "iso" /\ P!IsoNext /\ UNCHANGED <<vars, part, bosAll, strAll>>

MCSpec == MCInit /\ [][MCNext]_allVars /\ WF_allVars(MCNext)

\* A configuration is read as the device sent it: fields come from their own
\* descriptor, no descriptor is lost or doubled, lookups find what is there, and
\* Unmarshal and ReadConfigDescriptor agree.
ConfigRead == part = "config" => /\ TypeOK /\ FieldsInDescriptor /\ NothingLostOrDoubled
                                 /\ LookupsComplete /\ ParsersAgree

\* A transfer on an endpoint goes to the endpoint's own interface or collection.
EndpointsRouted == part = "config" => EndpointFindsInterface /\ HidEndpointServed

\* The search for a BOS capability agrees with the list of them, on the three
\* systems. A string descriptor is answered, with the units that arrived up to the
\* first NUL: decoded by usbwire.go, one rune each on Linux and WinUSB, which agree
\* with usbwire.go as long as there is no surrogate pair.
SystemsAgree ==
    /\ part = "bos" => B!CapabilityFieldsInBuffer /\ B!SearchAgreesWithList
    /\ part = "string" => /\ S!StringsAnswered
                          /\ S!DecodingInvertsEncoding /\ S!DecodersAgree

\* Packets of isochronous transfers: a slice is the packet's data, inside the
\* buffer, and no other packet's.
PacketsSound == part = "iso" => P!IsoTypeOK /\ P!SlicesAreData /\ P!SlicesDisjoint

\* Both parsers come to an end whatever the device sends (but for a descriptor of
\* length 0, which stops ReadConfigDescriptor on Linux).
ParsersReturn == ReadReturns /\ ParseAdvances
=============================================================================
