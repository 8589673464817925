---------------------------- MODULE BosDescriptor ----------------------------
(***************************************************************************)
(* ReadBOSDescriptor and the searches for one capability                   *)
(* (SSUSBDeviceCapabilityDescriptor, USB20ExtensionDescriptor) of the      *)
(* three backends. Bytes are numbers, offsets count from 0.                *)
(***************************************************************************)
EXTENDS Naturals, Sequences, FiniteSets, SequencesExt

CONSTANTS BosBlobs,   \* what devices answer, 5 bytes or more
          FirstRead   \* the first read of a search on Linux; 1024 in the code

BosAssumption == /\ \A b \in BosBlobs : b \in Seq(0..255) /\ Len(b) >= 5
                 /\ FirstRead \in Nat /\ FirstRead >= 5

VARIABLES bos,        \* the device's descriptor
          bosOs,      \* the backend
          listed,     \* ReadBOSDescriptor: offsets of the capabilities, or an error
          found       \* per capability type: its offset, or an error

BOS == 15
DEVICE_CAPABILITY == 16
SS_USB == 3
USB2_EXT == 2

\* How a call ended: st, and offsets when it is "ok".
Ended(st) == [st |-> st, caps |-> <<>>]
Ok(caps) == [st |-> "ok", caps |-> caps]
Pending == Ended("pending")
NotFound == Ended("not found")
Refused == Ended("refused")
Panic == Ended("panic")

At(buf, i) == buf[i + 1]
LeastOf(a, b) == IF a < b THEN a ELSE b

\* n bytes asked for: what arrives, and the buffer it arrives in.
Arrives(n) == SubSeq(bos, 1, LeastOf(n, Len(bos)))
Filled(n) == [i \in 1..n |-> IF i <= Len(bos) THEN bos[i] ELSE 0]

BosTotal == At(bos, 2) + 256 * At(bos, 3)
NumDeviceCaps == At(bos, 4)

\* A capability begins at p and lies in the buffer.
CapabilityAt(buf, p) ==
    /\ p + 3 <= Len(buf)
    /\ At(buf, p) >= 3 /\ p + At(buf, p) <= Len(buf)

\* The loop over at most count capabilities, from the end of the header.
Capabilities(buf, count) ==
    LET step[i \in 0..count] ==
          IF i = 0 THEN [at |-> 5, caps |-> <<>>]
          ELSE LET prev == step[i - 1] IN
               IF CapabilityAt(buf, prev.at)
                 THEN [at |-> prev.at + At(buf, prev.at), caps |-> Append(prev.caps, prev.at)]
                 ELSE prev
    IN  step[count].caps

\* The first of the capabilities that match.
FirstOf(caps, match) ==
    IF match = {} THEN NotFound ELSE Ok(<<caps[CHOOSE i \in match : \A j \in match : i <= j]>>)

Counted(buf) == Capabilities(buf, NumDeviceCaps)
-----------------------------------------------------------------------------
\* Linux refuses a total below 5 and a short second read; the others parse the
\* zeroed buffer. &fullBuf[0] of an empty buffer is out of range on Windows.
ReadBOSDescriptor ==
    IF At(bos, 1) # BOS THEN Refused
    ELSE CASE bosOs = "linux" /\ (BosTotal < 5 \/ Len(bos) < BosTotal) -> Refused
           [] bosOs = "windows" /\ BosTotal = 0 -> Panic
           [] OTHER -> Ok(Counted(Filled(BosTotal)))

NeverReRead == Arrives(FirstRead)

\* Linux reads FirstRead bytes, and again if the total is larger.
SearchBuffer == IF BosTotal > Len(Arrives(FirstRead)) THEN Arrives(BosTotal)
                                                      ELSE Arrives(FirstRead)

\* The length of a capability whose fields are read.
FullLength(type) == IF type = SS_USB THEN 10 ELSE 7

\* A capability that was found is refused if its fields are not all there.
Accept(buf, r, type) ==
    IF r.st = "ok" /\ At(buf, Head(r.caps)) < FullLength(type) THEN Refused ELSE r

\* Linux and Windows check the descriptor type and the length, macOS only looks
\* at the list. Windows reads the descriptor once more and walks as many
\* capabilities as the list has.
Search(type) ==
    IF bosOs = "linux"
      THEN IF At(bos, 1) # BOS \/ Len(SearchBuffer) < BosTotal THEN Refused
           ELSE LET buf == SearchBuffer
                    caps == Counted(buf)
                    r == FirstOf(caps, {i \in DOMAIN caps :
                           At(buf, caps[i] + 1) = DEVICE_CAPABILITY /\ At(buf, caps[i] + 2) = type})
                IN  Accept(buf, r, type)
      ELSE IF ReadBOSDescriptor.st # "ok" THEN ReadBOSDescriptor
           ELSE LET buf == Filled(BosTotal)
                    caps == ReadBOSDescriptor.caps
                    r == FirstOf(caps, {i \in DOMAIN caps :
                           /\ bosOs = "windows" => At(buf, caps[i] + 1) = DEVICE_CAPABILITY
                           /\ At(buf, caps[i] + 2) = type})
                IN  IF bosOs = "darwin" THEN r ELSE Accept(buf, r, type)

readBOS ==
    /\ listed = Pending /\ listed' = ReadBOSDescriptor
    /\ UNCHANGED <<bos, bosOs, found>>

searchCapability(type) ==
    /\ found[type] = Pending
    /\ found' = [found EXCEPT ![type] = Search(type)]
    /\ UNCHANGED <<bos, bosOs, listed>>

BosInit == /\ bos \in BosBlobs /\ bosOs \in {"linux", "windows", "darwin"}
           /\ listed = Pending /\ found = [t \in {SS_USB, USB2_EXT} |-> Pending]

BosNext == readBOS \/ \E t \in {SS_USB, USB2_EXT} : searchCapability(t)
-----------------------------------------------------------------------------
(* Properties                                                              *)

\* What was found lies in the bytes the device sent or the zeros behind them, a
\* search that reads fields found all of them, and no listed capability
\* overlaps the next.
CapabilityFieldsInBuffer ==
    LET buf == Filled(IF bosOs = "linux" THEN Len(bos) ELSE BosTotal)
        caps == listed.caps
    IN
      /\ \A t \in {SS_USB, USB2_EXT} : found[t].st = "ok" =>
           LET p == Head(found[t].caps) IN
             /\ At(buf, p + 2) = t
             /\ bosOs # "darwin" => At(buf, p) >= FullLength(t) /\ p + FullLength(t) <= Len(buf)
      /\ \A i \in DOMAIN caps :
           /\ i + 1 \in DOMAIN caps => caps[i] + At(buf, caps[i]) = caps[i + 1]
           /\ caps[i] + At(buf, caps[i]) <= Len(buf)

\* A device that announces what it sends, and sends nothing but capabilities.
Honest ==
    /\ At(bos, 1) = BOS /\ BosTotal = Len(bos) /\ NumDeviceCaps = Len(Counted(bos))
    /\ \A i \in 1..NumDeviceCaps : LET p == Counted(bos)[i] IN
         /\ At(bos, p + 1) = DEVICE_CAPABILITY
         /\ At(bos, p + 2) \in {SS_USB, USB2_EXT} => At(bos, p) >= FullLength(At(bos, p + 2))

\* On every backend the searches find the first capability of their type that
\* the list has, and nothing if it has none.
SearchAgreesWithList ==
    Honest /\ listed # Pending =>
      /\ listed.st = "ok" /\ Len(listed.caps) = NumDeviceCaps
      /\ \A t \in {SS_USB, USB2_EXT} : found[t] # Pending =>
           LET ofType == {p \in ToSet(listed.caps) : At(bos, p + 2) = t} IN
             IF ofType = {} THEN found[t] = NotFound
             ELSE /\ Head(found[t].caps) \in ofType
                  /\ \A p \in ofType : Head(found[t].caps) <= p
=============================================================================
