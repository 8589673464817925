----------------------------- MODULE WindowsProofs ----------------------------
(***************************************************************************)
(* Proofs about the parts of MCWindows: the completion port of             *)
(* AsyncTransfer, for every finite set of transfers, every number of       *)
(* submissions and resets and every set of faults; the hotplug watch,      *)
(* which implements the contract of hotplug.go, for every set of device    *)
(* paths, filter and set of faults; and isochronous transfers.             *)
(***************************************************************************)
EXTENDS MCWindows, SequenceTheorems, FiniteSetTheorems, TLAPS

USE ConstantsAssumption
-------------------------------------------------------------------------------
(* The completion port                                                     *)

\* The pump has the packet of x in hand.
InHand(x) == ppc \in {"dispatch", "notify"} /\ got[1] = x

\* Somebody still holds the request of x: the driver, the port or the pump.
Held(x) == io[x] = "pending" \/ packets[x] # "none" \/ InHand(x)

\* A transfer whose request is held is in flight, and Submit has left it.
HeldInFlight(x) == Held(x) => submitted[x] /\ ~done[x] /\ spc[x] = "idle"

\* A request is in one place at a time.
HeldOnce(x) ==
    /\ io[x] = "pending" => packets[x] = "none"
    /\ InHand(x) => io[x] = "none" /\ packets[x] = "none"

\* Submit registers the transfer before it issues the request, and only the
\* pump, with the packet in hand, takes it out of the map again.
HeldRegistered(x) ==
    io[x] = "pending" \/ packets[x] # "none" \/ (ppc = "dispatch" /\ got[1] = x)
        => x \in iocpPending

\* A transfer inside Submit is in flight, and registered when its request is issued.
InsideSubmit(x) ==
    /\ spc[x] # "idle" => submitted[x] /\ ~done[x]
    /\ spc[x] \in {"issue", "unregister"} => x \in iocpPending

\* The pump that works on a packet has one.
PumpHasPacket == ppc \in {"dispatch", "notify"} => got \in Xfers \X BOOLEAN

RequestInv(x) == HeldInFlight(x) /\ HeldOnce(x) /\ HeldRegistered(x) /\ InsideSubmit(x)

IInv == TypeOK /\ PumpHasPacket /\ \A x \in Xfers : RequestInv(x)

-----------------------------------------------------------------------------
(* Types                                                                   *)

\* What pumpDispatch counts, and its initial 0, are numbers that left can hold.
LEMMA CountPending ==
  /\ 0 \in 0..Cardinality(Xfers)
  /\ \A S \in SUBSET Xfers : Cardinality(S) \in 0..Cardinality(Xfers)
<1> SUFFICES ASSUME NEW S \in SUBSET Xfers
             PROVE  /\ 0 \in 0..Cardinality(Xfers)
                    /\ Cardinality(S) \in 0..Cardinality(Xfers)
  OBVIOUS
<1>1. Cardinality(Xfers) \in Nat
  BY FS_CardinalityType
<1>2. IsFiniteSet(S) /\ Cardinality(S) <= Cardinality(Xfers)
  BY FS_Subset
<1>3. Cardinality(S) \in Nat
  BY <1>2, FS_CardinalityType
<1>4. QED
  BY <1>1, <1>2, <1>3

\* Wherever requests end, io, cancelled and packets keep their types.
LEMMA EndRequestsType ==
  ASSUME NEW X \in SUBSET Xfers, NEW e \in {"ok", "err"}, EndRequests(X, e),
         cancelled \subseteq Xfers,
         io \in [Xfers -> {"none", "pending"}],
         packets \in [Xfers -> {"none", "ok", "err"}]
  PROVE  /\ io' \in [Xfers -> {"none", "pending"}] /\ cancelled' \subseteq Xfers
         /\ packets' \in [Xfers -> {"none", "ok", "err"}]
  BY DEF EndRequests

LEMMA InitTypeOK == Init => TypeOK
<1> SUFFICES ASSUME Init PROVE TypeOK
  OBVIOUS
<1>1. HandleType /\ XferType
  <2>1. resets \in 0..MaxResets /\ nsub \in [Xfers -> 0..MaxSubmits]
    BY DEF Init
  <2>2. QED
    BY <2>1 DEF Init, HandleType, XferType
<1>2. PumpType
  BY CountPending DEF Init, PumpType
<1>3. IoType
  BY DEF Init, IoType
<1>4. QED
  BY <1>1, <1>2, <1>3 DEF TypeOK

\* What a step leaves alone keeps its type.
LEMMA SameType ==
  /\ HandleType /\ UNCHANGED <<faults, handleVars, closeVars>> => HandleType'
  /\ XferType /\ UNCHANGED <<xferVars, spc>> => XferType'
  /\ PumpType /\ UNCHANGED pumpVars => PumpType'
  /\ IoType /\ UNCHANGED ioVars => IoType'
<1>1. HandleType /\ UNCHANGED <<faults, handleVars, closeVars>> => HandleType'
  BY DEF HandleType, handleVars, closeVars
<1>2. XferType /\ UNCHANGED <<xferVars, spc>> => XferType'
  BY DEF XferType, xferVars
<1>3. PumpType /\ UNCHANGED pumpVars => PumpType'
  BY DEF PumpType, pumpVars
<1>4. IoType /\ UNCHANGED ioVars => IoType'
  BY DEF IoType, ioVars
<1>5. QED
  BY <1>1, <1>2, <1>3, <1>4

LEMMA XferTypeOK ==
  ASSUME TypeOK, NEW x \in Xfers,
         SubmitEnter(x) \/ SubmitStep(x) \/ Cancel(x) \/ RequestCompletes(x)
  PROVE  TypeOK'
<1> USE SameType DEF TypeOK
<1>1. CASE SubmitEnter(x)
  BY <1>1 DEF SubmitEnter, XferType
<1>2. CASE registerAsyncCompletion(x)
  <2>1. HandleType'
    BY <1>2 DEF registerAsyncCompletion, StartPump, HandleType, closeVars
  <2>2. XferType'
    BY <1>2 DEF registerAsyncCompletion, XferType, xferVars
  <2>3. PumpType'
    BY <1>2 DEF registerAsyncCompletion, StartPump, PumpType
  <2>4. QED
    BY <1>2, <2>1, <2>2, <2>3 DEF registerAsyncCompletion
<1>3. CASE submitIO(x)
  <2>1. XferType' /\ IoType'
    BY <1>3 DEF submitIO, XferType, IoType, xferVars
  <2>2. QED
    BY <1>3, <2>1 DEF submitIO
<1>4. CASE unregisterAsyncCompletion(x)
  BY <1>4 DEF unregisterAsyncCompletion, HandleType, XferType, xferVars, closeVars
<1>5. CASE SubmitUndo(x)
  BY <1>5 DEF SubmitUndo, XferType
<1>6. CASE Cancel(x)
  BY <1>6 DEF Cancel, Requests, IoType
<1>7. CASE RequestCompletes(x)
  <2>1. IoType'
    BY <1>7, EndRequestsType DEF RequestCompletes, IoType
  <2>2. QED
    BY <1>7, <2>1 DEF RequestCompletes
<1>8. QED
  BY <1>1, <1>2, <1>3, <1>4, <1>5, <1>6, <1>7 DEF SubmitStep

LEMMA PumpTypeOK == ASSUME TypeOK, PumpHasPacket, iocpPump PROVE TypeOK'
<1> USE SameType DEF TypeOK
<1>1. ASSUME NEW x \in Xfers, pumpPacket(x) PROVE TypeOK'
  <2>1. got' \in Xfers \X BOOLEAN
    <3> DEFINE e == packets[x] = "err"
    <3>1. got' = <<x, e>> /\ e \in BOOLEAN
      BY <1>1 DEF pumpPacket
    <3>2. QED
      BY <3>1
  <2>2. PumpType' /\ IoType'
    BY <1>1, <2>1 DEF pumpPacket, PumpType, IoType
  <2>3. QED
    BY <1>1, <2>2 DEF pumpPacket
<1>2. CASE pumpNil
  BY <1>2 DEF pumpNil, PumpType, IoType
<1>3. CASE pumpDrainTimeout
  BY <1>3 DEF pumpDrainTimeout, PumpType
<1>4. CASE pumpRecheck
  <2>1. PumpType'
    BY <1>4 DEF pumpRecheck, RecheckDrains, PumpType
  <2>2. QED
    BY <1>4, <2>1 DEF pumpRecheck
<1>5. CASE pumpDispatch
  <2>1. HandleType'
    BY <1>5 DEF pumpDispatch, HandleType, closeVars
  <2>2. left' \in 0..Cardinality(Xfers)
    BY <1>5, <2>1, CountPending DEF pumpDispatch, PendingLeft, HandleType
  <2>3. PumpType'
    BY <1>5, <2>2 DEF pumpDispatch, PumpType
  <2>4. QED
    BY <1>5, <2>1, <2>3 DEF pumpDispatch
<1>6. CASE pumpNotify
  <2>1. XferType' /\ PumpType'
    BY <1>6 DEF pumpNotify, Notify, PumpHasPacket, XferType, PumpType
  <2>2. QED
    BY <1>6, <2>1 DEF pumpNotify
<1>7. CASE pumpNext
  <2>1. PumpType'
    BY <1>7, CountPending DEF pumpNext, PumpType
  <2>2. QED
    BY <1>7, <2>1 DEF pumpNext
<1>8. CASE pumpStop
  <2>1. HandleType' /\ PumpType'
    BY <1>8 DEF pumpStop, HandleType, PumpType, closeVars
  <2>2. QED
    BY <1>8, <2>1 DEF pumpStop
<1>9. QED
  BY <1>1, <1>2, <1>3, <1>4, <1>5, <1>6, <1>7, <1>8 DEF iocpPump

LEMMA CloseTypeOK == ASSUME TypeOK, ResetDevice \/ Close PROVE TypeOK'
<1> USE SameType DEF TypeOK
<1>0. Requests \in SUBSET Xfers
  BY DEF Requests
<1>1. CASE ResetDevice
  <2>1. IoType'
    BY <1>0, <1>1, EndRequestsType DEF ResetDevice, IoType
  <2>2. resets' \in 0..MaxResets
    BY <1>1 DEF ResetDevice, HandleType
  <2>3. HandleType'
    BY <1>1, <2>2 DEF ResetDevice, HandleType, closeVars
  <2>4. QED
    BY <1>1, <2>1, <2>3 DEF ResetDevice
<1>2. CASE CloseMark
  BY <1>0, <1>2 DEF CloseMark, HandleType
<1>3. CASE CloseCancel
  BY <1>3 DEF CloseCancel, HandleType, IoType, handleVars
<1>4. CASE ClosePost
  BY <1>4 DEF ClosePost, PostWake, HandleType, IoType, handleVars
<1>5. CASE CloseJoin
  BY <1>5 DEF CloseJoin, HandleType, handleVars
<1>6. CASE CloseRelease
  <2>1. IoType'
    BY <1>0, <1>6, EndRequestsType DEF CloseRelease, IoType
  <2>2. HandleType'
    BY <1>6 DEF CloseRelease, HandleType
  <2>3. QED
    BY <1>6, <2>1, <2>2 DEF CloseRelease
<1>7. QED
  BY <1>1, <1>2, <1>3, <1>4, <1>5, <1>6 DEF Close
-----------------------------------------------------------------------------
(* Where the request of a transfer is                                      *)

\* A step that takes the request of x nowhere new, and leaves its flags and its
\* registration alone, preserves what is known of x.
LEMMA SameRequest ==
  ASSUME NEW x \in Xfers, RequestInv(x),
         io'[x] = io[x], packets'[x] = packets[x], UNCHANGED <<ppc, got>>,
         submitted'[x] = submitted[x], done'[x] = done[x], spc'[x] = spc[x],
         x \in iocpPending => x \in iocpPending'
  PROVE  RequestInv(x)'
  BY DEF RequestInv, HeldInFlight, HeldOnce, HeldRegistered, InsideSubmit, Held, InHand

\* A request that ends is on the port, or lost: no transfer holds more than before.
LEMMA EndRequestsInv ==
  ASSUME NEW x \in Xfers, RequestInv(x), NEW X, NEW e,
         X \subseteq Requests, EndRequests(X, e),
         UNCHANGED <<xferVars, spc, pumpVars, iocpPending>>
  PROVE  RequestInv(x)'
<1>1. CASE x \in X
  BY <1>1 DEF RequestInv, HeldInFlight, HeldOnce, HeldRegistered, InsideSubmit, Held,
              InHand, EndRequests, Requests, xferVars, pumpVars
<1>2. CASE x \notin X
  BY <1>2, SameRequest DEF EndRequests, xferVars, pumpVars
<1>3. QED
  BY <1>1, <1>2

LEMMA XferRequests ==
  ASSUME TypeOK, NEW y \in Xfers, RequestInv(y), NEW x \in Xfers, RequestInv(x),
         SubmitEnter(y) \/ SubmitStep(y) \/ Cancel(y) \/ RequestCompletes(y)
  PROVE  RequestInv(x)'
<1> USE DEF TypeOK, handleVars, xferVars, pumpVars, closeVars, ioVars
<1> USE DEF RequestInv, HeldInFlight, HeldOnce, HeldRegistered, InsideSubmit, Held, InHand
<1>1. CASE SubmitEnter(y)
  BY <1>1 DEF SubmitEnter, XferType
<1>2. CASE registerAsyncCompletion(y)
  BY <1>2 DEF registerAsyncCompletion, StartPump, XferType
<1>3. CASE submitIO(y)
  BY <1>3 DEF submitIO, XferType, IoType
<1>4. CASE unregisterAsyncCompletion(y)
  BY <1>4 DEF unregisterAsyncCompletion, XferType
<1>5. CASE SubmitUndo(y)
  BY <1>5 DEF SubmitUndo, XferType
<1>6. CASE Cancel(y)
  BY <1>6, SameRequest DEF Cancel
<1>7. CASE RequestCompletes(y)
  BY <1>7, EndRequestsInv DEF RequestCompletes, Requests
<1>8. QED
  BY <1>1, <1>2, <1>3, <1>4, <1>5, <1>6, <1>7 DEF SubmitStep

LEMMA PumpRequests ==
  ASSUME TypeOK, PumpHasPacket, \A y \in Xfers : RequestInv(y), iocpPump
  PROVE  PumpHasPacket' /\ \A x \in Xfers : RequestInv(x)'
<1> USE DEF TypeOK, handleVars, xferVars, pumpVars, closeVars, ioVars
<1> USE DEF RequestInv, HeldInFlight, HeldOnce, HeldRegistered, InsideSubmit, Held, InHand
<1>1. ASSUME NEW x \in Xfers, pumpPacket(x)
      PROVE  PumpHasPacket' /\ \A y \in Xfers : RequestInv(y)'
  BY <1>1 DEF pumpPacket, PumpHasPacket, IoType
<1>2. CASE pumpNil
  BY <1>2 DEF pumpNil, PumpHasPacket
<1>3. CASE pumpDrainTimeout \/ pumpRecheck \/ pumpNext \/ pumpStop
  BY <1>3 DEF pumpDrainTimeout, pumpRecheck, RecheckDrains, pumpNext, pumpStop,
              PumpHasPacket
<1>4. CASE pumpDispatch
  BY <1>4 DEF pumpDispatch, PumpHasPacket
<1>5. CASE pumpNotify
  BY <1>5 DEF pumpNotify, Notify, PumpHasPacket, XferType
<1>6. QED
  BY <1>1, <1>2, <1>3, <1>4, <1>5 DEF iocpPump

LEMMA CloseRequests ==
  ASSUME PumpHasPacket, \A y \in Xfers : RequestInv(y), ResetDevice \/ Close
  PROVE  PumpHasPacket' /\ \A x \in Xfers : RequestInv(x)'
<1> USE DEF handleVars, xferVars, pumpVars, closeVars, ioVars
<1>1. PumpHasPacket'
  BY DEF ResetDevice, Close, CloseMark, CloseCancel, ClosePost, CloseJoin, CloseRelease,
         PumpHasPacket
<1>2. ASSUME NEW x \in Xfers PROVE RequestInv(x)'
  <2>1. CASE ResetDevice
    BY <2>1, EndRequestsInv DEF ResetDevice
  <2>2. CASE CloseMark \/ CloseCancel \/ ClosePost \/ CloseJoin
    BY <2>2, SameRequest DEF CloseMark, CloseCancel, ClosePost, CloseJoin
  <2>3. CASE CloseRelease
    BY <2>3, EndRequestsInv DEF CloseRelease
  <2>4. QED
    BY <2>1, <2>2, <2>3 DEF Close
<1>3. QED
  BY <1>1, <1>2

LEMMA InitIInv == Init => IInv
<1>1. Init => PumpHasPacket /\ \A x \in Xfers : RequestInv(x)
  BY DEF Init, PumpHasPacket, RequestInv, HeldInFlight, HeldOnce, HeldRegistered,
         InsideSubmit, Held, InHand
<1>2. QED
  BY <1>1, InitTypeOK DEF IInv

LEMMA NextIInv == IInv /\ [Next]_vars => IInv'
<1> SUFFICES ASSUME IInv, [Next]_vars PROVE IInv'
  OBVIOUS
<1> USE DEF IInv
<1>1. ASSUME NEW x \in Xfers,
             SubmitEnter(x) \/ SubmitStep(x) \/ Cancel(x) \/ RequestCompletes(x)
      PROVE  IInv'
  <2>1. PumpHasPacket'
    BY <1>1 DEF SubmitEnter, SubmitStep, registerAsyncCompletion, StartPump, submitIO,
       unregisterAsyncCompletion, SubmitUndo, Cancel, RequestCompletes, PumpHasPacket, pumpVars
  <2>2. QED
    BY <1>1, <2>1, XferTypeOK, XferRequests
<1>2. CASE iocpPump
  BY <1>2, PumpTypeOK, PumpRequests
<1>3. CASE ResetDevice \/ Close
  BY <1>3, CloseTypeOK, CloseRequests
<1>4. CASE UNCHANGED vars
  <2>1. TypeOK'
    BY <1>4, SameType DEF TypeOK, vars
  <2>2. PumpHasPacket' /\ \A x \in Xfers : RequestInv(x)'
    BY <1>4, SameRequest DEF PumpHasPacket, vars, handleVars, xferVars, pumpVars, ioVars
  <2>3. QED
    BY <2>1, <2>2
<1>5. QED
  BY <1>1, <1>2, <1>3, <1>4 DEF Next

LEMMA IInvHolds == Spec => []IInv
  BY InitIInv, NextIInv, PTL DEF Spec

\* Type correctness of the Windows asynchronous transfer machinery, for any finite
\* set of transfers, any number of submissions and resets and any faults.
THEOREM TypeCorrect == Spec => []TypeOK
  BY IInvHolds, PTL DEF IInv

\* Whatever Submit, Close, ResetDevice and the driver do meanwhile, the pump finds
\* the transfer of a packet it took from the port in iocpPending.
THEOREM PacketsAreRegistered == Spec => []PacketFindsTransfer
<1>1. IInv => PacketFindsTransfer
  BY DEF IInv, PumpHasPacket, RequestInv, HeldRegistered, PacketFindsTransfer
<1>2. QED
  BY <1>1, IInvHolds, PTL

\* A transfer that is done, or whose Submit has failed, has its buffer back: the
\* request is not in the driver, not on the port and not in the pump's hands.
THEOREM BufferIsReturned == Spec => []BufferReturned
<1>1. IInv => BufferReturned
  BY DEF IInv, TypeOK, XferType, IoType, RequestInv, HeldInFlight, Held, InHand,
         BufferReturned
<1>2. QED
  BY <1>1, IInvHolds, PTL
-------------------------------------------------------------------------------
USE WatchConstants DEF H!ConstantsAssumption

(* The hotplug watch                                                       *)

\* What the user has been told, but for the filter.
SeenIsTold == hView = hSeen \cap MatchingPaths

\* Nothing is seen before the snapshot, which tells each device once; Deregister
\* returns when the pump has stopped.
PumpControl ==
    /\ hPpc \in {"window", "list"} => hSeen = {}
    /\ hPpc = "window" => ~hNotified
    /\ hPpc = "snapshot" => hSeen \cap hTodo = {}
    /\ hDoneClosed => hPpc = "stopped"
    /\ hDpc = "returned" => hDoneClosed

\* While the window hears of changes they are routed, and otherwise there are none.
Listening == (hNotified => hRouted) /\ (~hNotified => hMessages = <<>>)

\* No message that waits is about d.
Unmentioned(d) == \A i \in 1..Len(hMessages) : hMessages[i][2] # d

\* The last message about a device says whether it is connected.
LastTells ==
    \A i \in 1..Len(hMessages) :
      (\A j \in (i + 1)..Len(hMessages) : hMessages[j][2] # hMessages[i][2]) =>
        (hMessages[i][1] = "arrival" <=> hMessages[i][2] \in hPresent)

\* What the pump will have seen when the snapshot is told.
known == hSeen \cup hTodo

\* A path no message is about is known exactly if it is connected, but for those that
\* the snapshot left out.
KnownIsPresent ==
    hPpc \in {"snapshot", "get"} =>
      \A d \in Paths : Unmentioned(d) =>
        /\ d \in known => d \in hPresent
        /\ d \in hPresent => d \in known \cup hFolded

\* What the snapshot left out is connected, and if it could be read the snapshot has
\* another path of the same device, which is connected as well.
FoldedHasOther ==
    /\ hFolded \subseteq hPresent
    /\ hPpc \in {"snapshot", "get"} /\ hListed =>
         \A p \in hFolded \cap Listable :
           \E q \in (hPresent \ hFolded) \cap Listable : DeviceOf[q] = DeviceOf[p]

SnapshotTold == hPpc = "get" => hTodo = {}

WatchInv ==
    /\ H!TypeOK /\ SeenIsTold /\ PumpControl /\ SnapshotTold /\ FoldedHasOther
    /\ Listening /\ (hNotified => LastTells /\ KnownIsPresent)

\* The handle's view after a device has been told to the user.
LEMMA TellArrived ==
  ASSUME SeenIsTold, hView \subseteq MatchingPaths, hCalls \in Nat,
         NEW d \in Paths, d \notin hSeen, hDpc # "returned", UNCHANGED hDpc,
         H!Arrived(d), hSeen' = hSeen \cup {d}
  PROVE  /\ SeenIsTold' /\ hView' \subseteq MatchingPaths /\ hCalls' \in Nat
         /\ H!Contract!Next \/ UNCHANGED <<hView, hCalls>>
<1>1. CASE d \in MatchingPaths
  <2>1. d \notin hView /\ hView' = hView \cup {d} /\ hCalls' = hCalls + 1
    BY <1>1 DEF SeenIsTold, H!Arrived, H!matches
  <2>2. H!Contract!HotplugEventArrived(d)
    BY <2>1 DEF H!Contract!HotplugEventArrived, H!Contract!Report
  <2>3. QED
    BY <1>1, <2>1, <2>2 DEF SeenIsTold, H!Contract!Next
<1>2. CASE d \notin MatchingPaths
  BY <1>2 DEF SeenIsTold, H!Arrived, H!matches, H!clientVars
<1>3. QED
  BY <1>1, <1>2

LEMMA TellLeft ==
  ASSUME SeenIsTold, hView \subseteq MatchingPaths, hCalls \in Nat,
         NEW d \in Paths, d \in hSeen, hDpc # "returned", UNCHANGED hDpc,
         H!Left(d), hSeen' = hSeen \ {d}
  PROVE  /\ SeenIsTold' /\ hView' \subseteq MatchingPaths /\ hCalls' \in Nat
         /\ H!Contract!Next \/ UNCHANGED <<hView, hCalls>>
<1>1. CASE d \in MatchingPaths
  <2>1. d \in hView /\ hView' = hView \ {d} /\ hCalls' = hCalls + 1
    BY <1>1 DEF SeenIsTold, H!Left, H!matches
  <2>2. H!Contract!HotplugEventLeft(d)
    BY <2>1 DEF H!Contract!HotplugEventLeft, H!Contract!Report
  <2>3. QED
    BY <1>1, <2>1, <2>2 DEF SeenIsTold, H!Contract!Next
<1>2. CASE d \notin MatchingPaths
  BY <1>2 DEF SeenIsTold, H!Left, H!matches, H!clientVars
<1>3. QED
  BY <1>1, <1>2

LEMMA InitWatch == H!Init \/ NoWatch => WatchInv
<1> SUFFICES ASSUME H!Init \/ NoWatch PROVE WatchInv
  OBVIOUS
<1>1. hMessages = <<>> /\ Len(hMessages) = 0 /\ hSeen = {} /\ hTodo = {} /\ hView = {}
      /\ hPpc \in {"window", "stopped"} /\ ~hNotified /\ hPresent \subseteq Paths
  BY DEF H!Init, NoWatch
<1>2. H!TypeOK
  <2>1. H!SystemType
    <3>1. hChanges = 0 /\ 0 \in 0..MaxChanges
      BY DEF H!Init, NoWatch
    <3>2. hNotified \in BOOLEAN /\ hWmClose \in BOOLEAN /\ hWmQuit \in BOOLEAN
      BY DEF H!Init, NoWatch
    <3>3. <<>> \in Seq({"arrival", "removal"} \X Paths)
      OBVIOUS
    <3>4. QED
      BY <1>1, <3>1, <3>2, <3>3 DEF H!SystemType
  <2>2. H!HandleType /\ H!ProcType
    BY <1>1 DEF H!Init, NoWatch, H!HandleType, H!ProcType
  <2>3. hView \subseteq MatchingPaths /\ hCalls \in Nat
    BY <1>1 DEF H!Init, NoWatch
  <2>4. QED
    BY <2>1, <2>2, <2>3 DEF H!TypeOK
<1>3. SeenIsTold /\ PumpControl /\ SnapshotTold /\ FoldedHasOther
  BY DEF H!Init, NoWatch, SeenIsTold, PumpControl, SnapshotTold, FoldedHasOther
<1>4. QED
  BY <1>1, <1>2, <1>3 DEF WatchInv, Listening

LEMMA CountIsNat == \A S \in SUBSET Paths : H!Cardinality(S) \in Nat
<1>1. \A S : H!Cardinality(S) = Cardinality(S)
  BY DEF H!Cardinality, Cardinality
<1>2. IsFiniteSet(Paths)
  BY DEF H!IsFiniteSet, IsFiniteSet
<1>3. QED
  BY <1>1, <1>2, FS_Subset, FS_CardinalityType

\* The messages about the paths of G are the last ones.
LEMMA NewsSteps ==
  ASSUME WatchInv, NEW G \in SUBSET Paths,
         NEW news \in Seq({"arrival", "removal"} \X Paths), H!Change(news),
         hPresent' \subseteq Paths, FoldedHasOther',
         \A x \in hPresent \ G : x \in hFolded' <=> x \in hFolded,
         \A x \in Paths \ G : x \in hPresent' <=> x \in hPresent,
         \A i \in 1..Len(news) : /\ news[i][2] \in G
                                 /\ news[i][1] = "arrival" <=> news[i][2] \in hPresent',
         \A x \in G : \E i \in 1..Len(news) : news[i][2] = x
  PROVE  WatchInv'
<1>t. H!SystemType /\ H!HandleType /\ H!ProcType
  BY DEF WatchInv, H!TypeOK
<1>2. /\ UNCHANGED <<hNotified, hWmClose, hWmQuit, hSeen, hStopped, hDoneClosed, hRouted,
                     hRegPc, hReady, hListed, hPpc, hTodo, hDpc, hView, hCalls>>
      /\ hMessages' = IF hNotified THEN hMessages \o news ELSE hMessages
      /\ hChanges' = hChanges + 1 /\ hChanges < MaxChanges
  BY DEF H!Change, H!handleVars, H!pumpVars, H!clientVars
<1> DEFINE M == {"arrival", "removal"} \X Paths
<1>m. hMessages \in Seq(M) /\ news \in Seq(M)
  BY <1>t DEF H!SystemType
<1>3. H!TypeOK' /\ SeenIsTold' /\ PumpControl' /\ SnapshotTold' /\ Listening'
  <2>1. H!SystemType'
    <3>1. hMessages' \in Seq(M)
      BY <1>m, <1>2, ConcatProperties
    <3>2. hChanges' \in 0..MaxChanges
      BY <1>t, <1>2 DEF H!SystemType
    <3>3. QED
      BY <1>t, <1>2, <3>1, <3>2 DEF H!SystemType
  <2>2. hFolded' \subseteq Paths
    BY DEF FoldedHasOther
  <2>3. QED
    BY <1>t, <1>2, <2>1, <2>2 DEF WatchInv, H!TypeOK, H!HandleType, H!ProcType, SeenIsTold,
       PumpControl, SnapshotTold, Listening
<1>4. ASSUME hNotified PROVE LastTells' /\ KnownIsPresent'
  <2> DEFINE n == Len(hMessages)
             m == Len(news)
  <2>1. /\ Len(hMessages') = n + m /\ n \in Nat /\ m \in Nat
        /\ \A i \in 1..n : hMessages'[i] = hMessages[i]
        /\ \A i \in 1..m : hMessages'[n + i] = news[i]
    <3> HIDE DEF M
    <3>1. n \in Nat /\ m \in Nat
      BY <1>m, LenProperties
    <3>2. hMessages' = hMessages \o news
      BY <1>2, <1>4
    <3>3. /\ Len(hMessages') = n + m
          /\ \A i \in 1..(n + m) :
               hMessages'[i] = IF i <= n THEN hMessages[i] ELSE news[i - n]
      BY <1>m, <3>2, ConcatProperties
    <3> HIDE DEF n, m
    <3>4. \A i \in 1..n : i \in 1..(n + m) /\ i <= n
      BY <3>1
    <3>5. \A i \in 1..m : n + i \in 1..(n + m) /\ ~(n + i <= n) /\ (n + i) - n = i
      BY <3>1
    <3>6. QED
      BY <3>1, <3>3, <3>4, <3>5
  <2>2. \A i \in 1..n : hMessages[i][2] \in Paths
    BY <1>t DEF H!SystemType
  <2> HIDE DEF n, m
  <2>3. LastTells'
    <3> SUFFICES ASSUME NEW i \in 1..Len(hMessages'),
                        \A j \in (i + 1)..Len(hMessages') : hMessages'[j][2] # hMessages'[i][2]
                 PROVE  hMessages'[i][1] = "arrival" <=> hMessages'[i][2] \in hPresent'
      BY DEF LastTells
    <3>1. CASE i \in (n + 1)..(n + m)
      <4>1. i - n \in 1..m /\ hMessages'[i] = news[i - n]
        BY <2>1, <3>1
      <4>2. QED
        BY <4>1 DEF m
    <3>2. CASE i \in 1..n
      <4>1. hMessages[i][2] \notin G
        <5>1. ASSUME NEW g \in 1..m PROVE news[g][2] # hMessages[i][2]
          <6>1. n + g \in (i + 1)..Len(hMessages') /\ hMessages'[n + g] = news[g]
            BY <2>1, <3>2
          <6>2. QED
            BY <2>1, <3>2, <6>1
        <5>2. QED
          BY <5>1 DEF m
      <4>2. \A j \in (i + 1)..n : hMessages[j][2] # hMessages[i][2]
        BY <2>1, <3>2
      <4>3. hMessages[i][1] = "arrival" <=> hMessages[i][2] \in hPresent
        BY <1>4, <3>2, <4>2 DEF WatchInv, LastTells, n
      <4>4. QED
        BY <2>1, <2>2, <3>2, <4>1, <4>3
    <3>3. QED
      BY <2>1, <3>1, <3>2
  <2>4. KnownIsPresent'
    <3> SUFFICES ASSUME hPpc' \in {"snapshot", "get"}, NEW x \in Paths, Unmentioned(x)'
                 PROVE  /\ x \in known' => x \in hPresent'
                        /\ x \in hPresent' => x \in (known \cup hFolded)'
      BY DEF KnownIsPresent
    <3>1. x \notin G
      <4>1. ASSUME NEW g \in 1..m PROVE news[g][2] # x
        <5>1. n + g \in 1..Len(hMessages') /\ hMessages'[n + g] = news[g]
          BY <2>1
        <5>2. QED
          BY <5>1 DEF Unmentioned
      <4>2. QED
        BY <4>1 DEF m
    <3>2. Unmentioned(x)
      BY <2>1 DEF Unmentioned, n
    <3>3. QED
      BY <1>2, <1>4, <3>1, <3>2 DEF WatchInv, KnownIsPresent, known
  <2>5. QED
    BY <2>3, <2>4
<1>5. QED
  BY <1>2, <1>3, <1>4 DEF WatchInv

\* An interface comes up, or those of a device go: the messages about them are the last.
LEMMA ChangeSteps ==
  ASSUME WatchInv, (\E p \in Paths : H!PlugIn(p)) \/ (\E d : H!PullOut(d))
  PROVE  WatchInv' /\ UNCHANGED <<hView, hCalls, hDpc>>
<1>t. hPresent \subseteq Paths /\ FoldedHasOther
  BY DEF WatchInv, H!TypeOK, H!SystemType
<1>1. ASSUME NEW p \in Paths, H!PlugIn(p) PROVE WatchInv' /\ UNCHANGED <<hView, hCalls, hDpc>>
  <2> DEFINE news == <<<<"arrival", p>>>>
  <2>1. /\ H!Change(news) /\ p \notin hPresent /\ hPresent' = hPresent \cup {p}
        /\ UNCHANGED hFolded
    BY <1>1 DEF H!PlugIn
  <2>2. UNCHANGED <<hListed, hPpc, hView, hCalls, hDpc>>
    BY <2>1 DEF H!Change, H!pumpVars, H!clientVars
  <2>3. FoldedHasOther'
    BY <1>t, <2>1, <2>2 DEF FoldedHasOther
  <2>4. /\ news \in Seq({"arrival", "removal"} \X Paths) /\ Len(news) = 1
        /\ news[1] = <<"arrival", p>>
    OBVIOUS
  <2> HIDE DEF news
  <2>5. WatchInv'
    <3>1. \A i \in 1..Len(news) : /\ news[i][2] \in {p}
                                  /\ news[i][1] = "arrival" <=> news[i][2] \in hPresent'
      BY <2>1, <2>4
    <3>2. \A x \in {p} : \E i \in 1..Len(news) : news[i][2] = x
      BY <2>4
    <3>3. \A x \in Paths \ {p} : x \in hPresent' <=> x \in hPresent
      BY <2>1
    <3>4. hPresent' \subseteq Paths /\ {p} \in SUBSET Paths
          /\ \A x \in hPresent \ {p} : x \in hFolded' <=> x \in hFolded
      BY <1>t, <2>1
    <3>5. QED
      BY <2>1, <2>3, <2>4, <3>1, <3>2, <3>3, <3>4, NewsSteps
  <2>6. QED
    BY <2>2, <2>5
<1>2. ASSUME NEW d, H!PullOut(d) PROVE WatchInv' /\ UNCHANGED <<hView, hCalls, hDpc>>
  <2> DEFINE G == H!Of(d) \cap hPresent
             c == H!Cardinality(G)
  <2>1. /\ G \in SUBSET Paths /\ G \subseteq hPresent
        /\ \A x \in hPresent : x \in G <=> DeviceOf[x] = d
    BY <1>t DEF H!Of
  <2>2. hPresent' = hPresent \ G /\ hFolded' = hFolded \ G
    BY <1>2 DEF H!PullOut
  <2>3. PICK q \in H!InAnyOrder(G) : H!Change([i \in DOMAIN q |-> <<"removal", q[i]>>])
    BY <1>2 DEF H!PullOut
  <2> DEFINE news == [i \in DOMAIN q |-> <<"removal", q[i]>>]
  <2> HIDE DEF G
  <2>4. c \in Nat
    BY <2>1, CountIsNat
  <2> HIDE DEF c
  <2>5. q \in [1..c -> G] /\ \A x \in G : \E i \in 1..c : q[i] = x
    BY DEF H!InAnyOrder, c
  <2>6. /\ news \in Seq({"arrival", "removal"} \X Paths) /\ Len(news) = c
        /\ \A i \in 1..c : news[i] = <<"removal", q[i]>>
    BY <2>1, <2>4, <2>5
  <2>7. H!Change(news)
    BY <2>3
  <2>8. UNCHANGED <<hListed, hPpc, hView, hCalls, hDpc>>
    BY <2>7 DEF H!Change, H!pumpVars, H!clientVars
  <2> HIDE DEF news
  <2>9. FoldedHasOther'
    <3>1. hFolded' \subseteq hPresent'
      BY <1>t, <2>2 DEF FoldedHasOther
    <3>2. ASSUME hPpc \in {"snapshot", "get"}, hListed, NEW x \in hFolded' \cap Listable
          PROVE  \E y \in (hPresent' \ hFolded') \cap Listable : DeviceOf[y] = DeviceOf[x]
      <4>1. x \in hFolded \cap Listable /\ x \in hPresent /\ x \notin G
        BY <1>t, <2>2, <3>2 DEF FoldedHasOther
      <4>2. PICK y \in (hPresent \ hFolded) \cap Listable : DeviceOf[y] = DeviceOf[x]
        BY <1>t, <3>2, <4>1 DEF FoldedHasOther
      <4>3. y \notin G
        BY <2>1, <4>1, <4>2
      <4>4. QED
        BY <2>2, <4>2, <4>3
    <3>3. QED
      BY <2>8, <3>1, <3>2 DEF FoldedHasOther
  <2>10. WatchInv'
    <3>1. \A i \in 1..Len(news) : /\ news[i][2] \in G
                                  /\ news[i][1] = "arrival" <=> news[i][2] \in hPresent'
      BY <2>2, <2>5, <2>6
    <3>2. \A x \in G : \E i \in 1..Len(news) : news[i][2] = x
      <4> SUFFICES ASSUME NEW x \in G PROVE \E i \in 1..Len(news) : news[i][2] = x
        OBVIOUS
      <4>1. PICK i \in 1..c : q[i] = x
        BY <2>5
      <4>2. QED
        BY <2>6, <4>1
    <3>3. \A x \in Paths \ G : x \in hPresent' <=> x \in hPresent
      BY <2>2
    <3>4. hPresent' \subseteq Paths /\ \A x \in hPresent \ G : x \in hFolded' <=> x \in hFolded
      BY <1>t, <2>2
    <3>5. QED
      BY <2>1, <2>6, <2>7, <2>9, <3>1, <3>2, <3>3, <3>4, NewsSteps
  <2>11. QED
    BY <2>8, <2>10
<1>3. QED
  BY <1>1, <1>2

\* The pump handles the first message: if it was the last about its device, the
\* device is then seen exactly if it is connected.
LEMMA MessageStep ==
  ASSUME WatchInv, H!pumpDeviceChange
  PROVE  WatchInv' /\ (H!Contract!Next \/ UNCHANGED <<hView, hCalls, hDpc>>)
<1> DEFINE e == Head(hMessages)[1]
           d == Head(hMessages)[2]
<1>t. H!SystemType /\ H!HandleType /\ H!ProcType
  BY DEF WatchInv, H!TypeOK
<1>1. /\ hPpc = "get" /\ hMessages # <<>> /\ hMessages' = Tail(hMessages)
      /\ H!onDeviceChange(e, d)
      /\ UNCHANGED <<hPresent, hChanges, hNotified, hWmClose, hWmQuit, hStopped, hDoneClosed,
                     hRouted, hRegPc, hReady, hListed, hFolded, hPpc, hTodo, hDpc>>
  BY DEF H!pumpDeviceChange, H!regVars, H!pumpVars
<1>2. /\ e \in {"arrival", "removal"} /\ d \in Paths
      /\ Len(hMessages) \in Nat \ {0} /\ Len(hMessages') = Len(hMessages) - 1
      /\ Head(hMessages) = hMessages[1]
      /\ \A i \in 1..Len(hMessages') : hMessages'[i] = hMessages[i + 1]
      /\ hMessages' \in Seq({"arrival", "removal"} \X Paths)
  BY <1>1, <1>t DEF H!SystemType
<1>3. hDpc # "returned" /\ hTodo = {} /\ known = hSeen /\ known' = hSeen'
  BY <1>1 DEF WatchInv, PumpControl, SnapshotTold, known
<1>4. /\ SeenIsTold' /\ hView' \subseteq MatchingPaths /\ hCalls' \in Nat
      /\ hSeen' \subseteq Paths
      /\ H!Contract!Next \/ UNCHANGED <<hView, hCalls>>
  <2> HIDE DEF e, d
  <2>1. CASE hRouted /\ e = "arrival" /\ ~H!alreadySeen(d) /\ hSeen' = hSeen \cup {d} /\ H!Arrived(d)
    <3>1. d \notin hSeen
      BY <2>1 DEF H!alreadySeen
    <3>2. QED
      BY <1>1, <1>2, <1>3, <1>t, <2>1, <3>1, TellArrived DEF WatchInv, H!TypeOK, H!HandleType
  <2>2. CASE hRouted /\ e = "removal" /\ d \in hSeen /\ hSeen' = hSeen \ {d} /\ H!Left(d)
    BY <1>1, <1>2, <1>3, <1>t, <2>2, TellLeft DEF WatchInv, H!TypeOK, H!HandleType
  <2>3. CASE UNCHANGED <<hSeen, H!clientVars>>
    BY <1>t, <2>3 DEF WatchInv, H!TypeOK, H!HandleType, SeenIsTold, H!clientVars
  <2>4. QED
    BY <1>1, <2>1, <2>2, <2>3 DEF H!onDeviceChange
<1>5. H!TypeOK' /\ PumpControl' /\ SnapshotTold' /\ Listening' /\ FoldedHasOther'
  BY <1>1, <1>2, <1>3, <1>4, <1>t DEF WatchInv, H!TypeOK, H!SystemType, H!HandleType,
     H!ProcType, PumpControl, SnapshotTold, Listening, FoldedHasOther
<1>6. ASSUME hNotified PROVE LastTells' /\ KnownIsPresent'
  <2>1. \A x : x \in hSeen' <=> IF x = d THEN e = "arrival" ELSE x \in hSeen
    <3> HIDE DEF e, d
    <3>1. hRouted
      BY <1>6 DEF WatchInv, Listening
    <3>2. QED
      BY <1>1, <1>2, <3>1 DEF H!onDeviceChange, H!alreadySeen
  <2>2. LastTells'
    <3> SUFFICES ASSUME NEW i \in 1..Len(hMessages'),
                        \A j \in (i + 1)..Len(hMessages') : hMessages'[j][2] # hMessages'[i][2]
                 PROVE  hMessages'[i][1] = "arrival" <=> hMessages'[i][2] \in hPresent'
      BY DEF LastTells
    <3>1. i + 1 \in 1..Len(hMessages)
      BY <1>2
    <3>2. ASSUME NEW j \in (i + 2)..Len(hMessages) PROVE hMessages[j][2] # hMessages[i + 1][2]
      <4>1. j - 1 \in (i + 1)..Len(hMessages') /\ j - 1 \in 1..Len(hMessages')
        BY <1>2
      <4>2. hMessages'[j - 1] = hMessages[j] /\ hMessages'[i] = hMessages[i + 1]
        BY <1>2, <4>1
      <4>3. QED
        BY <4>1, <4>2
    <3>3. hMessages[i + 1][1] = "arrival" <=> hMessages[i + 1][2] \in hPresent
      BY <1>6, <3>1, <3>2 DEF WatchInv, LastTells
    <3>4. QED
      BY <1>1, <1>2, <3>3
  <2>3. KnownIsPresent'
    <3> SUFFICES ASSUME NEW x \in Paths, Unmentioned(x)'
                 PROVE  /\ x \in hSeen' => x \in hPresent
                        /\ x \in hPresent => x \in hSeen' \cup hFolded
      BY <1>1, <1>3 DEF KnownIsPresent
    <3>1. \A j \in 2..Len(hMessages) : hMessages[j][2] # x
      <4> SUFFICES ASSUME NEW j \in 2..Len(hMessages) PROVE hMessages[j][2] # x
        OBVIOUS
      <4>1. j - 1 \in 1..Len(hMessages') /\ hMessages'[j - 1] = hMessages[j]
        BY <1>2
      <4>2. QED
        BY <4>1 DEF Unmentioned
    <3>2. CASE x = d
      <4>1. 1 \in 1..Len(hMessages) /\ hMessages[1][2] = x /\ e = hMessages[1][1]
        BY <1>2, <3>2
      <4>2. e = "arrival" <=> x \in hPresent
        BY <1>6, <3>1, <4>1 DEF WatchInv, LastTells
      <4>3. QED
        BY <2>1, <3>2, <4>2
    <3>3. CASE x # d
      <4>1. Unmentioned(x)
        BY <1>2, <3>1, <3>3 DEF Unmentioned
      <4>2. QED
        BY <1>1, <1>3, <1>6, <2>1, <3>3, <4>1 DEF WatchInv, KnownIsPresent
    <3>4. QED
      BY <3>2, <3>3
  <2>4. QED
    BY <2>2, <2>3
<1>7. QED
  BY <1>1, <1>4, <1>5, <1>6 DEF WatchInv

\* The snapshot is taken; it is told; a change of the window, or its end, leaves no
\* message behind.
LEMMA PumpSteps ==
  ASSUME WatchInv,
         \/ H!pumpWindow \/ H!pumpList \/ H!pumpSnapshotEnd \/ H!pumpClose \/ H!pumpLeave
         \/ H!pumpCleanup
  PROVE  WatchInv' /\ UNCHANGED <<hView, hCalls, hDpc>>
<1>t. H!SystemType /\ H!HandleType /\ H!ProcType
  BY DEF WatchInv, H!TypeOK
<1>1. UNCHANGED <<hPresent, hChanges, hSeen, hStopped, hRegPc, hDpc, hView, hCalls>>
  BY DEF H!pumpWindow, H!pumpList, H!pumpSnapshotEnd, H!pumpClose, H!pumpLeave, H!pumpCleanup,
     H!systemVars, H!handleVars, H!regVars, H!pumpVars, H!clientVars
<1>2. H!SystemType' /\ H!HandleType' /\ H!ProcType'
  <2>1. CASE H!pumpClose \/ H!pumpCleanup
    <3>1. hMessages' = <<>> /\ <<>> \in Seq({"arrival", "removal"} \X Paths)
      BY <2>1 DEF H!pumpClose, H!pumpCleanup
    <3>2. /\ hNotified' = FALSE /\ hWmClose' = FALSE /\ hWmQuit' \in {hWmQuit, TRUE}
          /\ hDoneClosed' \in {hDoneClosed, TRUE} /\ hRouted' \in {hRouted, FALSE}
          /\ hPpc' \in {hPpc, "stopped"} /\ UNCHANGED <<hReady, hListed, hFolded, hTodo>>
      BY <2>1 DEF H!pumpClose, H!pumpCleanup, H!handleVars, H!regVars, H!pumpVars
    <3>3. H!SystemType' /\ H!HandleType'
      BY <1>1, <1>t, <3>1, <3>2 DEF H!SystemType, H!HandleType
    <3>4. H!ProcType'
      BY <1>1, <1>t, <3>2 DEF H!ProcType
    <3>5. QED
      BY <3>3, <3>4
  <2>2. CASE H!pumpWindow
    BY <1>1, <1>t, <2>2 DEF H!SystemType, H!HandleType, H!ProcType, H!pumpWindow
  <2>3. CASE H!pumpList \/ H!pumpSnapshotEnd \/ H!pumpLeave
    <3>1. /\ UNCHANGED <<H!systemVars, H!handleVars, hRegPc, hReady, hDpc>>
          /\ hTodo' \subseteq hPresent \cup hTodo /\ hListed' \in {hListed, FALSE}
          /\ hFolded' \subseteq hPresent \cup hFolded
          /\ hPpc' \in {"snapshot", "get", "cleanup"}
      BY <2>3 DEF H!pumpList, H!Snapshots, H!pumpSnapshotEnd, H!pumpLeave, H!regVars
    <3>2. H!SystemType' /\ H!HandleType'
      BY <1>t, <3>1 DEF H!SystemType, H!HandleType, H!systemVars, H!handleVars
    <3>3. H!ProcType'
      BY <1>t, <3>1 DEF H!SystemType, H!ProcType
    <3>4. QED
      BY <3>2, <3>3
  <2>4. QED
    BY <2>1, <2>2, <2>3
<1>3. H!TypeOK' /\ SeenIsTold'
  BY <1>1, <1>2 DEF WatchInv, H!TypeOK, SeenIsTold
<1>4. PumpControl' /\ SnapshotTold'
  BY <1>1 DEF WatchInv, PumpControl, SnapshotTold, H!pumpWindow, H!pumpList, H!pumpSnapshotEnd,
     H!pumpClose, H!pumpLeave, H!pumpCleanup, H!handleVars, H!pumpVars
<1>5. Listening'
  BY DEF WatchInv, Listening, H!pumpWindow, H!pumpList, H!pumpSnapshotEnd,
     H!pumpClose, H!pumpLeave, H!pumpCleanup, H!handleVars, H!systemVars
<1>f. FoldedHasOther'
  <2>1. CASE H!pumpList
    <3>1. hFolded' = hPresent \ hTodo' /\ (hListed' => hTodo' \in H!Snapshots)
      BY <2>1 DEF H!pumpList
    <3>2. QED
      BY <1>1, <3>1 DEF FoldedHasOther, H!Snapshots
  <2>2. CASE H!pumpSnapshotEnd
    BY <1>1, <2>2 DEF WatchInv, FoldedHasOther, H!pumpSnapshotEnd, H!regVars
  <2>3. CASE H!pumpWindow \/ H!pumpClose \/ H!pumpLeave \/ H!pumpCleanup
    BY <1>1, <2>3 DEF WatchInv, FoldedHasOther, H!pumpWindow, H!pumpClose, H!pumpLeave,
       H!pumpCleanup, H!regVars, H!pumpVars
  <2>4. QED
    BY <2>1, <2>2, <2>3
<1>6. ASSUME hNotified' PROVE LastTells' /\ KnownIsPresent'
  <2>1. CASE H!pumpClose \/ H!pumpCleanup
    BY <1>6, <2>1 DEF H!pumpClose, H!pumpCleanup
  <2>2. CASE H!pumpWindow
    <3>1. hPpc' \in {"list", "stopped"} /\ hMessages' = hMessages
      BY <2>2 DEF H!pumpWindow
    <3>2. KnownIsPresent'
      BY <3>1 DEF KnownIsPresent
    <3>3. QED
      <4>1. Len(<<>>) = 0
        OBVIOUS
      <4>2. hMessages' = <<>>
        BY <2>2, <3>1 DEF H!pumpWindow, WatchInv, PumpControl, Listening
      <4>3. QED
        BY <3>2, <4>1, <4>2 DEF LastTells
  <2>3. CASE H!pumpList
    <3>1. /\ UNCHANGED <<hNotified, hMessages>> /\ hSeen' = {}
          /\ hTodo' \subseteq hPresent /\ hFolded' = hPresent \ hTodo'
      BY <1>1, <2>3 DEF WatchInv, PumpControl, H!pumpList, H!Snapshots, H!systemVars
    <3>2. LastTells'
      BY <1>1, <1>6, <3>1 DEF WatchInv, LastTells
    <3>3. KnownIsPresent'
      BY <1>1, <3>1 DEF KnownIsPresent, known
    <3>4. QED
      BY <3>2, <3>3
  <2>4. CASE H!pumpSnapshotEnd \/ H!pumpLeave
    <3>1. UNCHANGED <<hNotified, hMessages, hTodo, hListed, hFolded>>
      BY <2>4 DEF H!pumpSnapshotEnd, H!pumpLeave, H!systemVars, H!regVars
    <3>2. hPpc' \in {"snapshot", "get"} => hPpc \in {"snapshot", "get"}
      BY <2>4 DEF H!pumpSnapshotEnd, H!pumpLeave
    <3>3. QED
      BY <1>1, <1>6, <3>1, <3>2 DEF WatchInv, LastTells, KnownIsPresent, known, Unmentioned
  <2>5. QED
    BY <2>1, <2>2, <2>3, <2>4
<1>7. QED
  BY <1>1, <1>3, <1>4, <1>5, <1>6, <1>f DEF WatchInv

LEMMA SnapshotSteps ==
  ASSUME WatchInv, NEW d \in Paths, H!pumpSnapshot(d)
  PROVE  WatchInv' /\ (H!Contract!Next \/ UNCHANGED <<hView, hCalls, hDpc>>)
<1>t. H!SystemType /\ H!HandleType /\ H!ProcType
  BY DEF WatchInv, H!TypeOK
<1>1. /\ hPpc = "snapshot" /\ d \in hTodo /\ H!Arrived(d) /\ hSeen' = hSeen \cup {d}
      /\ hTodo' = hTodo \ {d}
      /\ UNCHANGED <<hPresent, hChanges, hNotified, hMessages, hWmClose, hWmQuit, hStopped,
                     hDoneClosed, hRouted, hRegPc, hReady, hListed, hFolded, hPpc, hDpc>>
  BY DEF H!pumpSnapshot, H!SnapshotDevice, H!systemVars, H!regVars
<1>2. d \notin hSeen /\ hDpc # "returned" /\ known' = known
  BY <1>1 DEF WatchInv, PumpControl, known
<1>3. /\ SeenIsTold' /\ hView' \subseteq MatchingPaths /\ hCalls' \in Nat
      /\ H!Contract!Next \/ UNCHANGED <<hView, hCalls>>
  BY <1>1, <1>2, TellArrived DEF WatchInv, H!TypeOK
<1>4. H!TypeOK'
  BY <1>1, <1>3, <1>t DEF H!TypeOK, H!SystemType, H!HandleType, H!ProcType
<1>5. PumpControl' /\ SnapshotTold' /\ Listening' /\ FoldedHasOther'
  BY <1>1 DEF WatchInv, PumpControl, SnapshotTold, Listening, FoldedHasOther
<1>6. hNotified' => LastTells' /\ KnownIsPresent'
  BY <1>1, <1>2 DEF WatchInv, LastTells, KnownIsPresent, Unmentioned
<1>7. QED
  BY <1>1, <1>3, <1>4, <1>5, <1>6 DEF WatchInv

\* The caller: registration and Deregister.
LEMMA CallerSteps ==
  ASSUME WatchInv, H!registerReturn \/ H!Deregister
  PROVE  WatchInv' /\ (H!Contract!Next \/ UNCHANGED <<hView, hCalls, hDpc = "returned">>)
<1>t. H!SystemType /\ H!HandleType /\ H!ProcType
  BY DEF WatchInv, H!TypeOK
<1>1. UNCHANGED <<hPresent, hChanges, hNotified, hMessages, hWmQuit, hSeen, hDoneClosed,
                  hRouted, hReady, hListed, hFolded, hPpc, hTodo, hView, hCalls>>
  BY DEF H!registerReturn, H!Deregister, H!DeregisterMark, H!DeregisterPost, H!DeregisterJoin,
     H!systemVars, H!handleVars, H!regVars, H!pumpVars, H!clientVars
<1>2. H!SystemType' /\ H!HandleType' /\ H!ProcType'
  <2>1. /\ hWmClose' \in {hWmClose, hNotified} /\ hStopped' \in {hStopped, TRUE}
        /\ hRegPc' \in {hRegPc, "returned", "failed"}
        /\ hDpc' \in {hDpc, "post", "join", "returned"}
    BY DEF H!registerReturn, H!Deregister, H!DeregisterMark, H!DeregisterPost, H!PostClose,
       H!DeregisterJoin, H!systemVars, H!handleVars, H!regVars
  <2>2. H!SystemType'
    BY <1>1, <1>t, <2>1 DEF H!SystemType
  <2>3. H!HandleType'
    BY <1>1, <1>t, <2>1 DEF H!HandleType
  <2>4. H!ProcType'
    <3>1. hDpc' \in {"idle", "post", "join", "returned"}
      BY <1>t, <2>1 DEF H!ProcType
    <3>2. hRegPc' \in {"wait", "returned", "failed"}
      BY <1>t, <2>1 DEF H!ProcType
    <3>3. QED
      BY <1>1, <1>t, <3>1, <3>2 DEF H!ProcType
  <2>5. QED
    BY <2>2, <2>3, <2>4
<1>3. H!TypeOK' /\ SeenIsTold' /\ SnapshotTold' /\ Listening' /\ FoldedHasOther'
  BY <1>1, <1>2 DEF WatchInv, H!TypeOK, SeenIsTold, SnapshotTold, Listening, FoldedHasOther
<1>4. PumpControl'
  BY <1>1 DEF WatchInv, PumpControl, H!registerReturn, H!Deregister, H!DeregisterMark,
     H!DeregisterPost, H!DeregisterJoin, H!DoneReceived
<1>5. hNotified' => LastTells' /\ KnownIsPresent'
  BY <1>1 DEF WatchInv, LastTells, KnownIsPresent, known, Unmentioned
<1>6. H!Contract!Next \/ UNCHANGED <<hView, hCalls, hDpc = "returned">>
  <2>1. CASE H!DeregisterJoin
    BY <1>1, <2>1 DEF H!DeregisterJoin, H!Contract!Next, H!Contract!Deregister
  <2>2. CASE H!registerReturn \/ H!DeregisterMark \/ H!DeregisterPost
    BY <1>1, <2>2 DEF H!registerReturn, H!DeregisterMark, H!DeregisterPost
  <2>3. QED
    BY <2>1, <2>2 DEF H!Deregister
<1>7. QED
  BY <1>3, <1>4, <1>5, <1>6 DEF WatchInv

\* A step of the watch keeps the invariant, and is a step of the contract or none.
LEMMA NextWatch ==
  ASSUME WatchInv, [H!Next]_watchVars
  PROVE  WatchInv' /\ (H!Contract!Next \/ UNCHANGED <<hView, hCalls, hDpc = "returned">>)
<1>1. CASE UNCHANGED watchVars
  BY <1>1 DEF watchVars, WatchInv, H!TypeOK, H!SystemType, H!HandleType, H!ProcType,
     SeenIsTold, PumpControl, SnapshotTold, Listening, LastTells, KnownIsPresent, known,
     Unmentioned, FoldedHasOther
<1>2. CASE \E p \in Paths : H!PlugIn(p) \/ H!PullOut(DeviceOf[p])
  BY <1>2, ChangeSteps
<1>3. CASE H!pump
  <2>1. CASE H!pumpDeviceChange
    BY <2>1, MessageStep
  <2>2. CASE \E d \in Paths : H!pumpSnapshot(d)
    BY <2>2, SnapshotSteps
  <2>3. CASE \/ H!pumpWindow \/ H!pumpList \/ H!pumpSnapshotEnd \/ H!pumpClose \/ H!pumpLeave
             \/ H!pumpCleanup
    BY <2>3, PumpSteps
  <2>4. QED
    BY <1>3, <2>1, <2>2, <2>3 DEF H!pump
<1>4. CASE H!registerReturn \/ H!Deregister
  BY <1>4, CallerSteps
<1>5. QED
  BY <1>1, <1>2, <1>3, <1>4 DEF H!Next

LEMMA WatchSteps == [MCNext]_allVars => [H!Next]_watchVars
  BY DEF MCNext, allVars

LEMMA WatchInvariant == MCSpec => []WatchInv
<1>1. MCInit => WatchInv
  BY InitWatch DEF MCInit
<1>2. WatchInv /\ [MCNext]_allVars => WatchInv'
  BY WatchSteps, NextWatch
<1>3. QED
  BY <1>1, <1>2, PTL DEF MCSpec

\* When every message is handled, although the snapshot of DeviceList overlaps the
\* notifications, the user has been told of no path that is gone, and of every matching
\* one that is connected but for those the snapshot left out; if it left out a path of a
\* class that DeviceList reads, and could read every class, the user knows another path
\* of that device (hotplug_windows.go, compat_windows.go).
THEOREM WatchIsCurrent == MCSpec => []WatchSound
<1>1. WatchInv => WatchSound
  <2> SUFFICES ASSUME WatchInv, hPpc = "get", hNotified, hMessages = <<>>
               PROVE  /\ hView \subseteq hPresent
                      /\ (hPresent \ hFolded) \cap MatchingPaths \subseteq hView
                      /\ hListed => \A p \in hPresent \cap MatchingPaths \cap Listable :
                                      \E q \in hView : DeviceOf[q] = DeviceOf[p]
    BY DEF WatchInv, WatchSound, H!ViewIsCurrent
  <2>1. Len(hMessages) = 0
    OBVIOUS
  <2>2. \A d \in Paths : Unmentioned(d)
    BY <2>1 DEF Unmentioned
  <2>3. known = hSeen /\ hSeen \subseteq Paths /\ hPresent \subseteq Paths
    BY DEF WatchInv, SnapshotTold, known, H!TypeOK, H!HandleType, H!SystemType
  <2>4. /\ hView \subseteq hPresent
        /\ (hPresent \ hFolded) \cap MatchingPaths \subseteq hView
    BY <2>2, <2>3 DEF WatchInv, KnownIsPresent, SeenIsTold
  <2>5. ASSUME hListed, NEW p \in hPresent \cap MatchingPaths \cap Listable
        PROVE  \E q \in hView : DeviceOf[q] = DeviceOf[p]
    <3>1. CASE p \notin hFolded
      BY <2>4, <3>1
    <3>2. CASE p \in hFolded
      <4>1. PICK q \in (hPresent \ hFolded) \cap Listable : DeviceOf[q] = DeviceOf[p]
        BY <2>5, <3>2 DEF WatchInv, FoldedHasOther
      <4>2. q \in MatchingPaths
        BY <2>3, <4>1
      <4>3. QED
        BY <2>4, <4>1, <4>2
    <3>3. QED
      BY <3>1, <3>2
  <2>6. QED
    BY <2>4, <2>5
<1>2. QED
  BY <1>1, WatchInvariant, PTL

\* The watch implements the contract of hotplug.go for interface paths: the arrivals and
\* departures of a path that the user is told alternate, and after Deregister there are
\* none.
THEOREM WatchRefinesContract == MCSpec => WatchImplementsContract
<1>1. MCInit => H!Contract!Init
  BY DEF MCInit, H!Init, NoWatch, H!Contract!Init
<1>2. WatchInv /\ [MCNext]_allVars
        => [H!Contract!Next]_<<hView, hCalls, hDpc = "returned">>
  BY WatchSteps, NextWatch
<1>3. QED
  BY <1>1, <1>2, WatchInvariant, PTL
     DEF MCSpec, WatchImplementsContract, H!ImplementsContract, H!Contract!Spec
-------------------------------------------------------------------------------
(* Isochronous transfers                                                   *)

\* The event is signaled by the completion of the request and reset by Submit; what has
\* been waited for, or never submitted, is not in the driver.
DriverIsDone == event = "signaled" \/ isoDone \/ ~isoSubmitted => ireq = "none"

\* The buffer is registered while the transfer lives.
RegisteredWhileAlive == registered => ipc \in {"idle", "wait"}

IsoInv == DriverIsDone /\ RegisteredWhileAlive

\* Once Wait has found the event signaled, whatever result it returns, the driver is done
\* with the buffer and the OVERLAPPED of the transfer; and a transfer that was closed, or could not be
\* created, has no buffer registered (isochronous_windows.go).
THEOREM IsoBuffersReturn == MCSpec => []IsoSound
<1>1. MCInit => IsoInv
  BY DEF MCInit, I!WinIsoInit, IsoInv, DriverIsDone, RegisteredWhileAlive
<1>2. IsoInv /\ I!WinIsoNext => IsoInv'
  <2> SUFFICES ASSUME IsoInv, I!WinIsoNext PROVE IsoInv'
    OBVIOUS
  <2>1. DriverIsDone'
    BY DEF IsoInv, DriverIsDone, I!WinIsoNext, I!NewIsochronousTransfer, I!Submit,
       I!MaySubmit, I!DriverCompletes, I!WaitEnter, I!WaitReturn, I!WaitFails, I!Signaled, I!Cancel,
       I!AbortPipe, I!CloseTransfer, I!HandleCloses, I!isoFields, I!isoSys
  <2>2. RegisteredWhileAlive'
    BY DEF IsoInv, RegisteredWhileAlive, I!WinIsoNext, I!NewIsochronousTransfer,
       I!UndoRegister, I!Submit, I!DriverCompletes, I!WaitEnter, I!WaitReturn, I!WaitFails, I!Cancel,
       I!CloseTransfer, I!HandleCloses, I!isoFields, I!isoSys
  <2>3. QED
    BY <2>1, <2>2 DEF IsoInv
<1>3. IsoInv /\ [MCNext]_allVars => IsoInv'
  <2>1. IsoInv /\ UNCHANGED isoVars => IsoInv'
    BY DEF IsoInv, DriverIsDone, RegisteredWhileAlive, isoVars
  <2>2. QED
    BY <1>2, <2>1 DEF MCNext, allVars
<1>4. IsoInv => IsoSound
  BY DEF IsoInv, DriverIsDone, RegisteredWhileAlive, IsoSound, I!WaitedMeansReturned,
     I!RegistrationUndone
<1>5. QED
  BY <1>1, <1>3, <1>4, PTL DEF MCSpec
-------------------------------------------------------------------------------
(* DeviceList                                                              *)

USE ListConstants

\* Whatever holds of a devnode if it holds of its parent holds of all of them.
LEMMA TreeInduction ==
  ASSUME NEW S \in SUBSET Nodes,
         \A n \in Nodes : (n \in RootHubs \/ Parent[n] \in S) => n \in S
  PROVE  S = Nodes
<1>1. SUFFICES ASSUME Nodes \ S # {} PROVE FALSE
  OBVIOUS
<1>2. PICK n \in Nodes \ S : n \in RootHubs \/ Parent[n] \notin Nodes \ S
  BY <1>1 DEF D!TreeAssumption
<1>3. n \in RootHubs \/ Parent[n] \in S
  BY <1>2 DEF D!TreeAssumption
<1>4. QED
  BY <1>2, <1>3

\* The function that climbs from A until Stop solves its equation.
Climbs(g, A, Stop) == g = [n \in A |-> IF n \in Stop THEN n ELSE g[Parent[n]]]

\* A set that contains the parents of its members outside of Stop.
Closed(A, Stop) == \A n \in A : n \in Stop \/ Parent[n] \in A

LEMMA ClimbsAgree ==
  ASSUME NEW A \in SUBSET Nodes, NEW B \in SUBSET Nodes, NEW Stop,
         Closed(A, Stop), Closed(B, Stop), A \cap RootHubs \subseteq Stop,
         NEW g, Climbs(g, A, Stop), NEW h, Climbs(h, B, Stop)
  PROVE  \A n \in A \cap B : g[n] = h[n]
<1> DEFINE S == {n \in Nodes : n \in A \cap B => g[n] = h[n]}
<1>1. ASSUME NEW n \in Nodes, n \in RootHubs \/ Parent[n] \in S, n \in A \cap B
      PROVE  g[n] = h[n]
  <2>1. CASE n \in Stop
    BY <1>1, <2>1 DEF Climbs
  <2>2. CASE n \notin Stop
    <3>1. Parent[n] \in A \cap B
      BY <1>1, <2>2 DEF Closed
    <3>2. Parent[n] \in S
      BY <1>1, <2>2
    <3>3. g[Parent[n]] = h[Parent[n]]
      BY <3>1, <3>2
    <3>4. g[n] = g[Parent[n]] /\ h[n] = h[Parent[n]]
      BY <1>1, <2>2 DEF Climbs
    <3>5. QED
      BY <3>3, <3>4
  <2>3. QED
    BY <2>1, <2>2
<1>2. S = Nodes
  <2>1. \A n \in Nodes : (n \in RootHubs \/ Parent[n] \in S) => n \in S
    BY <1>1
  <2> HIDE DEF S
  <2>2. S \in SUBSET Nodes
    BY DEF S
  <2>3. QED
    BY <2>1, <2>2, TreeInduction
<1>3. QED
  BY <1>2

LEMMA ClimbExists ==
  ASSUME NEW A \in SUBSET Nodes, NEW Stop, Closed(A, Stop), A \cap RootHubs \subseteq Stop
  PROVE  \E g : Climbs(g, A, Stop)
<1> DEFINE Solved == {B \in SUBSET A : Closed(B, Stop) /\ \E g : Climbs(g, B, Stop)}
           At(B) == CHOOSE g : Climbs(g, B, Stop)
           Home(n) == CHOOSE B \in Solved : n \in B
           G == UNION Solved
           all == [n \in G |-> At(Home(n))[n]]
<1>1. \A B \in Solved : Climbs(At(B), B, Stop) /\ Closed(B, Stop) /\ B \in SUBSET Nodes
  BY Zenon
<1>2. \A n \in G : Home(n) \in Solved /\ n \in Home(n)
  BY Zenon
<1> HIDE DEF At, Home
<1>3. \A B \in Solved, n \in G : n \in B => At(B)[n] = all[n]
  <2> SUFFICES ASSUME NEW B \in Solved, NEW n \in G, n \in B
               PROVE  At(B)[n] = all[n]
    OBVIOUS
  <2>1. Home(n) \in Solved /\ n \in Home(n)
    BY <1>2
  <2>2. /\ Climbs(At(B), B, Stop) /\ Closed(B, Stop) /\ B \in SUBSET Nodes
        /\ Climbs(At(Home(n)), Home(n), Stop) /\ Closed(Home(n), Stop)
        /\ Home(n) \in SUBSET Nodes
    BY <1>1, <2>1
  <2>3. B \cap RootHubs \subseteq Stop
    OBVIOUS
  <2> HIDE DEF Solved, G
  <2>4. \A m \in B \cap Home(n) : At(B)[m] = At(Home(n))[m]
    BY <2>2, <2>3, ClimbsAgree
  <2>5. QED
    BY <2>1, <2>4
<1>4. Closed(G, Stop) /\ G \subseteq A
  BY DEF Closed
<1>5. \A n \in G : all[n] = IF n \in Stop THEN n ELSE all[Parent[n]]
  <2> SUFFICES ASSUME NEW n \in G PROVE all[n] = IF n \in Stop THEN n ELSE all[Parent[n]]
    OBVIOUS
  <2> DEFINE B == Home(n)
  <2>1. B \in Solved /\ n \in B
    BY <1>2
  <2>2. Climbs(At(B), B, Stop) /\ Closed(B, Stop)
    BY <1>1, <2>1
  <2>3. all[n] = At(B)[n]
    BY <1>3, <2>1
  <2>4. CASE n \in Stop
    BY <2>1, <2>2, <2>3, <2>4 DEF Climbs
  <2>5. CASE n \notin Stop
    <3>1. Parent[n] \in B /\ Parent[n] \in G
      BY <2>1, <2>2, <2>5 DEF Closed
    <3>2. all[Parent[n]] = At(B)[Parent[n]]
      BY <1>3, <2>1, <3>1
    <3>3. At(B)[n] = At(B)[Parent[n]]
      BY <2>1, <2>2, <2>5 DEF Climbs
    <3>4. QED
      BY <2>3, <2>5, <3>2, <3>3
  <2>6. QED
    BY <2>4, <2>5
<1>6. Climbs(all, G, Stop)
  <2>1. all = [n \in G |-> IF n \in Stop THEN n ELSE all[Parent[n]]]
    <3>1. all = [n \in G |-> all[n]]
      OBVIOUS
    <3> HIDE DEF all, G
    <3>2. QED
      BY <1>5, <3>1
  <2>2. QED
    BY <2>1 DEF Climbs
<1> HIDE DEF all
<1>7. ASSUME NEW n \in A, n \in Stop \/ Parent[n] \in G
      PROVE  n \in G
  <2> DEFINE B == G \cup {n}
             new == [m \in B |-> IF m \in G THEN all[m]
                                 ELSE IF m \in Stop THEN m ELSE all[Parent[m]]]
  <2>1. Closed(B, Stop) /\ B \subseteq A
    BY <1>4, <1>7 DEF Closed
  <2>2. \A m \in B : new[m] = IF m \in Stop THEN m ELSE new[Parent[m]]
    <3> SUFFICES ASSUME NEW m \in B
                 PROVE  new[m] = IF m \in Stop THEN m ELSE new[Parent[m]]
      OBVIOUS
    <3> HIDE DEF G
    <3>1. m \in G \/ m = n
      OBVIOUS
    <3>2. m \in Stop \/ Parent[m] \in G
      BY <1>4, <1>7, <3>1 DEF Closed
    <3>3. m \notin Stop => new[Parent[m]] = all[Parent[m]]
      BY <3>2
    <3>4. QED
      BY <1>5, <3>1, <3>2, <3>3
  <2>3. Climbs(new, B, Stop)
    <3>1. new = [m \in B |-> new[m]]
      OBVIOUS
    <3> HIDE DEF new, B
    <3>2. QED
      BY <2>2, <3>1 DEF Climbs
  <2>4. B \in Solved
    BY <2>1, <2>3
  <2>5. QED
    BY <2>4
<1>8. A \subseteq G
  <2> DEFINE S == {n \in Nodes : n \in A => n \in G}
  <2>1. \A n \in Nodes : (n \in RootHubs \/ Parent[n] \in S) => n \in S
    <3> SUFFICES ASSUME NEW n \in Nodes, n \in RootHubs \/ Parent[n] \in S, n \in A
                 PROVE  n \in G
      OBVIOUS
    <3> HIDE DEF G, Solved
    <3>1. n \in Stop \/ Parent[n] \in A
      BY DEF Closed
    <3>2. n \in Stop \/ Parent[n] \in G
      BY <3>1
    <3>3. QED
      BY <1>7, <3>2
  <2> HIDE DEF G
  <2>2. S = Nodes
    <3> HIDE DEF S
    <3>1. S \in SUBSET Nodes
      BY DEF S
    <3>2. QED
      BY <2>1, <3>1, TreeInduction
  <2>3. QED
    BY <2>2
<1>9. G = A
  BY <1>4, <1>8
<1>10. QED
  BY <1>6, <1>9

\* The port of a devnode, and the root of a hub.
LEMMA OnPortClimbs ==
  \A n \in Nodes \ RootHubs :
     D!OnPort[n] = IF Parent[n] \in Hubs THEN n ELSE D!OnPort[Parent[n]]
<1> DEFINE A == Nodes \ RootHubs
           Stop == {n \in Nodes \ RootHubs : Parent[n] \in Hubs}
           E(g) == g = [n \in A |-> IF Parent[n] \in Hubs THEN n ELSE g[Parent[n]]]
<1>1. \E g : Climbs(g, A, Stop)
  <2>1. Closed(A, Stop)
    BY DEF Closed, D!TreeAssumption
  <2>2. A \cap RootHubs \subseteq Stop
    OBVIOUS
  <2> HIDE DEF A, Stop
  <2>3. A \in SUBSET Nodes
    BY DEF A
  <2>4. QED
    BY <2>1, <2>2, <2>3, ClimbExists
<1>2. \E g : E(g)
  BY <1>1 DEF Climbs
<1>3. E(D!OnPort)
  BY <1>2, Zenon DEF D!OnPort
<1>4. QED
  BY <1>3

LEMMA RootOfClimbs ==
  \A h \in Hubs : D!RootOf[h] = IF h \in RootHubs THEN h ELSE D!RootOf[Parent[h]]
<1> DEFINE E(g) == g = [h \in Hubs |-> IF h \in RootHubs THEN h ELSE g[Parent[h]]]
<1>1. \E g : Climbs(g, Hubs, RootHubs)
  <2>1. Closed(Hubs, RootHubs) /\ Hubs \in SUBSET Nodes
    BY DEF Closed, D!TreeAssumption
  <2>2. QED
    BY <2>1, ClimbExists
<1>2. \E g : E(g)
  BY <1>1 DEF Climbs
<1>3. E(D!RootOf)
  BY <1>2, Zenon DEF D!RootOf
<1>4. QED
  BY <1>3

\* A devnode that is no root hub is below the port of a hub.
LEMMA OnPortIsOnHub ==
  \A n \in Nodes \ RootHubs : D!OnPort[n] \in Nodes \ RootHubs /\ Parent[D!OnPort[n]] \in Hubs
<1> DEFINE S == {n \in Nodes : n \notin RootHubs =>
                   D!OnPort[n] \in Nodes \ RootHubs /\ Parent[D!OnPort[n]] \in Hubs}
<1>1. \A n \in Nodes : (n \in RootHubs \/ Parent[n] \in S) => n \in S
  <2> SUFFICES ASSUME NEW n \in Nodes \ RootHubs, Parent[n] \in S PROVE n \in S
    OBVIOUS
  <2>1. CASE Parent[n] \in Hubs
    BY <2>1, OnPortClimbs
  <2>2. CASE Parent[n] \notin Hubs
    <3>1. Parent[n] \in Nodes \ RootHubs
      BY <2>2 DEF D!TreeAssumption
    <3>2. D!OnPort[n] = D!OnPort[Parent[n]]
      BY <2>2, OnPortClimbs
    <3>3. QED
      BY <3>1, <3>2
  <2>3. QED
    BY <2>1, <2>2
<1>2. S = Nodes
  <2> HIDE DEF S
  <2>1. S \in SUBSET Nodes
    BY DEF S
  <2>2. QED
    BY <1>1, <2>1, TreeInduction
<1>3. QED
  BY <1>2

\* The place of a devnode on the tree.
PlaceOf(n) == [hub |-> Parent[D!OnPort[n]], port |-> Port[D!OnPort[n]]]

LEMMA RootOfIsRoot == \A h \in Hubs : D!RootOf[h] \in RootHubs
<1> DEFINE S == {n \in Nodes : n \in Hubs => D!RootOf[n] \in RootHubs}
<1>1. \A n \in Nodes : (n \in RootHubs \/ Parent[n] \in S) => n \in S
  <2> SUFFICES ASSUME NEW n \in Nodes, n \in RootHubs \/ Parent[n] \in S, n \in Hubs
               PROVE  D!RootOf[n] \in RootHubs
    OBVIOUS
  <2>1. CASE n \in RootHubs
    BY <2>1, RootOfClimbs
  <2>2. CASE n \notin RootHubs
    <3>1. Parent[n] \in Hubs
      BY <2>2 DEF D!TreeAssumption
    <3>2. D!RootOf[Parent[n]] \in RootHubs
      BY <2>2, <3>1
    <3>3. QED
      BY <2>2, <3>2, RootOfClimbs
  <2>3. QED
    BY <2>1, <2>2
<1>2. S = Nodes
  <2> HIDE DEF S
  <2>1. S \in SUBSET Nodes
    BY DEF S
  <2>2. QED
    BY <1>1, <2>1, TreeInduction
<1>3. QED
  BY <1>2 DEF D!TreeAssumption

\* What hangs below h is h and what hangs on it.
LEMMA SubtreeClimbs ==
  \A h, n \in Nodes :
    n \in D!Subtree(h) <=> n = h \/ (n \notin RootHubs /\ Parent[n] \in D!Subtree(h))
<1> SUFFICES ASSUME NEW h \in Nodes
             PROVE  \A n \in Nodes : n \in D!Subtree(h) <=>
                       n = h \/ (n \notin RootHubs /\ Parent[n] \in D!Subtree(h))
  OBVIOUS
<1> DEFINE E(g) == g = [n \in Nodes |-> IF n \in RootHubs \cup {h} THEN n ELSE g[Parent[n]]]
           climb == CHOOSE g : E(g)
<1>1. \E g : Climbs(g, Nodes, RootHubs \cup {h})
  <2>1. Closed(Nodes, RootHubs \cup {h})
    BY DEF Closed, D!TreeAssumption
  <2>2. QED
    BY <2>1, ClimbExists
<1>2. \E g : E(g)
  BY <1>1 DEF Climbs
<1>3. E(climb)
  BY <1>2, Zenon
<1>4. D!Subtree(h) = {n \in Nodes : climb[n] = h}
  BY DEF D!Subtree
<1> HIDE DEF climb
<1>5. \A n \in Nodes : climb[n] = IF n \in RootHubs \cup {h} THEN n ELSE climb[Parent[n]]
  BY <1>3
<1>6. \A n \in Nodes : n \notin RootHubs => Parent[n] \in Nodes
  BY DEF D!TreeAssumption
<1>7. QED
  BY <1>4, <1>5, <1>6

\* The interfaces that the classes report.
Reported == {i \in Interfaces : i.node \notin RootHubs}

LEMMA PlaceIsOne ==
  /\ \A n \in Nodes \ RootHubs :
       /\ PlaceOf(n) \in [hub : Hubs, port : Nat]
       /\ PlaceOf(n).hub \in Hubs /\ PlaceOf(n).hub \in Nat \ {0}
  /\ \A n, m \in Nodes \ RootHubs :
       PlaceOf(n) = PlaceOf(m) /\ PlaceOf(n).port # 0 => D!OnPort[n] = D!OnPort[m]
  /\ \A i \in Reported : ~i.fn => D!OnPort[i.node] = i.node
  /\ \A i \in Reported : i.node \in Nodes \ RootHubs
<1>1. \A n \in Nodes \ RootHubs :
       /\ PlaceOf(n) \in [hub : Hubs, port : Nat]
       /\ PlaceOf(n).hub \in Hubs /\ PlaceOf(n).hub \in Nat \ {0}
  BY OnPortIsOnHub DEF PlaceOf, D!TreeAssumption
<1>2. \A n, m \in Nodes \ RootHubs :
       PlaceOf(n) = PlaceOf(m) /\ PlaceOf(n).port # 0 => D!OnPort[n] = D!OnPort[m]
  <2> SUFFICES ASSUME NEW n \in Nodes \ RootHubs, NEW m \in Nodes \ RootHubs,
                      PlaceOf(n) = PlaceOf(m), PlaceOf(n).port # 0
               PROVE  D!OnPort[n] = D!OnPort[m]
    OBVIOUS
  <2>1. D!OnPort[n] \in Nodes \ RootHubs /\ D!OnPort[m] \in Nodes \ RootHubs
        /\ Parent[D!OnPort[n]] \in Hubs
    BY OnPortIsOnHub
  <2>2. Parent[D!OnPort[n]] = Parent[D!OnPort[m]] /\ Port[D!OnPort[n]] = Port[D!OnPort[m]]
        /\ Port[D!OnPort[n]] # 0
    BY DEF PlaceOf
  <2>3. QED
    BY <2>1, <2>2 DEF D!TreeAssumption
<1>3. \A i \in Reported : i.node \in Nodes \ RootHubs
  BY DEF Reported, D!TreeAssumption
<1>4. \A i \in Reported : ~i.fn => D!OnPort[i.node] = i.node
  <2> SUFFICES ASSUME NEW i \in Reported, ~i.fn PROVE D!OnPort[i.node] = i.node
    OBVIOUS
  <2>1. Parent[i.node] \in Hubs /\ i.node \in Nodes \ RootHubs
    BY <1>3 DEF Reported, D!TreeAssumption
  <2>2. QED
    BY <2>1, OnPortClimbs
<1>5. QED
  BY <1>1, <1>2, <1>3, <1>4

\* What a path is a record of; no path, and those of root hubs, are among them.
Path0 == [node : Nat, class : {"winusb", "device", "hub", "none"}, fn : BOOLEAN]

Place0 == [hub : Nat, port : Nat]

Loc0 == [at : Place0, root : Nat]

Merged0 == [at : Place0, root : Nat, display : Path0, open : Path0]

Line0 == [path : Path0, open : Path0, inst : Nat, at : Place0, bus : Nat, addr : Nat,
          parentAddr : Nat]

\* A devnode that stays hangs on one that stays.
StaysPut == RootHubs \subseteq present /\ \A n \in present \ RootHubs : Parent[n] \in present

\* A place where devnode n is found: its own, or that of a hub on its way out.
OfPort(at, n) ==
    \/ at = PlaceOf(n)
    \/ n \notin present /\ \E h \in Hubs \ RootHubs : h \notin present /\ at = PlaceOf(h)

\* The root of the place of a device that stays is its root hub.
RootRight(at, root) ==
    \A n \in Nodes \ RootHubs :
      D!OnPort[n] \in present /\ at = PlaceOf(n) => root = D!RootOf[at.hub]

\* Only what has no port number or is on its way out has no place.
PlaceFound(i) ==
    LET n == entries[i].node IN
      IF locs[i] = D!NoLoc THEN n \in present => PlaceOf(n).port = 0
      ELSE /\ locs[i].at.port # 0 /\ OfPort(locs[i].at, n) /\ locs[i].root \in Hubs
           /\ RootRight(locs[i].at, locs[i].root)

\* One device has been merged from interfaces that were found at its port.
FromItsPort(m) ==
    /\ m.display \in Reported /\ OfPort(m.at, m.display.node) /\ m.at.port # 0
    /\ RootRight(m.at, m.root)
    /\ m.open # D!NoPath =>
         m.open \in Reported /\ m.open.class = "winusb" /\ OfPort(m.at, m.open.node)

\* The merged device m stands for entry i.
StandsFor(m, i) ==
    /\ m.at = locs[i].at
    /\ ~entries[i].fn => ~m.display.fn
    /\ entries[i].class = "winusb" => m.open # D!NoPath

\* The entries before n have been merged.
MergedUpTo(n) ==
    /\ Len(order) < n
    /\ \A i, j \in 1..Len(order) : order[i].at = order[j].at => i = j
    /\ \A j \in 1..Len(order) : FromItsPort(order[j])
    /\ \A i \in 1..Len(locs) : i < n /\ locs[i] # D!NoLoc =>
         \E j \in 1..Len(order) : StandsFor(order[j], i)

\* A line of the list describes the merged device m.
Describes(d, m) ==
    /\ d.at = m.at /\ d.path = m.display /\ d.inst = m.display.node
    /\ d.open = IF m.open = D!NoPath THEN m.display ELSE m.open
    /\ d.bus = D!busNumbering(m.root)

\* A line for a path that has no place.
Bare(d) ==
    /\ d.at = D!NoPort /\ d.inst = 0
    /\ d.path.node \in present \ RootHubs => PlaceOf(d.path.node).port = 0

\* The lines behind the merged devices have no place, and every entry before n
\* that has none is one of them.
UnlocatedUpTo(n) ==
    /\ \A j \in 1..Len(list) : j > Len(order) => Bare(list[j])
    /\ \A i \in 1..Len(locs) : i < n /\ locs[i] = D!NoLoc =>
         \E j \in 1..Len(list) : list[j].path = entries[i]

ListTypes ==
    /\ D!ListTypeOK /\ StaysPut
    /\ entries \in Seq(Reported) /\ locs \in Seq(Loc0)
    /\ order \in Seq(Merged0) /\ (lpc # "done" => list \in Seq(Line0))
    /\ rhDevnodes \subseteq RootHubs /\ hubs \in [Hubs -> {"none", "open", "invalid"}]

PhaseInv ==
    /\ lpc = "enumerate" => k <= 4 /\ locs = <<>> /\ order = <<>> /\ list = <<>>
    /\ lpc = "locate" =>
         Len(locs) = k - 1 /\ k <= Len(entries) + 1 /\ order = <<>> /\ list = <<>>
    /\ lpc \in {"merge", "describe", "unlocated", "done"} => Len(locs) = Len(entries)
    /\ lpc = "merge" => k <= Len(entries) + 1 /\ list = <<>> /\ MergedUpTo(k)
    /\ lpc \in {"describe", "unlocated", "done"} => MergedUpTo(Len(entries) + 1)
    /\ lpc = "describe" => Len(list) = k - 1 /\ k <= Len(order) + 1
    /\ lpc \in {"describe", "unlocated"} =>
         \A j \in 1..Len(list) : j <= Len(order) => Describes(list[j], order[j])
    /\ lpc = "unlocated" =>
         Len(list) >= Len(order) /\ k <= Len(entries) + 1 /\ UnlocatedUpTo(k)

ListInv ==
    /\ ListTypes /\ (\A i \in 1..Len(locs) : PlaceFound(i)) /\ PhaseInv
    /\ D!OnePerPort /\ D!IdentityIsDevice /\ D!OpensWinUsb /\ D!ParentAddressed

LEMMA NotYetDone ==
  /\ lpc # "done" =>
       D!OnePerPort /\ D!IdentityIsDevice /\ D!OpensWinUsb /\ D!ParentAddressed
  /\ lpc' # "done" =>
       (D!OnePerPort /\ D!IdentityIsDevice /\ D!OpensWinUsb /\ D!ParentAddressed)'
  BY DEF D!OnePerPort, D!IdentityIsDevice, D!OpensWinUsb, D!ParentAddressed

LEMMA InitList == D!ListInit => ListInv
<1> SUFFICES ASSUME D!ListInit PROVE ListInv
  OBVIOUS
<1>1. ListTypes
  <2>1. D!ListTypeOK
    BY DEF D!ListInit, D!ListTypeOK
  <2>2. \A T : <<>> \in Seq(T)
    BY EmptySeq
  <2>3. StaysPut
    BY DEF D!ListInit, StaysPut, D!TreeAssumption
  <2>4. QED
    BY <2>1, <2>2, <2>3 DEF D!ListInit, ListTypes
<1>2. PhaseInv /\ \A i \in 1..Len(locs) : PlaceFound(i)
  BY DEF D!ListInit, PhaseInv
<1>3. QED
  BY <1>1, <1>2, NotYetDone DEF D!ListInit, ListInv

\* What hangs below a devnode that goes has gone.
LEMMA GoneBelow ==
  ASSUME StaysPut, present \subseteq Nodes, NEW h \in Nodes, h \notin present,
         NEW n \in Nodes, n \in D!Subtree(h)
  PROVE  n \notin present
<1> DEFINE S == {x \in Nodes : x \in D!Subtree(h) => x \notin present}
<1>1. \A x \in Nodes : (x \in RootHubs \/ Parent[x] \in S) => x \in S
  <2> SUFFICES ASSUME NEW x \in Nodes, x \in RootHubs \/ Parent[x] \in S, x \in D!Subtree(h)
               PROVE  x \notin present
    OBVIOUS
  <2>1. x = h \/ (x \notin RootHubs /\ Parent[x] \in D!Subtree(h))
    BY SubtreeClimbs
  <2>2. CASE x = h
    BY <2>2
  <2>3. CASE x \notin RootHubs /\ Parent[x] \in D!Subtree(h)
    BY <2>3 DEF StaysPut
  <2>4. QED
    BY <2>1, <2>2, <2>3
<1>2. S = Nodes
  <2> HIDE DEF S
  <2>1. S \in SUBSET Nodes
    BY DEF S
  <2>2. QED
    BY <1>1, <2>1, TreeInduction
<1>3. QED
  BY <1>2

\* The device of a function that stays stays.
LEMMA OnPortStays ==
  ASSUME StaysPut, present \subseteq Nodes, NEW n \in present \ RootHubs
  PROVE  D!OnPort[n] \in present
<1> DEFINE S == {x \in Nodes : x \in present \ RootHubs => D!OnPort[x] \in present}
<1>1. \A x \in Nodes : (x \in RootHubs \/ Parent[x] \in S) => x \in S
  <2> SUFFICES ASSUME NEW x \in present \ RootHubs, Parent[x] \in S
               PROVE  D!OnPort[x] \in present
    OBVIOUS
  <2>1. D!OnPort[x] = IF Parent[x] \in Hubs THEN x ELSE D!OnPort[Parent[x]]
    BY OnPortClimbs
  <2>2. Parent[x] \in present /\ (Parent[x] \notin Hubs => Parent[x] \notin RootHubs)
    BY DEF StaysPut, D!TreeAssumption
  <2>3. QED
    BY <2>1, <2>2
<1>2. S = Nodes
  <2> HIDE DEF S
  <2>1. S \in SUBSET Nodes
    BY DEF S
  <2>2. QED
    BY <1>1, <2>1, TreeInduction
<1>3. QED
  BY <1>2

\* A hub that is no root is on a port.
LEMMA HubOnPort == \A h \in Hubs \ RootHubs : h \in Nodes /\ D!OnPort[h] = h
  BY OnPortClimbs DEF D!TreeAssumption

\* What is found at the place of a device that stays is that device.
LEMMA FoundIsDevice ==
  ASSUME StaysPut, present \subseteq Nodes, NEW at, at.port # 0,
         NEW n \in Nodes \ RootHubs, OfPort(at, n),
         NEW x \in Nodes \ RootHubs, D!OnPort[x] \in present, at = PlaceOf(x)
  PROVE  D!OnPort[n] = D!OnPort[x]
<1>1. CASE at = PlaceOf(n)
  BY <1>1, PlaceIsOne
<1>2. ASSUME NEW h \in Hubs \ RootHubs, h \notin present, at = PlaceOf(h) PROVE FALSE
  <2>1. h \in Nodes \ RootHubs /\ D!OnPort[h] = h
    BY HubOnPort
  <2>2. D!OnPort[h] = D!OnPort[x]
    BY <1>2, <2>1, PlaceIsOne
  <2>3. QED
    BY <1>2, <2>1, <2>2
<1>3. QED
  BY <1>1, <1>2 DEF OfPort

\* What has been found stays so when more devices go.
LEMMA StaysFound ==
  ASSUME present' \subseteq present
  PROVE  /\ \A at, n : OfPort(at, n) => OfPort(at, n)'
         /\ \A at, root : RootRight(at, root) => RootRight(at, root)'
         /\ \A m : FromItsPort(m) => FromItsPort(m)'
         /\ \A d : Bare(d) => Bare(d)'
<1>1. \A at, n : OfPort(at, n) => OfPort(at, n)'
  BY DEF OfPort
<1>2. \A at, root : RootRight(at, root) => RootRight(at, root)'
  BY DEF RootRight
<1>3. \A d : Bare(d) => Bare(d)'
  BY DEF Bare
<1>4. QED
  BY <1>1, <1>2, <1>3 DEF FromItsPort

\* The system changes nothing that DeviceList has.
LEMMA UnplugStep ==
  ASSUME ListInv, NEW n \in Nodes, D!Unplug(n)
  PROVE  ListInv'
<1>1. /\ UNCHANGED <<lpc, k, failedClass, entries, locs, rhDevnodes, numbered, order, hubs, list>>
      /\ present = Nodes /\ present' = Nodes \ D!Subtree(n) /\ n \notin RootHubs
  BY DEF D!Unplug
<1>2. StaysPut'
  <2>1. RootHubs \subseteq present'
    <3>1. RootHubs \subseteq Nodes
      BY DEF D!TreeAssumption
    <3>2. QED
      BY <1>1, <3>1, SubtreeClimbs
  <2>2. ASSUME NEW x \in present' \ RootHubs PROVE Parent[x] \in present'
    <3>1. x \in Nodes /\ Parent[x] \in Nodes
      BY <1>1 DEF D!TreeAssumption
    <3>2. QED
      BY <1>1, <2>2, <3>1, SubtreeClimbs
  <2>3. QED
    BY <2>1, <2>2 DEF StaysPut
<1>3. ListTypes'
  BY <1>1, <1>2 DEF ListInv, ListTypes, D!ListTypeOK
<1>4. present' \subseteq present
  BY <1>1
<1>5. \A m : D!busNumbering(m)' = D!busNumbering(m)
  BY <1>1 DEF D!busNumbering
<1>6. /\ \A j : MergedUpTo(j) => MergedUpTo(j)'
      /\ \A j : UnlocatedUpTo(j) => UnlocatedUpTo(j)'
  <2>1. \A j : FromItsPort(order[j]) => FromItsPort(order[j])'
    BY <1>1, <1>4, StaysFound
  <2>2. \A j : Bare(list[j]) => Bare(list[j])'
    BY <1>1, <1>4, StaysFound
  <2>3. \A m, i : StandsFor(m, i)' <=> StandsFor(m, i)
    BY <1>1 DEF StandsFor
  <2>4. \A j : MergedUpTo(j) => MergedUpTo(j)'
    <3> SUFFICES ASSUME NEW j, MergedUpTo(j) PROVE MergedUpTo(j)'
      OBVIOUS
    <3>1. (\A x \in 1..Len(order) : FromItsPort(order[x]))'
      BY <1>1, <2>1 DEF MergedUpTo
    <3>2. (\A i \in 1..Len(locs) : i < j /\ locs[i] # D!NoLoc =>
             \E x \in 1..Len(order) : StandsFor(order[x], i))'
      BY <1>1 DEF MergedUpTo, StandsFor
    <3>3. QED
      BY <1>1, <3>1, <3>2 DEF MergedUpTo
  <2>5. \A j : UnlocatedUpTo(j) => UnlocatedUpTo(j)'
    BY <1>1, <2>2 DEF UnlocatedUpTo
  <2>6. QED
    BY <2>4, <2>5
<1>7. PhaseInv'
  BY <1>1, <1>5, <1>6 DEF ListInv, PhaseInv, Describes
<1>8. (\A i \in 1..Len(locs) : PlaceFound(i))'
  <2> SUFFICES ASSUME NEW i \in 1..Len(locs) PROVE PlaceFound(i)'
    BY <1>1
  <2>1. PlaceFound(i)
    BY DEF ListInv
  <2>2. /\ OfPort(locs[i].at, entries[i].node) => OfPort(locs[i].at, entries[i].node)'
        /\ RootRight(locs[i].at, locs[i].root) => RootRight(locs[i].at, locs[i].root)'
    BY <1>1, <1>4, StaysFound
  <2>3. QED
    BY <1>1, <1>4, <2>1, <2>2 DEF PlaceFound
<1>9. (D!OnePerPort /\ D!IdentityIsDevice /\ D!OpensWinUsb /\ D!ParentAddressed)'
  BY <1>1, <1>4 DEF ListInv, D!OnePerPort, D!IdentityIsDevice, D!OpensWinUsb, D!ParentAddressed,
     D!Located, D!Stays
<1>10. QED
  BY <1>3, <1>7, <1>8, <1>9 DEF ListInv

LEMMA ListFinite == IsFiniteSet(Nodes) /\ IsFiniteSet(Interfaces)
  BY DEF D!TreeAssumption, D!IsFiniteSet, IsFiniteSet

LEMMA SizeIsNat == \A S : IsFiniteSet(S) => D!Cardinality(S) \in Nat
<1>1. \A S : D!Cardinality(S) = Cardinality(S)
  BY DEF D!Cardinality, Cardinality
<1>2. QED
  BY <1>1, FS_CardinalityType

LEMMA EnumerateSteps ==
  ASSUME ListInv, D!enumerateClass \/ D!enumerated
  PROVE  ListInv'
<1>t. /\ lpc = "enumerate" /\ locs = <<>> /\ order = <<>> /\ list = <<>>
      /\ entries \in Seq(Reported) /\ k \in 1..4
      /\ \A h \in Hubs : hubs[h] = "none"
  BY DEF ListInv, ListTypes, PhaseInv, D!ListTypeOK, D!enumerateClass, D!enumerated
<1>1. /\ entries' \in Seq(Reported) /\ lpc' \in {"enumerate", "locate", "error"}
      /\ lpc' = "enumerate" => k' \in 1..4
      /\ lpc' = "locate" => k' = 1
      /\ k' \in 1..4
      /\ UNCHANGED <<present, locs, rhDevnodes, numbered, order, hubs, list>>
  <2>1. CASE D!enumerateClass
    <3>1. ASSUME NEW S \in SUBSET Reported, NEW s \in D!SetToSeqs(S)
          PROVE  s \in Seq(Reported)
      <4>1. Reported \in SUBSET Interfaces
        BY DEF Reported
      <4>2. IsFiniteSet(Reported)
        BY <4>1, ListFinite, FS_Subset
      <4>3. IsFiniteSet(S)
        BY <4>2, FS_Subset
      <4>4. D!Cardinality(S) \in Nat
        BY <4>3, SizeIsNat
      <4>5. s \in [1..D!Cardinality(S) -> Reported]
        BY DEF D!SetToSeqs
      <4>6. QED
        BY <4>4, <4>5
    <3>2. CASE entries' = entries
      BY <1>t, <2>1, <3>2 DEF D!enumerateClass
    <3>3. CASE entries' # entries
      <4>0. PICK going \in SUBSET {i \in D!OfClass(k) : i.node \notin present} :
              \E s \in D!SetToSeqs({i \in D!OfClass(k) : i.node \in present} \cup going) :
                entries' = entries \o s
        BY <2>1, <3>3 DEF D!enumerateClass
      <4> DEFINE S == {i \in D!OfClass(k) : i.node \in present} \cup going
      <4>1. S \in SUBSET Reported
        BY DEF Reported, D!OfClass
      <4>2. PICK s \in D!SetToSeqs(S) : entries' = entries \o s
        BY <4>0
      <4> HIDE DEF S
      <4>3. s \in Seq(Reported)
        BY <3>1, <4>1, <4>2
      <4>4. entries' \in Seq(Reported)
        BY <1>t, <4>2, <4>3, ConcatProperties
      <4>5. QED
        BY <1>t, <2>1, <4>4 DEF D!enumerateClass
    <3>4. QED
      BY <3>2, <3>3
  <2>2. CASE D!enumerated
    BY <1>t, <2>2 DEF D!enumerated
  <2>3. QED
    BY <2>1, <2>2
<1>2. ListTypes'
  <2>1. Len(entries') \in Nat /\ Len(locs') = 0
    BY <1>1, <1>t, LenProperties
  <2>2. D!ListTypeOK'
    BY <1>1, <1>t, <2>1 DEF ListInv, ListTypes, D!ListTypeOK
  <2>3. StaysPut'
    BY <1>1 DEF ListInv, ListTypes, StaysPut
  <2>4. order' \in Seq(Merged0) /\ list' \in Seq(Line0) /\ rhDevnodes' \subseteq RootHubs
    BY <1>1, <1>t DEF ListInv, ListTypes
  <2>5. locs' \in Seq(Loc0) /\ hubs' \in [Hubs -> {"none", "open", "invalid"}]
    BY <1>1 DEF ListInv, ListTypes
  <2>6. QED
    BY <1>1, <2>2, <2>3, <2>4, <2>5 DEF ListTypes
<1>3. PhaseInv'
  BY <1>1, <1>t, LenProperties DEF PhaseInv
<1>4. (\A i \in 1..Len(locs) : PlaceFound(i))'
  BY <1>1, <1>t
<1>5. QED
  BY <1>1, <1>2, <1>3, <1>4, NotYetDone DEF ListInv

\* What locateDevice finds.
LEMMA LocateFinds ==
  ASSUME StaysPut, present \subseteq Nodes, NEW n \in Nodes \ RootHubs,
         NEW p \in D!locateDevice(n)
  PROVE  /\ p \in Loc0
         /\ p = D!NoLoc /\ n \in present => PlaceOf(n).port = 0
         /\ p # D!NoLoc => /\ p.at.port # 0 /\ OfPort(p.at, n) /\ p.root \in Hubs
                          /\ RootRight(p.at, p.root)
<1> DEFINE silent == {h \in Hubs \ present : n \in D!Subtree(h) \ {h}}
           found == {m \in {D!OnPort[n]} \cup silent : Port[m] # 0}
           places == UNION {{[at |-> D!PortOf(m), root |-> r] : r \in D!rootHubOf(Parent[m])} :
                              m \in found}
<1>1. p \in places \/ (p = D!NoLoc /\ (n \notin present \/ found = {}))
  <2>1. p \in places \cup (IF n \in present /\ found # {} THEN {} ELSE {D!NoLoc})
    BY Zenon DEF D!locateDevice
  <2> HIDE DEF places, found
  <2>2. QED
    BY <2>1
<1>2. CASE p = D!NoLoc /\ (n \notin present \/ found = {})
  <2>1. D!NoLoc \in Loc0
    BY DEF D!NoLoc, D!NoPort, Loc0, Place0
  <2>2. found = {} => PlaceOf(n).port = 0
    BY DEF PlaceOf
  <2>3. QED
    BY <1>2, <2>1, <2>2
<1>3. CASE p \in places
  <2>1. PICK m \in found : \E r \in D!rootHubOf(Parent[m]) : p = [at |-> D!PortOf(m), root |-> r]
    BY <1>3
  <2>2. PICK r \in D!rootHubOf(Parent[m]) : p = [at |-> D!PortOf(m), root |-> r]
    BY <2>1
  <2>3. /\ m = D!OnPort[n] \/ (m \in Hubs \ present /\ n \in D!Subtree(m))
        /\ Port[m] # 0
    BY <2>1
  <2> HIDE DEF silent, found, places
  <2>4. /\ m \in Nodes \ RootHubs /\ Parent[m] \in Hubs /\ D!OnPort[m] = m
        /\ OfPort(D!PortOf(m), n) /\ PlaceOf(m) = D!PortOf(m)
    <3>1. CASE m = D!OnPort[n]
      <4>1. m \in Nodes \ RootHubs /\ Parent[m] \in Hubs
        BY <3>1, OnPortIsOnHub
      <4>2. D!OnPort[m] = m
        BY <4>1, OnPortClimbs
      <4>3. QED
        BY <3>1, <4>1, <4>2 DEF OfPort, PlaceOf, D!PortOf
    <3>2. CASE m \in Hubs \ present /\ n \in D!Subtree(m)
      <4>1. m \in Hubs \ RootHubs /\ m \in Nodes
        BY <3>2 DEF StaysPut, D!TreeAssumption
      <4>2. Parent[m] \in Hubs /\ D!OnPort[m] = m
        BY <4>1, HubOnPort DEF D!TreeAssumption
      <4>3. n \notin present
        BY <3>2, <4>1, GoneBelow
      <4>4. QED
        BY <3>2, <4>1, <4>2, <4>3 DEF OfPort, PlaceOf, D!PortOf
    <3>3. QED
      BY <2>3, <3>1, <3>2
  <2>5. r = D!RootOf[Parent[m]] \/ (r \in Hubs \ present /\ Parent[m] \in D!Subtree(r))
    BY <2>2 DEF D!rootHubOf
  <2>6. r \in Hubs /\ r \in Nat
    <3>1. RootHubs \subseteq Hubs /\ Hubs \subseteq Nat
      BY DEF D!TreeAssumption
    <3>2. D!RootOf[Parent[m]] \in RootHubs
      BY <2>4, RootOfIsRoot
    <3>3. QED
      BY <2>5, <3>1, <3>2
  <2>7. p \in Loc0 /\ p.at = PlaceOf(m) /\ p.root = r /\ p.at.hub = Parent[m] /\ p.at.port # 0
    <3>1. p.at = D!PortOf(m) /\ p.root = r
      BY <2>2
    <3>2. D!PortOf(m) \in Place0
      BY <2>4 DEF D!PortOf, Place0, D!TreeAssumption
    <3>3. QED
      BY <2>2, <2>3, <2>4, <2>6, <3>1, <3>2 DEF Loc0, D!PortOf
  <2>8. RootRight(p.at, p.root)
    <3> SUFFICES ASSUME NEW x \in Nodes \ RootHubs, D!OnPort[x] \in present, p.at = PlaceOf(x)
                 PROVE  r = D!RootOf[Parent[m]]
      BY <2>7 DEF RootRight
    <3>1. D!OnPort[x] = m
      BY <2>4, <2>7, PlaceIsOne
    <3>2. Parent[m] \in present
      BY <2>4, <3>1 DEF StaysPut
    <3>3. ~(r \in Hubs \ present /\ Parent[m] \in D!Subtree(r))
      BY <3>2, GoneBelow DEF D!TreeAssumption
    <3>4. QED
      BY <2>5, <3>3
  <2>9. p # D!NoLoc
    BY <2>7 DEF D!NoLoc, D!NoPort
  <2>10. QED
    BY <2>4, <2>6, <2>7, <2>8, <2>9
<1>4. QED
  BY <1>1, <1>2, <1>3

LEMMA LocateSteps ==
  ASSUME ListInv, D!locateNext \/ D!enumerateRootHubDevnodes
  PROVE  ListInv'
<1>t. /\ lpc = "locate" /\ order = <<>> /\ list = <<>> /\ Len(locs) = k - 1
      /\ entries \in Seq(Reported) /\ locs \in Seq(Loc0) /\ k \in Nat \ {0}
      /\ k <= Len(entries) + 1 /\ Len(entries) \in Nat
      /\ StaysPut /\ present \subseteq Nodes
      /\ \A h \in Hubs : hubs[h] = "none"
  BY LenProperties DEF ListInv, ListTypes, PhaseInv, D!ListTypeOK, D!locateNext,
     D!enumerateRootHubDevnodes
<1>1. CASE D!locateNext
  <2>0. PICK p \in D!locateDevice(entries[k].node) : locs' = Append(locs, p)
    BY <1>1 DEF D!locateNext
  <2>1. /\ locs' = Append(locs, p) /\ k' = k + 1 /\ k <= Len(entries)
        /\ UNCHANGED <<present, lpc, failedClass, entries, rhDevnodes, numbered, order, hubs, list>>
    BY <1>1, <2>0 DEF D!locateNext
  <2>2. entries[k] \in Reported /\ entries[k].node \in Nodes \ RootHubs
    BY <1>t, <2>1, ElementOfSeq, PlaceIsOne
  <2>3. /\ p \in Loc0
        /\ p = D!NoLoc /\ entries[k].node \in present => PlaceOf(entries[k].node).port = 0
        /\ p # D!NoLoc => /\ p.at.port # 0 /\ OfPort(p.at, entries[k].node) /\ p.root \in Hubs
                         /\ RootRight(p.at, p.root)
    BY <1>t, <2>2, LocateFinds
  <2>4. UNCHANGED present => StaysPut'
    BY <1>t DEF StaysPut
  <2>5. /\ locs' \in Seq(Loc0) /\ Len(locs') = k /\ locs'[k] = p
        /\ \A i \in 1..(k - 1) : locs'[i] = locs[i]
    BY <1>t, <2>1, <2>3, AppendProperties
  <2>6. ListTypes'
    <3>1. D!ListTypeOK'
      BY <1>t, <2>1, <2>5 DEF ListInv, ListTypes, D!ListTypeOK
    <3>2. QED
      BY <2>1, <2>4, <2>5, <3>1 DEF ListInv, ListTypes
  <2>7. PhaseInv'
    BY <1>t, <2>1, <2>5 DEF PhaseInv
  <2>8. (\A i \in 1..Len(locs) : PlaceFound(i))'
    <3> SUFFICES ASSUME NEW i \in 1..k PROVE PlaceFound(i)'
      BY <2>5
    <3>1. CASE i = k
      <4>1. /\ p # D!NoLoc => OfPort(p.at, entries[i].node)' /\ RootRight(p.at, p.root)'
            /\ p = D!NoLoc /\ entries[i].node \in present' => PlaceOf(entries[i].node).port = 0
        BY <2>1, <2>3, <3>1 DEF OfPort, RootRight
      <4>2. QED
        BY <2>1, <2>3, <2>5, <3>1, <4>1 DEF PlaceFound, OfPort, RootRight
    <3>2. CASE i # k
      <4>1. i \in 1..Len(locs) /\ locs'[i] = locs[i]
        BY <1>t, <2>5, <3>2
      <4>2. PlaceFound(i)
        BY <4>1 DEF ListInv
      <4>3. QED
        BY <2>1, <4>1, <4>2 DEF PlaceFound, OfPort, RootRight
    <3>3. QED
      BY <3>1, <3>2
  <2>9. QED
    BY <1>t, <2>1, <2>6, <2>7, <2>8, NotYetDone DEF ListInv
<1>2. CASE D!enumerateRootHubDevnodes
  <2> DEFINE roots == rhDevnodes' \cup {locs[i].root : i \in {j \in DOMAIN locs : locs[j] # D!NoLoc}}
  <2>1. /\ rhDevnodes' \subseteq RootHubs /\ lpc' = "merge" /\ k' = 1
        /\ k = Len(entries) + 1
        /\ UNCHANGED <<present, failedClass, entries, locs, order, hubs, list>>
        /\ numbered' \subseteq roots
    BY <1>2 DEF D!enumerateRootHubDevnodes
  <2>2. roots \subseteq Hubs
    <3>1. \A i \in DOMAIN locs : locs[i] # D!NoLoc => locs[i].root \in Hubs
      <4>1. DOMAIN locs = 1..Len(locs)
        BY <1>t, LenProperties
      <4>2. QED
        BY <4>1 DEF ListInv, PlaceFound
    <3>2. \A i \in {j \in DOMAIN locs : locs[j] # D!NoLoc} : locs[i].root \in Hubs
      BY <3>1
    <3>3. rhDevnodes' \subseteq Hubs
      BY <2>1 DEF D!TreeAssumption
    <3>4. QED
      BY <3>2, <3>3
  <2> HIDE DEF roots
  <2>3. ListTypes'
    <3>1. D!ListTypeOK' /\ StaysPut'
      BY <1>t, <2>1, <2>2 DEF ListInv, ListTypes, D!ListTypeOK, StaysPut
    <3>2. QED
      BY <1>t, <2>1, <3>1 DEF ListInv, ListTypes
  <2>4. MergedUpTo(1)'
    BY <1>t, <2>1, LenProperties DEF MergedUpTo
  <2>5. PhaseInv'
    BY <1>t, <2>1, <2>4 DEF PhaseInv
  <2>6. (\A i \in 1..Len(locs) : PlaceFound(i))'
    BY <2>1 DEF ListInv, PlaceFound, OfPort, RootRight
  <2>7. QED
    BY <2>1, <2>3, <2>5, <2>6, NotYetDone DEF ListInv
<1>3. QED
  BY <1>1, <1>2

LEMMA ReportedPaths ==
  /\ D!NoPath \in Path0
  /\ \A e \in Reported : e \in Path0 /\ e # D!NoPath
<1>1. D!NoPath \in Path0
  BY DEF D!NoPath, Path0
<1>2. \A e \in Reported : e \in [node : Nodes, class : {"winusb", "device", "hub"}, fn : BOOLEAN]
  BY DEF Reported, D!TreeAssumption
<1>3. Nodes \subseteq Nat \ {0}
  BY DEF D!TreeAssumption
<1>4. ASSUME NEW e \in Reported PROVE e \in Path0 /\ e # D!NoPath
  <2>1. e \in [node : Nodes, class : {"winusb", "device", "hub"}, fn : BOOLEAN]
    BY <1>2
  <2>2. e \in Path0
    BY <1>3, <2>1 DEF Path0
  <2>3. e.node # 0 /\ D!NoPath.node = 0
    BY <1>3, <2>1 DEF D!NoPath
  <2>4. QED
    BY <2>2, <2>3
<1>5. QED
  BY <1>1, <1>4

\* One interface is merged into the device at its port.
LEMMA MergedElement ==
  ASSUME NEW m \in Merged0, NEW e \in Reported, FromItsPort(m), OfPort(m.at, e.node)
  PROVE  /\ D!Merged(m, e) \in Merged0 /\ FromItsPort(D!Merged(m, e))
         /\ D!Merged(m, e).at = m.at
         /\ \A i : StandsFor(m, i) => StandsFor(D!Merged(m, e), i)
         /\ \A i : locs[i].at = m.at /\ entries[i] = e => StandsFor(D!Merged(m, e), i)
<1> DEFINE x == D!Merged(m, e)
<1>1. /\ e \in Path0 /\ D!NoPath \in Path0
      /\ m.at \in Place0 /\ m.display \in Path0 /\ m.open \in Path0
  BY ReportedPaths DEF Merged0
<1>2. /\ x.at = m.at /\ x.root = m.root
      /\ x.display = (IF m.display.fn /\ ~e.fn THEN e ELSE m.display)
      /\ x.open = (IF m.open # D!NoPath THEN m.open
                   ELSE IF e.class = "winusb" THEN e ELSE D!NoPath)
  BY DEF D!Merged, D!Identifies, D!Opens, D!OpenPath, Merged0
<1>3. x \in Merged0
  BY <1>1 DEF D!Merged, D!Identifies, D!Opens, D!OpenPath, Merged0
<1>4. FromItsPort(x)
  BY <1>2 DEF FromItsPort
<1>5. e # D!NoPath
  BY ReportedPaths
<1>6. e.fn \in BOOLEAN /\ m.display.fn \in BOOLEAN
  BY <1>1 DEF Path0
<1> HIDE DEF x
<1>7. \A i : StandsFor(m, i) => StandsFor(x, i)
  BY <1>2, <1>6 DEF StandsFor
<1>8. \A i : locs[i].at = m.at /\ entries[i] = e => StandsFor(x, i)
  BY <1>2, <1>5, <1>6 DEF StandsFor
<1>9. QED
  BY <1>2, <1>3, <1>4, <1>7, <1>8 DEF x

LEMMA MergeNextStep ==
  ASSUME ListInv, D!mergeNext
  PROVE  ListInv'
<1>t. /\ lpc = "merge" /\ list = <<>> /\ Len(locs) = Len(entries)
      /\ entries \in Seq(Reported) /\ locs \in Seq(Loc0) /\ order \in Seq(Merged0)
      /\ Len(entries) \in Nat /\ Len(order) \in Nat
      /\ k \in 1..Len(entries) /\ k' = k + 1
      /\ MergedUpTo(k)
      /\ UNCHANGED <<present, lpc, failedClass, entries, locs, rhDevnodes, numbered, hubs, list>>
  BY LenProperties DEF ListInv, ListTypes, PhaseInv, D!ListTypeOK, D!mergeNext
<1> DEFINE e == entries[k]
           loc == locs[k]
           at == locs[k].at
<1>e. e \in Reported /\ PlaceFound(k) /\ loc \in Loc0 /\ at \in Place0
  <2>1. e \in Reported /\ loc \in Loc0
    BY <1>t, ElementOfSeq
  <2>2. PlaceFound(k)
    BY <1>t DEF ListInv
  <2>3. QED
    BY <2>1, <2>2 DEF Loc0
<1>1. order' \in Seq(Merged0) /\ Len(order') < k + 1 /\ MergedUpTo(k)'
  <2>1. CASE loc = D!NoLoc /\ UNCHANGED order
    <3>1. MergedUpTo(k + 1)
      BY <1>t, <2>1 DEF MergedUpTo
    <3>2. QED
      BY <1>t, <2>1, <3>1 DEF MergedUpTo, FromItsPort, StandsFor, OfPort, RootRight
  <2>2. CASE /\ loc # D!NoLoc /\ \E i \in DOMAIN order : D!SamePort(loc, order[i])
             /\ order' = [i \in DOMAIN order |->
                            IF D!SamePort(loc, order[i]) THEN D!Merged(order[i], e) ELSE order[i]]
    <3>1. OfPort(at, e.node)
      BY <1>e, <2>2 DEF PlaceFound
    <3>2. /\ DOMAIN order = 1..Len(order)
          /\ \A j \in 1..Len(order) : order[j] \in Merged0 /\ FromItsPort(order[j])
      BY <1>t, ElementOfSeq, LenProperties DEF MergedUpTo
    <3>3. \A j \in 1..Len(order) :
            /\ order'[j] \in Merged0 /\ FromItsPort(order'[j]) /\ order'[j].at = order[j].at
            /\ \A i : StandsFor(order[j], i) => StandsFor(order'[j], i)
            /\ order[j].at = at => StandsFor(order'[j], k)
      <4> SUFFICES ASSUME NEW j \in 1..Len(order)
                   PROVE  /\ order'[j] \in Merged0 /\ FromItsPort(order'[j])
                          /\ order'[j].at = order[j].at
                          /\ \A i : StandsFor(order[j], i) => StandsFor(order'[j], i)
                          /\ order[j].at = at => StandsFor(order'[j], k)
        OBVIOUS
      <4>1. CASE order[j].at = at
        <5>1. order'[j] = D!Merged(order[j], e)
          BY <2>2, <3>2, <4>1 DEF D!SamePort
        <5>2. QED
          BY <1>e, <3>1, <3>2, <4>1, <5>1, MergedElement
      <4>2. CASE order[j].at # at
        <5>1. order'[j] = order[j]
          BY <2>2, <3>2, <4>2 DEF D!SamePort
        <5>2. QED
          BY <3>2, <4>2, <5>1
      <4>3. QED
        BY <4>1, <4>2
    <3>4. order' \in Seq(Merged0) /\ Len(order') = Len(order)
      <4>1. DOMAIN order' = 1..Len(order)
        BY <2>2, <3>2
      <4>2. order' \in [1..Len(order) -> Merged0]
        BY <2>2, <3>2, <3>3, <4>1
      <4>3. QED
        BY <1>t, <4>2
    <3>5. PICK q \in 1..Len(order) : order[q].at = at
      BY <2>2, <3>2 DEF D!SamePort
    <3>6. \A i \in 1..Len(locs) : i < k + 1 /\ locs[i] # D!NoLoc =>
            \E j \in 1..Len(order) : StandsFor(order'[j], i)
      <4> SUFFICES ASSUME NEW i \in 1..Len(locs), i < k + 1, locs[i] # D!NoLoc
                   PROVE  \E j \in 1..Len(order) : StandsFor(order'[j], i)
        OBVIOUS
      <4>1. CASE i = k
        BY <3>3, <3>5, <4>1
      <4>2. CASE i # k
        <5>1. PICK j \in 1..Len(order) : StandsFor(order[j], i)
          BY <1>t, <4>2 DEF MergedUpTo
        <5>2. QED
          BY <3>3, <5>1
      <4>3. QED
        BY <4>1, <4>2
    <3>7. \A i, j \in 1..Len(order) : order'[i].at = order'[j].at => i = j
      BY <1>t, <3>3 DEF MergedUpTo
    <3>8. MergedUpTo(k)'
      <4>1. (\A j \in 1..Len(order) : FromItsPort(order[j]))'
        BY <1>t, <3>3, <3>4 DEF FromItsPort, OfPort, RootRight
      <4>2. (\A i \in 1..Len(locs) : i < k /\ locs[i] # D!NoLoc =>
               \E j \in 1..Len(order) : StandsFor(order[j], i))'
        BY <1>t, <3>4, <3>6 DEF StandsFor
      <4>3. (\A i, j \in 1..Len(order) : order[i].at = order[j].at => i = j)'
        BY <3>4, <3>7
      <4>4. QED
        BY <1>t, <3>4, <4>1, <4>2, <4>3 DEF MergedUpTo
    <3>9. QED
      BY <1>t, <3>4, <3>8 DEF MergedUpTo
  <2>3. CASE /\ loc # D!NoLoc /\ \A i \in DOMAIN order : ~D!SamePort(loc, order[i])
             /\ order' = Append(order, [at |-> loc.at, root |-> loc.root, display |-> e, open |-> D!OpenPath(e)])
    <3> DEFINE m == [at |-> loc.at, root |-> loc.root, display |-> e, open |-> D!OpenPath(e)]
               n == Len(order) + 1
    <3>1. OfPort(at, e.node) /\ at.port # 0 /\ RootRight(at, loc.root) /\ loc.root \in Nat
      BY <1>e, <2>3 DEF PlaceFound, Loc0
    <3>2. e \in Path0 /\ D!NoPath \in Path0 /\ e # D!NoPath
      BY <1>e, ReportedPaths
    <3>3. m \in Merged0 /\ FromItsPort(m) /\ StandsFor(m, k)
      BY <1>e, <3>1, <3>2 DEF Merged0, FromItsPort, StandsFor, D!OpenPath
    <3>4. /\ order' \in Seq(Merged0) /\ Len(order') = n /\ order'[n] = m
          /\ \A j \in 1..Len(order) : order'[j] = order[j]
      BY <1>t, <2>3, <3>3, AppendProperties
    <3>5. \A j \in 1..Len(order) : order[j].at # at
      BY <1>t, <2>3, LenProperties DEF D!SamePort
    <3>6. \A i \in 1..Len(locs) : i < k + 1 /\ locs[i] # D!NoLoc =>
            \E j \in 1..n : StandsFor(order'[j], i)
      <4> SUFFICES ASSUME NEW i \in 1..Len(locs), i < k + 1, locs[i] # D!NoLoc
                   PROVE  \E j \in 1..n : StandsFor(order'[j], i)
        OBVIOUS
      <4>1. CASE i = k
        BY <1>t, <3>3, <3>4, <4>1
      <4>2. CASE i # k
        <5>1. PICK j \in 1..Len(order) : StandsFor(order[j], i)
          BY <1>t, <4>2 DEF MergedUpTo
        <5>2. j \in 1..n /\ order'[j] = order[j]
          BY <1>t, <3>4
        <5>3. QED
          BY <5>1, <5>2
      <4>3. QED
        BY <4>1, <4>2
    <3>7. \A i, j \in 1..n : order'[i].at = order'[j].at => i = j
      <4>0. m.at = at
        OBVIOUS
      <4> HIDE DEF at, m
      <4>1. \A j \in 1..Len(order) : order'[j].at = order[j].at /\ order[j].at # at
        BY <3>4, <3>5
      <4>2. order'[n].at = at
        BY <3>4, <4>0
      <4>3. \A i, j \in 1..Len(order) : order[i].at = order[j].at => i = j
        BY <1>t DEF MergedUpTo
      <4>4. \A j \in 1..n : j = n \/ j \in 1..Len(order)
        BY <1>t
      <4>5. QED
        BY <4>1, <4>2, <4>3, <4>4
    <3> HIDE DEF m
    <3>8. \A j \in 1..n : FromItsPort(order'[j])
      <4>1. \A j \in 1..Len(order) : FromItsPort(order[j])
        BY <1>t DEF MergedUpTo
      <4>2. \A j \in 1..n : j = n \/ j \in 1..Len(order)
        BY <1>t
      <4>3. QED
        BY <3>3, <3>4, <4>1, <4>2
    <3>9. MergedUpTo(k)'
      <4>1. (\A j \in 1..Len(order) : FromItsPort(order[j]))'
        BY <1>t, <3>4, <3>8 DEF FromItsPort, OfPort, RootRight
      <4>2. (\A i \in 1..Len(locs) : i < k /\ locs[i] # D!NoLoc =>
               \E j \in 1..Len(order) : StandsFor(order[j], i))'
        BY <1>t, <3>4, <3>6 DEF StandsFor
      <4>3. (\A i, j \in 1..Len(order) : order[i].at = order[j].at => i = j)'
        BY <3>4, <3>7
      <4>4. QED
        BY <1>t, <3>4, <4>1, <4>2, <4>3 DEF MergedUpTo
    <3>10. QED
      BY <1>t, <3>4, <3>9 DEF MergedUpTo
  <2>4. QED
    BY <2>1, <2>2, <2>3 DEF D!mergeNext
<1>2. ListTypes'
  <2>1. D!ListTypeOK'
    BY <1>t DEF ListInv, ListTypes, D!ListTypeOK
  <2>2. QED
    BY <1>1, <1>t, <2>1 DEF ListInv, ListTypes, StaysPut
<1>3. PhaseInv'
  BY <1>1, <1>t DEF PhaseInv
<1>4. (\A i \in 1..Len(locs) : PlaceFound(i))'
  BY <1>t DEF ListInv, PlaceFound, OfPort, RootRight
<1>5. QED
  BY <1>2, <1>3, <1>4, <1>t, NotYetDone DEF ListInv

LEMMA EndOfLoops ==
  ASSUME ListInv, D!mergeEnd \/ D!describedAll
  PROVE  ListInv'
<1>t. /\ entries \in Seq(Reported) /\ Len(entries) \in Nat /\ Len(order) \in Nat
      /\ Len(list) \in Nat /\ Len(locs) = Len(entries) /\ k' = 1
      /\ UNCHANGED <<present, failedClass, entries, locs, rhDevnodes, numbered, order, hubs, list>>
  BY LenProperties DEF ListInv, ListTypes, PhaseInv, D!mergeEnd, D!describedAll
<1>s. (\A m : D!busNumbering(m)' = D!busNumbering(m)) /\ (\A i \in 1..Len(locs) : PlaceFound(i))'
  BY <1>t DEF ListInv, PlaceFound, OfPort, RootRight, D!busNumbering
<1>1. CASE D!mergeEnd
  <2>1. lpc = "merge" /\ k = Len(entries) + 1 /\ lpc' = "describe" /\ MergedUpTo(k) /\ list = <<>>
        /\ \A h \in Hubs : hubs[h] = "none"
    BY <1>1 DEF ListInv, PhaseInv, D!mergeEnd, ListTypes, D!ListTypeOK
  <2>2. MergedUpTo(Len(entries) + 1)'
    BY <1>t, <2>1 DEF MergedUpTo, FromItsPort, StandsFor, OfPort, RootRight
  <2>3. PhaseInv'
    BY <1>t, <2>1, <2>2, LenProperties DEF PhaseInv
  <2>4. ListTypes'
    <3>1. D!ListTypeOK'
      BY <1>t, <2>1 DEF ListInv, ListTypes, D!ListTypeOK
    <3>2. QED
      BY <1>t, <2>1, <3>1 DEF ListInv, ListTypes, StaysPut
  <2>5. QED
    BY <1>s, <2>1, <2>3, <2>4, NotYetDone DEF ListInv
<1>2. CASE D!describedAll
  <2>1. /\ lpc = "describe" /\ lpc' = "unlocated" /\ MergedUpTo(Len(entries) + 1)
        /\ Len(list) = Len(order)
        /\ \A j \in 1..Len(list) : j <= Len(order) => Describes(list[j], order[j])
    BY <1>2 DEF ListInv, PhaseInv, D!describedAll
  <2>2. MergedUpTo(Len(entries) + 1)'
    BY <1>t, <2>1 DEF MergedUpTo, FromItsPort, StandsFor, OfPort, RootRight
  <2>3. (\A j \in 1..Len(list) : j <= Len(order) => Describes(list[j], order[j]))'
    BY <1>t, <1>s, <2>1 DEF Describes
  <2>4. UnlocatedUpTo(1)'
    BY <1>t, <2>1 DEF UnlocatedUpTo
  <2>5. PhaseInv'
    BY <1>t, <2>1, <2>2, <2>3, <2>4 DEF PhaseInv
  <2>6. ListTypes'
    <3>1. D!ListTypeOK'
      BY <1>t, <2>1 DEF ListInv, ListTypes, D!ListTypeOK
    <3>2. QED
      BY <1>t, <2>1, <3>1 DEF ListInv, ListTypes, StaysPut
  <2>7. QED
    BY <1>s, <2>1, <2>5, <2>6, NotYetDone DEF ListInv
<1>3. QED
  BY <1>1, <1>2

LEMMA BusNumbers == ListInv => \A r : D!busNumbering(r) \in Nat
<1> SUFFICES ASSUME ListInv, NEW r PROVE D!busNumbering(r) \in Nat
  OBVIOUS
<1> DEFINE X == {x \in numbered : x <= r}
<1>1. X \in SUBSET Nodes
  BY DEF ListInv, ListTypes, D!ListTypeOK, D!TreeAssumption
<1>2. D!busNumbering(r) = IF r \in numbered THEN D!Cardinality(X) ELSE 0
  BY DEF D!busNumbering
<1> HIDE DEF X
<1>3. D!Cardinality(X) \in Nat
  BY <1>1, ListFinite, FS_Subset, SizeIsNat
<1>4. QED
  BY <1>2, <1>3

\* The line for a path without a place.
LEMMA BareLine ==
  ASSUME NEW p \in Path0
  PROVE  /\ D!Device(p) \in Line0 /\ D!Device(p).at = D!NoPort /\ D!Device(p).inst = 0
         /\ D!Device(p).path = p /\ D!Device(p).open = p
<1>1. D!NoPort \in Place0
  BY DEF D!NoPort, Place0
<1>2. QED
  BY <1>1 DEF D!Device, Line0

LEMMA DescribeNextStep ==
  ASSUME ListInv, D!describeNext
  PROVE  ListInv'
<1> DEFINE m == order[k]
           h == m.at.hub
           n == Len(list) + 1
<1>t. /\ lpc = "describe" /\ Len(locs) = Len(entries) /\ MergedUpTo(Len(entries) + 1)
      /\ order \in Seq(Merged0) /\ list \in Seq(Line0)
      /\ Len(entries) \in Nat /\ Len(order) \in Nat /\ Len(list) \in Nat
      /\ k \in 1..Len(order) /\ k = n /\ k' = k + 1
      /\ \A j \in 1..Len(list) : Describes(list[j], order[j])
      /\ UNCHANGED <<present, lpc, failedClass, entries, locs, rhDevnodes, numbered, order>>
  BY LenProperties DEF ListInv, ListTypes, PhaseInv, D!ListTypeOK, D!describeNext
<1>m. m \in Merged0 /\ FromItsPort(m) /\ h \in Hubs
  <2>1. m \in Merged0 /\ FromItsPort(m)
    BY <1>t, ElementOfSeq DEF MergedUpTo
  <2>2. m.display.node \in Nodes \ RootHubs
    BY <2>1, PlaceIsOne DEF FromItsPort
  <2>3. \E x \in Nodes \ RootHubs : m.at = PlaceOf(x)
    BY <2>1, <2>2, HubOnPort DEF FromItsPort, OfPort
  <2>4. QED
    BY <2>1, <2>3, PlaceIsOne
<1>0. PICK hub \in {"open", "invalid"} \cup {hubs[h]} : \E address \in D!describeFromHub(m, hub) :
        /\ hubs' = [hubs EXCEPT ![h] = hub]
        /\ list' = Append(list,
             [D!Device(m.display) EXCEPT
                !.open = IF m.open = D!NoPath THEN @ ELSE m.open, !.inst = m.display.node,
                !.at = m.at, !.bus = D!busNumbering(m.root), !.addr = address])
  BY DEF D!describeNext
<1>1. PICK address \in D!describeFromHub(m, hub) :
        /\ hubs' = [hubs EXCEPT ![h] = hub]
        /\ list' = Append(list,
             [D!Device(m.display) EXCEPT
                !.open = IF m.open = D!NoPath THEN @ ELSE m.open, !.inst = m.display.node,
                !.at = m.at, !.bus = D!busNumbering(m.root), !.addr = address])
  BY <1>0
<1> DEFINE d == [D!Device(m.display) EXCEPT
                   !.open = IF m.open = D!NoPath THEN @ ELSE m.open, !.inst = m.display.node,
                   !.at = m.at, !.bus = D!busNumbering(m.root), !.addr = address]
<1>2. address \in Nat /\ D!busNumbering(m.root) \in Nat
  <2>1. Nodes \subseteq Nat
    BY DEF D!TreeAssumption
  <2>2. address \in Nat
    BY <1>1, <2>1 DEF D!describeFromHub
  <2>3. QED
    BY <2>2, BusNumbers
<1>3. d \in Line0 /\ Describes(d, m)
  <2>1. m.display \in Path0 /\ m.open \in Path0 /\ m.at \in Place0 /\ m.display.node \in Nat
    BY <1>m DEF Merged0, Path0
  <2>2. D!Device(m.display) \in Line0 /\ D!Device(m.display).path = m.display
        /\ D!Device(m.display).open = m.display
    BY <2>1, BareLine
  <2> HIDE DEF m
  <2>3. d \in Line0
    BY <1>2, <2>1, <2>2 DEF Line0
  <2>4. Describes(d, m)
    BY <2>1, <2>2 DEF Describes, Line0
  <2>5. QED
    BY <2>3, <2>4
<1>4. /\ list' \in Seq(Line0) /\ Len(list') = n /\ list'[n] = d
      /\ \A j \in 1..Len(list) : list'[j] = list[j]
  <2> HIDE DEF d
  <2>1. list' = Append(list, d)
    BY <1>1 DEF d
  <2>2. QED
    BY <1>3, <1>t, <2>1, AppendProperties
<1>5. (\A j \in 1..Len(list) : j <= Len(order) => Describes(list[j], order[j]))'
  <2> SUFFICES ASSUME NEW j \in 1..n PROVE Describes(list[j], order[j])'
    BY <1>4
  <2>1. Describes(list'[j], order[j])
    <3>1. CASE j = n
      BY <1>3, <1>4, <1>t, <3>1
    <3>2. CASE j # n
      <4>1. j \in 1..Len(list)
        BY <1>t, <3>2
      <4>2. QED
        BY <1>4, <1>t, <4>1
    <3>3. QED
      BY <3>1, <3>2
  <2>2. \A g : D!busNumbering(g)' = D!busNumbering(g)
    BY <1>t DEF D!busNumbering
  <2>3. QED
    BY <1>t, <2>1, <2>2 DEF Describes
<1>6. MergedUpTo(Len(entries) + 1)'
  BY <1>t DEF MergedUpTo, FromItsPort, StandsFor, OfPort, RootRight
<1>7. PhaseInv'
  BY <1>4, <1>5, <1>6, <1>t DEF PhaseInv
<1>8. ListTypes'
  <2>1. Len(order) < Len(entries) + 1
    BY <1>t DEF MergedUpTo
  <2>2. hubs' \in [Hubs -> {"none", "open", "invalid"}]
    <3>1. hubs \in [Hubs -> {"none", "open", "invalid"}]
      BY DEF ListInv, ListTypes
    <3>2. hub \in {"none", "open", "invalid"}
      BY <1>m, <3>1
    <3> HIDE DEF h
    <3>3. QED
      BY <1>1, <3>1, <3>2
  <2>3. D!ListTypeOK'
    BY <1>t, <2>1 DEF ListInv, ListTypes, D!ListTypeOK
  <2>4. QED
    BY <1>4, <1>t, <2>2, <2>3 DEF ListInv, ListTypes, StaysPut
<1>9. (\A i \in 1..Len(locs) : PlaceFound(i))'
  BY <1>t DEF ListInv, PlaceFound, OfPort, RootRight
<1>10. QED
  BY <1>7, <1>8, <1>9, <1>t, NotYetDone DEF ListInv

LEMMA ReportUnlocatedStep ==
  ASSUME ListInv, D!reportUnlocated
  PROVE  ListInv'
<1> DEFINE d == D!Device(entries[k])
           n == Len(list) + 1
<1>t. /\ lpc = "unlocated" /\ Len(locs) = Len(entries) /\ MergedUpTo(Len(entries) + 1)
      /\ entries \in Seq(Reported) /\ list \in Seq(Line0)
      /\ Len(entries) \in Nat /\ Len(order) \in Nat /\ Len(list) \in Nat
      /\ Len(list) >= Len(order)
      /\ k \in 1..Len(entries) /\ k' = k + 1
      /\ \A j \in 1..Len(list) : j <= Len(order) => Describes(list[j], order[j])
      /\ UnlocatedUpTo(k)
      /\ UNCHANGED <<present, lpc, failedClass, entries, locs, rhDevnodes, numbered, order, hubs>>
      /\ list' = IF locs[k] = D!NoLoc THEN Append(list, d) ELSE list
  BY LenProperties DEF ListInv, ListTypes, PhaseInv, D!ListTypeOK, D!reportUnlocated
<1>d. /\ d \in Line0 /\ d.path = entries[k]
      /\ locs[k] = D!NoLoc => Bare(d)
  <2>1. entries[k] \in Path0 /\ PlaceFound(k)
    BY <1>t, ElementOfSeq, ReportedPaths DEF ListInv
  <2>2. d \in Line0 /\ d.at = D!NoPort /\ d.inst = 0 /\ d.path = entries[k]
    BY <2>1, BareLine
  <2> HIDE DEF d
  <2>3. QED
    BY <2>1, <2>2 DEF PlaceFound, Bare
<1> HIDE DEF d
<1>1. /\ list' \in Seq(Line0) /\ Len(list') \in Nat /\ Len(list') >= Len(list)
      /\ \A j \in 1..Len(list) : list'[j] = list[j]
      /\ \A j \in 1..Len(list') : j > Len(list) => list'[j] = d /\ locs[k] = D!NoLoc
      /\ locs[k] = D!NoLoc => Len(list') = n /\ list'[n] = d
  <2>1. CASE locs[k] = D!NoLoc
    <3>1. /\ list' \in Seq(Line0) /\ Len(list') = n /\ list'[n] = d
          /\ \A j \in 1..Len(list) : list'[j] = list[j]
      BY <1>d, <1>t, <2>1, AppendProperties
    <3>2. \A j \in 1..n : j > Len(list) => j = n
      BY <1>t
    <3>3. QED
      BY <1>t, <2>1, <3>1, <3>2
  <2>2. CASE locs[k] # D!NoLoc
    BY <1>t, <2>2
  <2>3. QED
    BY <2>1, <2>2
<1>2. (\A j \in 1..Len(list) : j <= Len(order) => Describes(list[j], order[j]))'
  <2>1. \A j \in 1..Len(list') : j <= Len(order) => Describes(list'[j], order[j])
    BY <1>1, <1>t
  <2>2. \A g : D!busNumbering(g)' = D!busNumbering(g)
    BY <1>t DEF D!busNumbering
  <2>3. QED
    BY <1>t, <2>1, <2>2 DEF Describes
<1>3. UnlocatedUpTo(k)'
  <2>1. \A j \in 1..Len(list') : j > Len(order) => Bare(list'[j])
    <3> SUFFICES ASSUME NEW j \in 1..Len(list'), j > Len(order) PROVE Bare(list'[j])
      OBVIOUS
    <3>1. CASE j > Len(list)
      BY <1>1, <1>d, <3>1
    <3>2. CASE j <= Len(list)
      <4>1. j \in 1..Len(list)
        BY <1>1, <1>t, <3>2
      <4>2. QED
        BY <1>1, <1>t, <4>1 DEF UnlocatedUpTo
    <3>3. QED
      BY <1>1, <1>t, <3>1, <3>2
  <2>2. ASSUME NEW i \in 1..Len(locs), i < k + 1, locs[i] = D!NoLoc
        PROVE  \E j \in 1..Len(list') : list'[j].path = entries[i]
    <3>1. CASE i = k
      <4>1. n \in 1..Len(list') /\ list'[n].path = entries[i]
        BY <1>1, <1>d, <1>t, <2>2, <3>1
      <4>2. QED
        BY <4>1
    <3>2. CASE i # k
      <4>1. i < k
        BY <1>t, <2>2, <3>2
      <4>2. PICK j \in 1..Len(list) : list[j].path = entries[i]
        BY <1>t, <2>2, <4>1 DEF UnlocatedUpTo
      <4>3. j \in 1..Len(list') /\ list'[j] = list[j]
        BY <1>1, <1>t
      <4>4. QED
        BY <4>2, <4>3
    <3>3. QED
      BY <3>1, <3>2
  <2>3. QED
    BY <1>t, <2>1, <2>2 DEF UnlocatedUpTo, Bare
<1>4. MergedUpTo(Len(entries) + 1)'
  BY <1>t DEF MergedUpTo, FromItsPort, StandsFor, OfPort, RootRight
<1>5. PhaseInv'
  BY <1>1, <1>2, <1>3, <1>4, <1>t DEF PhaseInv
<1>6. ListTypes'
  <2>1. D!ListTypeOK'
    BY <1>t DEF ListInv, ListTypes, D!ListTypeOK
  <2>2. QED
    BY <1>1, <1>t, <2>1 DEF ListInv, ListTypes, StaysPut
<1>7. (\A i \in 1..Len(locs) : PlaceFound(i))'
  BY <1>t DEF ListInv, PlaceFound, OfPort, RootRight
<1>8. QED
  BY <1>5, <1>6, <1>7, <1>t, NotYetDone DEF ListInv

\* The lines of the complete list: the merged devices, those without a place,
\* and the root hubs.
LinesOf(all) ==
    /\ all \in Seq(Line0) /\ Len(all) >= Len(order)
    /\ \A j \in 1..Len(all) :
         \/ j <= Len(order) /\ Describes(all[j], order[j])
         \/ j > Len(order) /\ Bare(all[j])
         \/ /\ j > Len(order) /\ all[j].at = D!NoPort /\ all[j].inst \in RootHubs
            /\ all[j].path.node \in RootHubs /\ all[j].bus = D!busNumbering(all[j].inst)
    /\ \A i, j \in 1..Len(all) :
         i > Len(order) /\ j > Len(order) /\ all[i].inst = all[j].inst /\ all[i].inst # 0 => i = j
    /\ \A i \in 1..Len(locs) : locs[i] = D!NoLoc =>
         \E j \in 1..Len(all) : all[j].path = entries[i]

\* The merged device whose devnode x stays is at the place of x.
LEMMA MergedAt ==
  ASSUME StaysPut, present \subseteq Nodes, MergedUpTo(Len(entries) + 1),
         NEW j \in 1..Len(order), order[j].display.node \in present
  PROVE  LET x == order[j].display.node IN
           /\ x \in Nodes \ RootHubs /\ order[j].at = PlaceOf(x)
           /\ order[j].root = D!RootOf[PlaceOf(x).hub]
           /\ PlaceOf(x).hub \in Hubs /\ PlaceOf(x).hub \in present
<1> DEFINE x == order[j].display.node
<1>1. FromItsPort(order[j])
  BY DEF MergedUpTo
<1>2. x \in Nodes \ RootHubs /\ order[j].at = PlaceOf(x)
  BY <1>1, PlaceIsOne DEF FromItsPort, OfPort
<1>3. D!OnPort[x] \in present /\ D!OnPort[x] \in Nodes \ RootHubs /\ Parent[D!OnPort[x]] \in Hubs
  BY <1>2, OnPortStays, OnPortIsOnHub
<1>4. order[j].root = D!RootOf[PlaceOf(x).hub]
  BY <1>1, <1>2, <1>3 DEF FromItsPort, RootRight
<1>5. PlaceOf(x).hub \in Hubs /\ PlaceOf(x).hub \in present
  BY <1>3 DEF PlaceOf, StaysPut
<1>6. QED
  BY <1>2, <1>4, <1>5

\* One line shows the hub of a device that stays, and both are on one bus.
LEMMA HubIsOne ==
  ASSUME StaysPut, present \subseteq Nodes, MergedUpTo(Len(entries) + 1), NEW all, LinesOf(all),
         Len(order) \in Nat, NEW i \in 1..Len(all), D!Stays(all[i])
  PROVE  /\ \A x, y \in 1..Len(all) :
              all[x].inst # 0 /\ all[x].inst = all[i].at.hub /\ all[y].inst = all[x].inst => x = y
         /\ \A j \in 1..Len(all) : all[j].inst # 0 /\ all[j].inst = all[i].at.hub =>
              all[i].bus = all[j].bus
<1> DEFINE g == all[i].at.hub
<1>1. RootHubs \subseteq Nat \ {0} /\ RootHubs \subseteq Hubs
  BY DEF D!TreeAssumption
<1>2. CASE i > Len(order)
  <2>1. all[i].at = D!NoPort
    BY <1>2 DEF LinesOf, Bare
  <2>2. QED
    BY <2>1 DEF D!NoPort
<1>3. CASE i <= Len(order)
  <2>1. i \in 1..Len(order) /\ Describes(all[i], order[i]) /\ order[i].display.node \in present
    BY <1>3 DEF LinesOf, Describes, D!Stays
  <2>2. /\ g \in Hubs /\ g \in present /\ all[i].bus = D!busNumbering(D!RootOf[g])
    BY <2>1, MergedAt DEF Describes
  <2> HIDE DEF g
  <2>3. ASSUME NEW x \in 1..Len(all), all[x].inst = g, x <= Len(order)
        PROVE  /\ x \in 1..Len(order) /\ order[x].at = PlaceOf(g) /\ g \notin RootHubs
               /\ all[x].bus = D!busNumbering(D!RootOf[g])
    <3>1. x \in 1..Len(order) /\ Describes(all[x], order[x])
      BY <2>3 DEF LinesOf
    <3>2. /\ g = order[x].display.node /\ order[x].at = PlaceOf(g) /\ g \in Nodes \ RootHubs
          /\ order[x].root = D!RootOf[PlaceOf(g).hub]
      BY <2>2, <2>3, <3>1, MergedAt DEF Describes
    <3>3. D!OnPort[g] = g
      BY <2>2, <3>2, HubOnPort
    <3>4. D!RootOf[g] = D!RootOf[PlaceOf(g).hub]
      BY <2>2, <3>2, <3>3, RootOfClimbs DEF PlaceOf
    <3>5. QED
      BY <3>1, <3>2, <3>4 DEF Describes
  <2>4. ASSUME NEW x \in 1..Len(all), all[x].inst = g, x > Len(order), g # 0
        PROVE  g \in RootHubs /\ all[x].bus = D!busNumbering(D!RootOf[g])
    <3>1. all[x].inst \in RootHubs /\ all[x].bus = D!busNumbering(g)
      BY <2>4 DEF LinesOf, Bare
    <3>2. D!RootOf[g] = g
      BY <1>1, <2>4, <3>1, RootOfClimbs
    <3>3. QED
      BY <2>4, <3>1, <3>2
  <2>5. ASSUME NEW x \in 1..Len(all), NEW y \in 1..Len(all), g # 0, all[x].inst = g, all[y].inst = g
        PROVE  x = y
    <3>1. CASE x <= Len(order) /\ y <= Len(order)
      BY <2>3, <2>5, <3>1 DEF MergedUpTo
    <3>2. CASE x > Len(order) /\ y > Len(order)
      BY <2>5, <3>2 DEF LinesOf
    <3>3. CASE x <= Len(order) /\ y > Len(order)
      BY <2>3, <2>4, <2>5, <3>3
    <3>4. CASE x > Len(order) /\ y <= Len(order)
      BY <2>3, <2>4, <2>5, <3>4
    <3>5. QED
      BY <3>1, <3>2, <3>3, <3>4
  <2>6. ASSUME NEW j \in 1..Len(all), g # 0, all[j].inst = g PROVE all[i].bus = all[j].bus
    BY <2>2, <2>3, <2>4, <2>6
  <2>7. QED
    BY <2>5, <2>6 DEF g
<1>4. QED
  BY <1>2, <1>3

\* The lines of the root hubs.
LEMMA RootLines ==
  ASSUME ListInv, NEW shown \in SUBSET rhDevnodes, NEW roots \in D!SetToSeqs(shown)
  PROVE  LET rs == [i \in DOMAIN roots |-> D!describeRootHub(roots[i])]
         IN  /\ rs \in Seq(Line0) /\ Len(rs) \in Nat
             /\ \A i \in 1..Len(rs) : /\ rs[i].at = D!NoPort /\ rs[i].inst \in RootHubs /\ rs[i].path.node \in RootHubs
                                      /\ rs[i].bus = D!busNumbering(rs[i].inst)
             /\ \A i, j \in 1..Len(rs) : rs[i].inst = rs[j].inst => i = j
<1> DEFINE N == D!Cardinality(shown)
           rs == [i \in DOMAIN roots |-> D!describeRootHub(roots[i])]
<1>1. N \in Nat
  <2>1. shown \in SUBSET Nodes
    BY DEF ListInv, ListTypes, D!TreeAssumption
  <2>2. QED
    BY <2>1, ListFinite, FS_Subset, SizeIsNat
<1>2. /\ roots \in [1..N -> shown]
      /\ \A i, j \in 1..N : roots[i] = roots[j] => i = j
  BY DEF D!SetToSeqs, D!IsInjective
<1> HIDE DEF N
<1>3. \A i \in 1..N : /\ roots[i] \in RootHubs /\ roots[i] \in Nat
  BY <1>2 DEF ListInv, ListTypes, D!TreeAssumption
<1>4. ASSUME NEW r \in RootHubs
      PROVE  /\ D!describeRootHub(r) \in Line0 /\ D!describeRootHub(r).at = D!NoPort
             /\ D!describeRootHub(r).inst = r /\ D!describeRootHub(r).path.node = r
             /\ D!describeRootHub(r).bus = D!busNumbering(r)
  <2> DEFINE p == [node |-> r, class |-> "hub", fn |-> FALSE]
  <2>1. r \in Nat /\ p \in Path0
    BY DEF D!TreeAssumption, Path0
  <2>2. D!Device(p) \in Line0 /\ D!Device(p).at = D!NoPort /\ D!Device(p).path.node = r
    BY <2>1, BareLine
  <2>3. D!busNumbering(r) \in Nat
    BY BusNumbers
  <2>4. D!describeRootHub(r) = [D!Device(p) EXCEPT !.inst = r, !.bus = D!busNumbering(r), !.addr = 1]
    BY DEF D!describeRootHub
  <2> HIDE DEF p
  <2> DEFINE d == D!Device(p)
             b == D!busNumbering(r)
             y == [d EXCEPT !.inst = r, !.bus = b, !.addr = 1]
  <2>5. d \in Line0 /\ d.at = D!NoPort /\ d.path.node = r /\ r \in Nat /\ b \in Nat
        /\ D!describeRootHub(r) = y
    BY <2>1, <2>2, <2>3, <2>4
  <2> HIDE DEF d, b
  <2>6. y \in Line0 /\ y.at = d.at /\ y.inst = r /\ y.bus = b /\ y.path = d.path
    BY <2>5 DEF Line0
  <2>7. D!describeRootHub(r) = y
    BY <2>5
  <2> HIDE DEF y
  <2>8. QED
    BY <2>5, <2>6, <2>7 DEF b
<1>5. /\ DOMAIN rs = 1..N
      /\ \A i \in 1..N : rs[i] = D!describeRootHub(roots[i])
  BY <1>2
<1> HIDE DEF rs
<1>6. rs \in [1..N -> Line0]
  <2>1. \A i \in 1..N : rs[i] \in Line0
    BY <1>3, <1>4, <1>5
  <2>2. rs = [i \in 1..N |-> rs[i]]
    BY <1>5 DEF rs
  <2>3. QED
    BY <2>1, <2>2
<1>7. rs \in Seq(Line0) /\ Len(rs) = N
  BY <1>1, <1>5, <1>6
<1>8. QED
  BY <1>1, <1>2, <1>3, <1>4, <1>5, <1>7 DEF rs

\* They complete the list.
LEMMA AllLines ==
  ASSUME ListInv, lpc = "unlocated", k = Len(entries) + 1,
         NEW shown \in SUBSET rhDevnodes, NEW roots \in D!SetToSeqs(shown)
  PROVE  LinesOf(list \o [i \in DOMAIN roots |-> D!describeRootHub(roots[i])])
<1> DEFINE rs == [i \in DOMAIN roots |-> D!describeRootHub(roots[i])]
           all == list \o rs
           L == Len(list)
<1>1. /\ rs \in Seq(Line0) /\ Len(rs) \in Nat
      /\ \A i \in 1..Len(rs) : /\ rs[i].at = D!NoPort /\ rs[i].inst \in RootHubs /\ rs[i].path.node \in RootHubs
                               /\ rs[i].bus = D!busNumbering(rs[i].inst)
      /\ \A i, j \in 1..Len(rs) : rs[i].inst = rs[j].inst => i = j
  BY RootLines
<1> HIDE DEF rs
<1>t. /\ list \in Seq(Line0) /\ L \in Nat /\ Len(order) \in Nat /\ L >= Len(order)
      /\ \A j \in 1..L : j <= Len(order) => Describes(list[j], order[j])
      /\ UnlocatedUpTo(k) /\ Len(locs) = Len(entries) /\ Len(entries) \in Nat
  BY LenProperties DEF ListInv, ListTypes, PhaseInv
<1>2. /\ all \in Seq(Line0) /\ Len(all) = L + Len(rs)
      /\ \A j \in 1..L : all[j] = list[j]
      /\ \A j \in (L + 1)..(L + Len(rs)) : all[j] = rs[j - L]
  <2>1. /\ all \in Seq(Line0) /\ Len(all) = L + Len(rs)
        /\ \A j \in 1..(L + Len(rs)) : all[j] = IF j <= L THEN list[j] ELSE rs[j - L]
    BY <1>1, <1>t, ConcatProperties
  <2> HIDE DEF all
  <2>2. QED
    BY <1>1, <1>t, <2>1
<1> HIDE DEF all
<1>3. ASSUME NEW j \in 1..Len(all), j > L
      PROVE  j - L \in 1..Len(rs) /\ all[j] = rs[j - L] /\ j > Len(order)
  BY <1>1, <1>2, <1>3, <1>t
<1>4. ASSUME NEW j \in 1..Len(all), j <= L
      PROVE  /\ j \in 1..L /\ all[j] = list[j]
             /\ \/ j <= Len(order) /\ Describes(all[j], order[j])
                \/ j > Len(order) /\ Bare(all[j])
  <2>1. j \in 1..L /\ all[j] = list[j]
    BY <1>1, <1>2, <1>4, <1>t
  <2>2. j <= Len(order) => Describes(all[j], order[j])
    BY <1>t, <2>1
  <2>3. j > Len(order) => Bare(all[j])
    BY <1>t, <2>1 DEF UnlocatedUpTo
  <2>4. QED
    BY <1>t, <2>1, <2>2, <2>3
<1>5. RootHubs \subseteq Nat \ {0}
  BY DEF D!TreeAssumption
<1>6. \A j \in 1..Len(all) :
         \/ j <= Len(order) /\ Describes(all[j], order[j])
         \/ j > Len(order) /\ Bare(all[j])
         \/ /\ j > Len(order) /\ all[j].at = D!NoPort /\ all[j].inst \in RootHubs
            /\ all[j].path.node \in RootHubs /\ all[j].bus = D!busNumbering(all[j].inst)
  <2> SUFFICES ASSUME NEW j \in 1..Len(all)
               PROVE  \/ j <= Len(order) /\ Describes(all[j], order[j])
                      \/ j > Len(order) /\ Bare(all[j])
                      \/ /\ j > Len(order) /\ all[j].at = D!NoPort /\ all[j].inst \in RootHubs
                         /\ all[j].path.node \in RootHubs /\ all[j].bus = D!busNumbering(all[j].inst)
    OBVIOUS
  <2>1. CASE j <= L
    BY <1>4, <2>1
  <2>2. CASE j > L
    <3> DEFINE x == j - L
    <3>1. x \in 1..Len(rs) /\ all[j] = rs[x] /\ j > Len(order)
      BY <1>3, <2>2
    <3> HIDE DEF x
    <3>2. rs[x].at = D!NoPort /\ rs[x].inst \in RootHubs /\ rs[x].path.node \in RootHubs
          /\ rs[x].bus = D!busNumbering(rs[x].inst)
      BY <1>1, <3>1
    <3>3. QED
      BY <3>1, <3>2
  <2>3. QED
    BY <1>1, <1>2, <1>t, <2>1, <2>2
<1>7. ASSUME NEW i \in 1..Len(all), NEW j \in 1..Len(all), i > Len(order), j > Len(order),
             all[i].inst = all[j].inst, all[i].inst # 0
      PROVE  i = j
  <2>1. i > L /\ j > L
    <3>1. \A x \in 1..Len(all) : x <= L => x <= Len(order) \/ all[x].inst = 0
      BY <1>4 DEF Bare
    <3>2. i \in Nat /\ j \in Nat
      BY <1>1, <1>2, <1>t
    <3>3. ~(i <= L) /\ ~(j <= L)
      BY <1>7, <1>t, <3>1, <3>2
    <3>4. QED
      BY <1>t, <3>2, <3>3
  <2>2. i - L \in 1..Len(rs) /\ j - L \in 1..Len(rs) /\ rs[i - L].inst = rs[j - L].inst
    BY <1>3, <1>7, <2>1
  <2>3. i - L = j - L
    BY <1>1, <2>2
  <2>4. QED
    BY <1>t, <2>3
<1>8. ASSUME NEW i \in 1..Len(locs), locs[i] = D!NoLoc
      PROVE  \E j \in 1..Len(all) : all[j].path = entries[i]
  <2>1. PICK j \in 1..L : list[j].path = entries[i]
    BY <1>8, <1>t DEF UnlocatedUpTo
  <2>2. j \in 1..Len(all) /\ all[j] = list[j]
    BY <1>1, <1>2, <1>t
  <2>3. QED
    BY <2>1, <2>2
<1>9. all \in Seq(Line0) /\ Len(all) >= Len(order)
  BY <1>1, <1>2, <1>t
<1>10. LinesOf(all)
  BY <1>6, <1>7, <1>8, <1>9 DEF LinesOf
<1>11. QED
  BY <1>10 DEF all, rs

\* Filling in the parents' addresses changes nothing else.
LEMMA ParentFilled ==
  ASSUME StaysPut, present \subseteq Nodes, MergedUpTo(Len(entries) + 1), NEW all, LinesOf(all),
         Len(order) \in Nat
  PROVE  /\ DOMAIN D!ParentsFilled(all) = 1..Len(all)
         /\ \A i \in 1..Len(all) :
              LET d == D!ParentsFilled(all)[i] IN
                /\ d.at = all[i].at /\ d.path = all[i].path /\ d.open = all[i].open
                /\ d.inst = all[i].inst /\ d.bus = all[i].bus /\ d.addr = all[i].addr
                /\ \A j \in 1..Len(all) :
                     D!Stays(all[i]) /\ all[j].inst # 0 /\ all[j].inst = all[i].at.hub =>
                       d.parentAddr = all[j].addr
<1> DEFINE out == D!ParentsFilled(all)
<1>t. /\ all \in Seq(Line0) /\ Len(all) \in Nat /\ DOMAIN all = 1..Len(all)
      /\ \A i \in 1..Len(all) : all[i] \in Line0
  BY ElementOfSeq, LenProperties DEF LinesOf
<1>1. ASSUME NEW i \in 1..Len(all), NEW j \in 1..Len(all), D!Stays(all[i]),
             all[j].inst # 0, all[j].inst = all[i].at.hub
      PROVE  D!ParentHubAddr(all, all[i]) = all[j].addr
  <2> DEFINE hub == {x \in D!WithInst(all) : all[i].at.hub # 0 /\ all[x].inst = all[i].at.hub}
             c == CHOOSE x \in hub : \A y \in hub : y <= x
  <2>1. D!ParentHubAddr(all, all[i]) = IF hub = {} THEN 0 ELSE all[c].addr
    BY DEF D!ParentHubAddr
  <2>2. \A x \in hub : x \in 1..Len(all) /\ all[x].inst # 0 /\ all[x].inst = all[i].at.hub
    BY <1>t DEF D!WithInst
  <2>3. j \in hub
    BY <1>1, <1>t DEF D!WithInst
  <2> HIDE DEF hub
  <2>4. \A x \in hub : x = j
    BY <1>1, <2>2, HubIsOne
  <2>5. \E x \in hub : \A y \in hub : y <= x
    BY <1>t, <2>2, <2>3, <2>4
  <2>6. c \in hub
    BY <2>5, Zenon
  <2> HIDE DEF c
  <2>7. QED
    BY <2>1, <2>3, <2>4, <2>6
<1>2. /\ DOMAIN out = 1..Len(all)
      /\ \A i \in 1..Len(all) : out[i] = [all[i] EXCEPT !.parentAddr = D!ParentHubAddr(all, all[i])]
  BY <1>t DEF D!ParentsFilled
<1>3. ASSUME NEW d \in Line0, NEW a
      PROVE  LET x == [d EXCEPT !.parentAddr = a] IN
               /\ x.parentAddr = a
               /\ x.at = d.at /\ x.path = d.path /\ x.open = d.open
               /\ x.inst = d.inst /\ x.bus = d.bus /\ x.addr = d.addr
  BY DEF Line0
<1> HIDE DEF out
<1>4. ASSUME NEW i \in 1..Len(all)
      PROVE  /\ out[i].at = all[i].at /\ out[i].path = all[i].path /\ out[i].open = all[i].open
             /\ out[i].inst = all[i].inst /\ out[i].bus = all[i].bus /\ out[i].addr = all[i].addr
             /\ \A j \in 1..Len(all) :
                  D!Stays(all[i]) /\ all[j].inst # 0 /\ all[j].inst = all[i].at.hub =>
                    out[i].parentAddr = all[j].addr
  <2> DEFINE a == D!ParentHubAddr(all, all[i])
  <2>1. all[i] \in Line0 /\ out[i] = [all[i] EXCEPT !.parentAddr = a]
    BY <1>2, <1>t
  <2>2. \A j \in 1..Len(all) :
          D!Stays(all[i]) /\ all[j].inst # 0 /\ all[j].inst = all[i].at.hub => a = all[j].addr
    BY <1>1
  <2> HIDE DEF a
  <2>3. QED
    BY <1>3, <2>1, <2>2
<1>5. QED
  BY <1>2, <1>4 DEF out

\* What the properties say of a list of devices.
Complete(out) ==
    /\ \A i, j \in DOMAIN out : out[i].at = out[j].at /\ out[i].at # D!NoPort => i = j
    /\ \A i, j \in DOMAIN out :
         D!Stays(out[i]) /\ D!Stays(out[j])
           /\ D!OnPort[out[i].path.node] = D!OnPort[out[j].path.node]
           /\ Port[D!OnPort[out[i].path.node]] # 0 => i = j
    /\ \A i \in D!Located : \E j \in DOMAIN out : out[j].at = locs[i].at
    /\ \A i \in D!Located : entries[i].node \in present =>
         \E j \in DOMAIN out :
           /\ out[j].at = D!PortOf(D!OnPort[entries[i].node])
           /\ ~entries[i].fn =>
                /\ ~out[j].path.fn /\ out[j].inst = entries[i].node
                /\ D!OnPort[entries[i].node] = entries[i].node
           /\ entries[i].class = "winusb" =>
                /\ out[j].open.class = "winusb"
                /\ D!OnPort[out[j].open.node] = D!OnPort[entries[i].node]
    /\ \A i \in DOMAIN entries \ D!Located : \E j \in DOMAIN out : out[j].path = entries[i]
    /\ \A i, j \in DOMAIN out :
         D!Stays(out[i]) /\ out[j].inst # 0 /\ out[j].inst = out[i].at.hub =>
           out[i].parentAddr = out[j].addr /\ out[i].bus = out[j].bus

\* The complete list says of every entry what it should.
LEMMA CompleteList ==
  ASSUME StaysPut, present \subseteq Nodes, MergedUpTo(Len(entries) + 1), NEW all, LinesOf(all),
         entries \in Seq(Reported), locs \in Seq(Loc0), order \in Seq(Merged0),
         Len(locs) = Len(entries), \A i \in 1..Len(locs) : PlaceFound(i),
         NEW out, out = D!ParentsFilled(all)
  PROVE  Complete(out)
<1>t. /\ Len(order) \in Nat /\ Len(entries) \in Nat /\ Len(all) \in Nat
      /\ DOMAIN entries = 1..Len(entries) /\ DOMAIN locs = 1..Len(entries)
      /\ D!Located = {i \in 1..Len(entries) : locs[i] # D!NoLoc}
      /\ Len(order) <= Len(all)
  BY LenProperties DEF LinesOf, D!Located
<1>1. /\ DOMAIN out = 1..Len(all)
      /\ \A i \in 1..Len(all) :
           /\ out[i].at = all[i].at /\ out[i].path = all[i].path /\ out[i].open = all[i].open
           /\ out[i].inst = all[i].inst /\ out[i].bus = all[i].bus /\ out[i].addr = all[i].addr
           /\ \A j \in 1..Len(all) :
                D!Stays(all[i]) /\ all[j].inst # 0 /\ all[j].inst = all[i].at.hub =>
                  out[i].parentAddr = all[j].addr
  BY <1>t, ParentFilled
<1>2. ASSUME NEW j \in 1..Len(all), all[j].at # D!NoPort
      PROVE  j \in 1..Len(order) /\ all[j].at = order[j].at
  BY <1>2, <1>t DEF LinesOf, Describes, Bare
<1>3. ASSUME NEW i \in 1..Len(order)
      PROVE  /\ i \in DOMAIN out /\ i \in 1..Len(all) /\ Describes(all[i], order[i])
             /\ out[i].at = order[i].at /\ out[i].path = order[i].display
             /\ out[i].inst = order[i].display.node
             /\ out[i].open = IF order[i].open = D!NoPath THEN order[i].display ELSE order[i].open
  <2>1. i \in 1..Len(all) /\ i <= Len(order)
    BY <1>t
  <2>2. Describes(all[i], order[i])
    BY <2>1 DEF LinesOf
  <2>3. QED
    BY <1>1, <2>1, <2>2 DEF Describes
<1>4. ASSUME NEW i \in DOMAIN out, NEW j \in DOMAIN out, out[i].at = out[j].at, out[i].at # D!NoPort
      PROVE  i = j
  <2>1. i \in 1..Len(order) /\ j \in 1..Len(order) /\ order[i].at = order[j].at
    BY <1>1, <1>2, <1>4
  <2>2. QED
    BY <2>1 DEF MergedUpTo
<1>5. ASSUME NEW i \in DOMAIN out, D!Stays(out[i]), Port[D!OnPort[out[i].path.node]] # 0
      PROVE  /\ i \in 1..Len(order) /\ out[i].at = D!PortOf(D!OnPort[out[i].path.node])
             /\ out[i].at # D!NoPort
  <2>1. i \in 1..Len(all) /\ all[i].path.node = out[i].path.node
    BY <1>1
  <2>2. i <= Len(order)
    <3>1. ~Bare(all[i])
      BY <1>5, <2>1 DEF Bare, D!Stays, PlaceOf
    <3>2. all[i].path.node \notin RootHubs
      BY <1>5, <2>1 DEF D!Stays
    <3>3. QED
      BY <2>1, <3>1, <3>2 DEF LinesOf
  <2>3. i \in 1..Len(order)
    BY <1>t, <2>1, <2>2
  <2>4. order[i].display.node = out[i].path.node /\ order[i].display.node \in present
    BY <1>3, <1>5, <2>3 DEF D!Stays
  <2>5. order[i].at = PlaceOf(out[i].path.node)
    BY <2>3, <2>4, MergedAt
  <2>6. QED
    BY <1>3, <1>5, <2>3, <2>5 DEF PlaceOf, D!PortOf, D!NoPort
<1>6. ASSUME NEW i \in DOMAIN out, NEW j \in DOMAIN out, D!Stays(out[i]), D!Stays(out[j]),
             D!OnPort[out[i].path.node] = D!OnPort[out[j].path.node],
             Port[D!OnPort[out[i].path.node]] # 0
      PROVE  i = j
  <2>1. out[i].at = out[j].at /\ out[i].at # D!NoPort
    BY <1>5, <1>6
  <2>2. QED
    BY <1>4, <2>1
<1>7. ASSUME NEW i \in D!Located
      PROVE  \E j \in 1..Len(order) : StandsFor(order[j], i)
  BY <1>7, <1>t DEF MergedUpTo
<1>8. ASSUME NEW i \in D!Located PROVE \E j \in DOMAIN out : out[j].at = locs[i].at
  BY <1>3, <1>7 DEF StandsFor
<1>9. ASSUME NEW i \in D!Located, entries[i].node \in present
      PROVE  \E j \in DOMAIN out :
                /\ out[j].at = D!PortOf(D!OnPort[entries[i].node])
                /\ ~entries[i].fn =>
                     /\ ~out[j].path.fn /\ out[j].inst = entries[i].node
                     /\ D!OnPort[entries[i].node] = entries[i].node
                /\ entries[i].class = "winusb" =>
                     /\ out[j].open.class = "winusb"
                     /\ D!OnPort[out[j].open.node] = D!OnPort[entries[i].node]
  <2> DEFINE n == entries[i].node
  <2>1. /\ i \in 1..Len(locs) /\ locs[i] # D!NoLoc /\ entries[i] \in Reported
        /\ n \in Nodes \ RootHubs /\ n \in present
    BY <1>9, <1>t, ElementOfSeq, PlaceIsOne
  <2>2. locs[i].at = PlaceOf(n) /\ locs[i].at.port # 0
    BY <2>1 DEF PlaceFound, OfPort
  <2>3. D!OnPort[n] \in present
    BY <2>1, OnPortStays
  <2>4. PICK j \in 1..Len(order) : StandsFor(order[j], i)
    BY <1>7
  <2>5. FromItsPort(order[j])
    BY DEF MergedUpTo
  <2>6. order[j].at = PlaceOf(n) /\ order[j].at.port # 0
    BY <2>2, <2>4 DEF StandsFor
  <2> HIDE DEF n
  <2>7. ASSUME NEW e \in Reported, OfPort(order[j].at, e.node)
        PROVE  D!OnPort[e.node] = D!OnPort[n]
    <3>1. e.node \in Nodes \ RootHubs
      BY PlaceIsOne
    <3>2. QED
      BY <2>1, <2>3, <2>6, <2>7, <3>1, FoundIsDevice
  <2>8. ASSUME ~entries[i].fn
        PROVE  ~out[j].path.fn /\ out[j].inst = n /\ D!OnPort[n] = n
    <3>1. ~order[j].display.fn /\ order[j].display \in Reported
      BY <2>4, <2>5, <2>8 DEF StandsFor, FromItsPort
    <3>2. D!OnPort[order[j].display.node] = order[j].display.node /\ D!OnPort[n] = n
      BY <2>1, <2>8, <3>1, PlaceIsOne DEF n
    <3>3. D!OnPort[order[j].display.node] = D!OnPort[n]
      BY <2>5, <2>7, <3>1 DEF FromItsPort
    <3>4. QED
      BY <1>3, <3>1, <3>2, <3>3
  <2>9. ASSUME entries[i].class = "winusb"
        PROVE  out[j].open.class = "winusb" /\ D!OnPort[out[j].open.node] = D!OnPort[n]
    <3>1. order[j].open # D!NoPath
      BY <2>4, <2>9 DEF StandsFor
    <3>2. /\ order[j].open \in Reported /\ order[j].open.class = "winusb"
          /\ D!OnPort[order[j].open.node] = D!OnPort[n]
      BY <2>5, <2>7, <3>1 DEF FromItsPort
    <3>3. QED
      BY <1>3, <3>1, <3>2
  <2>10. out[j].at = D!PortOf(D!OnPort[n])
    BY <1>3, <2>6 DEF PlaceOf, D!PortOf
  <2>11. QED
    BY <1>3, <2>8, <2>9, <2>10 DEF n
<1>10. ASSUME NEW i \in DOMAIN entries \ D!Located
      PROVE  \E j \in DOMAIN out : out[j].path = entries[i]
  <2>1. i \in 1..Len(locs) /\ locs[i] = D!NoLoc
    BY <1>t
  <2>2. PICK j \in 1..Len(all) : all[j].path = entries[i]
    BY <2>1 DEF LinesOf
  <2>3. QED
    BY <1>1, <2>2
<1>11. ASSUME NEW i \in DOMAIN out, NEW j \in DOMAIN out, D!Stays(out[i]),
             out[j].inst # 0, out[j].inst = out[i].at.hub
      PROVE  out[i].parentAddr = out[j].addr /\ out[i].bus = out[j].bus
  <2>1. /\ i \in 1..Len(all) /\ j \in 1..Len(all) /\ D!Stays(all[i])
        /\ all[j].inst # 0 /\ all[j].inst = all[i].at.hub
    BY <1>1, <1>11 DEF D!Stays
  <2>2. all[i].bus = all[j].bus
    BY <1>t, <2>1, HubIsOne
  <2>3. QED
    BY <1>1, <2>1, <2>2
<1>12. QED
  BY <1>4, <1>6, <1>8, <1>9, <1>10, <1>11 DEF Complete

LEMMA DescribeEndStep ==
  ASSUME ListInv, D!describeEnd
  PROVE  ListInv'
<1>t. /\ lpc = "unlocated" /\ k = Len(entries) + 1 /\ lpc' = "done" /\ k' = k
      /\ Len(locs) = Len(entries) /\ MergedUpTo(Len(entries) + 1)
      /\ entries \in Seq(Reported) /\ locs \in Seq(Loc0) /\ order \in Seq(Merged0)
      /\ Len(entries) \in Nat /\ Len(order) \in Nat
      /\ hubs' = [h \in Hubs |-> "none"]
      /\ \A i \in 1..Len(locs) : PlaceFound(i)
      /\ StaysPut /\ present \subseteq Nodes
      /\ UNCHANGED <<present, failedClass, entries, locs, rhDevnodes, numbered, order>>
  BY LenProperties DEF ListInv, ListTypes, D!ListTypeOK, PhaseInv, D!describeEnd, D!closeAll
<1>s. PICK shown \in SUBSET rhDevnodes : \E roots \in D!SetToSeqs(shown) :
        list' = D!ParentsFilled(list \o [i \in DOMAIN roots |-> D!describeRootHub(roots[i])])
  BY DEF D!describeEnd
<1>1. PICK roots \in D!SetToSeqs(shown) :
        list' = D!ParentsFilled(list \o [i \in DOMAIN roots |-> D!describeRootHub(roots[i])])
  BY <1>s
<1> DEFINE all == list \o [i \in DOMAIN roots |-> D!describeRootHub(roots[i])]
<1>2. LinesOf(all)
  BY <1>t, AllLines
<1>3. list' = D!ParentsFilled(all)
  BY <1>1
<1> HIDE DEF all
<1> DEFINE out == list'
<1>5. out = D!ParentsFilled(all)
  BY <1>3
<1> HIDE DEF out
<1>6. Complete(out)
  <2>1. /\ MergedUpTo(Len(entries) + 1) /\ Len(locs) = Len(entries)
        /\ entries \in Seq(Reported) /\ locs \in Seq(Loc0) /\ order \in Seq(Merged0)
        /\ \A i \in 1..Len(locs) : PlaceFound(i)
        /\ StaysPut /\ present \subseteq Nodes
    BY <1>t
  <2>2. QED
    BY <1>2, <1>5, <2>1, CompleteList
<1>7. D!Located' = D!Located
  BY <1>t DEF D!Located
<1>8. D!OnePerPort'
  <2>1. \A i, j \in DOMAIN out :
           out[i].path.node \in present \ RootHubs /\ out[j].path.node \in present \ RootHubs
             /\ D!OnPort[out[i].path.node] = D!OnPort[out[j].path.node]
             /\ Port[D!OnPort[out[i].path.node]] # 0 => i = j
    BY <1>6 DEF D!Stays, Complete
  <2>2. QED
    BY <1>6, <1>7, <1>t, <2>1 DEF Complete, D!OnePerPort, D!Stays, out
<1>9. D!IdentityIsDevice'
  <2>1. \A i \in D!Located : ~entries[i].fn /\ entries[i].node \in present =>
          \E j \in DOMAIN out : /\ out[j].at = D!PortOf(entries[i].node) /\ ~out[j].path.fn
                                /\ out[j].inst = entries[i].node
    <3> SUFFICES ASSUME NEW i \in D!Located, ~entries[i].fn, entries[i].node \in present
                 PROVE  \E j \in DOMAIN out :
                           /\ out[j].at = D!PortOf(entries[i].node) /\ ~out[j].path.fn
                           /\ out[j].inst = entries[i].node
      OBVIOUS
    <3>1. PICK j \in DOMAIN out :
             /\ out[j].at = D!PortOf(D!OnPort[entries[i].node])
             /\ ~out[j].path.fn /\ out[j].inst = entries[i].node
             /\ D!OnPort[entries[i].node] = entries[i].node
      BY <1>6 DEF Complete
    <3>2. QED
      BY <3>1
  <2>2. QED
    BY <1>7, <1>t, <2>1 DEF D!IdentityIsDevice, out
<1>10. D!OpensWinUsb'
  BY <1>6, <1>7, <1>t DEF Complete, D!OpensWinUsb, out
<1>11. D!ParentAddressed'
  BY <1>6, <1>7, <1>t DEF Complete, D!ParentAddressed, D!Stays, out
<1>12. MergedUpTo(Len(entries) + 1)'
  BY <1>t DEF MergedUpTo, FromItsPort, StandsFor, OfPort, RootRight
<1>13. PhaseInv'
  BY <1>12, <1>t DEF PhaseInv
<1>14. ListTypes'
  <2>1. D!ListTypeOK'
    BY <1>t DEF ListInv, ListTypes, D!ListTypeOK
  <2>2. hubs' \in [Hubs -> {"none", "open", "invalid"}] /\ StaysPut'
    BY <1>t DEF StaysPut
  <2>3. QED
    BY <1>t, <2>1, <2>2 DEF ListInv, ListTypes
<1>15. (\A i \in 1..Len(locs) : PlaceFound(i))'
  BY <1>t DEF PlaceFound, OfPort, RootRight
<1>16. QED
  BY <1>8, <1>9, <1>10, <1>11, <1>13, <1>14, <1>15 DEF ListInv

LEMMA NextList == ListInv /\ D!ListNext => ListInv'
<1> SUFFICES ASSUME ListInv, D!ListNext PROVE ListInv'
  OBVIOUS
<1>1. CASE D!enumerateClass \/ D!enumerated
  BY <1>1, EnumerateSteps
<1>2. CASE D!locateNext \/ D!enumerateRootHubDevnodes
  BY <1>2, LocateSteps
<1>3. CASE D!mergeNext
  BY <1>3, MergeNextStep
<1>4. CASE D!mergeEnd \/ D!describedAll
  BY <1>4, EndOfLoops
<1>5. CASE D!describeNext
  BY <1>5, DescribeNextStep
<1>6. CASE D!reportUnlocated
  BY <1>6, ReportUnlocatedStep
<1>7. CASE D!describeEnd
  BY <1>7, DescribeEndStep
<1>8. CASE \E n \in Nodes : D!Unplug(n)
  BY <1>8, UnplugStep
<1>9. QED
  BY <1>1, <1>2, <1>3, <1>4, <1>5, <1>6, <1>7, <1>8 DEF D!ListNext, D!DeviceList

\* While devices are unplugged a physical device that stays is one line of the list,
\* however many interfaces report it and in whatever order; it is named by its own
\* interface, opened by a WinUSB interface of the same device, and its parent address
\* and bus are those of the hub it hangs on, for every tree of devnodes and every set
\* of interfaces (compat_windows.go, devnode_windows.go).
THEOREM ListIsFaithful == MCSpec => []ListFaithful
<1>1. MCInit => ListInv
  BY InitList DEF MCInit
<1>2. ListInv /\ UNCHANGED listVars => ListInv'
  <2> SUFFICES ASSUME ListInv, UNCHANGED listVars PROVE ListInv'
    OBVIOUS
  <2>1. UNCHANGED <<present, lpc, k, failedClass, entries, locs, rhDevnodes, numbered, order, hubs, list>>
    BY DEF listVars
  <2>2. ListTypes'
    BY <2>1 DEF ListInv, ListTypes, D!ListTypeOK, StaysPut
  <2>3. \A m : D!busNumbering(m)' = D!busNumbering(m)
    BY <2>1 DEF D!busNumbering
  <2>4. PhaseInv'
    BY <2>1, <2>3
    DEF ListInv, PhaseInv, MergedUpTo, FromItsPort, UnlocatedUpTo, StandsFor, Describes,
        OfPort, RootRight, Bare
  <2>5. (\A i \in 1..Len(locs) : PlaceFound(i))'
    BY <2>1 DEF ListInv, PlaceFound, OfPort, RootRight
  <2>6. (D!OnePerPort /\ D!IdentityIsDevice /\ D!OpensWinUsb /\ D!ParentAddressed)'
    BY <2>1
    DEF ListInv, D!OnePerPort, D!IdentityIsDevice, D!OpensWinUsb, D!ParentAddressed, D!Located,
        D!Stays
  <2>7. QED
    BY <2>2, <2>4, <2>5, <2>6 DEF ListInv
<1>3. ListInv /\ [MCNext]_allVars => ListInv'
  BY <1>2, NextList DEF MCNext, allVars
<1>4. ListInv => ListFaithful
  BY DEF ListInv, ListTypes, ListFaithful
<1>5. QED
  BY <1>1, <1>3, <1>4, PTL DEF MCSpec
===============================================================================
