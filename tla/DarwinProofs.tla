------------------------------ MODULE DarwinProofs -----------------------------
(***************************************************************************)
(* Proofs about three parts of the macOS backend: the input queue of a HID *)
(* collection, the device handle, and the completion pump.                 *)
(***************************************************************************)
EXTENDS MCDarwin, SequenceTheorems, FiniteSetTheorems, TLAPS

USE ConstantsAssumption, PumpConstants, HandleConstants
    DEF P!ConstantsAssumption, H!ConstantsAssumption
-------------------------------------------------------------------------------
(* The input queue of a HID collection                                     *)

\* The reports the callback is done with.
Queued == IF cb = "none" THEN sent ELSE sent - 1

\* All that was queued, read or marked by a flush came before the report the callback
\* still holds.
QueuedBefore ==
    /\ reports \in Seq(Nat)
    /\ cb # "none" => sent > 0
    /\ taken <= Queued
    /\ \A i \in 1..Len(reports) : reports[i] <= Queued
    /\ \A r \in Readers : mark[r] <= Queued

\* Readers only make room, so that the second send finds it.
RoomToPush == cb = "push" => Len(reports) < Cap

CallbackInPump == cb # "none" => ppc = "run"

HidInv ==
    /\ TypeOK /\ QueuedBefore /\ RoomToPush /\ CallbackInPump
    /\ InOrder /\ NewestKept /\ FlushDiscards /\ NoCallbackAfterClose

\* A report leaves the queue at its head.
LEMMA TakeKeeps ==
  ASSUME HidInv, Take, UNCHANGED <<sent, lost, mark>>,
         cb' = cb \/ (cb = "drop" /\ cb' = "push"),
         \A r \in Readers : rpc'[r] = "flushed" => rpc[r] = "flushed"
  PROVE  /\ QueueType' /\ QueuedBefore' /\ RoomToPush' /\ InOrder' /\ FlushDiscards'
         /\ Len(reports') < Cap
<1>1. reports \in Seq(Nat) /\ reports # <<>> /\ reports' = Tail(reports)
      /\ taken' = reports[1]
  BY DEF HidInv, QueuedBefore, Take
<1>2. /\ reports' \in Seq(Nat) /\ Len(reports') = Len(reports) - 1 /\ Len(reports) \in Nat
      /\ Len(reports) > 0 /\ DOMAIN reports' = 1..Len(reports')
      /\ DOMAIN reports = 1..Len(reports)
  BY <1>1
<1>3. \A i \in 1..Len(reports') : i + 1 \in 1..Len(reports) /\ reports'[i] = reports[i + 1]
  BY <1>1, <1>2
<1>4. 1 \in 1..Len(reports)
  BY <1>2
<1>5. taken' \in 1..sent
  BY <1>1, <1>2, <1>4 DEF HidInv, TypeOK, QueueType
<1>6. QueueType' /\ Len(reports') < Cap
  <2>1. taken' \in 0..MaxReports
    <3>1. sent \in 0..MaxReports
      BY DEF HidInv, TypeOK, QueueType
    <3>2. QED
      BY <3>1, <1>5
  <2>2. Len(reports') < Cap
    BY <1>2 DEF HidInv, TypeOK, QueueType
  <2>3. \A i \in 1..Len(reports') : reports'[i] \in 1..sent
    BY <1>2, <1>3 DEF HidInv, TypeOK, QueueType
  <2>4. QED
    BY <2>1, <2>2, <2>3, <1>2 DEF HidInv, TypeOK, QueueType
<1>7. Queued' = Queued
  BY DEF Queued
<1>8. QueuedBefore'
  <2>1. taken' <= Queued'
    BY <1>7, <1>1, <1>4 DEF HidInv, QueuedBefore
  <2>2. \A i \in 1..Len(reports') : reports'[i] <= Queued'
    BY <1>7, <1>3 DEF HidInv, QueuedBefore
  <2>3. QED
    BY <2>1, <2>2, <1>2, <1>7 DEF HidInv, QueuedBefore
<1>9. InOrder'
  <2>1. \A i \in 1..Len(reports') : taken' < reports'[i]
    <3> SUFFICES ASSUME NEW i \in 1..Len(reports') PROVE reports[1] < reports[i + 1]
      BY <1>1, <1>3
    <3>1. 1 < i + 1
      BY <1>2
    <3>2. QED
      BY <3>1, <1>2, <1>3, <1>4 DEF HidInv, InOrder
  <2>2. \A i, j \in 1..Len(reports') : i < j => reports'[i] < reports'[j]
    <3> SUFFICES ASSUME NEW i \in 1..Len(reports'), NEW j \in 1..Len(reports'), i < j
                 PROVE  reports[i + 1] < reports[j + 1]
      BY <1>3
    <3>1. i + 1 < j + 1
      BY <1>2
    <3>2. QED
      BY <3>1, <1>2, <1>3 DEF HidInv, InOrder
  <2>3. QED
    BY <2>1, <2>2, <1>2 DEF InOrder
<1>10. FlushDiscards'
  BY <1>2, <1>3 DEF HidInv, FlushDiscards
<1>11. RoomToPush'
  BY <1>6 DEF RoomToPush
<1>12. QED
  BY <1>6, <1>8, <1>9, <1>10, <1>11

\* The report the callback holds is queued behind all others.
LEMMA QueueKeeps ==
  ASSUME HidInv, NEW n \in Nat, Room, Queue(n), UNCHANGED <<taken, lost, mark, rpc>>,
         cb' = "none", sent' = n, Queued < n, n <= MaxReports, sent <= n
  PROVE  QueueType' /\ QueuedBefore' /\ RoomToPush' /\ InOrder' /\ FlushDiscards'
<1>1. /\ reports \in Seq(Nat) /\ reports' = Append(reports, n)
      /\ sent \in Nat /\ taken \in Nat /\ mark \in [Readers -> Nat]
  BY DEF HidInv, TypeOK, QueueType, ReaderType, QueuedBefore, Queue
<1>2. /\ reports' \in Seq(Nat) /\ Len(reports') = Len(reports) + 1 /\ Len(reports) \in Nat
      /\ DOMAIN reports' = 1..Len(reports') /\ DOMAIN reports = 1..Len(reports)
  BY <1>1
<1>3. /\ reports'[Len(reports')] = n
      /\ \A i \in 1..Len(reports') : i # Len(reports') =>
            i \in 1..Len(reports) /\ reports'[i] = reports[i]
  BY <1>1, <1>2
<1>4. Queued' = n /\ Queued \in Int
  BY <1>1 DEF Queued
<1>5. \A i \in 1..Len(reports) : reports[i] \in 1..sent /\ reports[i] <= Queued
  BY <1>2 DEF HidInv, TypeOK, QueueType, QueuedBefore
<1>6. \A i \in 1..Len(reports') : reports'[i] \in 1..n
  <2> SUFFICES ASSUME NEW i \in 1..Len(reports') PROVE reports'[i] \in 1..n
    OBVIOUS
  <2>1. CASE i = Len(reports')
    <3>1. n > 0
      BY <1>1, <1>4 DEF Queued, HidInv, QueuedBefore
    <3>2. QED
      BY <2>1, <3>1, <1>3
  <2>2. CASE i # Len(reports')
    BY <2>2, <1>1, <1>3, <1>5
  <2>3. QED
    BY <2>1, <2>2
<1>7. QueueType'
  <2>1. lost' \subseteq 1..sent' /\ sent' \in 0..MaxReports /\ taken' \in 0..MaxReports
    BY DEF HidInv, NewestKept, TypeOK, QueueType
  <2>2. Len(reports') <= Cap
    BY <1>2 DEF Room
  <2>3. QED
    BY <2>1, <2>2, <1>2, <1>6 DEF QueueType
<1>8. QueuedBefore'
  <2>1. taken' <= n /\ \A r \in Readers : mark'[r] <= n
    BY <1>1, <1>4 DEF HidInv, QueuedBefore
  <2>2. \A i \in 1..Len(reports') : reports'[i] <= n
    BY <1>6
  <2>3. QED
    BY <2>1, <2>2, <1>2, <1>4 DEF QueuedBefore
<1>9. InOrder'
  <2>1. \A i \in 1..Len(reports') : taken' < reports'[i]
    <3> SUFFICES ASSUME NEW i \in 1..Len(reports') PROVE taken < reports'[i]
      OBVIOUS
    <3>1. taken < n
      BY <1>1, <1>4 DEF HidInv, QueuedBefore
    <3>2. i # Len(reports') => taken < reports[i]
      BY <1>2, <1>3 DEF HidInv, InOrder
    <3>3. QED
      BY <3>1, <3>2, <1>3
  <2>2. \A i, j \in 1..Len(reports') : i < j => reports'[i] < reports'[j]
    <3> SUFFICES ASSUME NEW i \in 1..Len(reports'), NEW j \in 1..Len(reports'), i < j
                 PROVE  reports'[i] < reports'[j]
      OBVIOUS
    <3>1. i # Len(reports')
      BY <1>2
    <3>2. reports'[i] = reports[i] /\ i \in 1..Len(reports) /\ reports[i] < n
      BY <3>1, <1>1, <1>3, <1>4, <1>5
    <3>3. j # Len(reports') => reports'[j] = reports[j] /\ reports[i] < reports[j]
      BY <3>2, <1>2, <1>3 DEF HidInv, InOrder
    <3>4. QED
      BY <3>2, <3>3, <1>3
  <2>3. QED
    BY <2>1, <2>2, <1>2 DEF InOrder
<1>10. FlushDiscards'
  <2> SUFFICES ASSUME NEW r \in Readers, rpc[r] = "flushed", NEW i \in 1..Len(reports')
               PROVE  reports'[i] > mark[r]
    BY <1>2 DEF FlushDiscards
  <2>1. mark[r] < n
    BY <1>1, <1>4 DEF HidInv, QueuedBefore
  <2>2. i # Len(reports') => reports[i] > mark[r]
    BY <1>2, <1>3 DEF HidInv, FlushDiscards
  <2>3. QED
    BY <2>1, <2>2, <1>3
<1>11. QED
  BY <1>7, <1>8, <1>9, <1>10 DEF RoomToPush

\* No step of the callback, of a reader, of the pump or of close breaks the invariant.
LEMMA HidSteps ==
  ASSUME HidInv, Next
  PROVE  HidInv'
<1> USE DEF HidInv
<1>1. CASE callback
  <2>1. CASE Room /\ Queue(sent + 1) /\ cb' = "none"
    <3>1. sent + 1 \in Nat /\ Queued < sent + 1 /\ sent + 1 <= MaxReports /\ sent <= sent + 1
      BY <1>1, <2>1 DEF callback, TypeOK, QueueType, Queued
    <3>2. UNCHANGED <<taken, lost, mark, rpc>> /\ sent' = sent + 1
      BY <1>1 DEF callback, CallbackKeeps, readVars
    <3>3. QueueType' /\ QueuedBefore' /\ RoomToPush' /\ InOrder' /\ FlushDiscards'
      BY <2>1, <3>1, <3>2, QueueKeeps
    <3>4. ReaderType' /\ PumpType' /\ CallbackInPump' /\ NewestKept' /\ NoCallbackAfterClose'
      BY <1>1, <2>1 DEF callback, CallbackKeeps, readVars, pumpVars, TypeOK, ReaderType,
         PumpType, CallbackInPump, NewestKept, NoCallbackAfterClose
    <3>5. QED
      BY <3>3, <3>4 DEF TypeOK
  <2>2. CASE cb' = "drop" /\ UNCHANGED reports
    <3>1. /\ sent' = sent + 1 /\ cb = "none" /\ sent < MaxReports /\ ppc = "run"
          /\ UNCHANGED <<lost, taken, rpc, mark, ppc, ready, pumpStopped, stopRequested, opc,
                         deviceOpen>>
      BY <1>1 DEF callback, CallbackKeeps, readVars, pumpVars
    <3>2. Queued' = Queued /\ sent \in Nat
      BY <2>2, <3>1 DEF Queued, TypeOK, QueueType
    <3>3. QueueType'
      BY <2>2, <3>1, <3>2 DEF TypeOK, QueueType, NewestKept
    <3>4. QueuedBefore'
      BY <2>2, <3>1, <3>2 DEF QueuedBefore
    <3>5. /\ ReaderType' /\ PumpType' /\ RoomToPush' /\ CallbackInPump' /\ InOrder'
          /\ NewestKept' /\ FlushDiscards' /\ NoCallbackAfterClose'
      BY <2>2, <3>1 DEF TypeOK, ReaderType, PumpType, RoomToPush, CallbackInPump, InOrder,
         NewestKept, FlushDiscards, NoCallbackAfterClose
    <3>6. QED
      BY <3>3, <3>4, <3>5 DEF TypeOK
  <2>3. QED
    BY <1>1, <2>1, <2>2 DEF callback
<1>2. CASE callbackDrop
  <2>1. /\ cb = "drop" /\ cb' = "push"
        /\ UNCHANGED <<sent, lost, rpc, mark, ppc, ready, pumpStopped, stopRequested, opc,
                       deviceOpen>>
    BY <1>2 DEF callbackDrop, CallbackKeeps, readVars, pumpVars
  <2>2. Queued' = Queued
    BY <2>1 DEF Queued
  <2>3. /\ ReaderType' /\ PumpType' /\ CallbackInPump' /\ NewestKept' /\ NoCallbackAfterClose'
    BY <2>1 DEF TypeOK, ReaderType, PumpType, CallbackInPump, NewestKept,
       NoCallbackAfterClose
  <2>4. QueueType' /\ QueuedBefore' /\ RoomToPush' /\ InOrder' /\ FlushDiscards'
    <3>1. CASE Take
      <4>1. \A r \in Readers : rpc'[r] = "flushed" => rpc[r] = "flushed"
        BY <2>1
      <4>2. QED
        BY <3>1, <4>1, <2>1, TakeKeeps
    <3>2. CASE reports = <<>> /\ TakeNothing
      <4>1. Len(reports') = 0 /\ 0 < Cap /\ UNCHANGED <<reports, taken>>
        BY <3>2 DEF TakeNothing
      <4>2. QueueType'
        BY <4>1, <2>1 DEF TypeOK, QueueType
      <4>3. QueuedBefore'
        BY <4>1, <2>1, <2>2 DEF QueuedBefore
      <4>4. RoomToPush' /\ InOrder' /\ FlushDiscards'
        BY <4>1, <2>1 DEF RoomToPush, InOrder, FlushDiscards
      <4>5. QED
        BY <4>2, <4>3, <4>4
    <3>3. QED
      BY <1>2, <3>1, <3>2 DEF callbackDrop, DropOldest
  <2>5. QED
    BY <2>3, <2>4 DEF TypeOK
<1>3. CASE callbackPush
  <2>1. /\ cb = "push" /\ cb' = "none"
        /\ UNCHANGED <<sent, taken, rpc, mark, ppc, ready, pumpStopped, stopRequested, opc,
                       deviceOpen>>
    BY <1>3 DEF callbackPush, CallbackKeeps, readVars, pumpVars
  <2>2. Room
    BY <2>1 DEF Room, RoomToPush
  <2>3. Queue(sent) /\ UNCHANGED lost
    BY <1>3, <2>2 DEF callbackPush
  <2>4. sent \in Nat /\ Queued < sent /\ sent <= MaxReports /\ sent <= sent /\ sent' = sent
    BY <2>1 DEF TypeOK, QueueType, Queued
  <2>5. QueueType' /\ QueuedBefore' /\ RoomToPush' /\ InOrder' /\ FlushDiscards'
    BY <2>1, <2>2, <2>3, <2>4, QueueKeeps
  <2>6. /\ ReaderType' /\ PumpType' /\ CallbackInPump' /\ NewestKept' /\ NoCallbackAfterClose'
    BY <2>1, <2>3 DEF TypeOK, ReaderType, PumpType, CallbackInPump, NewestKept,
       NoCallbackAfterClose
  <2>7. QED
    BY <2>5, <2>6 DEF TypeOK
<1>4. CASE \E r \in Readers : readReport(r) \/ flush(r) \/ Reader(r)
  <2> SUFFICES ASSUME NEW r \in Readers, readReport(r) \/ flush(r) \/ Reader(r)
               PROVE  HidInv'
    BY <1>4
  <2>1. /\ UNCHANGED <<sent, cb, lost, ppc, ready, pumpStopped, stopRequested, opc,
                       deviceOpen>>
        /\ \/ Take /\ UNCHANGED mark /\ \E s \in {"idle", "flush"} : rpc' = [rpc EXCEPT ![r] = s]
           \/ /\ TakeNothing /\ UNCHANGED mark
              /\ \E s \in {"idle", "read"} : rpc' = [rpc EXCEPT ![r] = s]
           \/ /\ TakeNothing /\ UNCHANGED mark
              /\ reports = <<>> /\ rpc' = [rpc EXCEPT ![r] = "flushed"]
           \/ /\ TakeNothing /\ rpc' = [rpc EXCEPT ![r] = "flush"]
              /\ mark' = [mark EXCEPT ![r] = Queued]
    BY DEF readReport, flush, Reader, readTake, readTimeout, flushTake, flushReturn,
       flushUnlock, ReadKeeps, cbVars, pumpVars, readVars, FlushDone, Queued, TypeOK,
       ReaderType
  <2>2. Queued' = Queued /\ Queued \in 0..MaxReports
    BY <2>1 DEF Queued, TypeOK, QueueType, QueuedBefore
  <2>3. PumpType' /\ CallbackInPump' /\ NewestKept' /\ NoCallbackAfterClose'
    BY <2>1 DEF TypeOK, PumpType, CallbackInPump, NewestKept, NoCallbackAfterClose
  <2>4. ReaderType'
    BY <2>1, <2>2 DEF TypeOK, ReaderType
  <2>5. QueueType' /\ QueuedBefore' /\ RoomToPush' /\ InOrder' /\ FlushDiscards'
    <3>1. CASE Take /\ UNCHANGED mark /\ \E s \in {"idle", "flush"} : rpc' = [rpc EXCEPT ![r] = s]
      <4>1. \A q \in Readers : rpc'[q] = "flushed" => rpc[q] = "flushed"
        BY <3>1 DEF TypeOK, ReaderType
      <4>2. QED
        BY <3>1, <4>1, <2>1, TakeKeeps
    <3>2. CASE TakeNothing
      <4>1. UNCHANGED <<reports, taken, sent, cb, lost>>
        BY <3>2, <2>1 DEF TakeNothing
      <4>2. QueueType' /\ RoomToPush' /\ InOrder'
        BY <4>1 DEF TypeOK, QueueType, RoomToPush, InOrder
      <4>3. \A q \in Readers : mark'[q] = mark[q] \/ (mark'[q] = Queued /\ rpc'[q] = "flush")
        <5>1. \/ UNCHANGED mark
              \/ rpc' = [rpc EXCEPT ![r] = "flush"] /\ mark' = [mark EXCEPT ![r] = Queued]
          BY <2>1
        <5>2. rpc \in [Readers -> {"idle", "read", "flush", "flushed"}]
              /\ mark \in [Readers -> 0..MaxReports]
          BY DEF TypeOK, ReaderType
        <5>3. CASE rpc' = [rpc EXCEPT ![r] = "flush"] /\ mark' = [mark EXCEPT ![r] = Queued]
          <6> SUFFICES ASSUME NEW q \in Readers
                       PROVE  mark'[q] = mark[q] \/ (mark'[q] = Queued /\ rpc'[q] = "flush")
            OBVIOUS
          <6>1. q # r => mark'[q] = mark[q]
            BY <5>2, <5>3
          <6>2. mark'[r] = Queued /\ rpc'[r] = "flush"
            BY <5>2, <5>3
          <6>3. QED
            BY <6>1, <6>2
        <5>4. QED
          BY <5>1, <5>3
      <4>4. QueuedBefore'
        BY <4>1, <4>3, <2>2 DEF QueuedBefore
      <4>5. reports = <<>> \/ \A q \in Readers : rpc'[q] = "flushed" => rpc[q] = "flushed"
        BY <2>1 DEF TypeOK, ReaderType
      <4>6. FlushDiscards'
        BY <4>1, <4>3, <4>5 DEF FlushDiscards
      <4>7. QED
        BY <4>2, <4>4, <4>6
    <3>3. QED
      BY <3>1, <3>2, <2>1
  <2>6. QED
    BY <2>3, <2>4, <2>5 DEF TypeOK
<1>5. CASE pump \/ close
  <2>1. UNCHANGED <<sent, cb, lost, reports, taken, rpc, mark>>
    BY <1>5 DEF pump, close, pumpStart, pumpCheck, pumpPoll, PumpStep, closeStop, closeWake,
       closeDevice, CloseStep, cbVars, readVars
  <2>2. PumpType'
    BY <1>5 DEF pump, close, pumpStart, pumpCheck, pumpPoll, PumpStep, closeStop, closeWake,
       closeDevice, CloseStep, TypeOK, PumpType
  <2>3. CallbackInPump' /\ NoCallbackAfterClose'
    BY <1>5 DEF pump, close, pumpStart, pumpCheck, pumpPoll, PumpStep, closeStop, closeWake,
       closeDevice, CloseStep, DoneReceived, CallbackInPump, NoCallbackAfterClose, cbVars
  <2>4. Queued' = Queued
    BY <2>1 DEF Queued
  <2>5. QueueType' /\ ReaderType' /\ RoomToPush' /\ InOrder' /\ NewestKept' /\ FlushDiscards'
    BY <2>1 DEF TypeOK, QueueType, ReaderType, RoomToPush, InOrder, NewestKept, FlushDiscards
  <2>6. QueuedBefore'
    BY <2>1, <2>4 DEF QueuedBefore
  <2>7. QED
    BY <2>2, <2>3, <2>5, <2>6 DEF TypeOK
<1>6. QED
  BY <1>1, <1>2, <1>3, <1>4, <1>5 DEF Next

\* The HID transport of the macOS backend (hid_darwin.go): the report that has just arrived
\* is kept, reports are read once and in the order they came, a flush leaves none that was
\* queued before it began, and no callback runs on a closed device. It holds for every
\* capacity of the channel and any number of readers.
THEOREM ReportsStayIntact == MCSpec => []ReportsIntact
<1>1. MCInit => HidInv
  <2> SUFFICES ASSUME Init \/ NoCollection PROVE HidInv
    BY DEF MCInit
  <2>1. /\ sent = 0 /\ reports = <<>> /\ cb = "none" /\ lost = {} /\ taken = 0
        /\ rpc = [r \in Readers |-> "idle"] /\ mark = [r \in Readers |-> 0]
    BY DEF Init, NoCollection
  <2>2. PumpType /\ NoCallbackAfterClose
    BY DEF Init, NoCollection, PumpType, NoCallbackAfterClose
  <2>3. reports \in Seq(Nat) /\ Len(reports) = 0 /\ Queued = 0 /\ 0 \in 0..MaxReports
    BY <2>1 DEF Queued
  <2>4. QueueType /\ ReaderType
    BY <2>1, <2>3 DEF QueueType, ReaderType
  <2>5. QueuedBefore
    BY <2>1, <2>3 DEF QueuedBefore
  <2>6. RoomToPush /\ CallbackInPump /\ InOrder /\ NewestKept /\ FlushDiscards
    BY <2>1 DEF RoomToPush, CallbackInPump, InOrder, NewestKept, FlushDiscards
  <2>7. QED
    BY <2>2, <2>4, <2>5, <2>6 DEF HidInv, TypeOK
<1>2. HidInv /\ [MCNext]_allVars => HidInv'
  <2>1. HidInv /\ UNCHANGED vars => HidInv'
    <3> SUFFICES ASSUME HidInv, UNCHANGED vars PROVE HidInv'
      OBVIOUS
    <3>1. UNCHANGED <<sent, reports, cb, lost, taken, rpc, mark, ppc, ready, pumpStopped,
                      stopRequested, opc, deviceOpen>>
      BY DEF vars, cbVars, readVars, pumpVars
    <3>2. TypeOK'
      BY <3>1 DEF HidInv, TypeOK, QueueType, ReaderType, PumpType
    <3>3. QueuedBefore'
      BY <3>1 DEF HidInv, QueuedBefore, Queued
    <3>4. /\ RoomToPush' /\ CallbackInPump' /\ InOrder' /\ NewestKept' /\ FlushDiscards'
          /\ NoCallbackAfterClose'
      BY <3>1 DEF HidInv, RoomToPush, CallbackInPump, InOrder, NewestKept, FlushDiscards,
         NoCallbackAfterClose
    <3>5. QED
      BY <3>2, <3>3, <3>4 DEF HidInv
  <2>2. QED
    BY <2>1, HidSteps DEF MCNext, allVars
<1>3. HidInv => ReportsIntact
  BY DEF HidInv, ReportsIntact
<1>4. QED
  BY <1>1, <1>2, <1>3, PTL DEF MCSpec
-------------------------------------------------------------------------------
(* The claims of a device handle                                           *)

\* Each object serves one claimed interface, and a new one has a number of its own.
ObjectsUnique ==
    /\ \A i \in Ifaces : interfaces[i] <= claims /\ (interfaces[i] # 0 => i \in claimed)
    /\ \A i, j \in Ifaces : interfaces[i] = interfaces[j] /\ interfaces[i] # 0 => i = j

\* The transport the handle knows is open, and Close leaves no object.
TransportOpen ==
    /\ hid # H!NoIface => hid \in hids
    /\ cpc = "returned" => opened = {}

HandleInv == H!HandleType /\ ObjectsUnique /\ TransportOpen /\ H!ClaimsAreOpen

\* The handle knows every HID device it has opened.
OneTransport == hids \subseteq {hid} /\ (cpc = "returned" => hids = {})

\* No more than one HID interface of the device can be opened.
OneUsableHid == \A i, j \in Seized \ Keyboards : i = j

LEMMA ClaimKeeps ==
  ASSUME HandleInv, NEW i \in Ifaces, H!ClaimInterface(i)
  PROVE  HandleInv' /\ (OneUsableHid /\ OneTransport => OneTransport')
<1> USE DEF HandleInv
<1>1. cpc = "idle" /\ cpc' = "idle" /\ i \notin claimed /\ UNCHANGED <<closed, cpc>>
  BY DEF H!ClaimInterface
<1>2. ASSUME H!claimPipe(i) PROVE HandleInv' /\ (OneTransport => OneTransport')
  <2>1. CASE UNCHANGED <<claims, interfaces, opened, claimed>>
    BY <1>1, <1>2, <2>1 DEF H!claimPipe, H!HandleType, ObjectsUnique, TransportOpen,
       H!ClaimsAreOpen, OneTransport
  <2>2. CASE /\ claims < MaxClaims /\ claims' = claims + 1
             /\ interfaces' = [interfaces EXCEPT ![i] = claims + 1]
             /\ opened' = opened \cup {claims + 1}
             /\ claimed' = claimed \cup {i}
    <3>1. UNCHANGED <<hid, hids>>
      BY <1>2 DEF H!claimPipe
    <3>2. claims + 1 \in 1..MaxClaims /\ claims \in Nat
      BY <2>2 DEF H!HandleType
    <3>3. interfaces[i] = 0
      BY <1>1 DEF ObjectsUnique
    <3>4. interfaces'[i] = claims + 1 /\ \A j \in Ifaces \ {i} : interfaces'[j] = interfaces[j]
      BY <2>2 DEF H!HandleType
    <3>5. H!HandleType'
      <4>1. interfaces' \in [Ifaces -> 0..MaxClaims]
        BY <2>2, <3>2 DEF H!HandleType
      <4>2. opened' \subseteq 1..MaxClaims /\ claims' \in 0..MaxClaims
        BY <2>2, <3>2 DEF H!HandleType
      <4>3. QED
        BY <4>1, <4>2, <3>1, <1>1, <2>2 DEF H!HandleType
    <3>6. ObjectsUnique'
      <4>1. \A j \in Ifaces : interfaces[j] \in Nat /\ interfaces[j] <= claims
        BY DEF H!HandleType, ObjectsUnique
      <4>2. \A j \in Ifaces : interfaces'[j] <= claims' /\ (interfaces'[j] # 0 => j \in claimed')
        BY <4>1, <3>2, <3>4, <2>2 DEF ObjectsUnique
      <4>3. \A j \in Ifaces \ {i} : interfaces'[j] # interfaces'[i]
        BY <4>1, <3>2, <3>4
      <4>4. \A j, k \in Ifaces : interfaces'[j] = interfaces'[k] /\ interfaces'[j] # 0 => j = k
        BY <4>3, <3>4 DEF ObjectsUnique
      <4>5. QED
        BY <4>2, <4>4 DEF ObjectsUnique
    <3>7. H!ClaimsAreOpen'
      <4>1. {interfaces'[j] : j \in Ifaces} \ {0}
              = ({interfaces[j] : j \in Ifaces} \ {0}) \cup {claims + 1}
        <5>1. \A j \in Ifaces : interfaces[j] # 0 => j # i
          BY <3>3
        <5>2. claims + 1 # 0
          BY <3>2
        <5>3. QED
          BY <5>1, <5>2, <3>4
      <4>2. claimed' \subseteq {j \in Ifaces : interfaces'[j] \in opened'} \cup hids'
        BY <3>1, <3>4, <2>2 DEF H!ClaimsAreOpen
      <4>3. QED
        BY <4>1, <4>2, <2>2 DEF H!ClaimsAreOpen
    <3>8. TransportOpen' /\ (OneTransport => OneTransport')
      BY <1>1, <3>1 DEF TransportOpen, OneTransport
    <3>9. QED
      BY <3>5, <3>6, <3>7, <3>8
  <2>3. QED
    BY <1>2, <2>1, <2>2 DEF H!claimPipe
<1>3. ASSUME H!claimHID(i)
      PROVE  HandleInv' /\ (OneUsableHid /\ OneTransport => OneTransport')
  <2>1. UNCHANGED <<claims, interfaces, opened>> /\ i \in Seized
    BY <1>3 DEF H!claimHID
  <2>2. CASE UNCHANGED <<hids, hid, claimed>>
    BY <1>1, <2>1, <2>2 DEF H!HandleType, ObjectsUnique, TransportOpen, H!ClaimsAreOpen,
       OneTransport
  <2>3. CASE /\ i \in Seized \ Keyboards /\ hids' = hids \cup {i} /\ hid' = i
             /\ claimed' = claimed \cup {i}
    <3>1. HandleInv'
      BY <1>1, <2>1, <2>3 DEF H!HandleType, ObjectsUnique, TransportOpen, H!ClaimsAreOpen
    <3>2. ASSUME OneUsableHid, OneTransport PROVE OneTransport'
      BY <1>1, <2>3, <3>2 DEF OneUsableHid, OneTransport, H!HandleType
    <3>3. QED
      BY <3>1, <3>2
  <2>4. QED
    BY <1>3, <2>1, <2>2, <2>3 DEF H!claimHID, H!CloseOnPumpError, H!hidCollectionUsable
<1>4. QED
  BY <1>2, <1>3 DEF H!ClaimInterface

LEMMA ReleaseKeeps ==
  ASSUME HandleInv, NEW i \in Ifaces, H!ReleaseInterface(i)
  PROVE  HandleInv' /\ (OneTransport => OneTransport')
<1> USE DEF HandleInv
<1>1. /\ cpc = "idle" /\ UNCHANGED <<closed, claims, cpc>>
      /\ opened' = opened \ {interfaces[i]} /\ claimed' = claimed \ {i}
      /\ interfaces' = [interfaces EXCEPT ![i] = 0]
      /\ \/ hid = i /\ hids' = hids \ {hid} /\ hid' = H!NoIface
         \/ (hid = H!NoIface \/ hid # i) /\ UNCHANGED <<hids, hid>>
  BY DEF H!ReleaseInterface, H!ownsInterface
<1>2. interfaces'[i] = 0 /\ \A j \in Ifaces \ {i} : interfaces'[j] = interfaces[j]
  BY <1>1 DEF H!HandleType
<1>3. H!HandleType'
  <2>1. interfaces' \in [Ifaces -> 0..MaxClaims]
    <3>1. 0 \in 0..MaxClaims
      OBVIOUS
    <3>2. QED
      BY <3>1, <1>1 DEF H!HandleType
  <2>2. QED
    BY <2>1, <1>1 DEF H!HandleType
<1>4. ObjectsUnique'
  <2>1. 0 <= claims
    BY DEF H!HandleType
  <2>2. QED
    BY <2>1, <1>1, <1>2 DEF ObjectsUnique
<1>5. H!ClaimsAreOpen'
  <2>1. \A j \in Ifaces \ {i} : interfaces[j] # 0 => interfaces[j] # interfaces[i]
    BY DEF ObjectsUnique
  <2>2. {interfaces'[j] : j \in Ifaces} \ {0}
          = ({interfaces[j] : j \in Ifaces} \ {0}) \ {interfaces[i]}
    BY <1>2, <2>1
  <2>3. 0 \notin opened
    BY DEF H!ClaimsAreOpen
  <2>4. claimed' \subseteq {j \in Ifaces : interfaces'[j] \in opened'} \cup hids'
    <3> SUFFICES ASSUME NEW j \in claimed, j # i, j \notin hids'
                 PROVE  j \in Ifaces /\ interfaces'[j] \in opened'
      BY <1>1
    <3>1. j \in Ifaces /\ j \notin hids
      BY <1>1 DEF H!HandleType
    <3>2. interfaces[j] \in opened
      BY <3>1 DEF H!ClaimsAreOpen
    <3>3. QED
      BY <3>1, <3>2, <2>1, <2>3, <1>1, <1>2
  <2>5. QED
    BY <2>2, <2>4, <1>1 DEF H!ClaimsAreOpen
<1>6. TransportOpen' /\ (OneTransport => OneTransport')
  BY <1>1 DEF TransportOpen, OneTransport
<1>7. QED
  BY <1>3, <1>4, <1>5, <1>6

LEMMA CloseKeeps ==
  ASSUME HandleInv, H!Close
  PROVE  HandleInv' /\ (OneTransport => OneTransport')
<1> USE DEF HandleInv
<1>1. /\ cpc' = "returned" /\ closed' = TRUE /\ claimed' = {} /\ hid' = H!NoIface
      /\ opened' = opened \ {interfaces[i] : i \in Ifaces}
      /\ interfaces' = [i \in Ifaces |-> 0] /\ hids' = hids \ {hid} /\ UNCHANGED claims
  BY DEF H!Close, H!CloseHID
<1>2. opened' = {}
  BY <1>1 DEF H!ClaimsAreOpen
<1>3. 0 \in 0..MaxClaims /\ 0 <= claims
  BY DEF H!HandleType
<1>4. interfaces' \in [Ifaces -> 0..MaxClaims]
  BY <1>1, <1>3
<1>5. H!HandleType'
  BY <1>1, <1>2, <1>4 DEF H!HandleType
<1>6. ObjectsUnique' /\ H!ClaimsAreOpen'
  BY <1>1, <1>2, <1>3 DEF ObjectsUnique, H!ClaimsAreOpen
<1>7. TransportOpen' /\ (OneTransport => OneTransport')
  BY <1>1, <1>2 DEF TransportOpen, OneTransport
<1>8. QED
  BY <1>5, <1>6, <1>7
-------------------------------------------------------------------------------
(* Calls on a device handle                                                *)

workersOf(u) == {w \in workers : w.user = u}
answersOf(u) == {a \in answers : a.user = u}

\* The calls of InterruptTransfer that u has made, under way, timed out or answered.
IdsOf(u) == {w.id : w \in workersOf(u)} \cup {a.id : a \in answersOf(u)}

\* Calls are numbered one by one; each has one worker or one answer.
Numbered ==
    /\ IsFiniteSet(workers) /\ IsFiniteSet(answers)
    /\ \A w, v \in workers : w.user = v.user /\ w.id = v.id => w = v
    /\ \A a, b \in answers : a.user = b.user /\ a.id = b.id => a = b
    /\ \A w \in workers, a \in answers : w.user = a.user => w.id # a.id
    /\ \A u \in Users : \E n \in Nat : IdsOf(u) = 1..n

\* Only a call with a worker has a number.
IdleCalls ==
    \A u \in Users : call[u].kind \notin {"select", "result"} => call[u].id = 0

CallInv ==
    /\ H!CallType /\ Numbered /\ IdleCalls
    /\ H!LiveCallHoldsInterface /\ H!ResultIsOwn

\* The instance of DarwinHandle has FiniteSets of its own.
LEMMA SameCardinality == ASSUME NEW S PROVE H!Cardinality(S) = Cardinality(S)
  BY DEF H!Cardinality, Cardinality

LEMMA NumberingCounts ==
  ASSUME CallInv, NEW u \in Users, NEW n \in Nat, IdsOf(u) = 1..n
  PROVE  H!CallsMade(u) = n /\ n <= Cardinality(workers) + Cardinality(answers)
<1> DEFINE wIds == {w.id : w \in workersOf(u)}
           aIds == {a.id : a \in answersOf(u)}
           f == [w \in workersOf(u) |-> w.id]
           g == [a \in answersOf(u) |-> a.id]
<1>1. /\ IsFiniteSet(workersOf(u)) /\ Cardinality(workersOf(u)) <= Cardinality(workers)
      /\ IsFiniteSet(answersOf(u)) /\ Cardinality(answersOf(u)) <= Cardinality(answers)
  <2>1. workersOf(u) \in SUBSET workers /\ answersOf(u) \in SUBSET answers
    BY DEF workersOf, answersOf
  <2>2. IsFiniteSet(workers) /\ IsFiniteSet(answers)
    BY DEF CallInv, Numbered
  <2>3. QED
    BY <2>1, <2>2, FS_Subset
<1>2. IsFiniteSet(wIds) /\ Cardinality(wIds) = Cardinality(workersOf(u))
  <2>1. f \in Surjection(workersOf(u), wIds)
    BY DEF Surjection
  <2>2. f \in Injection(workersOf(u), wIds)
    BY DEF Injection, IsInjective, workersOf, CallInv, Numbered
  <2>3. QED
    BY <1>1, <2>1, <2>2, FS_Surjection
<1>3. IsFiniteSet(aIds) /\ Cardinality(aIds) = Cardinality(answersOf(u))
  <2>1. g \in Surjection(answersOf(u), aIds)
    BY DEF Surjection
  <2>2. g \in Injection(answersOf(u), aIds)
    BY DEF Injection, IsInjective, answersOf, CallInv, Numbered
  <2>3. QED
    BY <1>1, <2>1, <2>2, FS_Surjection
<1>4. wIds \cap aIds = {} /\ wIds \cup aIds = 1..n
  BY DEF workersOf, answersOf, CallInv, Numbered, IdsOf
<1>5. Cardinality(1..n) = Cardinality(wIds) + Cardinality(aIds) - Cardinality({})
  BY <1>2, <1>3, <1>4, FS_Union
<1>6. Cardinality(1..n) = n
  <2>1. 1 \in Int /\ n \in Int
    OBVIOUS
  <2>2. Cardinality(1..n) = IF 1 > n THEN 0 ELSE n - 1 + 1
    BY <2>1, FS_Interval
  <2>3. QED
    BY <2>2
<1>7. Cardinality({}) = 0
  BY FS_EmptySet
<1>8. /\ Cardinality(workers) \in Nat /\ Cardinality(answers) \in Nat
      /\ Cardinality(workersOf(u)) \in Nat /\ Cardinality(answersOf(u)) \in Nat
  BY <1>1, FS_CardinalityType DEF CallInv, Numbered
<1>9. H!CallsMade(u) = Cardinality(workersOf(u)) + Cardinality(answersOf(u))
  <2>1. /\ {w \in workers : w.user = u} = workersOf(u)
        /\ {a \in answers : a.user = u} = answersOf(u)
    BY DEF workersOf, answersOf
  <2>2. QED
    BY <2>1, SameCardinality DEF H!CallsMade
<1>10. QED
  BY <1>1, <1>2, <1>3, <1>5, <1>6, <1>7, <1>8, <1>9

\* Steps of ClaimInterface, which leave the calls alone and open more than before.
LEMMA OpeningKeepsCalls ==
  ASSUME CallInv, UNCHANGED <<call, workers, answers, crashed>>,
         opened \subseteq opened', \A u \in Users : call[u].kind = "idle"
  PROVE  CallInv'
<1>1. H!CallType' /\ IdleCalls' /\ H!ResultIsOwn'
  BY DEF CallInv, H!CallType, IdleCalls, H!ResultIsOwn
<1>2. \A u \in Users : IdsOf(u)' = IdsOf(u)
  BY DEF IdsOf, workersOf, answersOf
<1>3. Numbered'
  BY <1>2 DEF CallInv, Numbered
<1>4. H!LiveCallHoldsInterface'
  BY DEF CallInv, H!LiveCallHoldsInterface
<1>5. QED
  BY <1>1, <1>3, <1>4 DEF CallInv

\* USBInterfaceClose ends the pipe calls; no caller waits for them any more.
LEMMA AbortKeepsCalls ==
  ASSUME CallInv, NEW objs, H!Abort(objs), UNCHANGED <<call, answers, crashed>>,
         \A u \in Users : call[u].kind = "idle"
  PROVE  CallInv'
<1> DEFINE aborted(w) == IF w.obj \in objs /\ w.state = "pipe" THEN [w EXCEPT !.state = "aborted"]
                         ELSE w
<1> USE DEF CallInv
<1>1. workers' = {aborted(w) : w \in workers}
  BY DEF H!Abort
<1>2. \A w \in workers : /\ aborted(w).user = w.user /\ aborted(w).id = w.id
                         /\ aborted(w).obj = w.obj
                         /\ aborted(w) \in [user : Users, id : 1..MaxCalls, obj : 1..MaxClaims,
                                            state : {"spawned", "loaded", "pipe", "aborted"}]
  BY DEF H!CallType
<1>3. H!CallType'
  BY <1>1, <1>2 DEF H!CallType
<1>4. Numbered'
  <2> HIDE DEF aborted
  <2>1. IsFiniteSet(workers')
    <3> DEFINE f == [w \in workers |-> aborted(w)]
    <3>1. f \in Surjection(workers, workers')
      BY <1>1 DEF Surjection
    <3>2. QED
      BY <3>1, FS_Surjection DEF Numbered
  <2>2. \A w, v \in workers' : w.user = v.user /\ w.id = v.id => w = v
    BY <1>1, <1>2 DEF Numbered
  <2>3. \A w \in workers', a \in answers' : w.user = a.user => w.id # a.id
    BY <1>1, <1>2 DEF Numbered
  <2>4. ASSUME NEW u \in Users PROVE IdsOf(u)' = IdsOf(u)
    <3>1. {w.id : w \in workersOf(u)}' = {w.id : w \in workersOf(u)}
      BY <1>1, <1>2 DEF workersOf
    <3>2. QED
      BY <3>1 DEF IdsOf, answersOf
  <2>5. QED
    BY <2>1, <2>2, <2>3, <2>4 DEF Numbered
<1>5. IdleCalls' /\ H!ResultIsOwn'
  BY DEF IdleCalls, H!ResultIsOwn
<1>6. H!LiveCallHoldsInterface'
  <2>1. \A w \in workers' : w.user \in Users /\ w.id \in 1..MaxCalls
    BY <1>3 DEF H!CallType
  <2>2. \A u \in Users : call'[u].id = 0 /\ call'[u].kind = "idle"
    BY DEF IdleCalls
  <2>3. \A w \in workers' : call'[w.user].id # w.id
    BY <2>1, <2>2
  <2>4. QED
    BY <2>2, <2>3 DEF H!LiveCallHoldsInterface
<1>7. QED
  BY <1>3, <1>4, <1>5, <1>6

\* A step of a caller that starts no worker.
LEMMA CallerKeepsCalls ==
  ASSUME CallInv, UNCHANGED <<opened, hid, hids, workers, answers, crashed>>, NEW u \in Users,
         NEW c \in [kind : {"idle", "device", "pipe", "hid", "report", "result"},
                    id : 0..MaxCalls, obj : 0..MaxClaims, result : 0..MaxCalls],
         call' = [call EXCEPT ![u] = c],
         \/ c.id = 0 /\ c.kind # "result"
         \/ c.id = call[u].id /\ c.kind = "result" /\ c.result = c.id,
         c.kind = "pipe" => c.obj \in opened,
         c.kind \in {"hid", "report"} => hid \in hids
  PROVE  CallInv'
<1> USE DEF CallInv
<1>1. call'[u] = c /\ \A v \in Users \ {u} : call'[v] = call[v]
  BY DEF H!CallType
<1>2. H!CallType'
  BY DEF H!CallType
<1>3. IdleCalls' /\ H!ResultIsOwn'
  BY <1>1 DEF IdleCalls, H!ResultIsOwn
<1>4. Numbered'
  <2>1. \A v \in Users : IdsOf(v)' = IdsOf(v)
    BY DEF IdsOf, workersOf, answersOf
  <2>2. QED
    BY <2>1 DEF Numbered
<1>5. H!LiveCallHoldsInterface'
  <2>1. \A w \in workers : w.user \in Users /\ w.id \in 1..MaxCalls
    BY DEF H!CallType
  <2>2. \A v \in Users : call'[v].id = call[v].id \/ call'[v].id = 0
    BY <1>1
  <2>3. \A w \in workers : w.obj \notin opened => call'[w.user].id # w.id
    BY <2>1, <2>2 DEF H!LiveCallHoldsInterface
  <2>4. \A v \in Users : call'[v].kind \in {"pipe", "select"} => call'[v].obj \in opened
    BY <1>1 DEF H!LiveCallHoldsInterface
  <2>5. \A v \in Users : call'[v].kind \in {"hid", "report"} => hid \in hids
    BY <1>1 DEF H!LiveCallHoldsInterface
  <2>6. QED
    BY <2>3, <2>4, <2>5 DEF H!LiveCallHoldsInterface
<1>6. QED
  BY <1>2, <1>3, <1>4, <1>5

\* A call of InterruptTransfer starts a worker with the next number.
LEMMA StartKeepsCalls ==
  ASSUME CallInv, NEW u \in Users, NEW obj \in opened, obj \in 1..MaxClaims,
         H!Cardinality(workers) + H!Cardinality(answers) < MaxCalls, H!StartWorker(u, obj)
  PROVE  CallInv'
<1> USE DEF CallInv
<1>1. PICK n \in Nat : IdsOf(u) = 1..n
  BY DEF Numbered
<1>2. H!CallsMade(u) = n /\ n + 1 \in 1..MaxCalls
  <2>1. H!CallsMade(u) = n /\ n <= Cardinality(workers) + Cardinality(answers)
    BY <1>1, NumberingCounts
  <2>2. Cardinality(workers) \in Nat /\ Cardinality(answers) \in Nat
    BY FS_CardinalityType DEF Numbered
  <2>3. Cardinality(workers) + Cardinality(answers) < MaxCalls
    BY SameCardinality
  <2>4. QED
    BY <2>1, <2>2, <2>3
<1> DEFINE new == [user |-> u, id |-> n + 1, obj |-> obj, state |-> "spawned"]
           c == [kind |-> "select", id |-> n + 1, obj |-> obj, result |-> 0]
<1>3. /\ call' = [call EXCEPT ![u] = c] /\ workers' = workers \cup {new}
      /\ UNCHANGED <<answers, crashed, opened, hid, hids>>
  BY <1>2 DEF H!StartWorker, H!handleVars
<1>4. call'[u] = c /\ \A v \in Users \ {u} : call'[v] = call[v]
  BY <1>3 DEF H!CallType
<1>5. H!CallType'
  <2>1. /\ new \in [user : Users, id : 1..MaxCalls, obj : 1..MaxClaims,
                    state : {"spawned", "loaded", "pipe", "aborted"}]
        /\ c \in [kind : {"idle", "device", "pipe", "hid", "report", "select", "result"},
                  id : 0..MaxCalls, obj : 0..MaxClaims, result : 0..MaxCalls]
    BY <1>2
  <2> HIDE DEF new, c
  <2>2. QED
    BY <2>1, <1>3 DEF H!CallType
<1>6. /\ \A w \in workers : w.user = u => w.id \in 1..n
      /\ \A a \in answers : a.user = u => a.id \in 1..n
  BY <1>1 DEF IdsOf, workersOf, answersOf
<1>7. Numbered'
  <2>1. new.user = u /\ new.id = n + 1 /\ n + 1 \notin 1..n
    OBVIOUS
  <2> HIDE DEF new
  <2>2. IsFiniteSet(workers')
    BY <1>3, FS_AddElement DEF Numbered
  <2>3. \A w, v \in workers' : w.user = v.user /\ w.id = v.id => w = v
    BY <1>3, <1>6, <2>1 DEF Numbered
  <2>4. \A w \in workers', a \in answers' : w.user = a.user => w.id # a.id
    BY <1>3, <1>6, <2>1 DEF Numbered
  <2>5. IdsOf(u)' = 1..(n + 1)
    <3>1. IdsOf(u)' = IdsOf(u) \cup {n + 1}
      BY <1>3, <2>1 DEF IdsOf, workersOf, answersOf
    <3>2. QED
      BY <3>1, <1>1
  <2>6. \A v \in Users \ {u} : IdsOf(v)' = IdsOf(v)
    BY <1>3, <2>1 DEF IdsOf, workersOf, answersOf
  <2>7. \A v \in Users : \E m \in Nat : IdsOf(v)' = 1..m
    BY <2>5, <2>6 DEF Numbered
  <2>8. QED
    BY <1>3, <2>2, <2>3, <2>4, <2>7 DEF Numbered
<1>8. IdleCalls' /\ H!ResultIsOwn'
  BY <1>4 DEF IdleCalls, H!ResultIsOwn
<1>9. H!LiveCallHoldsInterface'
  <2>1. \A w \in workers' : w.obj \notin opened => call'[w.user].id # w.id
    <3> SUFFICES ASSUME NEW w \in workers, w.obj \notin opened PROVE call'[w.user].id # w.id
      BY <1>3
    <3>1. CASE w.user = u
      BY <3>1, <1>4, <1>6
    <3>2. CASE w.user # u
      BY <3>2, <1>4 DEF H!CallType, H!LiveCallHoldsInterface
    <3>3. QED
      BY <3>1, <3>2
  <2>2. \A v \in Users : call'[v].kind \in {"pipe", "select"} => call'[v].obj \in opened
    BY <1>4 DEF H!LiveCallHoldsInterface
  <2>3. \A v \in Users : call'[v].kind \in {"hid", "report"} => hid \in hids
    BY <1>4 DEF H!LiveCallHoldsInterface
  <2>4. QED
    BY <2>1, <2>2, <2>3, <1>3 DEF H!LiveCallHoldsInterface
<1>10. QED
  BY <1>5, <1>7, <1>8, <1>9

\* A worker goes on.
LEMMA WorkerKeepsCalls ==
  ASSUME CallInv, NEW w \in workers, NEW s \in {"loaded", "pipe", "aborted"},
         H!WorkerStep(w, s), crashed' \in BOOLEAN
  PROVE  CallInv'
<1> USE DEF CallInv
<1> DEFINE v == [w EXCEPT !.state = s]
<1>1. workers' = (workers \ {w}) \cup {v} /\ UNCHANGED <<call, answers, opened, hid, hids>>
  BY DEF H!WorkerStep, H!handleVars
<1>2. /\ v.user = w.user /\ v.id = w.id /\ v.obj = w.obj
      /\ v \in [user : Users, id : 1..MaxCalls, obj : 1..MaxClaims,
                state : {"spawned", "loaded", "pipe", "aborted"}]
  BY DEF H!CallType
<1> HIDE DEF v
<1>3. H!CallType'
  BY <1>1, <1>2 DEF H!CallType
<1>4. Numbered'
  <2>1. IsFiniteSet(workers')
    <3>1. IsFiniteSet(workers \ {w})
      BY FS_RemoveElement DEF Numbered
    <3>2. QED
      BY <3>1, <1>1, FS_AddElement
  <2>2. \A x, y \in workers' : x.user = y.user /\ x.id = y.id => x = y
    BY <1>1, <1>2 DEF Numbered
  <2>3. \A x \in workers', a \in answers' : x.user = a.user => x.id # a.id
    BY <1>1, <1>2 DEF Numbered
  <2>4. ASSUME NEW u \in Users PROVE IdsOf(u)' = IdsOf(u)
    <3>1. {x.id : x \in workersOf(u)}' = {x.id : x \in workersOf(u)}
      BY <1>1, <1>2 DEF workersOf
    <3>2. QED
      BY <3>1, <1>1 DEF IdsOf, answersOf
  <2>5. QED
    BY <2>1, <2>2, <2>3, <2>4, <1>1 DEF Numbered
<1>5. IdleCalls' /\ H!ResultIsOwn' /\ H!LiveCallHoldsInterface'
  BY <1>1, <1>2 DEF IdleCalls, H!ResultIsOwn, H!LiveCallHoldsInterface
<1>6. QED
  BY <1>3, <1>4, <1>5

\* A worker sends its result, which keeps the number of the call.
LEMMA AnswerKeepsCalls ==
  ASSUME CallInv, NEW w \in workers, NEW ok \in BOOLEAN,
         H!WorkerSend(w, ok), crashed' = crashed
  PROVE  CallInv'
<1> USE DEF CallInv
<1> DEFINE a == [user |-> w.user, id |-> w.id, ok |-> ok]
<1>1. /\ workers' = workers \ {w} /\ answers' = answers \cup {a}
      /\ UNCHANGED <<call, opened, hid, hids>>
  BY DEF H!WorkerSend, H!handleVars
<1>2. /\ a.user = w.user /\ a.id = w.id
      /\ a \in [user : Users, id : 1..MaxCalls, ok : BOOLEAN]
  BY DEF H!CallType
<1> HIDE DEF a
<1>3. H!CallType'
  BY <1>1, <1>2 DEF H!CallType
<1>4. Numbered'
  <2>1. IsFiniteSet(workers') /\ IsFiniteSet(answers')
    BY <1>1, FS_RemoveElement, FS_AddElement DEF Numbered
  <2>2. \A x, y \in answers' : x.user = y.user /\ x.id = y.id => x = y
    BY <1>1, <1>2 DEF Numbered
  <2>3. \A x \in workers', y \in answers' : x.user = y.user => x.id # y.id
    BY <1>1, <1>2 DEF Numbered
  <2>4. ASSUME NEW u \in Users PROVE IdsOf(u)' = IdsOf(u)
    <3>1. CASE u = w.user
      <4>1. {x.id : x \in workersOf(u)} = {x.id : x \in workersOf(u)}' \cup {w.id}
        BY <1>1, <3>1 DEF workersOf
      <4>2. {x.id : x \in answersOf(u)}' = {x.id : x \in answersOf(u)} \cup {w.id}
        BY <1>1, <1>2, <3>1 DEF answersOf
      <4>3. QED
        BY <4>1, <4>2 DEF IdsOf
    <3>2. CASE u # w.user
      <4>1. workersOf(u)' = workersOf(u) /\ answersOf(u)' = answersOf(u)
        BY <1>1, <1>2, <3>2 DEF workersOf, answersOf
      <4>2. QED
        BY <4>1 DEF IdsOf
    <3>3. QED
      BY <3>1, <3>2
  <2>5. QED
    BY <2>1, <2>2, <2>3, <2>4, <1>1 DEF Numbered
<1>5. IdleCalls' /\ H!ResultIsOwn' /\ H!LiveCallHoldsInterface'
  BY <1>1 DEF IdleCalls, H!ResultIsOwn, H!LiveCallHoldsInterface
<1>6. QED
  BY <1>3, <1>4, <1>5

\* What a step of a transfer may change of the handle.
LEMMA TransferKeepsHandle ==
  ASSUME HandleInv, UNCHANGED H!handleVars, cpc' = cpc \/ cpc' = "want"
  PROVE  HandleInv' /\ (OneTransport => OneTransport')
BY DEF HandleInv, H!handleVars, H!HandleType, ObjectsUnique, TransportOpen,
   H!ClaimsAreOpen, OneTransport

LEMMA NoCallKeepsCalls ==
  ASSUME CallInv, UNCHANGED <<call, workers, answers, crashed, opened, hid, hids>>
  PROVE  CallInv'
<1>1. H!CallType' /\ IdleCalls' /\ H!ResultIsOwn' /\ H!LiveCallHoldsInterface'
  BY DEF CallInv, H!CallType, IdleCalls, H!ResultIsOwn, H!LiveCallHoldsInterface
<1>2. \A u \in Users : IdsOf(u)' = IdsOf(u)
  BY DEF IdsOf, workersOf, answersOf
<1>3. Numbered'
  BY <1>2 DEF CallInv, Numbered
<1>4. QED
  BY <1>1, <1>3 DEF CallInv

\* The calls that stay in one IOKit or HID call.
LEMMA EnterKeeps ==
  ASSUME HandleInv, CallInv, NEW u \in Users, NEW kind \in {"device", "pipe", "hid", "report"},
         NEW obj \in 0..MaxClaims, H!Enter(u, kind, obj),
         kind = "pipe" => obj \in opened,
         kind \in {"hid", "report"} => hid # H!NoIface
  PROVE  CallInv'
<1> DEFINE c == [H!Idle EXCEPT !.kind = kind, !.obj = obj]
<1>1. /\ c \in [kind : {"idle", "device", "pipe", "hid", "report", "result"},
                id : 0..MaxCalls, obj : 0..MaxClaims, result : 0..MaxCalls]
      /\ c.id = 0 /\ c.kind = kind /\ c.obj = obj
  <2>1. 0 \in 0..MaxCalls
    OBVIOUS
  <2>2. QED
    BY <2>1 DEF H!Idle
<1>2. call' = [call EXCEPT ![u] = c]
      /\ UNCHANGED <<opened, hid, hids, workers, answers, crashed>>
  BY DEF H!Enter, H!handleVars
<1>3. c.kind # "result" /\ (c.kind = "pipe" => c.obj \in opened)
      /\ (c.kind \in {"hid", "report"} => hid \in hids)
  BY <1>1 DEF HandleInv, TransportOpen
<1> HIDE DEF c
<1>4. QED
  BY <1>1, <1>2, <1>3, CallerKeepsCalls

LEMMA FinishKeeps ==
  ASSUME CallInv, NEW u \in Users, H!Finish(u) \/ H!DeviceAnswers(u)
  PROVE  CallInv'
<1> USE DEF CallInv
<1>1. UNCHANGED <<opened, hid, hids, workers, answers, crashed>>
  BY DEF H!Finish, H!Leave, H!Return, H!DeviceAnswers, H!InterruptResult, H!InterruptTimeout,
     H!handleVars
<1>2. CASE call' = [call EXCEPT ![u] = H!Idle]
  <2> DEFINE c == H!Idle
  <2>1. /\ c \in [kind : {"idle", "device", "pipe", "hid", "report", "result"},
                  id : 0..MaxCalls, obj : 0..MaxClaims, result : 0..MaxCalls]
        /\ c.id = 0 /\ c.kind = "idle"
    <3>1. 0 \in 0..MaxCalls /\ 0 \in 0..MaxClaims
      OBVIOUS
    <3>2. QED
      BY <3>1 DEF H!Idle
  <2>2. call' = [call EXCEPT ![u] = c]
    BY <1>2
  <2> HIDE DEF c
  <2>3. c.kind # "result" /\ c.kind # "pipe" /\ c.kind \notin {"hid", "report"}
    BY <2>1
  <2>4. QED
    BY <1>1, <2>1, <2>2, <2>3, CallerKeepsCalls
<1>3. CASE H!InterruptResult(u)
  <2>1. PICK a \in answers :
          a.id = call[u].id /\ call' = [call EXCEPT ![u].kind = "result", ![u].result = a.id]
    BY <1>3 DEF H!InterruptResult, H!OwnChannel
  <2> DEFINE c == [call[u] EXCEPT !.kind = "result", !.result = a.id]
  <2>2. a.id \in 1..MaxCalls /\ 1..MaxCalls \subseteq 0..MaxCalls
    BY DEF H!CallType
  <2>3. /\ c \in [kind : {"idle", "device", "pipe", "hid", "report", "result"},
                  id : 0..MaxCalls, obj : 0..MaxClaims, result : 0..MaxCalls]
        /\ c.kind = "result" /\ c.id = call[u].id /\ c.result = c.id
    BY <2>1, <2>2 DEF H!CallType
  <2>4. call' = [call EXCEPT ![u] = c]
    BY <2>1 DEF H!CallType
  <2> HIDE DEF c
  <2>5. c.kind # "pipe" /\ c.kind \notin {"hid", "report"}
    BY <2>3
  <2>6. QED
    BY <1>1, <2>3, <2>4, <2>5, CallerKeepsCalls
<1>4. QED
  BY <1>2, <1>3 DEF H!Finish, H!Leave, H!Return, H!DeviceAnswers, H!InterruptTimeout

LEMMA HandleSteps ==
  ASSUME HandleInv, CallInv, H!Next
  PROVE  HandleInv' /\ CallInv' /\ (OneUsableHid /\ OneTransport => OneTransport')
<1>1. ASSUME NEW i \in Ifaces, H!ClaimInterface(i)
      PROVE  HandleInv' /\ CallInv' /\ (OneUsableHid /\ OneTransport => OneTransport')
  <2>1. UNCHANGED <<call, workers, answers, crashed>> /\ opened \subseteq opened'
        /\ \A u \in Users : call[u].kind = "idle"
    BY <1>1 DEF H!ClaimInterface, H!claimPipe, H!claimHID, H!callVars, H!WriteLock
  <2>2. CallInv'
    BY <2>1, OpeningKeepsCalls
  <2>3. QED
    BY <1>1, <2>2, ClaimKeeps
<1>2. ASSUME NEW i \in Ifaces, H!ReleaseInterface(i)
      PROVE  HandleInv' /\ CallInv' /\ (OneTransport => OneTransport')
  <2>1. UNCHANGED <<call, answers, crashed>> /\ H!Abort({interfaces[i]})
        /\ \A u \in Users : call[u].kind = "idle"
    BY <1>2 DEF H!ReleaseInterface, H!WriteLock
  <2>2. CallInv'
    BY <2>1, AbortKeepsCalls
  <2>3. QED
    BY <1>2, <2>2, ReleaseKeeps
<1>3. ASSUME H!Close PROVE HandleInv' /\ CallInv' /\ (OneTransport => OneTransport')
  <2>1. UNCHANGED <<call, answers, crashed>> /\ H!Abort({interfaces[i] : i \in Ifaces})
        /\ \A u \in Users : call[u].kind = "idle"
    BY <1>3 DEF H!Close, H!WriteLock
  <2>2. CallInv'
    BY <2>1, AbortKeepsCalls
  <2>3. QED
    BY <1>3, <2>2, CloseKeeps
<1>4. ASSUME H!CloseCalled PROVE HandleInv' /\ CallInv' /\ (OneTransport => OneTransport')
  <2>1. UNCHANGED H!handleVars /\ cpc' = "want" /\ UNCHANGED H!callVars
    BY <1>4 DEF H!CloseCalled
  <2>2. UNCHANGED <<call, workers, answers, crashed, opened, hid, hids>>
    BY <2>1 DEF H!callVars, H!handleVars
  <2>3. CallInv'
    BY <2>2, NoCallKeepsCalls
  <2>4. QED
    BY <2>1, <2>3, TransferKeepsHandle
<1>5. ASSUME NEW u \in Users,
             \/ H!ControlTransfer(u) \/ H!DescriptorRequest(u) \/ H!hidCall(u)
             \/ \E ep \in Ifaces : H!bulkTransfer(u, ep) \/ H!InterruptTransfer(u, ep)
             \/ H!DeviceAnswers(u) \/ H!Finish(u)
      PROVE  HandleInv' /\ CallInv' /\ (OneTransport => OneTransport')
  <2>1. 0 \in 0..MaxClaims /\ \A obj \in opened : obj \in 1..MaxClaims /\ obj \in 0..MaxClaims
    BY DEF HandleInv, H!HandleType
  <2>2. \/ H!Enter(u, "device", 0)
        \/ hid # H!NoIface /\ (H!Enter(u, "hid", 0) \/ H!Enter(u, "report", 0))
        \/ \E obj \in opened : H!Enter(u, "pipe", obj)
        \/ /\ H!Cardinality(workers) + H!Cardinality(answers) < MaxCalls
           /\ \E obj \in opened : H!StartWorker(u, obj)
        \/ H!DeviceAnswers(u) \/ H!Finish(u)
    BY <1>5 DEF H!ControlTransfer, H!DescriptorRequest, H!hidCall, H!ReportTransfer, H!bulkTransfer,
       H!InterruptTransfer
  <2>3. UNCHANGED H!handleVars /\ cpc' = cpc
    BY <2>2 DEF H!Enter, H!StartWorker, H!DeviceAnswers, H!Finish, H!Leave, H!Return,
       H!InterruptResult, H!InterruptTimeout
  <2>4. CallInv'
    <3>1. ASSUME H!Enter(u, "device", 0) PROVE CallInv'
      BY <2>1, <3>1, EnterKeeps
    <3>2. ASSUME hid # H!NoIface, H!Enter(u, "hid", 0) PROVE CallInv'
      BY <2>1, <3>2, EnterKeeps
    <3>3. ASSUME hid # H!NoIface, H!Enter(u, "report", 0) PROVE CallInv'
      BY <2>1, <3>3, EnterKeeps
    <3>4. ASSUME NEW obj \in opened, H!Enter(u, "pipe", obj) PROVE CallInv'
      BY <2>1, <3>4, EnterKeeps
    <3>5. ASSUME H!Cardinality(workers) + H!Cardinality(answers) < MaxCalls,
                 NEW obj \in opened, H!StartWorker(u, obj)
          PROVE  CallInv'
      BY <2>1, <3>5, StartKeepsCalls
    <3>6. ASSUME H!DeviceAnswers(u) \/ H!Finish(u) PROVE CallInv'
      BY <3>6, FinishKeeps
    <3>7. QED
      BY <2>2, <3>1, <3>2, <3>3, <3>4, <3>5, <3>6
  <2>5. QED
    BY <2>3, <2>4, TransferKeepsHandle
<1>6. ASSUME NEW w \in workers, H!Work(w)
      PROVE  HandleInv' /\ CallInv' /\ (OneTransport => OneTransport')
  <2>1. crashed \in BOOLEAN
    BY DEF CallInv, H!CallType
  <2>2. \/ \E s \in {"loaded", "pipe", "aborted"} : H!WorkerStep(w, s) /\ crashed' \in BOOLEAN
        \/ \E ok \in BOOLEAN : H!WorkerSend(w, ok)
    BY <1>6, <2>1 DEF H!Work, H!workerLoad, H!workerEnter, H!workerReturn
  <2>3. UNCHANGED H!handleVars /\ cpc' = cpc
    BY <2>2 DEF H!WorkerStep, H!WorkerSend
  <2>4. CallInv'
    <3>1. ASSUME NEW s \in {"loaded", "pipe", "aborted"}, H!WorkerStep(w, s),
                 crashed' \in BOOLEAN
          PROVE  CallInv'
      BY <3>1, WorkerKeepsCalls
    <3>2. ASSUME NEW ok \in BOOLEAN, H!WorkerSend(w, ok) PROVE CallInv'
      <4>1. crashed' = crashed
        BY <3>2 DEF H!WorkerSend
      <4>2. QED
        BY <3>2, <4>1, AnswerKeepsCalls
    <3>3. QED
      BY <2>2, <3>1, <3>2
  <2>5. QED
    BY <2>3, <2>4, TransferKeepsHandle
<1>7. QED
  BY <1>1, <1>2, <1>3, <1>4, <1>5, <1>6 DEF H!Next

LEMMA HandleInvariant == MCSpec => [](HandleInv /\ CallInv)
<1>1. MCInit => HandleInv /\ CallInv
  <2> SUFFICES ASSUME H!Init PROVE HandleInv /\ CallInv
    BY DEF MCInit
  <2>1. /\ closed = FALSE /\ claimed = {} /\ interfaces = [i \in Ifaces |-> 0]
        /\ hid = H!NoIface /\ opened = {} /\ hids = {} /\ claims = 0 /\ cpc = "idle"
        /\ call = [u \in Users |-> H!Idle] /\ workers = {} /\ answers = {} /\ crashed = FALSE
    BY DEF H!Init
  <2>2. 0 \in 0..MaxClaims /\ 0 \in 0..MaxCalls
    OBVIOUS
  <2>3. interfaces \in [Ifaces -> 0..MaxClaims] /\ \A i \in Ifaces : interfaces[i] = 0
    BY <2>1, <2>2
  <2>4. HandleInv
    <3>1. H!HandleType
      BY <2>1, <2>2, <2>3 DEF H!HandleType
    <3>2. ObjectsUnique
      BY <2>1, <2>3 DEF ObjectsUnique
    <3>3. TransportOpen /\ H!ClaimsAreOpen
      BY <2>1, <2>3 DEF TransportOpen, H!ClaimsAreOpen
    <3>4. QED
      BY <3>1, <3>2, <3>3 DEF HandleInv
  <2>5. H!Idle \in [kind : {"idle", "device", "pipe", "hid", "report", "select", "result"},
                    id : 0..MaxCalls, obj : 0..MaxClaims, result : 0..MaxCalls]
        /\ H!Idle.kind = "idle" /\ H!Idle.id = 0
    BY <2>2 DEF H!Idle
  <2>6. \A u \in Users : call[u] = H!Idle
    BY <2>1
  <2>7. H!CallType
    BY <2>1, <2>5 DEF H!CallType
  <2>8. Numbered
    <3>1. \A u \in Users : IdsOf(u) = 1..0
      BY <2>1 DEF IdsOf, workersOf, answersOf
    <3>2. IsFiniteSet(workers) /\ IsFiniteSet(answers)
      BY <2>1, FS_EmptySet
    <3>3. QED
      BY <2>1, <3>1, <3>2 DEF Numbered
  <2>9. IdleCalls /\ H!LiveCallHoldsInterface /\ H!ResultIsOwn
    BY <2>1, <2>5, <2>6 DEF IdleCalls, H!LiveCallHoldsInterface, H!ResultIsOwn
  <2>10. QED
    BY <2>4, <2>7, <2>8, <2>9 DEF CallInv
<1>2. HandleInv /\ CallInv /\ [MCNext]_allVars => (HandleInv /\ CallInv)'
  <2>1. HandleInv /\ CallInv /\ UNCHANGED handleAll => (HandleInv /\ CallInv)'
    BY TransferKeepsHandle, NoCallKeepsCalls DEF handleAll, H!handleVars
  <2>2. QED
    BY <2>1, HandleSteps DEF MCNext, allVars
<1>3. QED
  BY <1>1, <1>2, PTL DEF MCSpec

\* Claims on a macOS handle (devicehandle_darwin.go, hid_darwin.go): each claimed interface
\* is open by an object of its own or by the HID transport, and no interface object is open
\* that the handle has lost, whatever fails. It does not say that of HID transports.
THEOREM ClaimsStayOpen == MCSpec => [](H!TypeOK /\ H!ClaimsAreOpen)
<1>1. HandleInv /\ CallInv => H!TypeOK /\ H!ClaimsAreOpen
  BY DEF HandleInv, CallInv, H!TypeOK
<1>2. QED
  BY <1>1, HandleInvariant, PTL

\* And Close leaves neither an object nor a HID device open, when no more than one HID
\* interface of the device can be opened: a second one would take the place of the first
\* in the handle, which then cannot close it.
THEOREM ClaimsBalance ==
  ASSUME OneUsableHid
  PROVE  MCSpec => []HandleClaims
<1>1. MCInit => OneTransport
  BY DEF MCInit, H!Init, OneTransport
<1>2. HandleInv /\ CallInv /\ OneTransport /\ [MCNext]_allVars => OneTransport'
  <2>1. HandleInv /\ OneTransport /\ UNCHANGED handleAll => OneTransport'
    BY DEF handleAll, OneTransport
  <2>2. QED
    BY <2>1, HandleSteps, OneUsableHid DEF MCNext, allVars
<1>3. HandleInv /\ CallInv /\ OneTransport => HandleClaims
  BY DEF HandleInv, CallInv, HandleClaims, H!TypeOK, OneTransport, TransportOpen,
     H!CloseReleasesAll
<1>4. QED
  BY <1>1, <1>2, <1>3, HandleInvariant, PTL DEF MCSpec

\* Transfers on a macOS handle: a running call keeps what it uses open, only the worker of
\* a call that timed out may meet a released interface, and InterruptTransfer returns the
\* result of its own worker (devicehandle_darwin.go).
THEOREM CallsKeepTheirOwn == MCSpec => []HandleCalls
<1>1. CallInv => HandleCalls
  BY DEF CallInv, HandleCalls
<1>2. QED
  BY <1>1, HandleInvariant, PTL
-------------------------------------------------------------------------------
(* The completion pump of an interface                                     *)

\* IOKit has the buffer of t or has yet to call back.
Out(t) == t \in pInflight \/ \E c \in pCompletions : c[1] = t

\* The callback that runs is for t.
Handled(t) == pPpc = "complete" /\ pCurrent[1] = t

\* At most one caller of ensureAsyncPump goes on to make the pump.
Starts(t) == pSpc[t] \in {"source", "maps", "go"}

PumpStarts ==
    /\ \A t, u \in Xfers : Starts(t) /\ Starts(u) => t = u
    /\ \A t \in Xfers : Starts(t) => pAsyncStarted /\ pPpc = "none"
    /\ pPpc # "none" => pAsyncStarted /\ pAsyncReady # "nil"
    /\ pPpc = "complete" => pCurrent \in (Xfers \cup {P!NoXfer}) \X P!Results

\* After the last Submit there is a pump to stop or there will never be one.
PumpStops ==
    /\ pCpc # "idle" => pClosed
    /\ pCpc \in {"ready", "join", "release", "returned"} /\ pQuiet =>
          \A t \in Xfers : pSpc[t] = "idle"
    /\ pCpc \in {"release", "returned"} /\ pQuiet => pPpc \in {"none", "exited"}

\* A transfer is issued once and, if its key is its own, completes once.
IssuedOnce ==
    /\ \A t \in Xfers : pSubmitted[t] => pSpc[t] = "idle"
    /\ \A t \in Xfers : Out(t) => pSubmitted[t] \/ pSpc[t] = "mark"
    /\ \A t \in Xfers : P!OwnKey(t) /\ (Handled(t) \/ pCompleted[t]) =>
          pSubmitted[t] \/ pSpc[t] = "mark"
    /\ \A t \in Xfers : P!OwnKey(t) /\ Out(t) => ~Handled(t) /\ ~pCompleted[t]
    /\ \A c, d \in pCompletions : c[1] = d[1] => c = d
    /\ \A c \in pCompletions : c[1] \notin pInflight

\* The map holds what IOKit has, under its own key, and nothing that was called back.
MapMatches ==
    /\ \A k \in P!Keys : pPending[k] # P!NoXfer => P!Key(pPending[k]) = k
    /\ \A t \in Xfers : P!OwnKey(t) /\ (Out(t) \/ pSpc[t] = "issue") =>
          pPending[P!Key(t)] = t
    /\ \A t \in Xfers : P!OwnKey(t) /\ (Handled(t) \/ pCompleted[t]) =>
          \A k \in P!Keys : pPending[k] # t

PumpInv == P!TypeOK /\ PumpStarts /\ PumpStops
TransferInv == IssuedOnce /\ MapMatches

LEMMA KeyIsKey == ASSUME NEW t \in Xfers PROVE P!Key(t) \in P!Keys
BY DEF P!Key, P!Keys

LEMMA SubmitTyped ==
  ASSUME P!TypeOK, NEW t \in Xfers, P!Submit(t)
  PROVE  P!TypeOK'
<1> USE DEF P!TypeOK, P!kitVars, P!asyncVars, P!pumpVars, P!closeVars, P!xferVars
<1>1. P!KitType'
  BY DEF P!KitType, P!Submit, P!SubmitEnter, P!ensureAsyncPump, P!ensureSource, P!ensureMaps,
       P!ensureGo, P!SubmitStore, P!SubmitIssue, P!SubmitMark, P!SubmitFail, P!SubmitKeeps,
       P!Goto, P!Forget
<1>2. P!PumpType'
  <2>1. P!Key(t) \in P!Keys
    BY KeyIsKey
  <2>2. \/ UNCHANGED pPending
        \/ \E x \in Xfers \cup {P!NoXfer} : pPending' = [pPending EXCEPT ![P!Key(t)] = x]
    BY DEF P!Submit, P!SubmitEnter, P!ensureAsyncPump, P!ensureSource, P!ensureMaps,
       P!ensureGo, P!SubmitStore, P!SubmitIssue, P!SubmitMark, P!SubmitFail, P!Forget
  <2>3. pPending' \in [P!Keys -> Xfers \cup {P!NoXfer}]
    BY <2>1, <2>2 DEF P!PumpType
  <2>4. /\ UNCHANGED <<pAsyncStopped, pCurrent>> /\ pPpc' \in {pPpc, "start"}
        /\ pAsyncStarted' \in {pAsyncStarted, TRUE} /\ pAsyncErr' \in {pAsyncErr, TRUE}
        /\ pMaps' \in {pMaps, TRUE} /\ pAsyncReady' \in {pAsyncReady, "made"}
    BY DEF P!Submit, P!SubmitEnter, P!ensureAsyncPump, P!ensureSource, P!ensureMaps,
       P!ensureGo, P!SubmitStore, P!SubmitIssue, P!SubmitMark, P!SubmitFail, P!SubmitKeeps
  <2>5. pShared' \subseteq P!Keys
    BY <2>1 DEF P!PumpType, P!Submit, P!SubmitEnter, P!ensureAsyncPump, P!ensureSource,
       P!ensureMaps, P!ensureGo, P!SubmitStore, P!SubmitIssue, P!SubmitMark, P!SubmitFail
  <2>6. QED
    BY <2>3, <2>4, <2>5 DEF P!PumpType
<1>3. P!XferType'
  BY DEF P!XferType, P!Submit, P!SubmitEnter, P!ensureAsyncPump, P!ensureSource, P!ensureMaps,
       P!ensureGo, P!SubmitStore, P!SubmitIssue, P!SubmitMark, P!SubmitFail, P!SubmitKeeps,
       P!Goto, P!Forget
<1>4. QED
  BY <1>1, <1>2, <1>3

LEMMA PumpTyped ==
  ASSUME P!TypeOK, PumpStarts, P!pump
  PROVE  P!TypeOK'
<1> USE DEF P!TypeOK, P!kitVars, P!asyncVars, P!pumpVars, P!closeVars, P!xferVars
<1>1. P!KitType'
  BY DEF P!KitType, P!pump, P!pumpStart, P!pumpCheck, P!pumpEnter, P!pumpCallback, P!completeAsync,
       P!pumpWoken, P!pumpHour, P!PumpGoto
<1>2. P!PumpType'
  <2>1. ASSUME P!pumpCallback PROVE P!PumpType'
    <3>1. PICK c \in pCompletions :
            /\ pCurrent' = <<pPending[P!Key(c[1])], c[2]>> /\ P!Forget(c[1])
      BY <2>1 DEF P!pumpCallback
    <3>2. c[1] \in Xfers /\ c[2] \in P!Results /\ P!Key(c[1]) \in P!Keys
      BY KeyIsKey DEF P!KitType
    <3>3. pPending' \in [P!Keys -> Xfers \cup {P!NoXfer}]
      BY <3>1, <3>2 DEF P!PumpType, P!Forget
    <3>4. pCurrent' \in (Xfers \cup {P!NoXfer}) \X P!Results
      BY <3>1, <3>2 DEF P!PumpType
    <3>5. /\ UNCHANGED <<pShared, pAsyncStarted, pAsyncErr, pAsyncStopped, pMaps, pAsyncReady>>
          /\ pPpc' = "complete"
      BY <2>1 DEF P!pumpCallback, P!PumpGoto
    <3>6. QED
      BY <3>3, <3>4, <3>5 DEF P!PumpType
  <2>2. CASE P!pumpStart \/ P!pumpCheck \/ P!pumpEnter \/ P!completeAsync \/ P!pumpWoken
             \/ P!pumpHour
    BY <2>2 DEF P!PumpType, P!pump, P!pumpStart, P!pumpCheck, P!pumpEnter, P!pumpCallback, P!completeAsync,
       P!pumpWoken, P!pumpHour, P!PumpGoto
  <2>3. QED
    BY <2>1, <2>2 DEF P!pump
<1>3. P!XferType'
  <2>1. ASSUME P!completeAsync, pCurrent[1] # P!NoXfer PROVE P!XferType'
    <3>1. pCurrent[1] \in Xfers /\ pCurrent[2] \in P!Results
      BY <2>1 DEF PumpStarts, P!completeAsync, P!PumpGoto
    <3>2. /\ P!StatusOf(pCurrent[1], pCurrent[2]) \in {"none"} \cup P!Results
          /\ pCurrent[1] \in Iso => P!StatusOf(pCurrent[1], pCurrent[2]) # "timeout"
      BY <3>1 DEF P!StatusOf, P!Results
    <3>3. /\ pCompleted' = [pCompleted EXCEPT ![pCurrent[1]] = TRUE]
          /\ pStatus' = [pStatus EXCEPT ![pCurrent[1]] = P!StatusOf(pCurrent[1], pCurrent[2])]
          /\ UNCHANGED <<pSpc, pSubmitted, pAborted>>
      BY <2>1 DEF P!completeAsync, P!MarkCompleted, P!PumpGoto
    <3>4. \A t \in Iso : pStatus'[t] # "timeout"
      BY <3>1, <3>2, <3>3 DEF P!XferType
    <3>5. QED
      BY <3>1, <3>2, <3>3, <3>4 DEF P!XferType
  <2>2. ASSUME ~(P!completeAsync /\ pCurrent[1] # P!NoXfer)
        PROVE  UNCHANGED <<pSpc, pSubmitted, pAborted, pCompleted, pStatus>>
    BY <2>2 DEF P!pump, P!pumpStart, P!pumpCheck, P!pumpEnter, P!pumpCallback, P!completeAsync,
       P!pumpWoken, P!pumpHour, P!PumpGoto
  <2>3. QED
    BY <2>1, <2>2 DEF P!XferType
<1>4. QED
  BY <1>1, <1>2, <1>3

LEMMA OthersTyped ==
  ASSUME P!TypeOK,
         P!Close \/ \E t \in Xfers : P!Cancel(t) \/ P!TransferCompletes(t)
  PROVE  P!TypeOK'
<1> USE DEF P!TypeOK, P!kitVars, P!asyncVars, P!pumpVars, P!closeVars, P!xferVars
<1>1. P!AbortAll => pInflight' \subseteq Xfers /\ pCompletions' \subseteq Xfers \X P!Results
  BY DEF P!AbortAll, P!KitType, P!Results
<1>2. P!KitType'
  <2>1. CASE P!Close
    BY <1>1, <2>1 DEF P!KitType, P!Close, P!CloseMark, P!CloseInterface,
       P!stopAsyncPump, P!stopRunLoop, P!stopJoin, P!CloseRelease, P!CloseStep
  <2>2. CASE \E t \in Xfers : P!Cancel(t)
    BY <1>1, <2>2 DEF P!KitType, P!Cancel
  <2>3. CASE \E t \in Xfers : P!TransferCompletes(t)
    BY <2>3 DEF P!KitType, P!TransferCompletes
  <2>4. QED
    BY <2>1, <2>2, <2>3
<1>3. P!PumpType'
  <2>1. /\ UNCHANGED <<pShared, pAsyncStarted, pAsyncErr, pMaps, pAsyncReady, pPending, pPpc,
                       pCurrent>>
        /\ pAsyncStopped' \in {pAsyncStopped, TRUE}
    BY DEF P!Cancel, P!TransferCompletes, P!Close, P!CloseMark, P!CloseInterface,
       P!stopAsyncPump, P!stopRunLoop, P!stopJoin, P!CloseRelease, P!CloseStep
  <2>2. QED
    BY <2>1 DEF P!PumpType
<1>4. P!XferType'
  <2>1. UNCHANGED <<pSpc, pSubmitted, pCompleted, pStatus>>
        /\ (UNCHANGED pAborted \/ \E t \in Xfers : pAborted' = [pAborted EXCEPT ![t] = TRUE])
    BY DEF P!Cancel, P!TransferCompletes, P!Close, P!CloseMark, P!CloseInterface,
       P!stopAsyncPump, P!stopRunLoop, P!stopJoin, P!CloseRelease, P!CloseStep
  <2>2. QED
    BY <2>1 DEF P!XferType
<1>5. QED
  BY <1>2, <1>3, <1>4

LEMMA SubmitControl ==
  ASSUME PumpInv, NEW t \in Xfers, P!Submit(t)
  PROVE  PumpStarts' /\ PumpStops'
<1> USE DEF PumpInv, P!kitVars, P!asyncVars, P!pumpVars, P!closeVars
<1>1. pSpc \in [Xfers -> {"idle", "ensure", "source", "maps", "go", "store", "issue", "mark",
                          "failed"}]
  BY DEF P!TypeOK, P!XferType
<1>2. PICK s : pSpc' = [pSpc EXCEPT ![t] = s]
  BY DEF P!Submit, P!SubmitEnter, P!ensureAsyncPump, P!ensureSource, P!ensureMaps,
       P!ensureGo, P!SubmitStore, P!SubmitIssue, P!SubmitMark, P!SubmitFail, P!SubmitKeeps,
       P!Goto
<1>3. pSpc'[t] = s /\ \A u \in Xfers \ {t} : pSpc'[u] = pSpc[u]
  BY <1>1, <1>2
<1>4. \/ /\ s \in {"source", "maps", "go"} => Starts(t) \/ ~pAsyncStarted
         /\ UNCHANGED pPpc
      \/ s = "store" /\ Starts(t) /\ pPpc' = "start" /\ pAsyncReady' = "made"
  BY <1>1, <1>2, <1>3 DEF Starts, P!Submit, P!SubmitEnter, P!ensureAsyncPump, P!ensureSource, P!ensureMaps,
       P!ensureGo, P!SubmitStore, P!SubmitIssue, P!SubmitMark, P!SubmitFail, P!SubmitKeeps,
       P!Goto
<1>5. /\ UNCHANGED <<pClosed, pCpc, pQuiet, pCurrent>>
      /\ pAsyncReady' = pAsyncReady \/ pAsyncReady' = "made"
      /\ pAsyncStarted => pAsyncStarted' = TRUE
      /\ s \in {"source", "maps", "go"} => pAsyncStarted' = TRUE \/ Starts(t)
  BY <1>1, <1>2, <1>3 DEF P!TypeOK, P!PumpType, Starts, P!Submit, P!SubmitEnter, P!ensureAsyncPump, P!ensureSource, P!ensureMaps,
       P!ensureGo, P!SubmitStore, P!SubmitIssue, P!SubmitMark, P!SubmitFail, P!SubmitKeeps,
       P!Goto
<1>6. pSpc[t] # "idle" \/ (pCpc = "idle" /\ ~pClosed)
  BY DEF P!Submit, P!SubmitEnter, P!ensureAsyncPump, P!ensureSource, P!ensureMaps,
       P!ensureGo, P!SubmitStore, P!SubmitIssue, P!SubmitMark, P!SubmitFail, P!SubmitKeeps,
       P!Goto
<1>7. PumpStarts'
  <2>1. \A u, v \in Xfers : Starts(u)' /\ Starts(v)' => u = v
    BY <1>3, <1>4 DEF Starts, PumpStarts
  <2>2. \A u \in Xfers : Starts(u)' => pAsyncStarted' /\ pPpc' = "none"
    BY <1>3, <1>4, <1>5 DEF Starts, PumpStarts
  <2>3. pPpc' # "none" => pAsyncStarted' /\ pAsyncReady' # "nil"
    BY <1>4, <1>5 DEF PumpStarts
  <2>4. pPpc' = "complete" => pCurrent' \in (Xfers \cup {P!NoXfer}) \X P!Results
    BY <1>4, <1>5 DEF PumpStarts
  <2>5. QED
    BY <2>1, <2>2, <2>3, <2>4 DEF PumpStarts
<1>8. PumpStops'
  BY <1>5, <1>6 DEF PumpStops
<1>9. QED
  BY <1>7, <1>8

LEMMA PumpControl ==
  ASSUME PumpInv, P!pump
  PROVE  PumpStarts' /\ PumpStops'
<1> USE DEF PumpInv, P!kitVars
<1>1. /\ UNCHANGED <<pSpc, pAsyncStarted, pClosed, pCpc, pQuiet>>
      /\ pPpc \notin {"none", "exited"} /\ pPpc' # "none"
      /\ pAsyncReady' = pAsyncReady \/ pAsyncReady' = "closed"
  BY DEF P!pump, P!pumpStart, P!pumpCheck, P!pumpEnter, P!pumpCallback, P!completeAsync,
     P!pumpWoken, P!pumpHour, P!PumpGoto, P!closeVars
<1>2. pPpc' = "complete" => pCurrent' \in (Xfers \cup {P!NoXfer}) \X P!Results
  <2> SUFFICES ASSUME pPpc' = "complete"
               PROVE  pCurrent' \in (Xfers \cup {P!NoXfer}) \X P!Results
    OBVIOUS
  <2>1. PICK c \in pCompletions : pCurrent' = <<pPending[P!Key(c[1])], c[2]>>
    BY DEF P!pump, P!pumpStart, P!pumpCheck, P!pumpEnter, P!pumpCallback, P!completeAsync,
       P!pumpWoken, P!pumpHour, P!PumpGoto
  <2>2. c[1] \in Xfers /\ c[2] \in P!Results
    BY DEF P!TypeOK, P!KitType
  <2>3. pPending[P!Key(c[1])] \in Xfers \cup {P!NoXfer}
    BY <2>2, KeyIsKey DEF P!TypeOK, P!PumpType
  <2>4. QED
    BY <2>1, <2>2, <2>3
<1>3. \A t \in Xfers : ~Starts(t) /\ ~Starts(t)'
  BY <1>1 DEF PumpStarts, Starts
<1>4. PumpStarts'
  BY <1>1, <1>2, <1>3 DEF PumpStarts
<1>5. PumpStops'
  BY <1>1 DEF PumpStops
<1>6. QED
  BY <1>4, <1>5

LEMMA CloseControl ==
  ASSUME PumpInv, P!Close
  PROVE  PumpStarts' /\ PumpStops'
<1> USE DEF PumpInv
<1>1. /\ UNCHANGED <<pSpc, pAsyncStarted, pAsyncReady, pPpc, pCurrent>>
      /\ pClosed' = pClosed \/ pClosed' = TRUE
  BY DEF P!Close, P!CloseMark, P!CloseInterface, P!stopAsyncPump, P!stopRunLoop, P!stopJoin,
     P!CloseRelease, P!CloseStep, P!pumpVars, P!xferVars
<1>2. PumpStarts'
  BY <1>1 DEF PumpStarts, Starts
<1>3. PumpStops'
  <2>1. CASE P!CloseMark \/ P!CloseInterface
    BY <2>1, <1>1 DEF P!CloseMark, P!CloseInterface, P!CloseStep, PumpStops
  <2>2. CASE P!stopAsyncPump
    BY <2>2, <1>1 DEF P!stopAsyncPump, P!CloseStep, PumpStops, PumpStarts
  <2>3. CASE P!stopRunLoop \/ P!stopJoin \/ P!CloseRelease
    BY <2>3, <1>1 DEF P!stopRunLoop, P!stopJoin, P!CloseRelease, P!DoneReceived, P!CloseStep,
       PumpStops
  <2>4. QED
    BY <2>1, <2>2, <2>3 DEF P!Close
<1>4. QED
  BY <1>2, <1>3

LEMMA PumpInvSteps ==
  ASSUME PumpInv, P!Next
  PROVE  PumpInv'
<1>1. CASE \E t \in Xfers : P!Submit(t)
  BY <1>1, SubmitTyped, SubmitControl DEF PumpInv
<1>2. CASE P!pump
  BY <1>2, PumpTyped, PumpControl DEF PumpInv
<1>3. CASE P!Close
  BY <1>3, OthersTyped, CloseControl DEF PumpInv
<1>4. CASE \E t \in Xfers : P!Cancel(t) \/ P!TransferCompletes(t)
  <2>1. P!TypeOK'
    BY <1>4, OthersTyped DEF PumpInv
  <2>2. UNCHANGED <<pSpc, pAsyncStarted, pAsyncReady, pPpc, pCurrent, pClosed, pCpc, pQuiet>>
    BY <1>4 DEF P!Cancel, P!TransferCompletes, P!asyncVars, P!pumpVars, P!closeVars, P!xferVars
  <2>3. PumpStarts' /\ PumpStops'
    BY <2>2 DEF PumpInv, PumpStarts, PumpStops, Starts
  <2>4. QED
    BY <2>1, <2>3 DEF PumpInv
<1>5. QED
  BY <1>1, <1>2, <1>3, <1>4 DEF P!Next

\* A step of Submit before the transfer is issued, or after it was refused.
LEMMA UnissuedKeeps ==
  ASSUME PumpInv, TransferInv, NEW t \in Xfers, NEW s,
         pSpc' = [pSpc EXCEPT ![t] = s], pSpc[t] # "mark", s # "issue", ~pSubmitted[t],
         UNCHANGED <<pInflight, pCompletions, pPending, pShared, pSubmitted, pCompleted>>,
         \A u \in Xfers : Handled(u)' => Handled(u)
  PROVE  TransferInv'
<1>1. pSpc'[t] = s /\ \A u \in Xfers \ {t} : pSpc'[u] = pSpc[u]
  BY DEF PumpInv, P!TypeOK, P!XferType
<1>2. \A u \in Xfers : (Out(u)' <=> Out(u)) /\ (P!OwnKey(u)' <=> P!OwnKey(u))
  BY DEF Out, P!OwnKey
<1>3. ~Out(t) /\ (P!OwnKey(t) => ~Handled(t) /\ ~pCompleted[t])
  BY DEF TransferInv, IssuedOnce
<1>4. IssuedOnce'
  BY <1>1, <1>2, <1>3 DEF TransferInv, IssuedOnce
<1>5. MapMatches'
  BY <1>1, <1>2 DEF TransferInv, MapMatches
<1>6. QED
  BY <1>4, <1>5 DEF TransferInv

\* The transfer is stored under its key before it is issued.
LEMMA StoreKeeps ==
  ASSUME PumpInv, TransferInv, NEW t \in Xfers, pSpc[t] = "store",
         pSpc' = [pSpc EXCEPT ![t] = "issue"],
         pPending' = [pPending EXCEPT ![P!Key(t)] = t],
         pShared' = IF pPending[P!Key(t)] = P!NoXfer THEN pShared
                    ELSE pShared \cup {P!Key(t)},
         UNCHANGED <<pInflight, pCompletions, pSubmitted, pCompleted, pPpc, pCurrent>>
  PROVE  TransferInv'
<1>1. pSpc'[t] = "issue" /\ \A u \in Xfers \ {t} : pSpc'[u] = pSpc[u]
  BY DEF PumpInv, P!TypeOK, P!XferType
<1>2. \A u \in Xfers : /\ Out(u)' <=> Out(u)
                       /\ Handled(u)' <=> Handled(u)
                       /\ P!OwnKey(u)' => P!OwnKey(u)
  BY DEF Out, Handled, P!OwnKey
<1>3. ~Out(t) /\ (P!OwnKey(t) => ~Handled(t) /\ ~pCompleted[t])
  BY DEF TransferInv, IssuedOnce
<1>4. /\ P!Key(t) \in P!Keys /\ pPending'[P!Key(t)] = t
      /\ \A k \in P!Keys : k # P!Key(t) => pPending'[k] = pPending[k]
  BY KeyIsKey DEF PumpInv, P!TypeOK, P!PumpType
<1>5. ASSUME NEW u \in Xfers, u # t, P!OwnKey(u)', Out(u) \/ pSpc[u] = "issue"
      PROVE  pPending'[P!Key(u)] = u
  <2>1. P!Key(u) \in P!Keys /\ pPending[P!Key(u)] = u
    BY <1>2, <1>5, KeyIsKey DEF TransferInv, MapMatches
  <2>2. P!Key(u) # P!Key(t)
    BY <1>5, <2>1 DEF P!OwnKey
  <2>3. QED
    BY <1>4, <2>1, <2>2
<1>6. IssuedOnce'
  <2>1. pSubmitted'[t] = pSubmitted[t] /\ ~pSubmitted[t]
    BY DEF TransferInv, IssuedOnce
  <2>2. QED
    BY <1>1, <1>2, <1>3, <2>1 DEF TransferInv, IssuedOnce
<1>7. MapMatches'
  <2>1. \A k \in P!Keys : pPending'[k] # P!NoXfer => P!Key(pPending'[k]) = k
    BY <1>4 DEF TransferInv, MapMatches
  <2>2. \A u \in Xfers : P!OwnKey(u)' /\ (Out(u)' \/ pSpc'[u] = "issue") =>
           pPending'[P!Key(u)] = u
    BY <1>1, <1>2, <1>4, <1>5
  <2>3. \A u \in Xfers : P!OwnKey(u)' /\ (Handled(u)' \/ pCompleted'[u]) =>
           \A k \in P!Keys : pPending'[k] # u
    BY <1>2, <1>3, <1>4 DEF TransferInv, MapMatches
  <2>4. QED
    BY <2>1, <2>2, <2>3 DEF MapMatches
<1>8. QED
  BY <1>6, <1>7 DEF TransferInv

\* What the map forgets when the key of t, which is issued or was, is deleted.
LEMMA ForgetKey ==
  ASSUME PumpInv, TransferInv, NEW t \in Xfers, P!Forget(t), Out(t) \/ pSpc[t] = "issue"
  PROVE  /\ \A k \in P!Keys : pPending'[k] # P!NoXfer =>
               k # P!Key(t) /\ pPending'[k] = pPending[k]
         /\ \A k \in P!Keys : pPending'[k] # t
         /\ \A u \in Xfers : u # t /\ P!OwnKey(u) /\ (Out(u) \/ pSpc[u] = "issue") =>
               pPending'[P!Key(u)] = u
<1>1. /\ P!Key(t) \in P!Keys /\ pPending'[P!Key(t)] = P!NoXfer
      /\ \A k \in P!Keys : k # P!Key(t) => pPending'[k] = pPending[k]
  BY KeyIsKey DEF PumpInv, P!TypeOK, P!PumpType, P!Forget
<1>2. \A u \in Xfers : P!OwnKey(u) /\ (Out(u) \/ pSpc[u] = "issue") =>
         P!Key(u) \in P!Keys /\ pPending[P!Key(u)] = u
  BY KeyIsKey DEF TransferInv, MapMatches
<1>3. \A u \in Xfers : u # t /\ P!OwnKey(u) /\ (Out(u) \/ pSpc[u] = "issue") =>
         P!Key(u) # P!Key(t)
  BY <1>2 DEF P!OwnKey
<1>4. t # P!NoXfer
  OBVIOUS
<1>5. QED
  BY <1>1, <1>2, <1>3, <1>4 DEF TransferInv, MapMatches

\* IOKit takes the transfer, or refuses it.
LEMMA IssueKeeps ==
  ASSUME PumpInv, TransferInv, NEW t \in Xfers, pSpc[t] = "issue", P!SubmitIssue(t)
  PROVE  TransferInv'
<1>1. UNCHANGED <<pCompletions, pShared, pSubmitted, pCompleted, pPpc, pCurrent>>
  BY DEF P!SubmitIssue, P!SubmitKeeps, P!pumpVars
<1>2. \A u \in Xfers : (Handled(u)' <=> Handled(u)) /\ (P!OwnKey(u)' <=> P!OwnKey(u))
  BY <1>1 DEF Handled, P!OwnKey
<1>3. ~Out(t) /\ ~pSubmitted[t] /\ (P!OwnKey(t) => ~Handled(t) /\ ~pCompleted[t])
  BY DEF TransferInv, IssuedOnce
<1>4. CASE /\ pInflight' = pInflight \cup {t} /\ UNCHANGED pPending
           /\ pSpc' = [pSpc EXCEPT ![t] = "mark"]
  <2>1. pSpc'[t] = "mark" /\ \A u \in Xfers \ {t} : pSpc'[u] = pSpc[u]
    BY <1>4 DEF PumpInv, P!TypeOK, P!XferType
  <2>2. \A u \in Xfers : Out(u)' <=> Out(u) \/ u = t
    BY <1>1, <1>4 DEF Out
  <2>3. \A c \in pCompletions : c[1] # t
    BY <1>3 DEF Out
  <2>4. IssuedOnce'
    BY <1>1, <1>2, <1>3, <1>4, <2>1, <2>2, <2>3 DEF TransferInv, IssuedOnce
  <2>5. MapMatches'
    BY <1>1, <1>2, <1>4, <2>1, <2>2 DEF TransferInv, MapMatches
  <2>6. QED
    BY <2>4, <2>5 DEF TransferInv
<1>5. CASE /\ P!Forget(t) /\ UNCHANGED pInflight
           /\ pSpc' = [pSpc EXCEPT ![t] = "failed"]
  <2>1. pSpc'[t] = "failed" /\ \A u \in Xfers \ {t} : pSpc'[u] = pSpc[u]
    BY <1>5 DEF PumpInv, P!TypeOK, P!XferType
  <2>2. \A u \in Xfers : Out(u)' <=> Out(u)
    BY <1>1, <1>5 DEF Out
  <2>3. /\ \A k \in P!Keys : pPending'[k] # P!NoXfer => pPending'[k] = pPending[k]
        /\ \A u \in Xfers : u # t /\ P!OwnKey(u) /\ (Out(u) \/ pSpc[u] = "issue") =>
              pPending'[P!Key(u)] = u
    BY <1>5, ForgetKey
  <2>4. IssuedOnce'
    BY <1>1, <1>2, <1>3, <1>5, <2>1, <2>2 DEF TransferInv, IssuedOnce
  <2>5. MapMatches'
    <3>1. \A k \in P!Keys : pPending'[k] # P!NoXfer => P!Key(pPending'[k]) = k
      BY <2>3 DEF TransferInv, MapMatches
    <3>2. \A u \in Xfers : P!OwnKey(u)' /\ (Out(u)' \/ pSpc'[u] = "issue") =>
             pPending'[P!Key(u)] = u
      BY <1>2, <1>3, <2>1, <2>2, <2>3
    <3>3. \A u \in Xfers : P!OwnKey(u)' /\ (Handled(u)' \/ pCompleted'[u]) =>
             \A k \in P!Keys : pPending'[k] # u
      BY <1>1, <1>2, <2>3 DEF TransferInv, MapMatches
    <3>4. QED
      BY <3>1, <3>2, <3>3 DEF MapMatches
  <2>6. QED
    BY <2>4, <2>5 DEF TransferInv
<1>6. QED
  BY <1>4, <1>5 DEF P!SubmitIssue, P!Goto

LEMMA MarkKeeps ==
  ASSUME PumpInv, TransferInv, NEW t \in Xfers, P!SubmitMark(t)
  PROVE  TransferInv'
<1>1. /\ pSpc' = [pSpc EXCEPT ![t] = "idle"] /\ pSubmitted' = [pSubmitted EXCEPT ![t] = TRUE]
      /\ UNCHANGED <<pInflight, pCompletions, pPending, pShared, pCompleted, pPpc, pCurrent>>
  BY DEF P!SubmitMark, P!Goto, P!kitVars, P!pumpVars
<1>2. /\ pSpc'[t] = "idle" /\ \A u \in Xfers \ {t} : pSpc'[u] = pSpc[u]
      /\ pSubmitted'[t] = TRUE /\ \A u \in Xfers \ {t} : pSubmitted'[u] = pSubmitted[u]
  BY <1>1 DEF PumpInv, P!TypeOK, P!XferType
<1>3. \A u \in Xfers : /\ (Out(u)' <=> Out(u)) /\ (Handled(u)' <=> Handled(u))
                       /\ P!OwnKey(u)' <=> P!OwnKey(u)
  BY <1>1 DEF Out, Handled, P!OwnKey
<1>4. IssuedOnce'
  BY <1>1, <1>2, <1>3 DEF TransferInv, IssuedOnce
<1>5. MapMatches'
  BY <1>1, <1>2, <1>3 DEF TransferInv, MapMatches
<1>6. QED
  BY <1>4, <1>5 DEF TransferInv

\* IOKit is done with some transfers, whose callbacks have yet to run.
LEMMA KitKeeps ==
  ASSUME TransferInv,
         UNCHANGED <<pPending, pShared, pSpc, pSubmitted, pCompleted, pPpc, pCurrent>>,
         NEW done \in SUBSET pInflight, NEW r, pInflight' = pInflight \ done,
         pCompletions' = pCompletions \cup {<<t, r>> : t \in done}
  PROVE  TransferInv'
<1>1. \A u \in Xfers : (Out(u)' <=> Out(u)) /\ (Handled(u)' <=> Handled(u))
  <2> SUFFICES ASSUME NEW u \in Xfers PROVE Out(u)' <=> Out(u)
    BY DEF Handled
  <2>1. <<u, r>>[1] = u
    OBVIOUS
  <2>2. ASSUME u \in done PROVE Out(u)' /\ Out(u)
    <3>1. <<u, r>> \in pCompletions'
      BY <2>2
    <3>2. QED
      BY <2>1, <2>2, <3>1 DEF Out
  <2>3. ASSUME u \notin done PROVE Out(u)' <=> Out(u)
    <3>1. \A c \in pCompletions' : c[1] = u => c \in pCompletions
      BY <2>3
    <3>2. u \in pInflight' <=> u \in pInflight
      BY <2>3
    <3>3. QED
      BY <3>1, <3>2 DEF Out
  <2>4. QED
    BY <2>2, <2>3
<1>2. /\ \A c, d \in pCompletions' : c[1] = d[1] => c = d
      /\ \A c \in pCompletions' : c[1] \notin pInflight'
  BY DEF TransferInv, IssuedOnce
<1>3. IssuedOnce'
  BY <1>1, <1>2 DEF TransferInv, IssuedOnce, P!OwnKey
<1>4. MapMatches'
  BY <1>1 DEF TransferInv, MapMatches, P!OwnKey
<1>5. QED
  BY <1>3, <1>4 DEF TransferInv

\* The shared callback takes the transfer out of the map.
LEMMA HandlerKeeps ==
  ASSUME PumpInv, TransferInv, P!pumpCallback
  PROVE  TransferInv'
<1>1. PICK c \in pCompletions :
        /\ pCompletions' = pCompletions \ {c}
        /\ pCurrent' = <<pPending[P!Key(c[1])], c[2]>> /\ P!Forget(c[1])
  BY DEF P!pumpCallback
<1>2. /\ pPpc' = "complete" /\ pPpc = "run"
      /\ UNCHANGED <<pInflight, pShared, pSpc, pSubmitted, pCompleted>>
  BY DEF P!pumpCallback, P!PumpGoto
<1> DEFINE t == c[1]
           x == pPending[P!Key(t)]
<1>3. t \in Xfers /\ P!Key(t) \in P!Keys
  BY KeyIsKey DEF PumpInv, P!TypeOK, P!KitType
<1>4. Out(t) /\ (P!OwnKey(t) => x = t)
  BY <1>3 DEF Out, TransferInv, MapMatches
<1>5. ~Out(t)' /\ \A u \in Xfers : u # t => (Out(u)' <=> Out(u))
  BY <1>1, <1>2, <1>3 DEF Out, TransferInv, IssuedOnce
<1>6. \A u \in Xfers : P!OwnKey(u)' <=> P!OwnKey(u)
  BY <1>2 DEF P!OwnKey
<1>7. \A u \in Xfers : P!OwnKey(u) => (Handled(u)' <=> u = t)
  <2>1. \A u \in Xfers : Handled(u)' <=> u = x
    BY <1>1, <1>2 DEF Handled
  <2>2. ASSUME NEW u \in Xfers, P!OwnKey(u), u = x PROVE u = t
    <3>1. x # P!NoXfer
      BY <2>2
    <3>2. P!Key(x) = P!Key(t)
      BY <1>3, <3>1 DEF TransferInv, MapMatches
    <3>3. P!OwnKey(t)
      BY <2>2, <3>2 DEF P!OwnKey
    <3>4. QED
      BY <1>4, <2>2, <3>3
  <2>3. QED
    BY <1>4, <2>1, <2>2
<1>8. /\ \A k \in P!Keys : pPending'[k] # P!NoXfer => pPending'[k] = pPending[k]
      /\ \A k \in P!Keys : pPending'[k] # t
      /\ \A u \in Xfers : u # t /\ P!OwnKey(u) /\ (Out(u) \/ pSpc[u] = "issue") =>
            pPending'[P!Key(u)] = u
  BY <1>1, <1>3, <1>4, ForgetKey
<1> HIDE DEF t, x
<1>9. IssuedOnce'
  <2>1. /\ \A u \in Xfers : Out(u)' => Out(u)
        /\ \A u \in Xfers : P!OwnKey(u)' /\ Handled(u)' => Out(u)
    BY <1>4, <1>5, <1>6, <1>7
  <2>2. \A u \in Xfers : P!OwnKey(u)' /\ Out(u)' => ~Handled(u)' /\ ~pCompleted'[u]
    BY <1>2, <1>5, <1>6, <1>7 DEF TransferInv, IssuedOnce
  <2>3. QED
    BY <1>1, <1>2, <1>6, <2>1, <2>2 DEF TransferInv, IssuedOnce
<1>10. MapMatches'
  <2>1. \A k \in P!Keys : pPending'[k] # P!NoXfer => P!Key(pPending'[k]) = k
    BY <1>8 DEF TransferInv, MapMatches
  <2>2. pSpc[t] # "issue"
    BY <1>3, <1>4 DEF TransferInv, IssuedOnce
  <2>3. \A u \in Xfers : P!OwnKey(u)' /\ (Out(u)' \/ pSpc'[u] = "issue") =>
           pPending'[P!Key(u)] = u
    BY <1>2, <1>5, <1>6, <1>8, <2>2
  <2>4. \A u \in Xfers : P!OwnKey(u)' /\ (Handled(u)' \/ pCompleted'[u]) =>
           \A k \in P!Keys : pPending'[k] # u
    BY <1>2, <1>6, <1>7, <1>8 DEF TransferInv, MapMatches
  <2>5. QED
    BY <2>1, <2>3, <2>4 DEF MapMatches
<1>11. QED
  BY <1>9, <1>10 DEF TransferInv

LEMMA CompleteKeeps ==
  ASSUME PumpInv, TransferInv, P!completeAsync
  PROVE  TransferInv'
<1>1. /\ pPpc = "complete" /\ pPpc' = "check"
      /\ UNCHANGED <<pInflight, pCompletions, pPending, pShared, pSpc, pSubmitted>>
  BY DEF P!completeAsync, P!PumpGoto, P!kitVars
<1>2. \A u \in Xfers : pCompleted'[u] => pCompleted[u] \/ Handled(u)
  <2>1. UNCHANGED pCompleted \/ pCompleted' = [pCompleted EXCEPT ![pCurrent[1]] = TRUE]
    BY DEF P!completeAsync, P!MarkCompleted
  <2>2. QED
    BY <2>1, <1>1 DEF PumpInv, P!TypeOK, P!XferType, Handled
<1>3. \A u \in Xfers : /\ ~Handled(u)' /\ (Out(u)' <=> Out(u))
                       /\ P!OwnKey(u)' <=> P!OwnKey(u)
  BY <1>1 DEF Handled, Out, P!OwnKey
<1>4. IssuedOnce'
  BY <1>1, <1>2, <1>3 DEF TransferInv, IssuedOnce
<1>5. MapMatches'
  BY <1>1, <1>2, <1>3 DEF TransferInv, MapMatches
<1>6. QED
  BY <1>4, <1>5 DEF TransferInv

LEMMA SubmitKeepsTransfers ==
  ASSUME PumpInv, TransferInv, NEW t \in Xfers, P!Submit(t)
  PROVE  TransferInv'
<1>1. pSpc[t] # "idle" => ~pSubmitted[t]
  BY DEF TransferInv, IssuedOnce
<1>2. ASSUME NEW s, s # "issue", pSpc' = [pSpc EXCEPT ![t] = s],
             pSpc[t] # "mark", ~pSubmitted[t],
             UNCHANGED <<pInflight, pCompletions, pPending, pShared, pSubmitted, pCompleted, pCurrent>>,
             pPpc' = pPpc \/ pPpc' = "start"
      PROVE  TransferInv'
  <2>1. \A u \in Xfers : Handled(u)' => Handled(u)
    BY <1>2 DEF Handled
  <2>2. QED
    BY <1>2, <2>1, UnissuedKeeps
<1> USE DEF P!kitVars, P!pumpVars, P!SubmitKeeps, P!Goto
<1>3. CASE P!SubmitEnter(t)
  BY <1>2, <1>3 DEF P!SubmitEnter
<1>4. CASE P!ensureAsyncPump(t)
  BY <1>1, <1>2, <1>4 DEF P!ensureAsyncPump
<1>5. CASE P!ensureSource(t)
  BY <1>1, <1>2, <1>5 DEF P!ensureSource
<1>6. CASE P!ensureMaps(t)
  BY <1>1, <1>2, <1>6 DEF P!ensureMaps
<1>7. CASE P!ensureGo(t)
  <2>1. /\ pSpc' = [pSpc EXCEPT ![t] = "store"] /\ pSpc[t] = "go" /\ pPpc' = "start"
        /\ UNCHANGED <<pInflight, pCompletions, pPending, pShared, pSubmitted, pCompleted, pCurrent>>
    BY <1>7 DEF P!ensureGo
  <2>2. QED
    BY <1>1, <1>2, <2>1
<1>8. CASE P!SubmitStore(t)
  <2>1. /\ pSpc[t] = "store"
        /\ UNCHANGED <<pInflight, pCompletions, pSubmitted, pCompleted, pPpc, pCurrent>>
        /\ \/ pSpc' = [pSpc EXCEPT ![t] = "issue"]
              /\ pPending' = [pPending EXCEPT ![P!Key(t)] = t]
              /\ pShared' = IF pPending[P!Key(t)] = P!NoXfer THEN pShared
                            ELSE pShared \cup {P!Key(t)}
           \/ pSpc' = [pSpc EXCEPT ![t] = "failed"] /\ UNCHANGED <<pPending, pShared>>
    BY <1>8 DEF P!SubmitStore
  <2>2. QED
    BY <1>1, <1>2, <2>1, StoreKeeps
<1>9. CASE P!SubmitIssue(t)
  <2>1. pSpc[t] = "issue"
    BY <1>9 DEF P!SubmitIssue
  <2>2. QED
    BY <1>9, <2>1, IssueKeeps
<1>10. CASE P!SubmitMark(t)
  BY <1>10, MarkKeeps
<1>11. CASE P!SubmitFail(t)
  BY <1>1, <1>2, <1>11 DEF P!SubmitFail
<1>12. QED
  BY <1>3, <1>4, <1>5, <1>6, <1>7, <1>8, <1>9, <1>10, <1>11 DEF P!Submit

\* AbortPipe, and USBInterfaceClose, leave nothing in flight.
LEMMA AbortKeepsTransfers ==
  ASSUME TransferInv, P!AbortAll,
         UNCHANGED <<pPending, pShared, pSpc, pSubmitted, pCompleted, pPpc, pCurrent>>
  PROVE  TransferInv'
<1>1. /\ pInflight \in SUBSET pInflight /\ pInflight' = pInflight \ pInflight
      /\ pCompletions' = pCompletions \cup {<<t, "error">> : t \in pInflight}
  BY DEF P!AbortAll
<1>2. QED
  BY <1>1, KitKeeps

LEMMA NothingKeepsTransfers ==
  ASSUME TransferInv, pPpc' = pPpc \/ (pPpc # "complete" /\ pPpc' # "complete"),
         UNCHANGED <<pInflight, pCompletions, pPending, pShared, pSpc, pSubmitted, pCompleted, pCurrent>>
  PROVE  TransferInv'
<1>1. \A u \in Xfers : /\ (Out(u)' <=> Out(u)) /\ (Handled(u)' <=> Handled(u))
                       /\ P!OwnKey(u)' <=> P!OwnKey(u)
  BY DEF Out, Handled, P!OwnKey
<1>2. IssuedOnce' /\ MapMatches'
  BY <1>1 DEF TransferInv, IssuedOnce, MapMatches
<1>3. QED
  BY <1>2 DEF TransferInv

LEMMA TransferSteps ==
  ASSUME PumpInv, TransferInv, P!Next
  PROVE  TransferInv'
<1>1. CASE \E t \in Xfers : P!Submit(t)
  BY <1>1, SubmitKeepsTransfers
<1>2. ASSUME NEW t \in Xfers, P!Cancel(t) PROVE TransferInv'
  BY <1>2, AbortKeepsTransfers DEF P!Cancel, P!pumpVars
<1>3. ASSUME NEW t \in Xfers, P!TransferCompletes(t) PROVE TransferInv'
  <2>1. PICK r \in P!Results : pCompletions' = pCompletions \cup {<<t, r>>}
    BY <1>3 DEF P!TransferCompletes
  <2>2. {t} \in SUBSET pInflight /\ pInflight' = pInflight \ {t}
    BY <1>3 DEF P!TransferCompletes
  <2>3. {<<u, r>> : u \in {t}} = {<<t, r>>}
    OBVIOUS
  <2>4. pCompletions' = pCompletions \cup {<<u, r>> : u \in {t}}
    BY <2>1, <2>3
  <2>5. UNCHANGED <<pPending, pShared, pSpc, pSubmitted, pCompleted, pPpc, pCurrent>>
    BY <1>3 DEF P!TransferCompletes, P!pumpVars, P!xferVars
  <2>6. QED
    BY <2>2, <2>4, <2>5, KitKeeps
<1>4. CASE P!pump
  <2>1. CASE P!pumpCallback
    BY <2>1, HandlerKeeps
  <2>2. CASE P!completeAsync
    BY <2>2, CompleteKeeps
  <2>3. CASE P!pumpStart \/ P!pumpCheck \/ P!pumpEnter \/ P!pumpWoken \/ P!pumpHour
    <3>1. /\ pPpc # "complete" /\ pPpc' # "complete"
          /\ UNCHANGED <<pInflight, pCompletions, pPending, pShared, pSpc, pSubmitted, pCompleted,
                         pCurrent>>
      BY <2>3 DEF P!pumpStart, P!pumpCheck, P!pumpEnter, P!pumpWoken, P!pumpHour, P!PumpGoto,
         P!kitVars
    <3>2. QED
      BY <3>1, NothingKeepsTransfers
  <2>4. QED
    BY <1>4, <2>1, <2>2, <2>3 DEF P!pump
<1>5. CASE P!Close
  <2>1. UNCHANGED <<pPending, pShared, pSpc, pSubmitted, pCompleted, pPpc, pCurrent>>
    BY <1>5 DEF P!Close, P!CloseMark, P!CloseInterface, P!stopAsyncPump, P!stopRunLoop,
       P!stopJoin, P!CloseRelease, P!CloseStep, P!pumpVars, P!xferVars
  <2>2. P!AbortAll \/ UNCHANGED <<pInflight, pCompletions>>
    BY <1>5 DEF P!Close, P!CloseMark, P!CloseInterface, P!stopAsyncPump, P!stopRunLoop,
       P!stopJoin, P!CloseRelease, P!kitVars
  <2>3. QED
    BY <2>1, <2>2, AbortKeepsTransfers, NothingKeepsTransfers
<1>6. QED
  BY <1>1, <1>2, <1>3, <1>4, <1>5 DEF P!Next

LEMMA PumpInvariant == MCSpec => []PumpInv
<1>1. MCInit => PumpInv
  <2> SUFFICES ASSUME P!Init PROVE PumpInv
    BY DEF MCInit
  <2>1. P!KitType /\ P!PumpType /\ P!XferType
    BY DEF P!Init, P!KitType, P!PumpType, P!XferType
  <2>2. PumpStarts /\ PumpStops
    BY DEF P!Init, PumpStarts, PumpStops, Starts
  <2>3. QED
    BY <2>1, <2>2 DEF PumpInv, P!TypeOK
<1>2. PumpInv /\ [MCNext]_allVars => PumpInv'
  <2>1. PumpInv /\ UNCHANGED pumpAll => PumpInv'
    <3> SUFFICES ASSUME PumpInv, UNCHANGED pumpAll PROVE PumpInv'
      OBVIOUS
    <3>1. P!TypeOK'
      BY DEF pumpAll, PumpInv, P!TypeOK, P!KitType, P!PumpType, P!XferType
    <3>2. PumpStarts' /\ PumpStops'
      BY DEF pumpAll, PumpInv, PumpStarts, PumpStops, Starts
    <3>3. QED
      BY <3>1, <3>2 DEF PumpInv
  <2>2. QED
    BY <2>1, PumpInvSteps DEF MCNext, allVars
<1>3. QED
  BY <1>1, <1>2, PTL DEF MCSpec

\* stopAsyncPump joins the pump (isochronous_darwin.go): when no Submit overlaps it, Close
\* leaves no pump behind that uses the released interface.
THEOREM CloseJoinsPump == MCSpec => [](P!TypeOK /\ P!PumpJoined)
<1>1. PumpInv => P!TypeOK /\ P!PumpJoined
  BY DEF PumpInv, PumpStops, P!PumpJoined
<1>2. QED
  BY <1>1, PumpInvariant, PTL

\* Under a key that no two transfers have shared (only empty buffers do, bufferKey) the
\* pending map holds a transfer while IOKit has its buffer, and its completion goes to it,
\* once; and stopAsyncPump joins the pump.
THEOREM CompletionsFindTransfers == MCSpec => []PumpSound
<1>1. MCInit => TransferInv
  <2> SUFFICES ASSUME P!Init PROVE TransferInv
    BY DEF MCInit
  <2>1. \A t \in Xfers : ~Out(t) /\ ~Handled(t) /\ ~pCompleted[t] /\ ~pSubmitted[t]
                         /\ pSpc[t] = "idle"
    BY DEF P!Init, Out, Handled
  <2>2. pCompletions = {} /\ \A k \in P!Keys : pPending[k] = P!NoXfer
    BY DEF P!Init
  <2>3. QED
    BY <2>1, <2>2 DEF TransferInv, IssuedOnce, MapMatches
<1>2. PumpInv /\ TransferInv /\ [MCNext]_allVars => TransferInv'
  <2>1. TransferInv /\ UNCHANGED pumpAll => TransferInv'
    BY NothingKeepsTransfers DEF pumpAll
  <2>2. QED
    BY <2>1, TransferSteps DEF MCNext, allVars
<1>3. PumpInv /\ TransferInv => PumpSound
  <2> SUFFICES ASSUME PumpInv, TransferInv PROVE PumpSound
    OBVIOUS
  <2>1. P!TypeOK /\ P!PumpJoined
    BY DEF PumpInv, PumpStops, P!PumpJoined
  <2>2. P!PendingHoldsBuffer
    BY DEF TransferInv, MapMatches, P!PendingHoldsBuffer, Out
  <2>3. P!CompletionIsOwn
    BY DEF TransferInv, MapMatches, IssuedOnce, P!CompletionIsOwn, Out
  <2>4. QED
    BY <2>1, <2>2, <2>3 DEF PumpSound
<1>4. QED
  BY <1>1, <1>2, <1>3, PumpInvariant, PTL DEF MCSpec
===============================================================================
