------------------------------ MODULE LinuxProofs -----------------------------
(***************************************************************************)
(* Proofs about the two parts of MCLinux: the hotplug watch, for every set *)
(* of devices and of callers of Deregister, every size of the socket       *)
(* buffer and every set of faults; and the device handle, for every number *)
(* of goroutines, interfaces, descriptors, reopenings and retries.         *)
(***************************************************************************)
EXTENDS MCLinux, SequenceTheorems, TLAPS

USE ConstantsAssumption
-------------------------------------------------------------------------------
(* The hotplug watch                                                       *)

\* The uevent e waits in the socket buffer ...
Queued(e) == \E i \in 1..Len(queue) : queue[i] = e

\* ... or is in the pump's hands.
Pending(e) == Queued(e) \/ (ppc = "handle" /\ event = e)

\* The snapshot is told between DeviceList and the start of the pump, the pump works
\* on a uevent only in state handle, and Deregister returns when it has stopped.
PumpControl ==
    /\ ppc = "off" <=> regPc # "returned"
    /\ regPc \in {"open", "list"} => seen = {}
    /\ regPc \in {"open", "list", "returned", "failed"} => todo = {}
    /\ ppc = "handle" => event \in {"add", "remove"} \X Devices
    /\ doneClosed => ppc = "stopped"
    /\ \A c \in Callers : dpc[c] = "returned" => doneClosed

\* seen is what the user has been told of, but for the filter.
SeenIsTold == view = seen \cap Match

TInv == TypeOK /\ PumpControl /\ SeenIsTold

\* The snapshot and the uevents that follow it: known is what the pump will have
\* seen when the snapshot is told.
known == seen \cup todo

Reliable == faults \subseteq {"epoll"}

\* While nothing fails, the socket is open until the pump stops and loses nothing.
SocketReliable ==
    /\ ~overrun /\ leaving = {} /\ present \subseteq used
    /\ regPc \in {"list", "snapshot", "returned"} /\ ppc # "stopped" => bound /\ fdsOpen

\* A device that is known but gone, or there but unknown, has a uevent on its way.
DifferenceIsPending ==
    regPc \in {"snapshot", "returned"} /\ ppc # "stopped" =>
        \A d \in Devices :
            /\ d \in known /\ d \notin present => Pending(<<"remove", d>>)
            /\ d \in present /\ d \notin known => Pending(<<"add", d>>)

\* A device whose remove uevent is on its way has gone, and has been plugged in
\* once before.
RemovedIsGone == \A d \in Devices : Pending(<<"remove", d>>) => d \in used \ present

CurrentInv ==
    Reliable => SocketReliable /\ DifferenceIsPending /\ RemovedIsGone
-----------------------------------------------------------------------------
(* Types and control                                                       *)

\* What a step leaves alone keeps its type.
LEMMA SameType ==
  /\ KernelType /\ UNCHANGED kernelVars => KernelType'
  /\ HandleType /\ UNCHANGED handleVars => HandleType'
  /\ GoroutineType /\ UNCHANGED <<regVars, pumpVars, dpc>> => GoroutineType'
  /\ ClientType /\ UNCHANGED clientVars => ClientType'
<1>1. KernelType /\ UNCHANGED kernelVars => KernelType'
  BY DEF KernelType, kernelVars
<1>2. HandleType /\ UNCHANGED handleVars => HandleType'
  BY DEF HandleType, handleVars
<1>3. GoroutineType /\ UNCHANGED <<regVars, pumpVars, dpc>> => GoroutineType'
  BY DEF GoroutineType, regVars, pumpVars
<1>4. ClientType /\ UNCHANGED clientVars => ClientType'
  BY DEF ClientType, clientVars
<1>5. QED
  BY <1>1, <1>2, <1>3, <1>4

\* The socket buffer is a sequence of uevents.
Uevents == {"add", "remove", "foreign"} \X Devices

LEMMA QueueOps ==
  /\ <<>> \in Seq(Uevents)
  /\ \A q \in Seq(Uevents), e \in Uevents : Append(q, e) \in Seq(Uevents)
  /\ \A q \in Seq(Uevents) :
        q # <<>> => Head(q) \in Uevents /\ Tail(q) \in Seq(Uevents)
  BY EmptySeq, AppendProperties, HeadTailProperties

\* A uevent is appended, lost with an overrun, or not sent.
LEMMA UeventType ==
  ASSUME KernelType, NEW d \in Devices, NEW a \in {"add", "remove", "foreign"},
         Uevent(a, d)
  PROVE  queue' \in Seq(Uevents) /\ overrun' \in BOOLEAN
<1>1. <<a, d>> \in Uevents /\ queue \in Seq(Uevents)
  BY DEF Uevents, KernelType
<1>2. queue' \in {queue, Append(queue, <<a, d>>)}
  BY DEF Uevent
<1>3. overrun' \in BOOLEAN
  BY DEF Uevent, KernelType
<1>4. Append(queue, <<a, d>>) \in Seq(Uevents)
  BY <1>1, QueueOps
<1>5. QED
  BY <1>1, <1>2, <1>3, <1>4

\* What a report does to the user's view and what was told last.
LEMMA Reports ==
  ASSUME ClientType, NEW d \in Devices
  PROVE  /\ Arrived(d) => ClientType' /\ view' = view \cup ({d} \cap Match)
         /\ Left(d) => ClientType' /\ view' = view \ {d}
<1>1. ASSUME Arrived(d) PROVE ClientType' /\ view' = view \cup ({d} \cap Match)
  BY <1>1 DEF Arrived, matches, ClientType, clientVars
<1>2. ASSUME Left(d) PROVE ClientType' /\ view' = view \ {d}
  BY <1>2 DEF Left, matches, ClientType, clientVars
<1>3. QED
  BY <1>1, <1>2

LEMMA InitTInv == Init => TInv
<1> SUFFICES ASSUME Init PROVE TInv
  OBVIOUS
<1>1. KernelType
  <2>1. foreign \in 0..MaxForeign /\ queue \in Seq(Uevents)
    BY QueueOps DEF Init
  <2>2. QED
    BY <2>1 DEF Init, KernelType, Uevents
<1>2. HandleType /\ GoroutineType
  BY DEF Init, HandleType, GoroutineType
<1>3. ClientType
  BY DEF Init, ClientType
<1>4. PumpControl /\ SeenIsTold
  BY DEF Init, PumpControl, SeenIsTold
<1>5. QED
  BY <1>1, <1>2, <1>3, <1>4 DEF TInv, TypeOK

LEMMA DeviceTInv ==
  ASSUME TInv, NEW d \in Devices,
         PlugIn(d) \/ PullOut(d) \/ EntryGoes(d) \/ ForeignUevent(d)
  PROVE  TInv'
<1> USE SameType DEF TInv, TypeOK
<1>1. KernelType'
  <2>1. CASE PlugIn(d)
    <3>1. Uevent("add", d)
      BY <2>1 DEF PlugIn
    <3>2. QED
      BY <2>1, <3>1, UeventType DEF PlugIn, KernelType, Uevents
  <2>2. CASE PullOut(d)
    <3>1. Uevent("remove", d)
      BY <2>2 DEF PullOut
    <3>2. QED
      BY <2>2, <3>1, UeventType DEF PullOut, KernelType, Uevents
  <2>3. CASE EntryGoes(d)
    BY <2>3 DEF EntryGoes, KernelType
  <2>4. CASE ForeignUevent(d)
    <3>1. Uevent("foreign", d)
      BY <2>4 DEF ForeignUevent
    <3>2. QED
      BY <2>4, <3>1, UeventType DEF ForeignUevent, KernelType, Uevents
  <2>5. QED
    BY <2>1, <2>2, <2>3, <2>4
<1>2. UNCHANGED <<handleVars, regVars, pumpVars, dpc, clientVars>>
  BY DEF PlugIn, PullOut, EntryGoes, ForeignUevent
<1>3. PumpControl' /\ SeenIsTold'
  BY <1>2 DEF PumpControl, SeenIsTold, handleVars, regVars, pumpVars, clientVars
<1>4. QED
  BY <1>1, <1>2, <1>3

LEMMA RegisterTInv == ASSUME TInv, register PROVE TInv'
<1> USE SameType DEF TInv, TypeOK
<1>1. CASE registerOpen
  <2>1. KernelType' /\ HandleType'
    BY <1>1 DEF registerOpen, KernelType, HandleType
  <2>2. GoroutineType'
    BY <1>1 DEF registerOpen, GoroutineType, pumpVars
  <2>3. PumpControl' /\ SeenIsTold'
    BY <1>1 DEF registerOpen, PumpControl, SeenIsTold, pumpVars, clientVars
  <2>4. QED
    BY <1>1, <2>1, <2>2, <2>3 DEF registerOpen
<1>2. CASE registerList
  <2>1. GoroutineType'
    BY <1>2 DEF registerList, GoroutineType, KernelType, pumpVars
  <2>2. PumpControl' /\ SeenIsTold'
    BY <1>2 DEF registerList, PumpControl, SeenIsTold, handleVars, pumpVars, clientVars
  <2>3. QED
    BY <1>2, <2>1, <2>2 DEF registerList
<1>3. ASSUME NEW d \in Devices, registerSnapshot(d) PROVE TInv'
  <2>1. seen' = seen \cup {d} /\ ClientType' /\ view' = view \cup ({d} \cap Match)
    BY <1>3, Reports DEF registerSnapshot, SnapshotDevice
  <2>2. HandleType' /\ GoroutineType'
    BY <1>3, <2>1 DEF registerSnapshot, HandleType, GoroutineType, pumpVars
  <2>3. PumpControl' /\ SeenIsTold'
    BY <1>3, <2>1 DEF registerSnapshot, PumpControl, SeenIsTold, pumpVars
  <2>4. QED
    BY <1>3, <2>1, <2>2, <2>3 DEF registerSnapshot
<1>4. CASE registerStart
  <2>1. GoroutineType'
    BY <1>4 DEF registerStart, GoroutineType
  <2>2. PumpControl' /\ SeenIsTold'
    BY <1>4 DEF registerStart, PumpControl, SeenIsTold, handleVars, clientVars
  <2>3. QED
    BY <1>4, <2>1, <2>2 DEF registerStart
<1>5. QED
  BY <1>1, <1>2, <1>3, <1>4 DEF register

LEMMA PumpTInv == ASSUME TInv, pump PROVE TInv'
<1> USE SameType DEF TInv, TypeOK
<1>1. CASE pumpSetup \/ pumpCheck \/ pumpWaitError
  <2>1. GoroutineType'
    BY <1>1 DEF pumpSetup, pumpCheck, pumpWaitError, Goto, GoroutineType, regVars
  <2>2. PumpControl' /\ SeenIsTold'
    BY <1>1 DEF pumpSetup, pumpCheck, pumpWaitError, Goto, PumpControl, SeenIsTold,
                handleVars, regVars, clientVars
  <2>3. QED
    BY <1>1, <2>1, <2>2 DEF pumpSetup, pumpCheck, pumpWaitError
<1>2. CASE pumpWake
  <2>1. HandleType' /\ GoroutineType'
    BY <1>2 DEF pumpWake, Goto, HandleType, GoroutineType, regVars
  <2>2. PumpControl' /\ SeenIsTold'
    BY <1>2 DEF pumpWake, Goto, PumpControl, SeenIsTold, regVars, clientVars
  <2>3. QED
    BY <1>2, <2>1, <2>2 DEF pumpWake
<1>3. CASE pumpRecv
  <2>1. KernelType'
    <3>1. queue' \in Seq(Uevents)
      BY <1>3, QueueOps DEF pumpRecv, KernelType, Uevents
    <3>2. QED
      BY <1>3, <3>1 DEF pumpRecv, KernelType, Uevents
  <2>2. queue # <<>> => Head(queue) \in {"add", "remove", "foreign"} \X Devices
    BY DEF KernelType
  <2>3. GoroutineType'
    BY <1>3, <2>2 DEF pumpRecv, Goto, GoroutineType, regVars
  <2>4. PumpControl' /\ SeenIsTold'
    BY <1>3, <2>2 DEF pumpRecv, Goto, PumpControl, SeenIsTold, handleVars, regVars,
                      clientVars
  <2>5. QED
    BY <1>3, <2>1, <2>3, <2>4 DEF pumpRecv
<1>4. CASE handleAdd \/ handleRemove
  <2>1. ppc = "handle" /\ event[2] \in Devices
    BY <1>4 DEF handleAdd, handleRemove, PumpControl
  <2>2. /\ seen' \subseteq Devices /\ ClientType' /\ SeenIsTold'
        /\ ppc' = "recv" /\ event' = NoEvent
    BY <1>4, <2>1, Reports DEF handleAdd, handleRemove, HandleType, SeenIsTold, clientVars
  <2>3. HandleType' /\ GoroutineType'
    BY <1>4, <2>2 DEF handleAdd, handleRemove, HandleType, GoroutineType, regVars
  <2>4. PumpControl'
    BY <1>4, <2>1, <2>2 DEF handleAdd, handleRemove, PumpControl, regVars
  <2>5. QED
    BY <1>4, <2>2, <2>3, <2>4 DEF handleAdd, handleRemove
<1>5. CASE pumpExit
  <2>1. KernelType' /\ HandleType'
    BY <1>5, QueueOps DEF pumpExit, KernelType, HandleType, Uevents
  <2>2. GoroutineType'
    BY <1>5 DEF pumpExit, Goto, GoroutineType, regVars
  <2>3. PumpControl' /\ SeenIsTold'
    BY <1>5 DEF pumpExit, Goto, PumpControl, SeenIsTold, regVars, clientVars
  <2>4. QED
    BY <1>5, <2>1, <2>2, <2>3 DEF pumpExit
<1>6. QED
  BY <1>1, <1>2, <1>3, <1>4, <1>5 DEF pump

LEMMA DeregisterTInv ==
  ASSUME TInv, NEW c \in Callers,
         DeregisterMark(c) \/ DeregisterWake(c) \/ DeregisterJoin(c)
  PROVE  TInv'
<1> USE SameType DEF TInv, TypeOK
<1>1. HandleType'
  BY DEF DeregisterMark, DeregisterWake, WriteWakeByte, DeregisterJoin, HandleType,
         handleVars
<1>2. GoroutineType'
  BY DEF DeregisterMark, DeregisterWake, DeregisterJoin, GoroutineType, regVars, pumpVars
<1>3. PumpControl' /\ SeenIsTold'
  BY DEF DeregisterMark, DeregisterWake, DeregisterJoin, DoneReceived, GoroutineType,
         PumpControl, SeenIsTold, handleVars, regVars, pumpVars, clientVars
<1>4. QED
  BY <1>1, <1>2, <1>3 DEF DeregisterMark, DeregisterWake, DeregisterJoin

LEMMA NextTInv == TInv /\ [Next]_vars => TInv'
<1>1. TInv /\ UNCHANGED vars => TInv'
  BY SameType DEF TInv, TypeOK, PumpControl, SeenIsTold, vars, handleVars, regVars,
                  pumpVars, clientVars
<1>2. QED
  BY <1>1, DeviceTInv, RegisterTInv, PumpTInv, DeregisterTInv DEF Next

LEMMA TInvHolds == Spec => []TInv
  BY InitTInv, NextTInv, PTL DEF Spec

\* Type correctness of the Linux hotplug watch, for any devices, any number of
\* callers of Deregister and any faults.
THEOREM TypeCorrect == Spec => []TypeOK
  BY TInvHolds, PTL DEF TInv
-----------------------------------------------------------------------------
(* What the callbacks say                                                  *)

\* A report is made by the snapshot or by the pump, and one of a departure is
\* about a device that was seen.
LEMMA ReportMade ==
  ASSUME TInv, [Next]_vars, calls' # calls
  PROVE  /\ regPc = "snapshot" \/ ppc = "handle"
         /\ lastCall'[1] = "left" => lastCall'[2] \in seen \cap Match
<1>1. CASE register
  <2>1. PICK d \in Devices : registerSnapshot(d)
    BY <1>1 DEF register, registerOpen, registerList, registerStart, clientVars
  <2>2. QED
    BY <2>1 DEF registerSnapshot, SnapshotDevice, Arrived, clientVars
<1>2. CASE pump
  <2>1. CASE handleAdd
    BY <2>1 DEF handleAdd, Arrived, clientVars
  <2>2. CASE handleRemove
    BY <2>2 DEF handleRemove, WasSeen, Left, matches, clientVars
  <2>3. QED
    BY <1>2, <2>1, <2>2 DEF pump, pumpSetup, pumpCheck, pumpWake, pumpWaitError,
                            pumpRecv, pumpExit, clientVars
<1>3. QED
  BY <1>1, <1>2 DEF Next, PlugIn, PullOut, EntryGoes, ForeignUevent, DeregisterMark,
                    DeregisterWake, DeregisterJoin, vars, clientVars

\* No departure is reported without an arrival, and nothing after the Deregister
\* that stops the watch has returned, however snapshot, uevents, pump and callers
\* interleave and whatever fails.
THEOREM CallbacksInOrder == Spec => CallbacksOrdered
<1>1. TInv /\ [Next]_vars =>
        [calls' # calls /\ lastCall'[1] = "left" => lastCall'[2] \in view]_vars
  BY ReportMade DEF TInv, SeenIsTold
<1>2. TInv /\ [Next]_vars =>
        [calls' # calls => \A c \in Callers : dpc[c] # "returned"]_vars
  <2> SUFFICES ASSUME TInv, [Next]_vars, calls' # calls, NEW c \in Callers,
                      dpc[c] = "returned"
               PROVE  FALSE
    OBVIOUS
  <2>1. ppc = "stopped" /\ regPc = "returned"
    BY DEF TInv, PumpControl
  <2>2. QED
    BY <2>1, ReportMade
<1>3. QED
  BY <1>1, <1>2, TInvHolds, PTL
  DEF Spec, CallbacksOrdered, LeftFollowsArrived, SilentAfterDeregister
-----------------------------------------------------------------------------
(* The user's view is current                                              *)

\* A uevent is queued until it is received.
LEMMA QueuedOps ==
  ASSUME NEW q \in Seq(Uevents)
  PROVE  /\ \A f \in Uevents : \A e :
               (\E i \in 1..Len(Append(q, f)) : Append(q, f)[i] = e)
                  <=> (\E i \in 1..Len(q) : q[i] = e) \/ e = f
         /\ q # <<>> => \A e :
               (\E i \in 1..Len(q) : q[i] = e)
                  <=> e = Head(q) \/ \E i \in 1..Len(Tail(q)) : Tail(q)[i] = e
<1>1. ASSUME NEW f \in Uevents, NEW e
      PROVE  (\E i \in 1..Len(Append(q, f)) : Append(q, f)[i] = e)
                <=> (\E i \in 1..Len(q) : q[i] = e) \/ e = f
  <2>1. /\ Len(Append(q, f)) = Len(q) + 1 /\ Len(q) \in Nat
        /\ \A i \in 1..Len(q) : Append(q, f)[i] = q[i]
        /\ Append(q, f)[Len(q) + 1] = f
    BY AppendProperties, LenProperties
  <2>2. \A i \in 1..(Len(q) + 1) : i \in 1..Len(q) \/ i = Len(q) + 1
    BY <2>1
  <2>3. QED
    BY <2>1, <2>2
<1>2. ASSUME q # <<>>, NEW e
      PROVE  (\E i \in 1..Len(q) : q[i] = e)
                <=> e = Head(q) \/ \E i \in 1..Len(Tail(q)) : Tail(q)[i] = e
  <2>1. /\ Len(Tail(q)) = Len(q) - 1 /\ Len(q) \in Nat \ {0}
        /\ \A i \in 1..Len(Tail(q)) : Tail(q)[i] = q[i + 1]
        /\ Head(q) = q[1]
    BY <1>2, HeadTailProperties, EmptySeq
  <2>2. ASSUME NEW i \in 1..Len(q), q[i] = e
        PROVE  e = Head(q) \/ \E j \in 1..Len(Tail(q)) : Tail(q)[j] = e
    <3>1. CASE i = 1
      BY <2>1, <2>2, <3>1
    <3>2. CASE i # 1
      <4>1. i - 1 \in 1..Len(Tail(q)) /\ (i - 1) + 1 = i
        BY <2>1, <3>2
      <4>2. Tail(q)[i - 1] = e
        BY <2>1, <2>2, <4>1
      <4>3. QED
        BY <4>1, <4>2
    <3>3. QED
      BY <3>1, <3>2
  <2>3. ASSUME NEW j \in 1..Len(Tail(q)), Tail(q)[j] = e
        PROVE  \E i \in 1..Len(q) : q[i] = e
    <3>1. j + 1 \in 1..Len(q) /\ q[j + 1] = e
      BY <2>1, <2>3
    <3>2. QED
      BY <3>1
  <2>4. Head(q) = e => \E i \in 1..Len(q) : q[i] = e
    BY <2>1
  <2>5. QED
    BY <2>2, <2>3, <2>4
<1>3. QED
  BY <1>1, <1>2

\* When nothing fails, a uevent sent to the open socket joins what is pending.
LEMMA UeventSent ==
  ASSUME TInv, Reliable, NEW d \in Devices, NEW a \in {"add", "remove", "foreign"},
         Uevent(a, d), UNCHANGED pumpVars
  PROVE  /\ overrun' = overrun
         /\ \A e : Pending(e)' <=> Pending(e) \/ (bound /\ fdsOpen /\ e = <<a, d>>)
<1>1. <<a, d>> \in Uevents /\ queue \in Seq(Uevents)
  BY DEF Uevents, TInv, TypeOK, KernelType
<1>2. overrun' = overrun /\ queue' = IF bound /\ fdsOpen THEN Append(queue, <<a, d>>)
                                                          ELSE queue
  BY DEF Uevent, Reliable
<1>3. \A e : Queued(e)' <=> Queued(e) \/ (bound /\ fdsOpen /\ e = <<a, d>>)
  BY <1>1, <1>2, QueuedOps DEF Queued
<1>4. QED
  BY <1>2, <1>3 DEF Pending, pumpVars

LEMMA DeviceCurrent ==
  ASSUME TInv, Reliable, CurrentInv, NEW d \in Devices,
         PlugIn(d) \/ PullOut(d) \/ EntryGoes(d) \/ ForeignUevent(d)
  PROVE  CurrentInv'
<1>1. UNCHANGED <<faults, bound, handleVars, regVars, pumpVars>>
  BY DEF PlugIn, PullOut, EntryGoes, ForeignUevent
<1> USE DEF CurrentInv, SocketReliable, DifferenceIsPending, RemovedIsGone, known,
            handleVars, regVars, pumpVars
<1>2. CASE PlugIn(d)
  <2>1. /\ overrun' = overrun
        /\ \A e : Pending(e)' <=> Pending(e) \/ (bound /\ fdsOpen /\ e = <<"add", d>>)
    BY <1>1, <1>2, UeventSent DEF PlugIn
  <2>2. QED
    BY <1>1, <1>2, <2>1 DEF PlugIn
<1>3. CASE PullOut(d)
  <2>1. /\ overrun' = overrun
        /\ \A e : Pending(e)' <=> Pending(e) \/ (bound /\ fdsOpen /\ e = <<"remove", d>>)
    BY <1>1, <1>3, UeventSent DEF PullOut
  <2>2. present' = present \ {d} /\ UNCHANGED <<leaving, used>> /\ d \in present
    BY <1>3 DEF PullOut, Reliable
  <2>3. QED
    BY <1>1, <2>1, <2>2
<1>4. CASE EntryGoes(d)
  BY <1>4 DEF EntryGoes
<1>5. CASE ForeignUevent(d)
  <2>1. /\ overrun' = overrun
        /\ \A e : Pending(e)' <=> Pending(e) \/ (bound /\ fdsOpen /\ e = <<"foreign", d>>)
    BY <1>1, <1>5, UeventSent DEF ForeignUevent
  <2>2. QED
    BY <1>1, <1>5, <2>1 DEF ForeignUevent
<1>6. QED
  BY <1>2, <1>3, <1>4, <1>5

LEMMA RegisterCurrent ==
  ASSUME TInv, Reliable, CurrentInv, register
  PROVE  CurrentInv'
<1> USE DEF CurrentInv, SocketReliable, DifferenceIsPending, RemovedIsGone, known,
            kernelVars, handleVars, pumpVars, TInv, PumpControl
<1>1. \A e : Pending(e)' <=> Pending(e)
  BY DEF register, registerOpen, registerList, registerSnapshot, registerStart, Pending,
         Queued
<1>2. CASE registerOpen
  BY <1>1, <1>2 DEF registerOpen
<1>3. CASE registerList
  BY <1>1, <1>3 DEF registerList, Reliable
<1>4. ASSUME NEW d \in Devices, registerSnapshot(d) PROVE CurrentInv'
  <2>1. seen' = seen \cup {d} /\ todo' = todo \ {d} /\ d \in todo
    BY <1>4 DEF registerSnapshot, SnapshotDevice
  <2>2. QED
    BY <1>1, <1>4, <2>1 DEF registerSnapshot
<1>5. CASE registerStart
  BY <1>1, <1>5 DEF registerStart
<1>6. QED
  BY <1>2, <1>3, <1>4, <1>5 DEF register

LEMMA PumpCurrent ==
  ASSUME TInv, Reliable, CurrentInv, pump
  PROVE  CurrentInv'
<1> USE DEF CurrentInv, SocketReliable, DifferenceIsPending, RemovedIsGone, known,
            kernelVars, handleVars, regVars
<1>0. regPc = "returned" /\ todo = {} /\ ppc # "stopped"
  BY DEF TInv, PumpControl, pump, pumpSetup, pumpCheck, pumpWake, pumpWaitError,
         pumpRecv, handleAdd, handleRemove, pumpExit
<1>1. CASE pumpSetup \/ pumpCheck \/ pumpWake \/ pumpWaitError
  <2>1. \A e : Pending(e)' <=> Pending(e)
    BY <1>1 DEF pumpSetup, pumpCheck, pumpWake, pumpWaitError, Goto, Pending, Queued
  <2>2. UNCHANGED <<kernelVars, seen, fdsOpen, regVars>> /\ ppc' # "stopped"
    BY <1>1 DEF pumpSetup, pumpCheck, pumpWake, pumpWaitError, Goto
  <2>3. QED
    BY <1>0, <2>1, <2>2
<1>2. CASE pumpRecv
  <2>1. UNCHANGED <<faults, present, leaving, used, bound, seen, fdsOpen, regVars>>
        /\ ppc' # "stopped" /\ overrun' = overrun
    BY <1>2 DEF pumpRecv, Goto
  <2>2. ASSUME NEW e, e[1] # "foreign" PROVE Pending(e)' <=> Pending(e)
    <3>1. CASE queue = <<>>
      BY <1>2, <3>1 DEF pumpRecv, Goto, Pending, Queued
    <3>2. CASE queue # <<>>
      <4>1. Queued(e) <=> e = Head(queue) \/ Queued(e)'
        <5>1. queue \in Seq(Uevents) /\ queue' = Tail(queue)
          BY <1>2, <3>2 DEF pumpRecv, TInv, TypeOK, KernelType, Uevents
        <5>2. QED
          BY <3>2, <5>1, QueuedOps DEF Queued
      <4>2. (ppc' = "handle" /\ event' = Head(queue)) \/
            (ppc' = "recv" /\ Head(queue)[1] = "foreign")
        BY <1>2, <3>2 DEF pumpRecv, Goto
      <4>3. QED
        BY <1>2, <2>2, <4>1, <4>2 DEF pumpRecv, Pending
    <3>3. QED
      BY <3>1, <3>2
  <2>3. QED
    BY <1>0, <2>1, <2>2
<1>3. CASE handleAdd \/ handleRemove
  <2>1. UNCHANGED <<kernelVars, fdsOpen, regVars>> /\ ppc' = "recv" /\ ppc = "handle"
    BY <1>3 DEF handleAdd, handleRemove
  <2>2. \A e : Pending(e) <=> Pending(e)' \/ e = event
    BY <2>1 DEF Pending, Queued
  <2>3. PICK a \in {"add", "remove"}, d \in Devices : event = <<a, d>>
    BY <2>1 DEF TInv, PumpControl
  <2>4. CASE a = "add"
    <3>1. IF d \in present THEN seen' = seen \cup {d} ELSE seen' = seen
      BY <1>3, <2>3, <2>4 DEF handleAdd, handleRemove, findDevice, Reliable
    <3>2. QED
      BY <1>0, <2>1, <2>2, <2>3, <2>4, <3>1
  <2>5. CASE a = "remove"
    <3>1. seen' = seen \ {d}
      BY <1>3, <2>3, <2>5 DEF handleAdd, handleRemove, WasSeen
    <3>2. QED
      BY <1>0, <2>1, <2>2, <2>3, <2>5, <3>1
  <2>6. QED
    BY <2>3, <2>4, <2>5
<1>4. CASE pumpExit
  <2>1. \A e : ~Pending(e)'
    BY <1>4 DEF pumpExit, Goto, Pending, Queued
  <2>2. QED
    BY <1>4, <2>1 DEF pumpExit, Goto
<1>5. QED
  BY <1>1, <1>2, <1>3, <1>4 DEF pump

LEMMA NextCurrent == TInv /\ CurrentInv /\ [Next]_vars => CurrentInv'
<1> SUFFICES ASSUME TInv, CurrentInv, [Next]_vars, Reliable' PROVE CurrentInv'
  BY DEF CurrentInv
<1>1. faults' = faults /\ Reliable
  BY DEF Next, PlugIn, PullOut, EntryGoes, ForeignUevent, register, registerOpen,
         registerList, registerSnapshot, registerStart, pump, pumpSetup, pumpCheck,
         pumpWake, pumpWaitError, pumpRecv, handleAdd, handleRemove, pumpExit,
         DeregisterMark, DeregisterWake, DeregisterJoin, vars, kernelVars, Reliable
<1>2. ASSUME UNCHANGED <<kernelVars, seen, fdsOpen, regVars, pumpVars>>
      PROVE  CurrentInv'
  BY <1>1, <1>2 DEF CurrentInv, SocketReliable, DifferenceIsPending, RemovedIsGone,
                    known, Pending, Queued, kernelVars, regVars, pumpVars
<1>3. ASSUME NEW c \in Callers,
             DeregisterMark(c) \/ DeregisterWake(c) \/ DeregisterJoin(c)
      PROVE  CurrentInv'
  BY <1>2, <1>3 DEF DeregisterMark, DeregisterWake, DeregisterJoin, handleVars
<1>4. CASE UNCHANGED vars
  BY <1>2, <1>4 DEF vars, handleVars
<1>5. QED
  BY <1>1, <1>3, <1>4, DeviceCurrent, RegisterCurrent, PumpCurrent DEF Next

\* As long as sysfs, the socket and DeviceList do not fail, a pump that sleeps with
\* nothing to read has told the user of exactly the matching devices that are
\* connected, whatever was plugged in or out while the snapshot was taken.
THEOREM ViewMatchesBus == Spec => []ViewIsCurrent
<1>1. Init => CurrentInv
  BY DEF Init, CurrentInv, SocketReliable, DifferenceIsPending, RemovedIsGone, Pending,
         Queued
<1>2. TInv /\ CurrentInv => ViewIsCurrent
  <2> SUFFICES ASSUME TInv, CurrentInv, Reliable, ppc = "wait", queue = <<>>
               PROVE  view = present \cap Match
    BY DEF ViewIsCurrent, SocketReady, Reliable
  <2>1. \A e : ~Pending(e)
    BY DEF Pending, Queued
  <2>2. regPc = "returned" /\ todo = {}
    BY DEF TInv, PumpControl
  <2>3. seen \subseteq Devices /\ present \subseteq Devices
    BY DEF TInv, TypeOK, KernelType, HandleType
  <2>4. seen = present
    BY <2>1, <2>2, <2>3 DEF CurrentInv, DifferenceIsPending, known
  <2>5. QED
    BY <2>4 DEF TInv, SeenIsTold
<1>3. QED
  BY <1>1, <1>2, NextCurrent, TInvHolds, PTL DEF Spec
-------------------------------------------------------------------------------
(* The device handle                                                       *)

USE HandleConstants DEF U!ConstantsAssumption, U!origin, U!Unlisted

\* The handle has at most one file open, the one it opened last, behind its own
\* descriptor; that file alone has claims; and it is there until Close has returned.
OneFile ==
    /\ \A n \in Fds : fdTable[n] \in U!Files => n = fd /\ fdTable[n] = opens
    /\ \A i \in Ifaces : owner[i] \in U!Files => owner[i] = opens
    /\ (\A p \in Procs : pc[p] # "closed") => fdTable[fd] = opens
    /\ \A p \in Procs : pc[p] \in {"closeRelease", "closed"} => closed

\* A reader got the descriptor that the handle still has, and keeps Close out.
ReadersKeepFile ==
    \A p \in U!Readers : useFd[p] = fd /\ \A q \in Procs : pc[q] # "closed"

\* The retry loop is past a timeout only with the halt cleared.
RetryCleared ==
    \A p \in Procs : pc[p] \in {"retryIoctl", "retryNext"} => lastErr[p] # "timeout"

HandleInv ==
    /\ U!TypeOK /\ OneFile /\ ReadersKeepFile /\ RetryCleared
    /\ U!ClaimsMatchKernel /\ U!CloseReleasesAll

\* The owners of an interface that are no file of the handle, and its files.
LEMMA FileNumbers ==
  /\ U!Files = 1..MaxOpens /\ 1 \in U!Files
  /\ U!Free \notin U!Files /\ U!NoFile \notin U!Files /\ U!Foreign \notin U!Files
  /\ U!Driver \notin U!Files /\ U!Other \notin U!Files
  BY DEF U!Files, U!Free, U!NoFile, U!Foreign, U!Driver, U!Other

LEMMA InitHandle == U!Init => HandleInv
<1> SUFFICES ASSUME U!Init PROVE HandleInv
  OBVIOUS
<1>1. U!TypeOK
  <2>1. U!KernelType
    BY FileNumbers DEF U!Init, U!KernelType, U!Files
  <2>2. U!HandleType
    BY FileNumbers DEF U!Init, U!HandleType
  <2>3. U!ProcType
    BY DEF U!Init, U!ProcType
  <2>4. QED
    BY <2>1, <2>2, <2>3 DEF U!TypeOK
<1>2. OneFile
  BY FileNumbers DEF U!Init, OneFile
<1>3. ReadersKeepFile /\ RetryCleared /\ U!CloseReleasesAll
  BY DEF U!Init, ReadersKeepFile, RetryCleared, U!CloseReleasesAll, U!Readers
<1>4. U!ClaimsMatchKernel
  BY FileNumbers DEF U!Init, U!ClaimsMatchKernel, U!File
<1>5. QED
  BY <1>1, <1>2, <1>3, <1>4 DEF HandleInv
-------------------------------------------------------------------------------
(* Steps                                                                   *)

\* Steps of a goroutine that leave the kernel and the handle alone: it may enter a
\* transfer on the open handle, leave one, or retry after clearing the halt.
LEMMA GoroutineSteps ==
  ASSUME HandleInv, UNCHANGED <<U!kernelVars, U!handleVars>>, U!ProcType', RetryCleared',
         \A q \in Procs : /\ pc'[q] = "closed" <=> pc[q] = "closed"
                          /\ pc'[q] = "closeRelease" => pc[q] = "closeRelease",
         \A q \in Procs : pc'[q] \in {"ioctl", "retryIoctl"} =>
             \/ pc[q] \in {"ioctl", "retryIoctl"} /\ useFd'[q] = useFd[q]
             \/ ~closed /\ useFd'[q] = fd
  PROVE  HandleInv'
<1> USE DEF U!kernelVars, U!handleVars, HandleInv
<1>1. U!TypeOK'
  BY DEF U!TypeOK, U!KernelType, U!HandleType
<1>2. OneFile'
  BY DEF OneFile
<1>3. ReadersKeepFile'
  BY DEF ReadersKeepFile, OneFile, U!Readers
<1>4. U!ClaimsMatchKernel' /\ U!CloseReleasesAll'
  BY DEF U!ClaimsMatchKernel, U!CloseReleasesAll, U!File
<1>5. QED
  BY <1>1, <1>2, <1>3, <1>4

\* A call that returns forgets its local variables.
LEMMA ReturnType ==
  ASSUME U!ProcType, NEW p \in Procs, U!Return(p)
  PROVE  /\ U!ProcType' /\ pc' = [pc EXCEPT ![p] = "idle"]
         /\ \A q \in Procs : q # p => useFd'[q] = useFd[q]
<1>1. 0 \in 0..MaxRetries
  OBVIOUS
<1>2. QED
  BY <1>1 DEF U!ProcType, U!Return, U!Goto

LEMMA TransferSteps ==
  ASSUME HandleInv, NEW p \in Procs,
         \/ \E lim \in BOOLEAN : U!TransferEnter(p, lim)
         \/ U!TransferReturn(p) \/ U!Unlocked(p) \/ U!UnlockedReturn(p) \/ U!CloseEnter(p)
         \/ U!Retry(p)
  PROVE  HandleInv'
<1>t. U!ProcType /\ U!HandleType /\ RetryCleared /\ closed \in BOOLEAN
  BY DEF HandleInv, U!TypeOK, U!HandleType
<1>r. U!Return(p) => RetryCleared'
  BY <1>t DEF U!Return, U!Goto, RetryCleared, U!ProcType
<1>d. DOMAIN pc = Procs
  BY <1>t DEF U!ProcType
<1> USE DEF U!ReadEnter, U!Goto, U!HandleType, RetryCleared
<1>1. CASE \E lim \in BOOLEAN : U!TransferEnter(p, lim)
  <2>1. U!ProcType'
    BY <1>1, <1>t DEF U!TransferEnter, U!Return, U!ProcType
  <2>2. UNCHANGED <<U!kernelVars, U!handleVars>> /\ RetryCleared'
    BY <1>1, <1>t DEF U!TransferEnter, U!Return, U!ProcType
  <2>3. QED
    BY <1>1, <1>t, <2>1, <2>2, GoroutineSteps DEF U!TransferEnter, U!Return, U!ProcType
<1>2. CASE U!TransferReturn(p) \/ U!UnlockedReturn(p)
  <2>1. U!Return(p) /\ UNCHANGED <<U!kernelVars, U!handleVars>>
    BY <1>2 DEF U!TransferReturn, U!UnlockedReturn
  <2>2. U!ProcType' /\ pc' = [pc EXCEPT ![p] = "idle"]
        /\ \A q \in Procs : q # p => useFd'[q] = useFd[q]
    BY <1>t, <2>1, ReturnType
  <2>3. RetryCleared'
    BY <1>r, <2>1
  <2>4. \A q \in Procs : pc'[q] = IF q = p THEN "idle" ELSE pc[q]
    BY <1>d, <2>2
  <2>5. pc[p] # "closed"
    BY <1>2 DEF U!TransferReturn, U!UnlockedReturn
  <2>6. QED
    BY <2>1, <2>2, <2>3, <2>4, <2>5, GoroutineSteps
<1>3. CASE U!Unlocked(p)
  BY <1>3, <1>t, GoroutineSteps DEF U!Unlocked, U!Return, U!ProcType
<1>4. CASE U!CloseEnter(p)
  BY <1>4, <1>t, GoroutineSteps DEF U!CloseEnter, U!Return, U!ProcType
<1>5. CASE U!retryStart(p)
  <2>1. U!ProcType'
    BY <1>5, <1>t DEF U!retryStart, U!Return, U!ProcType
  <2>2. UNCHANGED <<U!kernelVars, U!handleVars>> /\ RetryCleared'
    BY <1>5, <1>t DEF U!retryStart, U!Return, U!ProcType
  <2>3. QED
    BY <1>5, <1>t, <2>1, <2>2, GoroutineSteps DEF U!retryStart, U!Return, U!ProcType
<1>6. CASE U!retryReturn(p)
  <2>1. U!ProcType'
    <3>1. CASE U!Return(p)
      BY <1>t, <3>1, ReturnType
    <3>2. CASE ~U!Return(p)
      BY <1>6, <1>t, <3>2 DEF U!retryReturn, U!ProcType
    <3>3. QED
      BY <3>1, <3>2
  <2>2. UNCHANGED <<U!kernelVars, U!handleVars>> /\ RetryCleared'
    BY <1>6, <1>t DEF U!retryReturn, U!Return, U!ProcType
  <2>3. QED
    BY <1>6, <1>t, <2>1, <2>2, GoroutineSteps DEF U!retryReturn, U!Return, U!ProcType
<1>7. CASE U!retryClearHalt(p)
  <2>1. U!ProcType'
    <3>1. CASE U!Return(p)
      BY <1>t, <3>1, ReturnType
    <3>2. CASE ~U!Return(p)
      BY <1>7, <1>t, <3>2 DEF U!retryClearHalt, U!ProcType
    <3>3. QED
      BY <3>1, <3>2
  <2>2. UNCHANGED <<U!kernelVars, U!handleVars>> /\ RetryCleared'
    BY <1>7, <1>t DEF U!retryClearHalt, U!Return, U!ProcType
  <2>3. QED
    BY <1>7, <1>t, <2>1, <2>2, GoroutineSteps DEF U!retryClearHalt, U!Return, U!ProcType
<1>8. CASE U!retrySkip(p)
  BY <1>8, <1>t, GoroutineSteps DEF U!retrySkip, U!ClearsHalt, U!Return, U!ProcType
<1>9. CASE U!retryNext(p)
  <2>1. U!ProcType'
    <3>1. CASE U!Return(p)
      BY <1>t, <3>1, ReturnType
    <3>2. CASE ~U!Return(p)
      BY <1>9, <1>t, <3>2 DEF U!retryNext, U!MoreAttempts, U!ProcType
    <3>3. QED
      BY <3>1, <3>2
  <2>2. UNCHANGED <<U!kernelVars, U!handleVars>> /\ RetryCleared'
    BY <1>9, <1>t DEF U!retryNext, U!MoreAttempts, U!Return, U!ProcType
  <2>3. QED
    BY <1>9, <1>t, <2>1, <2>2, GoroutineSteps DEF U!retryNext, U!MoreAttempts, U!Return, U!ProcType
<1>10. QED
  BY <1>1, <1>2, <1>3, <1>4, <1>5, <1>6, <1>7, <1>8, <1>9 DEF U!Retry

\* Other processes and the rest of this one: they open other files, claim and
\* release other interfaces, and unplug the device.
LEMMA KernelSteps ==
  ASSUME HandleInv,
         U!Unplug \/ U!ForeignOpen \/ U!ForeignClose \/ U!OtherProcess
  PROVE  HandleInv'
<1> USE FileNumbers DEF HandleInv, U!handleVars, U!procVars
<1>t. U!KernelType /\ U!HandleType
  BY DEF U!TypeOK
<1>1. UNCHANGED <<U!handleVars, U!procVars>>
  BY DEF U!Unplug, U!ForeignOpen, U!ForeignClose, U!OtherProcess
<1>2. U!KernelType'
  BY <1>t DEF U!KernelType, U!Unplug, U!ForeignOpen, U!ForeignClose, U!OtherProcess
<1>3. U!TypeOK' /\ RetryCleared' /\ ReadersKeepFile'
  BY <1>1, <1>2 DEF U!TypeOK, U!HandleType, U!ProcType, RetryCleared, ReadersKeepFile, U!Readers
<1>4. /\ \A i \in Ifaces : owner'[i] \in U!Files => owner'[i] = owner[i]
      /\ \A i \in Ifaces : ~gone' /\ owner[i] \in U!Files => owner'[i] = owner[i]
      /\ gone => gone'
  BY <1>t DEF U!KernelType, U!Unplug, U!ForeignOpen, U!ForeignClose, U!OtherProcess
<1>5. \A n \in Fds : (fdTable'[n] \in U!Files \/ fdTable[n] \in U!Files) => fdTable'[n] = fdTable[n]
  BY <1>t DEF U!KernelType, U!Unplug, U!ForeignOpen, U!ForeignClose, U!OtherProcess
<1>6. OneFile'
  BY <1>1, <1>4, <1>5, <1>t DEF OneFile, U!HandleType
<1>7. U!CloseReleasesAll'
  BY <1>1, <1>4, <1>5 DEF U!CloseReleasesAll
<1>8. U!ClaimsMatchKernel'
  <2> SUFFICES ASSUME ~gone', ~closed'
               PROVE  LET held == {i \in Ifaces : owner'[i] = U!File'} IN
                        /\ held \subseteq claimedIfaces' \cup U!Unlisted'
                        /\ ~wrapped' => claimedIfaces' \subseteq held
    BY DEF U!ClaimsMatchKernel
  <2>1. ~gone /\ ~closed /\ fdTable[fd] = opens /\ opens \in U!Files
    BY <1>1, <1>4, <1>t DEF OneFile, U!HandleType, U!KernelType
  <2>2. U!File' = U!File /\ U!File \in U!Files
    BY <1>1, <1>5, <1>t, <2>1 DEF U!File, U!HandleType
  <2>3. {i \in Ifaces : owner'[i] = U!File'} = {i \in Ifaces : owner[i] = U!File}
    BY <1>4, <2>2
  <2>4. QED
    BY <1>1, <2>1, <2>3 DEF U!ClaimsMatchKernel, U!Unlisted
<1>9. QED
  BY <1>3, <1>6, <1>7, <1>8

\* What the operations under the write lock have in common: the handle is open,
\* nobody reads, and no goroutine moves.
LEMMA LockedSteps ==
  ASSUME HandleInv, NEW p \in Procs, U!WriteOp(p), UNCHANGED <<U!procVars, closed, U!origin, gone>>
  PROVE  /\ ~closed /\ fdTable[fd] = opens /\ opens \in U!Files
         /\ U!ProcType' /\ ReadersKeepFile' /\ RetryCleared' /\ U!CloseReleasesAll'
         /\ \A q \in Procs : pc[q] \notin {"closeRelease", "closed"}
<1> USE DEF HandleInv, U!procVars
<1>1. ~closed /\ U!Readers = {}
  BY DEF U!WriteOp, U!LockFree
<1>2. \A q \in Procs : pc[q] \notin {"closeRelease", "closed"}
  BY <1>1 DEF OneFile
<1>3. fdTable[fd] = opens /\ opens \in U!Files
  BY <1>2 DEF OneFile, U!TypeOK, U!HandleType
<1>4. U!ProcType' /\ RetryCleared' /\ U!CloseReleasesAll'
  BY <1>2 DEF U!TypeOK, U!ProcType, RetryCleared, U!CloseReleasesAll
<1>5. ReadersKeepFile'
  BY <1>1 DEF ReadersKeepFile, U!Readers
<1>6. QED
  BY <1>1, <1>2, <1>3, <1>4, <1>5

LEMMA ClaimSteps ==
  ASSUME HandleInv, NEW p \in Procs, NEW i \in Ifaces,
         \/ U!ClaimInterface(p, i) \/ U!ReleaseInterface(p, i)
         \/ U!DetachKernelDriver(p, i) \/ U!AttachKernelDriver(p, i)
         \/ U!DeviceRequest(p, i) \/ U!SetInterfaceAltSetting(p, i)
  PROVE  HandleInv'
<1> USE FileNumbers
<1>1. U!WriteOp(p) /\ UNCHANGED <<U!procVars, closed, U!origin, gone, fdTable, fd, opens>>
  BY DEF U!ClaimInterface, U!ReleaseInterface, U!DetachKernelDriver, U!AttachKernelDriver,
         U!DeviceRequest, U!SetInterfaceAltSetting, U!WriteOpKeeps, U!procVars
<1>2. /\ ~closed /\ fdTable[fd] = opens /\ opens \in U!Files
      /\ U!ProcType' /\ ReadersKeepFile' /\ RetryCleared' /\ U!CloseReleasesAll'
  BY <1>1, LockedSteps
<1>t. U!KernelType /\ U!HandleType /\ U!ClaimsMatchKernel /\ OneFile
  BY DEF HandleInv, U!TypeOK
<1>3. /\ owner' \in [Ifaces -> U!Files \cup {U!Free, U!Driver, U!Other}]
      /\ claimedIfaces' \subseteq Ifaces
  BY <1>t, <1>2 DEF U!KernelType, U!HandleType, U!ClaimInterface, U!ReleaseInterface,
     U!DetachKernelDriver, U!AttachKernelDriver, U!DeviceRequest,
     U!SetInterfaceAltSetting, U!Released, U!File
<1>4. U!TypeOK'
  BY <1>t, <1>1, <1>2, <1>3 DEF U!TypeOK, U!KernelType, U!HandleType
<1>5. \A j \in Ifaces : owner'[j] \in U!Files => owner'[j] = opens
  BY <1>t, <1>2 DEF OneFile, U!KernelType, U!ClaimInterface, U!ReleaseInterface,
     U!DetachKernelDriver, U!AttachKernelDriver, U!DeviceRequest,
     U!SetInterfaceAltSetting, U!File
<1>6. OneFile'
  BY <1>t, <1>1, <1>5 DEF OneFile, U!procVars
<1>7. U!ClaimsMatchKernel'
  <2> DEFINE held == {j \in Ifaces : owner[j] = opens}
             heldNext == {j \in Ifaces : owner'[j] = opens}
  <2>1. U!File = opens /\ U!File' = opens
    BY <1>1, <1>2 DEF U!File
  <2>u. U!Unlisted' = U!Unlisted /\ wrapped' = wrapped /\ gone' = gone
    BY <1>1 DEF U!Unlisted, U!origin
  <2>2. ~gone => /\ held \subseteq claimedIfaces \cup U!Unlisted
                 /\ ~wrapped => claimedIfaces \subseteq held
    BY <1>t, <1>2, <2>1 DEF U!ClaimsMatchKernel
  <2>3. CASE UNCHANGED <<owner, claimedIfaces>>
    BY <2>1, <2>2, <2>3, <2>u DEF U!ClaimsMatchKernel
  <2>4. CASE owner' = [owner EXCEPT ![i] = opens] /\ claimedIfaces' = claimedIfaces \cup {i}
    <3>1. heldNext = held \cup {i}
      BY <1>t, <2>4 DEF U!KernelType
    <3>2. QED
      BY <2>1, <2>2, <2>u, <2>4, <3>1 DEF U!ClaimsMatchKernel
  <2>5. CASE UNCHANGED owner /\ claimedIfaces' = claimedIfaces \cup {i} /\ wrapped
    BY <2>1, <2>2, <2>u, <2>5 DEF U!ClaimsMatchKernel
  <2>6. CASE /\ owner[i] = opens /\ owner' = [owner EXCEPT ![i] = U!Free]
             /\ claimedIfaces' = claimedIfaces \ {i}
    <3>1. heldNext = held \ {i}
      BY <1>t, <1>2, <2>6 DEF U!KernelType
    <3>2. QED
      BY <2>1, <2>2, <2>u, <2>6, <3>1 DEF U!ClaimsMatchKernel
  <2>7. CASE /\ UNCHANGED claimedIfaces /\ owner[i] \in {U!Free, U!Driver}
             /\ \E o \in {U!Free, U!Driver} : owner' = [owner EXCEPT ![i] = o]
    <3>1. heldNext = held
      BY <1>t, <1>2, <2>7 DEF U!KernelType
    <3>2. QED
      BY <2>1, <2>2, <2>u, <2>7, <3>1 DEF U!ClaimsMatchKernel
  <2>8. QED
    BY <2>1, <2>3, <2>4, <2>5, <2>6, <2>7
       DEF U!ClaimInterface, U!BusyIsSuccess, U!ReleaseInterface, U!Released,
           U!DetachKernelDriver, U!AttachKernelDriver, U!DeviceRequest,
           U!SetInterfaceAltSetting
<1>8. QED
  BY <1>2, <1>4, <1>6, <1>7 DEF HandleInv

LEMMA ResetStep ==
  ASSUME HandleInv, NEW p \in Procs, U!ResetDevice(p)
  PROVE  HandleInv'
<1> USE FileNumbers
<1>1. U!WriteOp(p) /\ UNCHANGED <<U!procVars, closed, U!origin, gone>>
  BY DEF U!ResetDevice, U!kernelVars
<1>2. /\ ~closed /\ fdTable[fd] = opens /\ opens \in U!Files
      /\ U!ProcType' /\ ReadersKeepFile' /\ RetryCleared' /\ U!CloseReleasesAll'
  BY <1>1, LockedSteps
<1>t. U!KernelType /\ U!HandleType /\ U!ClaimsMatchKernel /\ OneFile
  BY DEF HandleInv, U!TypeOK
<1>3. CASE UNCHANGED <<U!kernelVars, fd, claimedIfaces, opens>>
  <2>1. U!KernelType' /\ U!HandleType' /\ OneFile' /\ U!ClaimsMatchKernel'
    BY <1>1, <1>t, <1>3 DEF U!KernelType, U!HandleType, OneFile, U!ClaimsMatchKernel,
       U!File, U!kernelVars, U!procVars
  <2>2. QED
    BY <1>2, <2>1 DEF HandleInv, U!TypeOK
<1>4. CASE opens' = opens + 1
  <2>1. PICK n \in Fds :
           /\ fdTable[n] = U!NoFile /\ fd' = n
           /\ fdTable' = [fdTable EXCEPT ![n] = opens + 1, ![fd] = U!NoFile]
    BY <1>t, <1>4 DEF U!ResetDevice, U!Reopened, U!HandleType, U!Files
  <2>2. /\ opens + 1 \in U!Files /\ opens + 1 # opens
        /\ owner' = U!Dropped(opens) /\ claimedIfaces' = {}
    BY <1>t, <1>2, <1>4 DEF U!ResetDevice, U!ResetClaims, U!HandleType, U!Files, U!File
  <2>3. n # fd
    BY <1>2, <2>1
  <2>4. U!KernelType' /\ U!HandleType'
    BY <1>1, <1>t, <1>4, <2>1, <2>2 DEF U!KernelType, U!HandleType, U!Dropped
  <2>5. \A j \in Ifaces : owner'[j] \notin U!Files
    BY <1>t, <2>2 DEF U!Dropped, OneFile
  <2>6. \A m \in Fds : fdTable'[m] = IF m = n THEN opens + 1
                                     ELSE IF m = fd THEN U!NoFile ELSE fdTable[m]
    BY <1>t, <2>1, <2>3 DEF U!KernelType, U!HandleType
  <2>7. OneFile'
    BY <1>1, <1>2, <1>4, <1>t, <2>1, <2>5, <2>6 DEF OneFile, U!procVars
  <2>8. U!File' = opens + 1
    BY <2>1, <2>6 DEF U!File
  <2>9. U!ClaimsMatchKernel'
    BY <1>1, <2>2, <2>5, <2>8 DEF U!ClaimsMatchKernel
  <2>10. QED
    BY <1>2, <2>4, <2>7, <2>9 DEF HandleInv, U!TypeOK
<1>5. QED
  BY <1>3, <1>4 DEF U!ResetDevice

LEMMA CloseSteps ==
  ASSUME HandleInv, NEW p \in Procs, U!CloseMark(p) \/ U!CloseRelease(p)
  PROVE  HandleInv'
<1> USE FileNumbers
<1>t. /\ U!KernelType /\ U!HandleType /\ U!ProcType /\ OneFile /\ ReadersKeepFile
      /\ RetryCleared /\ U!CloseReleasesAll
  BY DEF HandleInv, U!TypeOK
<1>1. U!Readers = {} /\ UNCHANGED <<gone, fd, U!origin, opens, attempt, useFd, limited, lastErr>>
  BY DEF U!CloseMark, U!CloseRelease, U!LockFree, U!kernelVars
<1>2. /\ closed' /\ \A q \in Procs : q # p => pc'[q] = pc[q]
      /\ pc'[p] \in {"idle", "closeRelease", "closed"} /\ U!ProcType'
  <2>1. closed'
    BY <1>t DEF U!CloseMark, U!CloseRelease, OneFile
  <2>2. \E l \in {"idle", "closeRelease", "closed"} : pc' = [pc EXCEPT ![p] = l]
    BY DEF U!CloseMark, U!CloseRelease, U!Goto
  <2>3. QED
    BY <1>1, <1>t, <2>1, <2>2 DEF U!ProcType
<1>3. ReadersKeepFile' /\ RetryCleared' /\ U!ClaimsMatchKernel'
  BY <1>1, <1>2, <1>t DEF U!Readers, ReadersKeepFile, RetryCleared, U!ClaimsMatchKernel
<1>4. CASE U!CloseMark(p)
  <2>1. pc[p] # "closed" /\ pc'[p] # "closed"
        /\ UNCHANGED <<fdTable, owner, fd, claimedIfaces, opens>>
    BY <1>t, <1>4 DEF U!CloseMark, U!Goto, U!ProcType, U!kernelVars
  <2>2. U!KernelType' /\ U!HandleType' /\ OneFile' /\ U!CloseReleasesAll'
    BY <1>1, <1>2, <1>t, <2>1 DEF U!KernelType, U!HandleType, OneFile, U!CloseReleasesAll
  <2>3. QED
    BY <1>2, <1>3, <2>2 DEF HandleInv, U!TypeOK
<1>5. CASE U!CloseRelease(p)
  <2>1. /\ owner' = U!Dropped(U!File) /\ fdTable' = [fdTable EXCEPT ![fd] = U!NoFile]
        /\ claimedIfaces' \subseteq claimedIfaces /\ pc'[p] = "closed"
    BY <1>t, <1>5 DEF U!CloseRelease, U!Goto, U!ProcType
  <2>2. U!KernelType' /\ U!HandleType'
    BY <1>1, <1>2, <1>t, <2>1 DEF U!KernelType, U!HandleType, U!Dropped
  <2>3. \A n \in Fds : fdTable'[n] \notin U!Files
    BY <1>t, <2>1 DEF OneFile, U!KernelType, U!HandleType
  <2>4. \A i \in Ifaces : owner'[i] \notin U!Files
    BY <1>t, <2>1 DEF OneFile, U!CloseReleasesAll, U!Dropped, U!File
  <2>5. OneFile' /\ U!CloseReleasesAll'
    BY <1>2, <2>1, <2>3, <2>4 DEF OneFile, U!CloseReleasesAll
  <2>6. QED
    BY <1>2, <1>3, <2>2, <2>5 DEF HandleInv, U!TypeOK
<1>6. QED
  BY <1>4, <1>5

\* No step breaks the invariant.
LEMMA NextHandle == HandleInv /\ [U!Next]_U!vars => HandleInv'
<1> SUFFICES ASSUME HandleInv, [U!Next]_U!vars PROVE HandleInv'
  OBVIOUS
<1>1. ASSUME UNCHANGED U!vars PROVE HandleInv'
  BY <1>1 DEF U!vars, U!kernelVars, U!handleVars, U!procVars, HandleInv, U!TypeOK,
     U!KernelType, U!HandleType, U!ProcType, OneFile, ReadersKeepFile, RetryCleared,
     U!ClaimsMatchKernel, U!CloseReleasesAll, U!Readers, U!File
<1>2. CASE U!Unplug \/ U!ForeignOpen \/ U!ForeignClose \/ U!OtherProcess
  BY <1>2, KernelSteps
<1>3. ASSUME NEW p \in Procs, U!Locked(p) \/ U!Unlocked(p) \/ U!UnlockedReturn(p)
      PROVE  HandleInv'
  <2>1. CASE U!UsbfsQuery(p) \/ U!CloseAgain(p)
    BY <1>1, <2>1 DEF U!UsbfsQuery, U!CloseAgain
  <2>2. CASE \E i \in Ifaces : \/ U!ClaimInterface(p, i) \/ U!ReleaseInterface(p, i)
                              \/ U!DetachKernelDriver(p, i) \/ U!AttachKernelDriver(p, i)
                              \/ U!DeviceRequest(p, i) \/ U!SetInterfaceAltSetting(p, i)
    BY <2>2, ClaimSteps
  <2>3. CASE U!ResetDevice(p)
    BY <2>3, ResetStep
  <2>4. CASE U!Request(p) /\ ~U!UsbfsQuery(p)
    <3>1. \E lim \in BOOLEAN : U!TransferEnter(p, lim)
      BY <2>4 DEF U!Request, U!ControlTransfer, U!BulkTransferWithOptions,
         U!FeatureRequest, U!DescriptorRequest, U!RawConfigDescriptor, U!ResetEndpoint
    <3>2. QED
      BY <3>1, TransferSteps
  <2>5. CASE U!TransferReturn(p) \/ U!Retry(p) \/ U!Unlocked(p) \/ U!UnlockedReturn(p)
             \/ U!CloseEnter(p)
    BY <2>5, TransferSteps
  <2>6. CASE U!CloseMark(p) \/ U!CloseRelease(p)
    BY <2>6, CloseSteps
  <2>7. QED
    BY <1>3, <2>1, <2>2, <2>3, <2>4, <2>5, <2>6 DEF U!Locked, U!Close
<1>4. QED
  BY <1>1, <1>2, <1>3 DEF U!Next
-------------------------------------------------------------------------------
(* Theorems                                                                *)

\* Every step of the composition is a step of the handle or leaves it alone.
LEMMA HandleInvariant == MCSpec => []HandleInv
<1>1. MCInit => HandleInv
  BY InitHandle DEF MCInit
<1>2. HandleInv /\ [MCNext]_allVars => HandleInv'
  <2>1. [MCNext]_allVars => [U!Next]_U!vars
    BY DEF MCNext, allVars, handleAll, U!vars, U!kernelVars, U!handleVars, U!procVars
  <2>2. QED
    BY <2>1, NextHandle
<1>3. QED
  BY <1>1, <1>2, PTL DEF MCSpec

\* While the handle is open, claimedIfaces is what the kernel has claimed for the
\* handle's descriptor, but for what a wrapped descriptor had claimed before and for
\* what EBUSY makes a wrapped handle list; Close leaves no claim and no descriptor.
THEOREM ClaimsBalance == MCSpec => []ClaimsAccounted
<1>1. HandleInv => ClaimsAccounted
  BY DEF HandleInv, ClaimsAccounted
<1>2. QED
  BY <1>1, HandleInvariant, PTL

\* A transfer under the read lock goes to the file the handle has, which neither
\* ResetDevice nor Close replaces under it; and after a timeout the retry loop makes no
\* attempt before the halt has been cleared (device_linux.go).
THEOREM TransfersStayOnFile == MCSpec => []TransfersSafe
<1>1. HandleInv => TransfersSafe
  <2> SUFFICES ASSUME HandleInv PROVE TransfersSafe
    OBVIOUS
  <2>1. U!HaltClearedBeforeRetry
    BY DEF HandleInv, RetryCleared, U!HaltClearedBeforeRetry
  <2>2. U!LockedTransferOnOwnFile
    BY DEF HandleInv, OneFile, ReadersKeepFile, U!LockedTransferOnOwnFile
  <2>3. QED
    BY <2>1, <2>2 DEF TransfersSafe
<1>2. QED
  BY <1>1, HandleInvariant, PTL
===============================================================================
