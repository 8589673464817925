----------------------------- MODULE HotplugLinux -----------------------------
(***************************************************************************)
(* The Linux hotplug watch: registerHotplugCallback on the caller's        *)
(* goroutine, the pump goroutine that reads uevents from a netlink socket, *)
(* and the goroutines that call Deregister.                                *)
(*                                                                         *)
(* A device is its "bus:addr" key. The kernel hands device numbers out     *)
(* round robin, so that no key comes back within an instance.              *)
(***************************************************************************)
EXTENDS Naturals, Sequences, FiniteSets

CONSTANTS Devices,     \* keys of the devices that are ever plugged in
          Match,       \* the ones the vendorID and productID filter accepts
          Callers,     \* goroutines that call Deregister
          QueueCap,    \* bound: uevents the socket buffer holds
          MaxForeign,  \* bound: uevents that are no whole-device event
          FaultSets    \* the sets of faults to consider

ASSUME ConstantsAssumption ==
    /\ Match \subseteq Devices
    /\ QueueCap \in Nat
    /\ MaxForeign \in Nat
    /\ FaultSets \subseteq
         SUBSET {"lingering",  \* a sysfs entry outlives its remove uevent
                 "overrun",    \* the socket buffer may overflow
                 "list",       \* DeviceList may fail
                 "epoll"}      \* an epoll call of the pump may fail

VARIABLES
    faults,      \* the faults that may happen
    \* the kernel
    present,     \* devices with a sysfs entry
    leaving,     \* those whose remove uevent has been sent
    used,        \* devices ever plugged in
    foreign,     \* number of foreign uevents so far
    bound,       \* the socket is bound
    queue,       \* uevents in the socket buffer, <<action, key>>
    overrun,     \* one was lost: the next recv reports ENOBUFS
    \* linuxHotplugHandle
    seen, stopped, doneClosed,
    wakeByte,    \* a byte is in the wake pipe
    fdsOpen,     \* the socket and the pipe are open
    \* goroutines
    regPc, todo, \* registerHotplugCallback, and what is left of its snapshot
    ppc, event,  \* pump, and the uevent it handles
    dpc,         \* the callers of Deregister
    \* what the user's callback has been told
    view,        \* devices whose last report was Arrived
    calls, lastCall

kernelVars == <<faults, present, leaving, used, foreign, bound, queue, overrun>>
handleVars == <<seen, stopped, doneClosed, wakeByte, fdsOpen>>
regVars == <<regPc, todo>>
pumpVars == <<ppc, event>>
clientVars == <<view, calls, lastCall>>
vars == <<kernelVars, handleVars, regVars, pumpVars, dpc, clientVars>>

NoEvent == <<>>
-----------------------------------------------------------------------------
(* The kernel                                                              *)

\* A uevent reaches the socket once it is bound; one that does not fit is lost.
Uevent(action, d) ==
    IF ~bound \/ ~fdsOpen THEN UNCHANGED <<queue, overrun>>
    ELSE IF Len(queue) < QueueCap
           THEN queue' = Append(queue, <<action, d>>) /\ UNCHANGED overrun
           ELSE /\ "overrun" \in faults
                /\ overrun' = TRUE
                /\ UNCHANGED queue

\* sysfs is populated before the add uevent is sent.
PlugIn(d) ==
    /\ d \notin used
    /\ present' = present \cup {d}
    /\ used' = used \cup {d}
    /\ Uevent("add", d)
    /\ UNCHANGED <<faults, leaving, foreign, bound, handleVars, regVars, pumpVars, dpc,
                   clientVars>>

\* The remove uevent is sent before the sysfs entry goes, or along with it.
PullOut(d) ==
    /\ d \in present \ leaving
    /\ \/ present' = present \ {d} /\ UNCHANGED leaving
       \/ /\ "lingering" \in faults
          /\ leaving' = leaving \cup {d}
          /\ UNCHANGED present
    /\ Uevent("remove", d)
    /\ UNCHANGED <<faults, used, foreign, bound, handleVars, regVars, pumpVars,
                   dpc, clientVars>>

EntryGoes(d) ==
    /\ d \in leaving
    /\ leaving' = leaving \ {d}
    /\ present' = present \ {d}
    /\ UNCHANGED <<faults, used, foreign, bound, queue, overrun, handleVars, regVars,
                   pumpVars, dpc, clientVars>>

\* Another subsystem's uevent, or one of a device's interfaces.
ForeignUevent(d) ==
    /\ foreign < MaxForeign
    /\ foreign' = foreign + 1
    /\ Uevent("foreign", d)
    /\ UNCHANGED <<faults, present, leaving, used, bound, handleVars, regVars, pumpVars,
                   dpc, clientVars>>
-----------------------------------------------------------------------------
(* Reports to the user                                                     *)

MatchesAll(d) == TRUE

\* The vendorID and productID filter of the registration.
matches(d) == d \in Match

\* callback(HotplugEventArrived, dev) for a device that matches.
Arrived(d) ==
    IF matches(d)
      THEN /\ view' = view \cup {d}
           /\ calls' = calls + 1
           /\ lastCall' = <<"arrived", d>>
      ELSE UNCHANGED clientVars

Left(d) ==
    IF matches(d)
      THEN /\ view' = view \ {d}
           /\ calls' = calls + 1
           /\ lastCall' = <<"left", d>>
      ELSE UNCHANGED clientVars
-----------------------------------------------------------------------------
(* registerHotplugCallback                                                 *)

\* socket, bind and pipe2; any of the three may fail, which leaves no handle.
registerOpen ==
    /\ regPc = "open"
    /\ \/ bound' = TRUE /\ fdsOpen' = TRUE /\ regPc' = "list"
       \/ UNCHANGED <<bound, fdsOpen>> /\ regPc' = "failed"
    /\ UNCHANGED <<faults, present, leaving, used, foreign, queue, overrun, seen,
                   stopped, doneClosed, wakeByte, todo, pumpVars, dpc,
                   clientVars>>

\* DeviceList reads sysfs; its error leaves the snapshot empty.
registerList ==
    /\ regPc = "list"
    /\ todo' = present \/ ("list" \in faults /\ todo' = {})
    /\ regPc' = "snapshot"
    /\ UNCHANGED <<kernelVars, handleVars, pumpVars, dpc, clientVars>>

SnapshotUnrecorded(d) == Arrived(d) /\ UNCHANGED seen

\* The body of the loop over the snapshot.
SnapshotDevice(d) == Arrived(d) /\ seen' = seen \cup {d}

registerSnapshot(d) ==
    /\ regPc = "snapshot" /\ d \in todo
    /\ SnapshotDevice(d)
    /\ todo' = todo \ {d}
    /\ UNCHANGED <<kernelVars, stopped, doneClosed, wakeByte, fdsOpen, regPc,
                   pumpVars, dpc>>

\* go h.pump(), and the handle is returned.
registerStart ==
    /\ regPc = "snapshot" /\ todo = {}
    /\ regPc' = "returned"
    /\ ppc' = "setup"
    /\ UNCHANGED <<kernelVars, handleVars, todo, event, dpc, clientVars>>

register == \/ registerOpen \/ registerList \/ registerStart
            \/ \E d \in Devices : registerSnapshot(d)
-----------------------------------------------------------------------------
(* pump                                                                    *)

Goto(l) == ppc' = l /\ UNCHANGED event

\* epoll_create1 and two epoll_ctl calls.
pumpSetup ==
    /\ ppc = "setup"
    /\ Goto("check") \/ ("epoll" \in faults /\ Goto("exit"))
    /\ UNCHANGED <<kernelVars, handleVars, regVars, dpc, clientVars>>

\* The top of the loop: read h.stopped under h.mu.
pumpCheck ==
    /\ ppc = "check"
    /\ Goto(IF stopped THEN "exit" ELSE "wait")
    /\ UNCHANGED <<kernelVars, handleVars, regVars, dpc, clientVars>>

\* The netlink socket is readable, or reports an error.
SocketReady == queue # <<>> \/ overrun

\* epoll_wait returns; the wake byte is read, and the socket drained when it
\* was reported too.
pumpWake ==
    /\ ppc = "wait"
    /\ wakeByte \/ SocketReady
    /\ wakeByte' = FALSE
    /\ Goto(IF SocketReady THEN "recv" ELSE "check")
    /\ UNCHANGED <<kernelVars, seen, stopped, doneClosed, fdsOpen, regVars, dpc,
                   clientVars>>

\* epoll_wait returns EINTR (back to the check) or fails.
pumpWaitError ==
    /\ ppc = "wait"
    /\ Goto("check") \/ ("epoll" \in faults /\ Goto("exit"))
    /\ UNCHANGED <<kernelVars, handleVars, regVars, dpc, clientVars>>

\* One Recvfrom: ENOBUFS after an overrun, at which the pump returns, EAGAIN, or
\* a uevent. One that is no add or remove of a whole usb_device is ignored.
pumpRecv ==
    /\ ppc = "recv"
    /\ \/ /\ overrun
          /\ overrun' = FALSE
          /\ Goto("exit")
          /\ UNCHANGED queue
       \/ /\ ~overrun /\ queue = <<>>
          /\ Goto("check")
          /\ UNCHANGED <<queue, overrun>>
       \/ /\ ~overrun /\ queue # <<>>
          /\ queue' = Tail(queue)
          /\ IF Head(queue)[1] = "foreign"
               THEN Goto("recv")
               ELSE ppc' = "handle" /\ event' = Head(queue)
          /\ UNCHANGED overrun
    /\ UNCHANGED <<faults, present, leaving, used, foreign, bound, handleVars, regVars,
                   dpc, clientVars>>

\* DeviceList finds the device unless its entry is gone already (the second
\* attempt finds no more than the first) or reading sysfs fails.
findDevice(d) == d \in present

\* case "add" of handleUevent.
handleAdd ==
    /\ ppc = "handle" /\ event[1] = "add"
    /\ \/ /\ findDevice(event[2])
          /\ seen' = seen \cup {event[2]}
          /\ Arrived(event[2])
       \/ /\ ~findDevice(event[2]) \/ "list" \in faults
          /\ UNCHANGED <<seen, clientVars>>
    /\ ppc' = "recv" /\ event' = NoEvent
    /\ UNCHANGED <<kernelVars, stopped, doneClosed, wakeByte, fdsOpen, regVars,
                   dpc>>

\* dev, ok := h.seen[key]
WasSeen(d) == d \in seen

\* case "remove": only a device this watch has seen.
handleRemove ==
    /\ ppc = "handle" /\ event[1] = "remove"
    /\ IF WasSeen(event[2])
         THEN seen' = seen \ {event[2]} /\ Left(event[2])
         ELSE UNCHANGED <<seen, clientVars>>
    /\ ppc' = "recv" /\ event' = NoEvent
    /\ UNCHANGED <<kernelVars, stopped, doneClosed, wakeByte, fdsOpen, regVars,
                   dpc>>

\* The deferred function: close the socket and the pipe, close(h.done).
pumpExit ==
    /\ ppc = "exit"
    /\ fdsOpen' = FALSE /\ queue' = <<>> /\ overrun' = FALSE
    /\ wakeByte' = FALSE
    /\ doneClosed' = TRUE
    /\ Goto("stopped")
    /\ UNCHANGED <<faults, present, leaving, used, foreign, bound, seen, stopped,
                   regVars, dpc, clientVars>>

pump == \/ pumpSetup \/ pumpCheck \/ pumpWake \/ pumpWaitError \/ pumpRecv
        \/ handleAdd \/ handleRemove \/ pumpExit
-----------------------------------------------------------------------------
(* Deregister                                                              *)

\* h.stopped is tested and set under h.mu; whoever finds it set returns.
DeregisterMark(c) ==
    /\ dpc[c] = "idle"
    /\ regPc = "returned"
    /\ stopped' = TRUE
    /\ dpc' = [dpc EXCEPT ![c] = IF stopped THEN "again" ELSE "wake"]
    /\ UNCHANGED <<kernelVars, seen, doneClosed, wakeByte, fdsOpen, regVars,
                   pumpVars, clientVars>>

WriteNoByte == UNCHANGED wakeByte

\* syscall.Write(h.wakeW)
WriteWakeByte == wakeByte' = fdsOpen

DeregisterWake(c) ==
    /\ dpc[c] = "wake"
    /\ WriteWakeByte
    /\ dpc' = [dpc EXCEPT ![c] = "join"]
    /\ UNCHANGED <<kernelVars, seen, stopped, doneClosed, fdsOpen, regVars,
                   pumpVars, clientVars>>

DoneUnheeded == TRUE

\* <-h.done
DoneReceived == doneClosed

DeregisterJoin(c) ==
    /\ dpc[c] = "join"
    /\ DoneReceived
    /\ dpc' = [dpc EXCEPT ![c] = "returned"]
    /\ UNCHANGED <<kernelVars, handleVars, regVars, pumpVars, clientVars>>
-----------------------------------------------------------------------------
Init ==
    /\ faults \in FaultSets
    /\ present \in SUBSET Devices /\ used = present /\ leaving = {}
    /\ foreign = 0 /\ bound = FALSE /\ queue = <<>> /\ overrun = FALSE
    /\ seen = {} /\ stopped = FALSE /\ doneClosed = FALSE
    /\ wakeByte = FALSE /\ fdsOpen = FALSE
    /\ regPc = "open" /\ todo = {}
    /\ ppc = "off" /\ event = NoEvent
    /\ dpc = [c \in Callers |-> "idle"]
    /\ view = {} /\ calls = 0 /\ lastCall = NoEvent

Next ==
    \/ \E d \in Devices : \/ PlugIn(d) \/ PullOut(d) \/ EntryGoes(d)
                          \/ ForeignUevent(d)
    \/ register
    \/ pump
    \/ \E c \in Callers : \/ DeregisterMark(c) \/ DeregisterWake(c)
                          \/ DeregisterJoin(c)

Spec == Init /\ [][Next]_vars

(***************************************************************************)
(* Goroutines that can run are scheduled; an epoll_wait that keeps having  *)
(* something to report is not interrupted by signals for ever, but no      *)
(* signal need ever come; sysfs entries of removed devices go away.        *)
(* Devices, and calls of Deregister, are not fair.                         *)
(***************************************************************************)
Fairness ==
    /\ WF_vars(register)
    /\ WF_vars(ppc # "wait" /\ pump) /\ SF_vars(pumpWake)
    /\ \A c \in Callers : WF_vars(DeregisterWake(c) \/ DeregisterJoin(c))
    /\ \A d \in Devices : WF_vars(EntryGoes(d))

FairSpec == Spec /\ Fairness
-----------------------------------------------------------------------------
(* Properties                                                              *)

KernelType ==
    /\ faults \in FaultSets
    /\ present \subseteq Devices /\ leaving \subseteq present
    /\ used \subseteq Devices /\ foreign \in 0..MaxForeign
    /\ bound \in BOOLEAN /\ overrun \in BOOLEAN
    /\ queue \in Seq({"add", "remove", "foreign"} \X Devices)

HandleType ==
    /\ seen \subseteq Devices /\ stopped \in BOOLEAN /\ doneClosed \in BOOLEAN
    /\ wakeByte \in BOOLEAN /\ fdsOpen \in BOOLEAN

GoroutineType ==
    /\ regPc \in {"open", "list", "snapshot", "returned", "failed"}
    /\ todo \subseteq Devices
    /\ ppc \in {"off", "setup", "check", "wait", "recv", "handle", "exit",
                "stopped"}
    /\ event \in ({"add", "remove"} \X Devices) \cup {NoEvent}
    /\ dpc \in [Callers -> {"idle", "wake", "join", "returned", "again"}]

ClientType ==
    /\ view \subseteq Match /\ calls \in Nat
    /\ lastCall \in ({"arrived", "left"} \X Devices) \cup {NoEvent}

\* Every variable of the kernel, the handle, the goroutines and the client stays
\* in its domain.
TypeOK == KernelType /\ HandleType /\ GoroutineType /\ ClientType

\* A departure is reported only for a device whose arrival was: whatever the
\* order of snapshot and uevents, the user is never told that an unknown
\* device has left.
LeftFollowsArrived ==
    [][calls' # calls /\ lastCall'[1] = "left" => lastCall'[2] \in view]_vars

\* When the pump sleeps and everything the kernel has sent is handled, the
\* user has been told exactly of the matching devices that are connected, as
\* long as sysfs and the socket do not fail.
ViewIsCurrent ==
    faults \subseteq {"epoll"} /\ ppc = "wait" /\ ~SocketReady => view = present \cap Match

\* "Deregister stops the watch": no callback is called after the call that stops
\* it has returned. (A second call does not wait.)
SilentAfterDeregister ==
    [][calls' # calls => \A c \in Callers : dpc[c] # "returned"]_vars

\* The callbacks come in an order the user can rely on: no departure without an
\* arrival, nothing after Deregister.
CallbacksOrdered == LeftFollowsArrived /\ SilentAfterDeregister

\* Deregister returns, also while the pump sleeps in epoll_wait.
DeregisterReturns ==
    \A c \in Callers : dpc[c] = "wake" ~> dpc[c] = "returned"

\* A matching device that is there while the watch is up is reported, unless
\* it goes again, the watch ends or a call fails.
ArrivalReported ==
    \A d \in Match :
        (d \in present /\ regPc = "returned" /\ faults = {})
            ~> (d \in view \/ d \notin present \/ stopped)

\* hotplug_linux.go: nothing in the snapshot races with the pump's uevents, so
\* that no device which the user knows is reported as arrived again.
EveryCallbackIsNews ==
    [][calls' # calls /\ lastCall'[1] = "arrived" => lastCall'[2] \notin view]_vars
=============================================================================
