----------------------------- MODULE DarwinHandle -----------------------------
(***************************************************************************)
(* A DeviceHandle of the macOS backend: claims, the fallback to the HID    *)
(* transport for an interface that the kernel's HID driver holds, and the  *)
(* synchronous transfers with their locking.                               *)
(*                                                                         *)
(* h.mu is a sync.RWMutex. Transfers and HID calls hold it for reading,    *)
(* ClaimInterface, ReleaseInterface and Close for writing. The pipe call   *)
(* of InterruptTransfer runs in a goroutine of its own, a worker, which    *)
(* holds no lock and outlives a call that times out.                       *)
(*                                                                         *)
(* Every interface has one endpoint, named like the interface.             *)
(***************************************************************************)
EXTENDS Naturals, FiniteSets

CONSTANTS Ifaces,
          Seized,     \* interfaces the kernel's HID driver has open
          Keyboards,  \* of these, the ones hidCollectionUsable refuses
          Users,      \* goroutines that make transfers
          Blocking,   \* users that pass no timeout
          MaxClaims,  \* bound: claims of a pipe interface that succeed
          MaxCalls    \* bound: interrupt transfers, retries included

\* The module that instantiates this one assumes it.
ConstantsAssumption ==
    /\ Keyboards \subseteq Seized /\ Seized \subseteq Ifaces
    /\ Blocking \subseteq Users
    /\ MaxClaims \in Nat /\ MaxCalls \in Nat

VARIABLES
    closed,
    claimed,     \* h.claimedIfaces
    interfaces,  \* h.interfaces: the object of each, 0 for none
    hid,         \* h.hid: the interface it was opened for
    opened,      \* objects whose interface is open in IOKit
    hids,        \* HID devices open, each with its input pump
    claims,      \* number of objects made so far
    cpc,         \* the goroutine that closes the handle
    call,        \* the call each user is in
    workers,     \* goroutines in or before a pipe call
    answers,     \* what their done channels hold
    crashed      \* a worker has used freed memory and the program has ended

handleVars == <<closed, claimed, interfaces, hid, opened, hids, claims>>
callVars == <<call, workers, answers, crashed>>
vars == <<handleVars, cpc, callVars>>

NoIface == "none"
Idle == [kind |-> "idle", id |-> 0, obj |-> 0, result |-> 0]
-----------------------------------------------------------------------------
(* h.mu                                                                    *)

\* Lock: no reader holds the mutex.
WriteLock == \A u \in Users : call[u].kind = "idle"

\* RLock: a writer that waits keeps new readers out.
ReadLock(u) == call[u].kind = "idle" /\ cpc \in {"idle", "returned"}
-----------------------------------------------------------------------------
(* ClaimInterface and ReleaseInterface                                     *)

\* The interface opens; or something in IOKit fails and nothing is kept.
claimPipe(i) ==
    /\ i \notin Seized
    /\ \/ /\ claims < MaxClaims
          /\ claims' = claims + 1
          /\ interfaces' = [interfaces EXCEPT ![i] = claims + 1]
          /\ opened' = opened \cup {claims + 1}
          /\ claimed' = claimed \cup {i}
       \/ UNCHANGED <<claims, interfaces, opened, claimed>>
    /\ UNCHANGED <<hid, hids>>

\* A collection that is not a keyboard or a pointing device.
hidCollectionUsable(i) == i \notin Keyboards

\* openHIDInterface after IOHIDDeviceOpen: when the pump does not start, the
\* device is closed again.
CloseOnPumpError == Ifaces

\* kIOReturnExclusiveAccess: the HID device below the interface is opened and
\* becomes the handle's transport; a keyboard is refused before it is opened.
claimHID(i) ==
    /\ i \in Seized
    /\ \/ /\ hidCollectionUsable(i)
          /\ hids' = hids \cup {i}
          /\ hid' = i
          /\ claimed' = claimed \cup {i}
       \/ /\ hidCollectionUsable(i)
          /\ hids' = hids \cup ({i} \ CloseOnPumpError)
          /\ UNCHANGED <<hid, claimed>>
       \/ ~hidCollectionUsable(i) /\ UNCHANGED <<hids, hid, claimed>>
    /\ UNCHANGED <<claims, interfaces, opened>>

ClaimInterface(i) ==
    /\ cpc = "idle" /\ WriteLock
    /\ ~closed /\ i \notin claimed
    /\ claimPipe(i) \/ claimHID(i)
    /\ UNCHANGED <<closed, cpc, callVars>>

\* USBInterfaceClose ends the pipe calls on the objects.
Abort(objs) ==
    workers' = {IF w.obj \in objs /\ w.state = "pipe" THEN [w EXCEPT !.state = "aborted"]
                ELSE w : w \in workers}

ReleasesAnother(i) == TRUE

ownsInterface(i) == hid = i

\* closeInterface and release of the object, hid.close of the transport.
ReleaseInterface(i) ==
    /\ cpc = "idle" /\ WriteLock
    /\ ~closed /\ i \in claimed
    /\ opened' = opened \ {interfaces[i]}
    /\ Abort({interfaces[i]})
    /\ interfaces' = [interfaces EXCEPT ![i] = 0]
    /\ IF hid # NoIface /\ ownsInterface(i)
         THEN hids' = hids \ {hid} /\ hid' = NoIface
         ELSE UNCHANGED <<hids, hid>>
    /\ claimed' = claimed \ {i}
    /\ UNCHANGED <<closed, claims, cpc, call, answers, crashed>>
-----------------------------------------------------------------------------
(* Close                                                                   *)

CloseCalled ==
    /\ cpc = "idle" /\ cpc' = "want"
    /\ UNCHANGED <<handleVars, callVars>>

\* h.hid.close()
CloseHID == hids \ {hid}

Close ==
    /\ cpc = "want" /\ cpc' = "returned"
    /\ WriteLock
    /\ closed' = TRUE
    /\ opened' = opened \ {interfaces[i] : i \in Ifaces}
    /\ Abort({interfaces[i] : i \in Ifaces})
    /\ interfaces' = [i \in Ifaces |-> 0]
    /\ claimed' = {}
    /\ hids' = CloseHID
    /\ hid' = NoIface
    /\ UNCHANGED <<claims, call, answers, crashed>>
-----------------------------------------------------------------------------
(* Transfers that stay in one call: ControlTransfer, bulkTransfer and the  *)
(* HID calls. Each checks h.closed, and every one but a transfer on a pipe *)
(* or on the device goes to h.hid when there is one.                       *)

Enter(u, kind, obj) ==
    /\ call' = [call EXCEPT ![u] = [Idle EXCEPT !.kind = kind, !.obj = obj]]
    /\ UNCHANGED <<handleVars, cpc, workers, answers, crashed>>

\* On the HID transport only a class request for a report is carried.
ControlTransfer(u) ==
    /\ ReadLock(u) /\ ~closed
    /\ Enter(u, IF hid # NoIface THEN "hid" ELSE "device", 0)

\* StringDescriptor, the configuration, BOS and qualifier descriptors and the
\* speed are asked of the device, whatever the transport.
DescriptorRequest(u) == ReadLock(u) /\ ~closed /\ Enter(u, "device", 0)

\* "for _, i := range h.interfaces": any claimed one, whichever the endpoint.
AnyInterface(obj) == \E i \in Ifaces : interfaces[i] = obj /\ obj # 0

\* PipeRefForEndpoint: the pipe is on the interface's own object.
HasPipe(obj, ep) == interfaces[ep] = obj

\* hid.interruptTransfer: readReport waits for a report in the queue, writeReport
\* for the device, whatever the caller's timeout is.
ReportTransfer(u) == hid # NoIface /\ (Enter(u, "report", 0) \/ Enter(u, "hid", 0))

bulkTransfer(u, ep) ==
    /\ ReadLock(u) /\ ~closed
    /\ \/ ReportTransfer(u)
       \/ /\ hid = NoIface
          /\ \E obj \in opened : AnyInterface(obj) /\ HasPipe(obj, ep) /\ Enter(u, "pipe", obj)

\* GetFeatureReport, SetFeatureReport, GetInputReport, SetOutputReport,
\* FlushHIDQueue and HIDReportLengths
hidCall(u) ==
    /\ ReadLock(u) /\ ~closed
    /\ hid # NoIface
    /\ Enter(u, "hid", 0)

\* timeout > 0
TimeoutSet(u) == u \notin Blocking

\* RUnlock
Leave(u) == call' = [call EXCEPT ![u] = Idle]
            /\ UNCHANGED <<handleVars, cpc, workers, answers, crashed>>

\* ReadPipeTO and WritePipeTO end after five seconds at the latest, readReport
\* after its timeout, if there is one; a result is passed on.
Return(u) ==
    /\ call[u].kind \in {"pipe", "report", "result"}
    /\ call[u].kind = "report" => TimeoutSet(u)
    /\ Leave(u)

\* The device answers DeviceRequest, or IOHIDDeviceGetReport or SetReport, none
\* of which has a timeout; or it sends the report that readReport returns.
DeviceAnswers(u) == call[u].kind \in {"device", "hid", "report"} /\ Leave(u)
-----------------------------------------------------------------------------
(* InterruptTransfer. InterruptTransferWithRetry calls it again after an   *)
(* ErrTimeout, as a user here may do after any result.                     *)

CallsMade(u) == Cardinality({w \in workers : w.user = u})
                + Cardinality({a \in answers : a.user = u})

\* The worker gets the object and the caller's buffer; the done channel is the
\* call's own.
StartWorker(u, obj) ==
    LET id == CallsMade(u) + 1 IN
      /\ call' = [call EXCEPT ![u] = [kind |-> "select", id |-> id, obj |-> obj, result |-> 0]]
      /\ workers' = workers \cup {[user |-> u, id |-> id, obj |-> obj, state |-> "spawned"]}
      /\ UNCHANGED <<handleVars, cpc, answers, crashed>>

InterruptTransfer(u, ep) ==
    /\ ReadLock(u) /\ ~closed
    /\ \/ ReportTransfer(u)
       \/ /\ hid = NoIface /\ Cardinality(workers) + Cardinality(answers) < MaxCalls
          /\ \E obj \in opened :
               AnyInterface(obj) /\ HasPipe(obj, ep) /\ StartWorker(u, obj)

\* The worker moves on, or sends its result and ends.
WorkerStep(w, state) ==
    /\ workers' = (workers \ {w}) \cup {[w EXCEPT !.state = state]}
    /\ UNCHANGED <<handleVars, cpc, call, answers>>

WorkerSend(w, ok) ==
    /\ workers' = workers \ {w}
    /\ answers' = answers \cup {[user |-> w.user, id |-> w.id, ok |-> ok]}
    /\ UNCHANGED <<handleVars, cpc, call, crashed>>

\* vtable(): the object's handle is read; a released one gives an error.
workerLoad(w) ==
    /\ w.state = "spawned"
    /\ \/ w.obj \in opened /\ WorkerStep(w, "loaded") /\ UNCHANGED crashed
       \/ w.obj \notin opened /\ WorkerSend(w, FALSE)

\* ReadPipe or WritePipe through that handle. The memory of an object that was
\* released meanwhile may still serve, or the program ends.
workerEnter(w) ==
    /\ w.state = "loaded"
    /\ \/ w.obj \in opened /\ WorkerStep(w, "pipe") /\ UNCHANGED crashed
       \/ w.obj \notin opened /\ WorkerStep(w, "aborted") /\ crashed' \in BOOLEAN

\* The device answers; or the pipe was aborted.
workerReturn(w) ==
    \/ w.state = "pipe" /\ \E ok \in BOOLEAN : WorkerSend(w, ok)
    \/ w.state = "aborted" /\ WorkerSend(w, FALSE)

AnyChannel(u, a) == a.user = u

\* case r := <-done
OwnChannel(u, a) == a.user = u /\ a.id = call[u].id

InterruptResult(u) ==
    /\ call[u].kind = "select"
    /\ \E a \in answers :
         OwnChannel(u, a) /\ call' = [call EXCEPT ![u].kind = "result", ![u].result = a.id]
    /\ UNCHANGED <<handleVars, cpc, workers, answers, crashed>>

\* case <-time.After(timeout): ErrTimeout
InterruptTimeout(u) ==
    /\ call[u].kind = "select" /\ TimeoutSet(u)
    /\ Leave(u)
-----------------------------------------------------------------------------
Init ==
    /\ closed = FALSE /\ claimed = {} /\ interfaces = [i \in Ifaces |-> 0]
    /\ hid = NoIface /\ opened = {} /\ hids = {} /\ claims = 0
    /\ cpc = "idle"
    /\ call = [u \in Users |-> Idle] /\ workers = {} /\ answers = {} /\ crashed = FALSE

Finish(u) == Return(u) \/ InterruptResult(u) \/ InterruptTimeout(u)

Work(w) == workerLoad(w) \/ workerEnter(w) \/ workerReturn(w)

Next ==
    /\ ~crashed
    /\ \/ \E i \in Ifaces : ClaimInterface(i) \/ ReleaseInterface(i)
       \/ CloseCalled \/ Close
       \/ \E u \in Users :
            \/ ControlTransfer(u) \/ DescriptorRequest(u) \/ hidCall(u)
            \/ \E ep \in Ifaces : bulkTransfer(u, ep) \/ InterruptTransfer(u, ep)
            \/ DeviceAnswers(u) \/ Finish(u)
       \/ \E w \in workers : Work(w)

Spec == Init /\ [][Next]_vars

\* Goroutines that can run are scheduled and timeouts elapse. What the device
\* answers and the calls of the users are not fair.
Fairness ==
    /\ \A u \in Users : WF_vars(~crashed /\ Finish(u))
    /\ WF_vars(~crashed /\ Close)

FairSpec == Spec /\ Fairness
-----------------------------------------------------------------------------
(* Properties                                                              *)

HandleType ==
    /\ closed \in BOOLEAN /\ claimed \subseteq Ifaces
    /\ interfaces \in [Ifaces -> 0..MaxClaims]
    /\ hid \in (Seized \ Keyboards) \cup {NoIface}
    /\ opened \subseteq 1..MaxClaims /\ hids \subseteq Seized \ Keyboards
    /\ claims \in 0..MaxClaims
    /\ cpc \in {"idle", "want", "returned"}

CallType ==
    /\ call \in [Users -> [kind : {"idle", "device", "pipe", "hid", "report", "select",
                                   "result"},
                           id : 0..MaxCalls, obj : 0..MaxClaims, result : 0..MaxCalls]]
    /\ workers \subseteq [user : Users, id : 1..MaxCalls, obj : 1..MaxClaims,
                          state : {"spawned", "loaded", "pipe", "aborted"}]
    /\ answers \subseteq [user : Users, id : 1..MaxCalls, ok : BOOLEAN]
    /\ crashed \in BOOLEAN

\* Every variable stays in its domain; a keyboard is never opened.
TypeOK == HandleType /\ CallType

\* What the handle says is claimed is what IOKit has open for it: each claimed
\* interface by an object of its own or by the HID transport, and no interface
\* object is open that the handle has lost.
ClaimsAreOpen ==
    /\ claimed \subseteq {i \in Ifaces : interfaces[i] \in opened} \cup hids
    /\ opened = {interfaces[i] : i \in Ifaces} \ {0}

\* While a call is under way, what it uses is open: its pipe, its worker's pipe
\* or the HID device. Only the worker of a call that timed out may meet a
\* released interface.
LiveCallHoldsInterface ==
    /\ \A u \in Users : call[u].kind \in {"pipe", "select"} => call[u].obj \in opened
    /\ \A u \in Users : call[u].kind \in {"hid", "report"} => hid \in hids
    /\ \A w \in workers :
         w.obj \notin opened => call[w.user].id # w.id

\* InterruptTransfer returns the result of its own worker, never what a worker
\* of an earlier, timed out call has read.
ResultIsOwn == \A u \in Users : call[u].kind = "result" => call[u].result = call[u].id

\* devicehandle_darwin.go: Close releases exclusive access and the interface;
\* nothing stays open in IOKit.
CloseReleasesAll == cpc = "returned" => opened = {} /\ hids = {}

\* u waits for the device and no timeout ends that.
WaitsForDevice(u) ==
    \/ call[u].kind \in {"device", "hid"}
    \/ call[u].kind \in {"report", "select"} /\ ~TimeoutSet(u)

\* Close gets the lock and returns, once no call is left that waits for the device
\* without a timeout: a transfer on a pipe, or a wait for a report with a timeout,
\* delays it but ends.
CloseReturns ==
    cpc = "want" ~> cpc = "returned" \/ crashed \/ \E u \in Users : WaitsForDevice(u)
=============================================================================
