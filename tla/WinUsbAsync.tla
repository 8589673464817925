----------------------------- MODULE WinUsbAsync ------------------------------
(***************************************************************************)
(* Asynchronous transfers of the Windows backend: AsyncTransfer.Submit and *)
(* Cancel, DeviceHandle.Close and ResetDevice, the iocpPump goroutine, and *)
(* the I/O completion port they share. The handle is a WinUSB one (the HID *)
(* path of Submit has no completion port).                                 *)
(*                                                                         *)
(* Submit reads h.closed without h.mu, Close reads h.iocpRunning without   *)
(* asyncMu: a step is a critical section or a system call, and nothing     *)
(* keeps a Submit out of a running Close.                                  *)
(***************************************************************************)
EXTENDS Integers, FiniteSets

CONSTANTS Xfers,       \* the AsyncTransfers created on the handle
          MaxSubmits,  \* bound: calls of Submit per transfer
          MaxResets,   \* bound: calls of ResetDevice
          FaultSets    \* the sets of faults to consider

ASSUME ConstantsAssumption ==
    /\ IsFiniteSet(Xfers)
    /\ MaxSubmits \in Nat
    /\ MaxResets \in Nat
    /\ FaultSets \subseteq
         SUBSET {"port",      \* CreateIoCompletionPort fails
                 "stuck",     \* a driver sits on a cancelled request
                 "reopen"}    \* ResetDevice cannot reopen the device

VARIABLES
    faults,        \* the faults that may happen
    \* DeviceHandle
    closed,        \* h.closed
    handles,       \* winusbHandle and fileHandle: "open", "stale" or "zero"
    associated,    \* fileHandle delivers its completions to h.iocp
    resets,
    iocpRunning,   \* h.iocpRunning
    port,          \* h.iocp: "none", "open" or "closed"
    doneClosed,    \* iocpDone is closed
    iocpPending,   \* transfers in h.iocpPending
    \* AsyncTransfers
    submitted, done, lastErr, nsub,
    spc,           \* where the goroutine in Submit is
    \* iocpPump
    ppc, draining, got, left,
    \* Close
    closePc, closeRunning,
    atClose,       \* transfers in flight when Close marked the handle closed
    \* Windows
    io,            \* the request of a transfer in the driver
    cancelled,     \* requests asked to be cancelled
    packets,       \* completions queued on the port, transfer |-> error
    wake           \* the nil-overlapped packet is queued

handleVars == <<closed, handles, associated, resets, iocpRunning, port,
                doneClosed, iocpPending>>
xferVars == <<submitted, done, lastErr, nsub>>
pumpVars == <<ppc, draining, got, left>>
closeVars == <<closePc, closeRunning, atClose>>
ioVars == <<io, cancelled, packets, wake>>
vars == <<faults, handleVars, xferVars, spc, pumpVars, closeVars, ioVars>>
-----------------------------------------------------------------------------
(* Windows                                                                 *)

\* Requests leave the driver: with an associated handle each one queues its
\* packet on the port, otherwise it ends where nobody waits.
EndRequests(X, e) ==
    /\ io' = [x \in Xfers |-> IF x \in X THEN "none" ELSE io[x]]
    /\ cancelled' = cancelled \ X
    /\ packets' = [x \in Xfers |-> IF x \in X /\ associated /\ port = "open"
                                     THEN e ELSE packets[x]]

Requests == {x \in Xfers : io[x] = "pending"}

\* The driver completes a request, one that was cancelled with an error.
RequestCompletes(x) ==
    /\ io[x] = "pending"
    /\ x \in cancelled => "stuck" \notin faults
    /\ \E e \in {"ok", "err"} : /\ x \in cancelled => e = "err"
                                /\ EndRequests({x}, e)
    /\ UNCHANGED <<faults, handleVars, xferVars, spc, pumpVars, closeVars, wake>>
-----------------------------------------------------------------------------
(* Submit, Cancel                                                          *)

\* Submit under t.mu: the in-flight check, the unlocked read of h.closed, the
\* reset of the transfer.
SubmitEnter(x) ==
    /\ spc[x] = "idle"
    /\ nsub[x] < MaxSubmits
    /\ ~(submitted[x] /\ ~done[x])
    /\ ~closed
    /\ submitted' = [submitted EXCEPT ![x] = TRUE]
    /\ done' = [done EXCEPT ![x] = FALSE]
    /\ lastErr' = [lastErr EXCEPT ![x] = FALSE]
    /\ nsub' = [nsub EXCEPT ![x] = @ + 1]
    /\ spc' = [spc EXCEPT ![x] = "register"]
    /\ UNCHANGED <<faults, handleVars, pumpVars, closeVars, ioVars>>

\* The `if !h.iocpRunning` block: create the port, associate the file, start
\* the pump.
StartPump ==
    /\ handles = "open"
    /\ associated' = TRUE
    /\ port' = "open"
    /\ iocpRunning' = TRUE
    /\ ppc' = "get"

registerAsyncCompletion(x) ==
    /\ spc[x] = "register"
    /\ \/ /\ IF iocpRunning THEN UNCHANGED <<associated, port, iocpRunning, ppc>>
                            ELSE StartPump
          /\ iocpPending' = iocpPending \cup {x}
          /\ spc' = [spc EXCEPT ![x] = "issue"]
       \/ /\ ~iocpRunning /\ ("port" \in faults \/ handles # "open")
          /\ spc' = [spc EXCEPT ![x] = "undo"]
          /\ UNCHANGED <<associated, port, iocpRunning, ppc, iocpPending>>
    /\ UNCHANGED <<faults, closed, handles, resets, doneClosed, xferVars, draining, got,
                   left, closeVars, ioVars>>

submitIOPendingIsError(x) ==
    /\ spc[x] = "issue"
    /\ handles = "open"
    /\ io' = [io EXCEPT ![x] = "pending"]
    /\ spc' = [spc EXCEPT ![x] = "unregister"]
    /\ UNCHANGED <<faults, handleVars, xferVars, pumpVars, closeVars, cancelled,
                   packets, wake>>

\* WinUsb_ReadPipe, WritePipe or ControlTransfer: ERROR_IO_PENDING, or an
\* error, which it always is on handles that are gone.
submitIO(x) ==
    /\ spc[x] = "issue"
    /\ \/ /\ handles = "open"
          /\ io' = [io EXCEPT ![x] = "pending"]
          /\ spc' = [spc EXCEPT ![x] = "idle"]
       \/ /\ spc' = [spc EXCEPT ![x] = "unregister"]
          /\ UNCHANGED io
    /\ UNCHANGED <<faults, handleVars, xferVars, pumpVars, closeVars, cancelled,
                   packets, wake>>

unregisterAsyncCompletion(x) ==
    /\ spc[x] = "unregister"
    /\ iocpPending' = iocpPending \ {x}
    /\ spc' = [spc EXCEPT ![x] = "undo"]
    /\ UNCHANGED <<faults, closed, handles, associated, resets, iocpRunning, port,
                   doneClosed, xferVars, pumpVars, closeVars, ioVars>>

\* Submit returns an error: t.submitted = false, t.done stays false.
SubmitUndo(x) ==
    /\ spc[x] = "undo"
    /\ submitted' = [submitted EXCEPT ![x] = FALSE]
    /\ spc' = [spc EXCEPT ![x] = "idle"]
    /\ UNCHANGED <<faults, handleVars, done, lastErr, nsub, pumpVars, closeVars, ioVars>>

SubmitStep(x) == \/ registerAsyncCompletion(x) \/ submitIO(x)
                 \/ unregisterAsyncCompletion(x) \/ SubmitUndo(x)

\* Cancel, also by WaitWithTimeout when its timer fires: CancelIoEx asks for
\* the one request of a control transfer, WinUsb_AbortPipe for every request
\* on the pipe.
Cancel(x) ==
    /\ ~closed /\ handles = "open"
    /\ \E X \in {{x}, Xfers} : cancelled' = cancelled \cup (X \cap Requests)
    /\ cancelled' # cancelled
    /\ UNCHANGED <<faults, handleVars, xferVars, spc, pumpVars, closeVars, io, packets,
                   wake>>
-----------------------------------------------------------------------------
(* iocpPump                                                                *)

\* GetQueuedCompletionStatus returns the packet of a transfer.
pumpPacket(x) ==
    /\ ppc = "get" /\ port = "open"
    /\ packets[x] # "none"
    /\ packets' = [packets EXCEPT ![x] = "none"]
    /\ got' = <<x, packets[x] = "err">>
    /\ ppc' = "dispatch"
    /\ UNCHANGED <<faults, handleVars, xferVars, spc, draining, left, closeVars, io,
                   cancelled, wake>>

\* It returns no overlapped: Close's packet, or the port is closed.
pumpNil ==
    /\ ppc = "get"
    /\ wake \/ port = "closed"
    /\ wake' = FALSE
    /\ ppc' = "recheck"
    /\ UNCHANGED <<faults, handleVars, xferVars, spc, draining, got, left, closeVars, io,
                   cancelled, packets>>

\* Nothing the driver was asked to cancel is still on its way to the port.
Quiet == /\ \A x \in Xfers : packets[x] = "none"
         /\ cancelled = {} \/ ~associated

pumpDrainsForEver == FALSE /\ UNCHANGED vars

\* The drain window elapses. Two seconds are enough for every cancelled
\* request to complete unless the driver is stuck.
pumpDrainTimeout ==
    /\ ppc = "get" /\ draining
    /\ "stuck" \in faults \/ Quiet \/ port = "closed"
    /\ ppc' = "stop"
    /\ UNCHANGED <<faults, handleVars, xferVars, spc, draining, got, left, closeVars,
                   ioVars>>

\* After a nil overlapped on a closed handle: return when nothing is pending,
\* else drain.
RecheckDrains ==
    IF iocpPending = {} THEN ppc' = "stop" /\ UNCHANGED draining
                        ELSE ppc' = "get" /\ draining' = TRUE

pumpRecheck ==
    /\ ppc = "recheck"
    /\ IF closed THEN RecheckDrains
                 ELSE ppc' = "get" /\ UNCHANGED draining
    /\ UNCHANGED <<faults, handleVars, xferVars, spc, got, left, closeVars, ioVars>>

PendingLeftLess == Cardinality(iocpPending') - 1

\* pending := len(h.iocpPending), after the delete.
PendingLeft == Cardinality(iocpPending')

\* Take the transfer of the packet out of the map and count what is left.
pumpDispatch ==
    /\ ppc = "dispatch"
    /\ iocpPending' = iocpPending \ {got[1]}
    /\ left' = PendingLeft
    /\ ppc' = IF got[1] \in iocpPending THEN "notify" ELSE "next"
    /\ UNCHANGED <<faults, closed, handles, associated, resets, iocpRunning, port,
                   doneClosed, xferVars, spc, draining, got, closeVars, ioVars>>

\* The transfer is told its result under t.mu.
Notify(x, e) ==
    /\ done' = [done EXCEPT ![x] = TRUE]
    /\ submitted' = [submitted EXCEPT ![x] = FALSE]
    /\ lastErr' = [lastErr EXCEPT ![x] = e]

pumpNotify ==
    /\ ppc = "notify"
    /\ Notify(got[1], got[2])
    /\ ppc' = "next"
    /\ UNCHANGED <<faults, handleVars, nsub, spc, draining, got, left, closeVars, ioVars>>

\* Leave the loop when the last transfer of a drain has been served.
pumpNext ==
    /\ ppc = "next"
    /\ ppc' = IF draining /\ left = 0 THEN "stop" ELSE "get"
    /\ got' = <<>> /\ left' = 0
    /\ UNCHANGED <<faults, handleVars, xferVars, spc, draining, closeVars, ioVars>>

\* defer close(h.iocpDone)
pumpStop ==
    /\ ppc = "stop"
    /\ doneClosed' = TRUE
    /\ ppc' = "stopped"
    /\ UNCHANGED <<faults, closed, handles, associated, resets, iocpRunning, port,
                   iocpPending, xferVars, spc, draining, got, left, closeVars,
                   ioVars>>

iocpPump == \/ \E x \in Xfers : pumpPacket(x)
            \/ pumpNil \/ pumpDrainTimeout \/ pumpRecheck \/ pumpDispatch
            \/ pumpNotify \/ pumpNext \/ pumpStop
-----------------------------------------------------------------------------
(* ResetDevice, Close                                                      *)

\* Close the handles, which ends their requests, and reopen the device. The
\* new file is not associated with the port; when the reopen fails the fields
\* keep the closed handles.
ResetDevice ==
    /\ resets < MaxResets
    /\ ~closed
    /\ resets' = resets + 1
    /\ EndRequests(Requests, "err")
    /\ \/ handles' = "open"
       \/ "reopen" \in faults /\ handles' = "stale"
    /\ associated' = FALSE
    /\ UNCHANGED <<faults, closed, iocpRunning, port, doneClosed, iocpPending, xferVars,
                   spc, pumpVars, closeVars, wake>>

\* Close up to the first Unlock.
CloseMark ==
    /\ closePc = "idle"
    /\ closed' = TRUE
    /\ closeRunning' = iocpRunning
    /\ atClose' = Requests
    /\ closePc' = IF iocpRunning THEN "cancel" ELSE "release"
    /\ UNCHANGED <<faults, handles, associated, resets, iocpRunning, port, doneClosed,
                   iocpPending, xferVars, spc, pumpVars, ioVars>>

\* CancelIoEx for everything in the map: a request, not a completion.
CloseCancel ==
    /\ closePc = "cancel"
    /\ cancelled' = cancelled \cup (iocpPending \cap Requests)
    /\ closePc' = "post"
    /\ UNCHANGED <<faults, handleVars, xferVars, spc, pumpVars, closeRunning, atClose,
                   io, packets, wake>>

\* PostQueuedCompletionStatus(iocp, 0, 0, nil)
PostWake == wake' = TRUE

ClosePost ==
    /\ closePc = "post"
    /\ PostWake
    /\ closePc' = "join"
    /\ UNCHANGED <<faults, handleVars, xferVars, spc, pumpVars, closeRunning, atClose,
                   io, cancelled, packets>>

\* <-iocpDone
CloseJoin ==
    /\ closePc = "join"
    /\ doneClosed
    /\ closePc' = "release"
    /\ UNCHANGED <<faults, handleVars, xferVars, spc, pumpVars, closeRunning, atClose,
                   ioVars>>

\* Free the WinUSB handle, close the file (its requests end), close the port.
CloseRelease ==
    /\ closePc = "release"
    /\ handles' = "zero"
    /\ EndRequests(Requests, "err")
    /\ port' = IF port = "open" THEN "closed" ELSE port
    /\ associated' = FALSE
    /\ closePc' = "done"
    /\ UNCHANGED <<faults, closed, resets, iocpRunning, doneClosed, iocpPending,
                   xferVars, spc, pumpVars, closeRunning, atClose, wake>>

Close == CloseMark \/ CloseCancel \/ ClosePost \/ CloseJoin \/ CloseRelease
-----------------------------------------------------------------------------
Init ==
    /\ faults \in FaultSets
    /\ closed = FALSE /\ handles = "open" /\ associated = FALSE /\ resets = 0
    /\ iocpRunning = FALSE /\ port = "none" /\ doneClosed = FALSE
    /\ iocpPending = {}
    /\ submitted = [x \in Xfers |-> FALSE] /\ done = [x \in Xfers |-> FALSE]
    /\ lastErr = [x \in Xfers |-> FALSE] /\ nsub = [x \in Xfers |-> 0]
    /\ spc = [x \in Xfers |-> "idle"]
    /\ ppc = "off" /\ draining = FALSE /\ got = <<>> /\ left = 0
    /\ closePc = "idle" /\ closeRunning = FALSE /\ atClose = {}
    /\ io = [x \in Xfers |-> "none"] /\ cancelled = {}
    /\ packets = [x \in Xfers |-> "none"] /\ wake = FALSE

Next ==
    \/ \E x \in Xfers : \/ SubmitEnter(x) \/ SubmitStep(x) \/ Cancel(x)
                        \/ RequestCompletes(x)
    \/ iocpPump
    \/ ResetDevice
    \/ Close

Spec == Init /\ [][Next]_vars

(***************************************************************************)
(* Goroutines that can run are scheduled, the drain timer fires, and a     *)
(* driver that is not stuck completes what it was asked to cancel.         *)
(***************************************************************************)
Fairness ==
    /\ \A x \in Xfers : /\ WF_vars(SubmitStep(x))
                        /\ WF_vars(x \in cancelled /\ RequestCompletes(x))
                        /\ WF_vars(pumpPacket(x))
    /\ WF_vars(iocpPump)
    /\ WF_vars(Close /\ closePc # "idle")

FairSpec == Spec /\ Fairness
-----------------------------------------------------------------------------
(* Properties                                                              *)

HandleType ==
    /\ faults \in FaultSets
    /\ closed \in BOOLEAN /\ handles \in {"open", "stale", "zero"}
    /\ associated \in BOOLEAN /\ resets \in 0..MaxResets
    /\ iocpRunning \in BOOLEAN /\ port \in {"none", "open", "closed"}
    /\ doneClosed \in BOOLEAN /\ iocpPending \subseteq Xfers
    /\ closePc \in {"idle", "cancel", "post", "join", "release", "done"}
    /\ closeRunning \in BOOLEAN /\ atClose \subseteq Xfers

XferType ==
    /\ submitted \in [Xfers -> BOOLEAN] /\ done \in [Xfers -> BOOLEAN]
    /\ lastErr \in [Xfers -> BOOLEAN] /\ nsub \in [Xfers -> 0..MaxSubmits]
    /\ spc \in [Xfers -> {"idle", "register", "issue", "unregister", "undo"}]

PumpType ==
    /\ ppc \in {"off", "get", "recheck", "dispatch", "notify", "next", "stop",
                "stopped"}
    /\ draining \in BOOLEAN /\ got \in (Xfers \X BOOLEAN) \cup {<<>>}
    /\ left \in 0..Cardinality(Xfers)

IoType ==
    /\ io \in [Xfers -> {"none", "pending"}] /\ cancelled \subseteq Xfers
    /\ packets \in [Xfers -> {"none", "ok", "err"}] /\ wake \in BOOLEAN

\* Every variable of the handle, the transfers, the pump and Windows stays in
\* its domain.
TypeOK == HandleType /\ XferType /\ PumpType /\ IoType

\* Submit registers before it issues the request, so every packet the pump
\* takes from the port finds its transfer in the map.
PacketFindsTransfer == ppc = "dispatch" => got[1] \in iocpPending

\* The caller may use the buffer of a transfer, or submit it again, only when
\* neither the driver nor the port nor the pump still holds its request.
BufferReturned ==
    \A x \in Xfers : done[x] \/ (~submitted[x] /\ spc[x] = "idle") =>
        /\ io[x] = "none" /\ packets[x] = "none"
        /\ ppc \in {"dispatch", "notify"} => got[1] # x

\* Every transfer in flight when Close marked the handle closed is told of its
\* end, unless its driver is stuck or a reset has cut the handle off from the
\* port: the pump serves the cancelled requests before it stops.
InFlightAtCloseReleased ==
    \A x \in Xfers : x \in atClose /\ "stuck" \notin faults /\ resets = 0 ~> done[x]

\* Close returns.
CloseReturns == closed ~> closePc = "done"
=============================================================================
