----------------------------- MODULE WinUsbHandle -----------------------------
(***************************************************************************)
(* The synchronous side of the Windows DeviceHandle: the WinUSB handles    *)
(* behind Open, ClaimInterface, ResetDevice and Close, overlapped          *)
(* transfers with their timeout (WinUSB pipes, control, HID reports), and  *)
(* the AsyncBulkTransfer goroutine that runs on top of them. The           *)
(* completion port of AsyncTransfer is in WinUsbAsync.                     *)
(*                                                                         *)
(* System handles are numbers; a new one is a number that nothing refers   *)
(* to. None is 0 or INVALID_HANDLE_VALUE.                                  *)
(***************************************************************************)
EXTENDS Naturals, FiniteSets

CONSTANTS Callers,      \* goroutines that call the handle
          Worker,       \* the goroutine AsyncBulkTransfer.Submit starts
          Ifaces        \* interface numbers but 0

ASSUME ConstantsAssumption ==
    /\ IsFiniteSet(Callers) /\ Worker \notin Callers
    /\ IsFiniteSet(Ifaces) /\ Ifaces \subseteq Nat \ {0}

Procs == Callers \cup {Worker}
None == 0
NoReq == [st |-> "none", on |-> None]

VARIABLES
    live,          \* system handles that are open
    misused,       \* a handle that was not open has been used or freed,
                   \* with every ResetDevice so far successful
    file, winusb, interfaceHandles, claimedIfaces, closed,
    hid,           \* the collection's handle on the HID transport, or None
    resetFailed,   \* a ResetDevice did not get back the handles it had freed
    pc,
    req,           \* the request that has a goroutine's buffer, in the driver
    limited,       \* the transfer has a timeout
    waitFailed,    \* WaitForSingleObject has failed in some transfer
    ab             \* AsyncBulkTransfer: "new", "running", "completed"

sysVars == <<live, misused>>
handleVars == <<file, winusb, interfaceHandles, claimedIfaces, closed, hid, resetFailed>>
callVars == <<pc, req, limited, waitFailed, ab>>
vars == <<sysVars, handleVars, callVars>>

NoHandles == [i \in Ifaces |-> None]
Goto(p, l) == pc' = [pc EXCEPT ![p] = l]

\* Who holds the read lock: a transfer keeps it until it returns.
Readers == {p \in Procs : pc[p] \in {"wait", "drain"}}
Closing == {p \in Procs : pc[p] = "closeWait"}

WriteLockIgnored(p) == Closing \ {p} = {}

LockFree(p) == Readers = {} /\ Closing \ {p} = {}

WriteOp(p) == pc[p] = "idle" /\ p \in Callers /\ LockFree(p) /\ ~closed

Held == {file, winusb} \cup {interfaceHandles[i] : i \in Ifaces}

InDriver == {req[p].on : p \in Procs}

NewHandle(inUse) == CHOOSE x \in 1..(Cardinality(inUse) + 1) : x \notin inUse

Uses(x) == misused' = (misused \/ (~resetFailed /\ x \notin live))

\* Frees the handles of a set, each of them a value other than None.
Frees(xs) == /\ misused' = (misused \/ (~resetFailed /\ ~(xs \subseteq live)))
             /\ live' = live \ xs
-----------------------------------------------------------------------------
(* Open and the operations under the write lock                            *)

getInterfaceHandle(i) == IF i = 0 THEN winusb ELSE interfaceHandles[i]

\* When the file cannot be opened, or WinUsb_Initialize fails on it, the device is
\* opened as a HID collection.
Init ==
    /\ \/ file = 1 /\ winusb = 2 /\ hid = None /\ live = {1, 2}
       \/ file = None /\ winusb = None /\ hid = 1 /\ live = {1}
    /\ misused = FALSE
    /\ interfaceHandles = NoHandles /\ claimedIfaces = {} /\ closed = FALSE
    /\ resetFailed = FALSE /\ waitFailed = FALSE
    /\ pc = [p \in Procs |-> "idle"] /\ req = [p \in Procs |-> NoReq]
    /\ limited = [p \in Procs |-> TRUE] /\ ab = "new"

WriteOpKeeps == UNCHANGED <<closed, hid, resetFailed, callVars>>

ClaimInterface(p, i) ==
    /\ WriteOp(p)
    /\ \/ i = 0 /\ claimedIfaces' = claimedIfaces \cup {0}
          /\ UNCHANGED <<interfaceHandles, live, misused>>
       \/ /\ i # 0 /\ i \notin claimedIfaces /\ winusb # None /\ Uses(winusb)
          /\ \/ /\ winusb \in live                    \* WinUsb_GetAssociatedInterface
                /\ LET x == NewHandle(live \cup Held \cup InDriver) IN
                     /\ interfaceHandles' = [interfaceHandles EXCEPT ![i] = x]
                     /\ live' = live \cup {x}
                /\ claimedIfaces' = claimedIfaces \cup {i}
             \/ UNCHANGED <<interfaceHandles, claimedIfaces, live>>
    /\ UNCHANGED <<file, winusb>> /\ WriteOpKeeps

Forget(i) == [interfaceHandles EXCEPT ![i] = None]

\* releaseInterfaceInternal
ReleaseInterface(p, i) ==
    /\ WriteOp(p) /\ i \in claimedIfaces
    /\ claimedIfaces' = claimedIfaces \ {i}
    /\ IF i = 0 THEN UNCHANGED <<interfaceHandles, live, misused>>
       ELSE interfaceHandles' = Forget(i) /\ Frees({interfaceHandles[i]})
    /\ UNCHANGED <<file, winusb>> /\ WriteOpKeeps

\* SetInterfaceAltSetting and ClearHalt: a request on the interface's handle;
\* with no handle the call fails.
PipeRequest(p, i) ==
    /\ WriteOp(p) /\ getInterfaceHandle(i) # None /\ Uses(getInterfaceHandle(i))
    /\ UNCHANGED <<live, file, winusb, interfaceHandles, claimedIfaces>>
    /\ WriteOpKeeps

\* Calls that hold the read lock while WinUSB answers on handle x.
ReadOp(p, x) ==
    /\ pc[p] = "idle" /\ p \in Callers /\ Closing = {} /\ ~closed
    /\ x # None /\ Uses(x)
    /\ UNCHANGED <<live, handleVars, callVars>>

\* StringDescriptor, RawConfigDescriptor, Speed; Status and what follows it, with
\* a control transfer that is not overlapped; the BOS and qualifier descriptors.
DescriptorRequest(p) == ReadOp(p, winusb)

StandardRequest(p) == ReadOp(p, winusb)

ReadBOSDescriptor(p) == ReadOp(p, winusb)

\* GetFeatureReport and the calls like it, FlushHIDQueue; a class request that
\* hidControlTransfer passes on. Without a collection they are refused.
HidRequest(p) == ReadOp(p, hid)

hidControlTransfer(p) == ReadOp(p, hid)

\* SetPipePolicy and Interface
PipePolicy(p, i) == ReadOp(p, getInterfaceHandle(i))

\* ResetDevice frees everything but the collection, then opens the device again. If
\* that fails file and winusb keep the values that were freed, and claimedIfaces
\* may keep 0. A HID handle may gain a file and a WinUSB handle beside its hid.
ResetDevice(p) ==
    /\ WriteOp(p)
    /\ misused' = (misused \/ (~resetFailed /\ ~((Held \ {None}) \subseteq live)))
    /\ interfaceHandles' = NoHandles
    /\ \/ /\ file' = NewHandle(InDriver \cup {hid})
          /\ winusb' = NewHandle(InDriver \cup {hid, file'})
          /\ live' = (live \ Held) \cup {file', winusb'}
          /\ claimedIfaces' = {} /\ UNCHANGED resetFailed
       \/ /\ live' = live \ Held /\ claimedIfaces' = claimedIfaces \cap {0}
          /\ resetFailed' = (resetFailed \/ {file, winusb} # {None})
          /\ UNCHANGED <<file, winusb>>
    /\ UNCHANGED <<closed, hid, callVars>>
-----------------------------------------------------------------------------
(* Overlapped transfers: BulkTransferWithOptions, ControlTransfer and      *)
(* hidCollection.overlappedIO, with awaitOverlapped                        *)

Target(i) == IF hid # None THEN hid ELSE getInterfaceHandle(i)

\* The request is queued (ERROR_IO_PENDING); a request that ends at once, or
\* cannot be made, changes nothing. 0 stands for the device itself.
TransferStart(p, i) ==
    /\ pc[p] = IF p = Worker THEN "start" ELSE "idle"
    /\ Closing = {} /\ ~closed /\ Target(i) \in live
    /\ req' = [req EXCEPT ![p] = [st |-> "pending", on |-> Target(i)]]
    /\ \E lim \in IF p = Worker THEN {TRUE} ELSE BOOLEAN : limited' = [limited EXCEPT ![p] = lim]
    /\ Goto(p, "wait")
    /\ UNCHANGED <<sysVars, handleVars, waitFailed, ab>>

ControlTransfer(p) == hid = None /\ p \in Callers /\ TransferStart(p, 0)

BulkTransferWithOptions(p, i) == hid = None /\ TransferStart(p, i)

\* interruptTransfer of a hidDevice: readReport or writeReport
interruptTransfer(p) == hid # None /\ TransferStart(p, 0)

\* With a handle that was freed the call fails.
TransferStale(p, i) ==
    /\ pc[p] = "idle" /\ p \in Callers
    /\ Closing = {} /\ ~closed /\ Target(i) # None /\ Target(i) \notin live
    /\ Uses(Target(i))
    /\ UNCHANGED <<live, handleVars, callVars>>

\* The driver is done with the request and its buffer. Nobody hears of it when
\* the wait has failed.
RequestCompletes(p) ==
    /\ req[p].st \in {"pending", "cancelled"}
    /\ req' = IF pc[p] \in {"wait", "drain"} THEN [req EXCEPT ![p].st = "done"]
                                             ELSE [req EXCEPT ![p] = NoReq]
    /\ UNCHANGED <<sysVars, handleVars, pc, limited, waitFailed, ab>>

NotCompleted(p) == ab

\* The goroutine of AsyncBulkTransfer stores its result.
AfterRun(p) == IF p = Worker THEN "completed" ELSE ab

Returns(p) == /\ Goto(p, "idle")
              /\ req' = IF req[p].st = "done" THEN [req EXCEPT ![p] = NoReq] ELSE req
              /\ limited' = [limited EXCEPT ![p] = TRUE]
              /\ ab' = AfterRun(p)

awaitDone(p) ==
    /\ pc[p] = "wait" /\ req[p].st = "done" /\ Returns(p)
    /\ UNCHANGED <<sysVars, handleVars, waitFailed>>

\* WinUsb_AbortPipe cancels every request on the pipe; CancelIoEx, for control
\* transfers and HID reports, only the caller's own.
awaitTimeout(p) ==
    /\ pc[p] = "wait" /\ limited[p] /\ Goto(p, "drain")
    /\ \E own \in {TRUE, hid # None} :
         req' = [q \in Procs |->
                   IF req[q].st = "pending" /\ req[q].on = req[p].on /\ (own => q = p)
                     THEN [req[q] EXCEPT !.st = "cancelled"] ELSE req[q]]
    /\ Uses(req[p].on)
    /\ UNCHANGED <<live, handleVars, limited, waitFailed, ab>>

NotDrained(p) == TRUE

\* GetOverlappedResult with bWait
Drained(p) == req[p].st = "done"

awaitDrain(p) ==
    /\ pc[p] = "drain" /\ Drained(p) /\ Returns(p)
    /\ UNCHANGED <<sysVars, handleVars, waitFailed>>

\* The wait itself fails: the call returns and the request stays.
awaitError(p) ==
    /\ pc[p] = "wait" /\ req[p].st = "pending" /\ ~waitFailed
    /\ waitFailed' = TRUE /\ Returns(p)
    /\ UNCHANGED <<sysVars, handleVars>>

Overlapped(p) == \/ ControlTransfer(p) \/ interruptTransfer(p)
                 \/ \E i \in Ifaces \cup {0} : BulkTransferWithOptions(p, i) \/ TransferStale(p, i)
                 \/ RequestCompletes(p) \/ awaitDone(p) \/ awaitTimeout(p)
                 \/ awaitDrain(p) \/ awaitError(p)
-----------------------------------------------------------------------------
(* AsyncBulkTransfer                                                       *)

\* t.submitted && !t.completed refuses a second Submit.
NotInFlight == ab # "running"

abSubmit(p) ==
    /\ pc[p] = "idle" /\ p \in Callers /\ NotInFlight
    /\ ab' = "running" /\ Goto(Worker, "start")
    /\ UNCHANGED <<sysVars, handleVars, req, limited, waitFailed>>

\* The goroutine's BulkTransfer fails at once: closed, or no handle.
abRefused ==
    /\ pc[Worker] = "start" /\ Closing = {}
    /\ closed \/ \E i \in Ifaces \cup {0} : Target(i) \notin live
    /\ Goto(Worker, "idle") /\ ab' = AfterRun(Worker)
    /\ UNCHANGED <<sysVars, handleVars, req, limited, waitFailed>>

\* AsyncBulkTransfer.Wait
abWait(p) ==
    /\ pc[p] = "idle" /\ p \in Callers /\ ab # "new" /\ Goto(p, "abWait")
    /\ UNCHANGED <<sysVars, handleVars, req, limited, waitFailed, ab>>

abWaitReturn(p) ==
    /\ pc[p] = "abWait" /\ ab = "completed" /\ Goto(p, "idle")
    /\ UNCHANGED <<sysVars, handleVars, req, limited, waitFailed, ab>>

\* WinUsb_AbortPipe on the handle of interface 0, whichever interface the
\* endpoint belongs to.
abCancel(p) ==
    /\ pc[p] = "idle" /\ p \in Callers /\ Closing = {} /\ ~closed
    /\ winusb # None /\ Uses(winusb)
    /\ req' = [q \in Procs |-> IF req[q] = [st |-> "pending", on |-> winusb]
                                THEN [req[q] EXCEPT !.st = "cancelled"] ELSE req[q]]
    /\ UNCHANGED <<live, handleVars, pc, limited, waitFailed, ab>>
-----------------------------------------------------------------------------
(* Close                                                                   *)

CloseEnter(p) ==
    /\ pc[p] = "idle" /\ p \in Callers /\ ~closed /\ Closing = {} /\ Goto(p, "closeWait")
    /\ UNCHANGED <<sysVars, handleVars, req, limited, waitFailed, ab>>

\* Between the two critical sections the completion port is shut down.
CloseMark(p) ==
    /\ pc[p] = "closeWait" /\ LockFree(p)
    /\ closed' = TRUE /\ Goto(p, "closeRelease")
    /\ UNCHANGED <<sysVars, file, winusb, interfaceHandles, claimedIfaces, hid, resetFailed,
                   req, limited, waitFailed, ab>>

AllHandles == IF hid # None THEN {hid} ELSE Held

\* A HID handle closes its collections and nothing else; a WinUSB handle frees its
\* interfaces, the device, and closes the file.
CloseRelease(p) ==
    /\ pc[p] = "closeRelease" /\ LockFree(p)
    /\ Frees(AllHandles \ {None})
    /\ IF hid # None THEN UNCHANGED <<file, winusb, interfaceHandles, claimedIfaces>>
       ELSE /\ file' = None /\ winusb' = None /\ interfaceHandles' = NoHandles
            /\ claimedIfaces' = claimedIfaces \cap {0}
    /\ Goto(p, "closed")
    /\ UNCHANGED <<closed, hid, resetFailed, req, limited, waitFailed, ab>>

Close(p) == CloseEnter(p) \/ CloseMark(p) \/ CloseRelease(p)
-----------------------------------------------------------------------------
Next ==
    \/ \E p \in Procs : Overlapped(p) \/ Close(p) \/ abSubmit(p) \/ abWait(p) \/ abWaitReturn(p)
    \/ \E p \in Procs : ResetDevice(p) \/ abCancel(p)
    \/ \E p \in Procs, i \in Ifaces \cup {0} :
         ClaimInterface(p, i) \/ ReleaseInterface(p, i) \/ PipeRequest(p, i)
         \/ PipePolicy(p, i)
    \/ \E p \in Procs : DescriptorRequest(p) \/ StandardRequest(p) \/ ReadBOSDescriptor(p)
                        \/ HidRequest(p) \/ hidControlTransfer(p)
    \/ abRefused

Spec == Init /\ [][Next]_vars

\* A cancelled request completes, a transfer with a timeout times out, started
\* calls go on, and a goroutine that waits for the lock gets it.
Fairness ==
    /\ \A p \in Procs :
         /\ WF_vars(req[p].st = "cancelled" /\ RequestCompletes(p))
         /\ WF_vars(awaitDone(p) \/ awaitTimeout(p) \/ awaitDrain(p))
    /\ \A p \in Callers : SF_vars(CloseMark(p) \/ CloseRelease(p)) /\ WF_vars(abWaitReturn(p))
    /\ SF_vars(abRefused \/ (pc[Worker] = "start" /\ \E i \in Ifaces \cup {0} : TransferStart(Worker, i)))

FairSpec == Spec /\ Fairness
-----------------------------------------------------------------------------
(* Properties                                                              *)

HandleType ==
    /\ live \subseteq Nat \ {None} /\ misused \in BOOLEAN
    /\ file \in Nat /\ winusb \in Nat /\ hid \in Nat /\ interfaceHandles \in [Ifaces -> Nat]
    /\ claimedIfaces \subseteq Ifaces \cup {0}
    /\ closed \in BOOLEAN /\ resetFailed \in BOOLEAN

CallType ==
    /\ pc \in [Procs -> {"idle", "start", "wait", "drain", "abWait", "closeWait",
                         "closeRelease", "closed"}]
    /\ req \in [Procs -> [st : {"none", "pending", "cancelled", "done"}, on : Nat]]
    /\ limited \in [Procs -> BOOLEAN] /\ waitFailed \in BOOLEAN
    /\ ab \in {"new", "running", "completed"}

\* Every variable stays in its domain, and an interface other than 0 is claimed
\* exactly while it has a handle of its own.
TypeOK == /\ HandleType /\ CallType
          /\ \A i \in Ifaces : i \in claimedIfaces <=> interfaceHandles[i] # None

\* No system handle is freed twice, and none is used after it was freed, however
\* claims, releases, resets and Close follow each other, as long as ResetDevice
\* gets the device back.
HandlesFreedOnce == ~misused

\* When Close has returned no handle of the device is open, but for the ones that a
\* ResetDevice has given a HID handle and that its fields still have: Close frees
\* the collection only.
CloseFreesAll ==
    (\E p \in Procs : pc[p] = "closed") =>
        IF hid = None THEN live = {} ELSE live \subseteq Held

\* A transfer returns only when the driver is done with its buffer, a failed wait
\* apart: a timeout cancels the request and waits for it.
BufferReturned ==
    \A p \in Procs : req[p].st \in {"pending", "cancelled"} =>
                       waitFailed \/ pc[p] \in {"wait", "drain"}

\* The request of a transfer in progress is on a handle that is open: neither
\* ReleaseInterface nor ResetDevice nor Close frees it under the transfer.
TransferOnLiveHandle == \A p \in Readers : req[p].on \in live

\* A submitted AsyncBulkTransfer completes, Close or reset in between or not: its
\* transfer has a timeout of five seconds. Only a transfer without a timeout can
\* hold it up, by keeping the lock from a Close that waits before it. (A Wait
\* returns unless the transfer is submitted again before the waiter runs.)
AbCompletes == ab = "running" ~> ab = "completed" \/ \E q \in Readers : ~limited[q]

\* Close returns, unless a transfer without a timeout keeps the lock.
CloseReturns ==
    \A p \in Callers :
      pc[p] = "closeWait" ~> pc[p] \notin {"closeWait", "closeRelease"}
                             \/ \E q \in Readers : ~limited[q]
=============================================================================
