----------------------------- MODULE UsbfsHandle -----------------------------
(***************************************************************************)
(* The synchronous side of the Linux DeviceHandle: interface claims,       *)
(* kernel drivers, blocking transfers with their retry, ResetDevice and    *)
(* Close. The reaper of asynchronous transfers is in UsbfsAsync.           *)
(*                                                                         *)
(* Files are the kernel's open files: 1, 2, ... those this handle opened,  *)
(* Foreign one of the rest of the process. A descriptor is an index of     *)
(* fdTable, and its number is reused once it is closed.                    *)
(***************************************************************************)
EXTENDS Naturals, FiniteSets

CONSTANTS Procs,       \* goroutines that call methods of the handle
          Ifaces,
          Fds,         \* descriptor numbers
          MaxOpens,    \* bound on the files the handle opens
          MaxRetries   \* of InterruptTransferWithRetry

\* The module that instantiates this one assumes it.
ConstantsAssumption == MaxOpens \in Nat \ {0} /\ MaxRetries \in Nat

NoFile == 0
NoFd == 0
Files == 1..MaxOpens
Foreign == MaxOpens + 1

\* The owner of an interface is a file of the handle, or
Free == 0                 \* nobody,
Driver == MaxOpens + 2    \* a kernel driver,
Other == MaxOpens + 3     \* usbfs, through a file of another process.

VARIABLES
    \* the kernel
    fdTable,    \* fd number -> open file
    owner,      \* interface -> who has claimed it
    gone,       \* the device is unplugged
    \* the handle
    fd, claimedIfaces, closed, wrapped,
    inherited,  \* what a wrapped descriptor had claimed before it was wrapped
    opens,      \* files opened so far
    \* the goroutines
    pc,         \* where each one is
    attempt,    \* InterruptTransferWithRetry: the attempt
    useFd,      \* the descriptor number its ioctl has been given
    limited,    \* its transfer has a timeout
    lastErr     \* how its last attempt ended

kernelVars == <<fdTable, owner, gone>>
origin == <<wrapped, inherited>>
handleVars == <<fd, claimedIfaces, closed, origin, opens>>
procVars == <<pc, attempt, useFd, limited, lastErr>>
vars == <<kernelVars, handleVars, procVars>>

File == fdTable[fd]

\* Who holds the read lock; only Close announces that it waits for the write lock.
Readers == {p \in Procs : pc[p] \in {"ioctl", "retryIoctl"}}
Closing == {p \in Procs : pc[p] = "closeWait"}
Goto(p, l) == pc' = [pc EXCEPT ![p] = l]

\* The call returns, and its local variables are gone.
Return(p) == /\ Goto(p, "idle")
             /\ useFd' = [useFd EXCEPT ![p] = NoFd] /\ limited' = [limited EXCEPT ![p] = TRUE]
             /\ attempt' = [attempt EXCEPT ![p] = 0] /\ lastErr' = [lastErr EXCEPT ![p] = "none"]
-----------------------------------------------------------------------------
(* The kernel                                                              *)

Unplug ==
    /\ ~gone /\ gone' = TRUE
    /\ owner' = [i \in Ifaces |-> Free]
    /\ UNCHANGED <<fdTable, handleVars, procVars>>

\* The process opens or closes another file.
ForeignOpen ==
    /\ \E n \in Fds : fdTable[n] = NoFile /\ fdTable' = [fdTable EXCEPT ![n] = Foreign]
    /\ UNCHANGED <<owner, gone, handleVars, procVars>>

ForeignClose ==
    /\ \E n \in Fds : fdTable[n] = Foreign /\ fdTable' = [fdTable EXCEPT ![n] = NoFile]
    /\ UNCHANGED <<owner, gone, handleVars, procVars>>

\* Another process claims or releases an interface.
OtherProcess ==
    /\ ~gone
    /\ \E i \in Ifaces : \/ owner[i] = Free /\ owner' = [owner EXCEPT ![i] = Other]
                         \/ owner[i] = Other /\ owner' = [owner EXCEPT ![i] = Free]
    /\ UNCHANGED <<fdTable, gone, handleVars, procVars>>

\* The claims of a file go with its last descriptor.
Dropped(file) == [i \in Ifaces |-> IF owner[i] = file THEN Free ELSE owner[i]]
-----------------------------------------------------------------------------
(* Operations under the write lock                                         *)

LockIgnored(p) == TRUE

\* h.mu.Lock: nobody holds the lock. The ioctls made under it return at once, so
\* that the operation is one step; only Close also waits for a lock it announced.
LockFree(p) == Readers = {}

CloseWaits(p) == Closing \ {p} = {}

WriteOp(p) == pc[p] = "idle" /\ LockFree(p) /\ CloseWaits(p) /\ ~closed

WriteOpKeeps == UNCHANGED <<gone, closed, origin, pc, attempt, useFd, limited, lastErr>>

\* shouldTreatClaimBusyAsSuccess
BusyIsSuccess(i) == wrapped

\* DISCONNECT_CLAIM takes the interface from any driver but usbfs, which is EBUSY
\* even where this descriptor has the claim. A kernel without it (ENOTTY, EINVAL)
\* gets a plain claim, which may repeat the descriptor's own.
Claimable(i, disconnect) ==
    owner[i] \in {Free} \cup (IF disconnect THEN {Driver} ELSE {File})

ClaimInterface(p, i) ==
    /\ WriteOp(p)
    /\ \E disconnect \in BOOLEAN :
         \/ i \in claimedIfaces /\ UNCHANGED <<owner, claimedIfaces>>
         \/ /\ i \notin claimedIfaces /\ ~gone /\ Claimable(i, disconnect)
            /\ owner' = [owner EXCEPT ![i] = File]
            /\ claimedIfaces' = claimedIfaces \cup {i}
         \/ /\ i \notin claimedIfaces /\ ~gone /\ ~Claimable(i, disconnect)
            /\ claimedIfaces' = IF BusyIsSuccess(i) THEN claimedIfaces \cup {i} ELSE claimedIfaces
            /\ UNCHANGED owner
         \/ /\ i \notin claimedIfaces /\ gone
            /\ UNCHANGED <<owner, claimedIfaces>>
    /\ UNCHANGED <<fdTable, fd, opens>> /\ WriteOpKeeps

\* releaseInterfaceInternal: an error keeps the claim.
Released(i) == IF owner[i] = File THEN claimedIfaces \ {i} ELSE claimedIfaces

ReleaseInterface(p, i) ==
    /\ WriteOp(p) /\ i \in claimedIfaces
    /\ claimedIfaces' = Released(i)
    /\ owner' = IF owner[i] = File THEN [owner EXCEPT ![i] = Free] ELSE owner
    /\ UNCHANGED <<fdTable, fd, opens>> /\ WriteOpKeeps

\* DetachKernelDriver and AttachKernelDriver: the errors they accept change nothing.
DetachKernelDriver(p, i) ==
    /\ WriteOp(p)
    /\ \/ ~gone /\ owner[i] = Driver /\ owner' = [owner EXCEPT ![i] = Free]
       \/ UNCHANGED owner
    /\ UNCHANGED <<fdTable, fd, claimedIfaces, opens>> /\ WriteOpKeeps

AttachKernelDriver(p, i) ==
    /\ WriteOp(p)
    /\ \/ ~gone /\ owner[i] = Free /\ owner' = [owner EXCEPT ![i] = Driver]
       \/ UNCHANGED owner
    /\ UNCHANGED <<fdTable, fd, claimedIfaces, opens>> /\ WriteOpKeeps

\* SetInterfaceAltSetting, SetConfiguration and ClearHalt: one request under the
\* lock that no other state depends on; the first needs the claim.
DeviceRequest(p, i) ==
    /\ WriteOp(p)
    /\ UNCHANGED <<fdTable, owner, fd, claimedIfaces, opens>> /\ WriteOpKeeps

SetInterfaceAltSetting(p, i) == i \in claimedIfaces /\ DeviceRequest(p, i)

KeepsClaims == claimedIfaces

\* Closing the old descriptor released the claims.
ResetClaims == {}

\* The device is opened again as n before the old descriptor is closed.
Reopened(n) == [fdTable EXCEPT ![n] = opens + 1, ![fd] = NoFile]

\* ResetDevice opens the device again and closes the old descriptor; if the open
\* fails (no descriptor left, no path, no device) nothing changes.
ResetDevice(p) ==
    /\ WriteOp(p)
    /\ \/ UNCHANGED <<kernelVars, fd, claimedIfaces, opens>>
       \/ /\ ~gone /\ opens < MaxOpens
          /\ \E n \in Fds :
               /\ fdTable[n] = NoFile
               /\ fdTable' = Reopened(n)
               /\ fd' = n
          /\ opens' = opens + 1
          /\ owner' = Dropped(File)
          /\ claimedIfaces' = ResetClaims
          /\ UNCHANGED gone
    /\ UNCHANGED <<closed, origin, procVars>>
-----------------------------------------------------------------------------
(* Operations under the read lock: ControlTransfer, BulkTransfer and the   *)
(* requests that share their shape. The ioctl may block until it times out.*)

ReadEnter(p, l, lim) ==
    /\ CloseWaits(p) /\ ~closed
    /\ useFd' = [useFd EXCEPT ![p] = fd]
    /\ limited' = [limited EXCEPT ![p] = lim]
    /\ Goto(p, l)

TransferEnter(p, lim) ==
    /\ pc[p] = "idle" /\ ReadEnter(p, "ioctl", lim)
    /\ UNCHANGED <<kernelVars, handleVars, attempt, lastErr>>

\* A timeout of 0 is none.
ControlTransfer(p) == \E lim \in BOOLEAN : TransferEnter(p, lim)

BulkTransferWithOptions(p) == \E lim \in BOOLEAN : TransferEnter(p, lim)

\* Status, ClearFeature and SetFeature; Interface, RawDescriptor, SetDescriptor
\* and SynchFrame; RawConfigDescriptor: they leave the timeout of the request 0.
FeatureRequest(p) == TransferEnter(p, FALSE)

DescriptorRequest(p) == TransferEnter(p, FALSE)

RawConfigDescriptor(p) == TransferEnter(p, FALSE)

\* Capabilities, Speed, AllocStreams and FreeStreams, and ResetEndpoint: answered
\* by the kernel, so that the lock is held for one step.
UsbfsQuery(p) ==
    /\ pc[p] = "idle" /\ CloseWaits(p) /\ ~closed
    /\ UNCHANGED vars

ResetEndpoint(p) == UsbfsQuery(p)

Request(p) == \/ ControlTransfer(p) \/ BulkTransferWithOptions(p) \/ FeatureRequest(p)
              \/ DescriptorRequest(p) \/ RawConfigDescriptor(p) \/ UsbfsQuery(p)
              \/ ResetEndpoint(p)

\* The ioctl returns: the lock is released.
TransferReturn(p) ==
    /\ pc[p] = "ioctl" /\ Return(p)
    /\ UNCHANGED <<kernelVars, handleVars>>

\* Configuration, StringDescriptor and ReadConfigDescriptor take no lock and do
\* not look at closed.
Unlocked(p) ==
    /\ pc[p] = "idle" /\ Goto(p, "unlocked")
    /\ useFd' = [useFd EXCEPT ![p] = fd]
    /\ UNCHANGED <<kernelVars, handleVars, attempt, limited, lastErr>>

UnlockedReturn(p) ==
    /\ pc[p] = "unlocked" /\ Return(p)
    /\ UNCHANGED <<kernelVars, handleVars>>
-----------------------------------------------------------------------------
(* InterruptTransferWithRetry                                              *)

retryStart(p) ==
    /\ pc[p] = "idle" /\ attempt' = [attempt EXCEPT ![p] = 0]
    /\ \E lim \in BOOLEAN : ReadEnter(p, "retryIoctl", lim)
    /\ lastErr' = [lastErr EXCEPT ![p] = "none"]
    /\ UNCHANGED <<kernelVars, handleVars>>

\* BulkTransfer returns ErrTimeout, an errno (EIO and EPIPE among them), or nil.
retryReturn(p) ==
    /\ pc[p] = "retryIoctl"
    /\ \/ Return(p)
       \/ \E err \in (IF limited[p] THEN {"timeout"} ELSE {}) \cup {"errno"} :
            /\ lastErr' = [lastErr EXCEPT ![p] = err] /\ Goto(p, "retryCheck")
            /\ useFd' = [useFd EXCEPT ![p] = NoFd] /\ UNCHANGED <<attempt, limited>>
    /\ UNCHANGED <<kernelVars, handleVars>>

\* err == ErrTimeout || err == ErrIO; an errno is neither.
ClearsHalt(p) == lastErr[p] = "timeout"

\* ClearHalt takes the write lock; if it fails, or the handle is closed, the loop
\* ends with the error of the transfer.
retryClearHalt(p) ==
    /\ pc[p] = "retryCheck" /\ ClearsHalt(p)
    /\ LockFree(p) /\ CloseWaits(p)
    /\ \/ /\ ~closed /\ ~gone /\ Goto(p, "retryNext")
          /\ lastErr' = [lastErr EXCEPT ![p] = "cleared"]
          /\ UNCHANGED <<attempt, useFd, limited>>
       \/ Return(p)
    /\ UNCHANGED <<kernelVars, handleVars>>

\* Other errors go to the next attempt at once.
retrySkip(p) ==
    /\ pc[p] = "retryCheck" /\ ~ClearsHalt(p) /\ Goto(p, "retryNext")
    /\ UNCHANGED <<kernelVars, handleVars, attempt, useFd, limited, lastErr>>

MoreAttempts(p) == attempt[p] < MaxRetries

retryNext(p) ==
    /\ pc[p] = "retryNext"
    /\ \/ /\ MoreAttempts(p) /\ ReadEnter(p, "retryIoctl", limited[p])
          /\ attempt' = [attempt EXCEPT ![p] = @ + 1] /\ UNCHANGED lastErr
       \/ /\ ~MoreAttempts(p) \/ closed   \* ErrDeviceNotFound ends the loop
          /\ Return(p)
    /\ UNCHANGED <<kernelVars, handleVars>>
-----------------------------------------------------------------------------
(* Close                                                                   *)

CloseAgain(p) ==
    /\ pc[p] = "idle" /\ closed /\ LockFree(p) /\ CloseWaits(p)
    /\ UNCHANGED vars

\* The caller waits for the lock, and keeps new readers out while it does.
CloseEnter(p) ==
    /\ pc[p] = "idle" /\ ~closed /\ CloseWaits(p) /\ Goto(p, "closeWait")
    /\ UNCHANGED <<kernelVars, handleVars, attempt, useFd, limited, lastErr>>

\* The first critical section. Another Close may have been here before.
CloseMark(p) ==
    /\ pc[p] = "closeWait" /\ LockFree(p)
    /\ closed' = TRUE /\ Goto(p, IF closed THEN "idle" ELSE "closeRelease")
    /\ UNCHANGED <<kernelVars, fd, claimedIfaces, origin, opens,
                   attempt, useFd, limited, lastErr>>

\* The second one: release what is claimed, close the descriptor.
CloseRelease(p) ==
    /\ pc[p] = "closeRelease" /\ LockFree(p) /\ CloseWaits(p)
    /\ claimedIfaces' = {i \in claimedIfaces : owner[i] # File}
    /\ owner' = Dropped(File)
    /\ fdTable' = [fdTable EXCEPT ![fd] = NoFile]
    /\ Goto(p, "closed")
    /\ UNCHANGED <<gone, fd, closed, origin, opens, attempt, useFd, limited, lastErr>>

Close(p) == CloseAgain(p) \/ CloseEnter(p) \/ CloseMark(p) \/ CloseRelease(p)
-----------------------------------------------------------------------------
\* Device.Open, or WrapSysDevice with a descriptor another program opened, which
\* may have claims; the new handle lists none. It is the file's only descriptor.
Init ==
    /\ \E n \in Fds : fd = n /\ fdTable = [m \in Fds |-> IF m = n THEN 1 ELSE NoFile]
    /\ wrapped \in BOOLEAN /\ inherited \in SUBSET (IF wrapped THEN Ifaces ELSE {})
    /\ owner \in [Ifaces -> {Free, Driver, 1}] /\ {i \in Ifaces : owner[i] = 1} = inherited
    /\ gone = FALSE /\ claimedIfaces = {} /\ closed = FALSE /\ opens = 1
    /\ pc = [p \in Procs |-> "idle"]
    /\ attempt = [p \in Procs |-> 0] /\ useFd = [p \in Procs |-> NoFd]
    /\ limited = [p \in Procs |-> TRUE] /\ lastErr = [p \in Procs |-> "none"]

Retry(p) == \/ retryStart(p) \/ retryReturn(p) \/ retryClearHalt(p)
            \/ retrySkip(p) \/ retryNext(p)

Locked(p) ==
    \/ \E i \in Ifaces : \/ ClaimInterface(p, i) \/ ReleaseInterface(p, i)
                         \/ DetachKernelDriver(p, i) \/ AttachKernelDriver(p, i)
                         \/ DeviceRequest(p, i) \/ SetInterfaceAltSetting(p, i)
    \/ ResetDevice(p) \/ Request(p) \/ TransferReturn(p) \/ Retry(p) \/ Close(p)

Next ==
    \/ Unplug \/ ForeignOpen \/ ForeignClose \/ OtherProcess
    \/ \E p \in Procs : Locked(p) \/ Unlocked(p) \/ UnlockedReturn(p)

Spec == Init /\ [][Next]_vars
-----------------------------------------------------------------------------
(* Properties                                                              *)

KernelType ==
    /\ fdTable \in [Fds -> Files \cup {Foreign, NoFile}]
    /\ owner \in [Ifaces -> Files \cup {Free, Driver, Other}]
    /\ gone \in BOOLEAN

HandleType ==
    /\ claimedIfaces \subseteq Ifaces /\ fd \in Fds /\ opens \in Files
    /\ closed \in BOOLEAN /\ wrapped \in BOOLEAN /\ inherited \subseteq Ifaces

ProcType ==
    /\ pc \in [Procs -> {"idle", "ioctl", "unlocked", "retryIoctl", "retryCheck",
                         "retryNext", "closeWait", "closeRelease", "closed"}]
    /\ attempt \in [Procs -> 0..MaxRetries] /\ useFd \in [Procs -> Fds \cup {NoFd}]
    /\ limited \in [Procs -> BOOLEAN]
    /\ lastErr \in [Procs -> {"none", "timeout", "errno", "cleared"}]

\* Every variable stays in its domain.
TypeOK == KernelType /\ HandleType /\ ProcType

\* The earlier claims of a wrapped descriptor, which go with it at a reset.
Unlisted == IF opens = 1 THEN inherited ELSE {}

\* claimedIfaces is what the kernel has claimed for the handle's descriptor, over
\* resets, failed releases and drivers that come and go, until the device is
\* unplugged. A wrapped handle may have claims of its descriptor that it does not
\* list, and lists what EBUSY says that others have.
ClaimsMatchKernel ==
    ~gone /\ ~closed =>
      LET held == {i \in Ifaces : owner[i] = File} IN
        /\ held \subseteq claimedIfaces \cup Unlisted
        /\ ~wrapped => claimedIfaces \subseteq held

\* A transfer under the read lock goes to the handle's own file: neither Close nor
\* ResetDevice replaces the descriptor under it.
LockedTransferOnOwnFile ==
    \A p \in Readers : useFd[p] = fd /\ fdTable[useFd[p]] = opens

\* When Close has returned, nothing of the handle is left in the kernel: no claim
\* of any file it opened, no descriptor.
CloseReleasesAll ==
    (\E p \in Procs : pc[p] = "closed") =>
      /\ \A i \in Ifaces : owner[i] \notin Files
      /\ \A n \in Fds : fdTable[n] \notin Files

\* After a timeout no attempt is made before the halt has been cleared.
HaltClearedBeforeRetry ==
    \A p \in Procs : pc[p] = "retryIoctl" /\ attempt[p] > 0 => lastErr[p] # "timeout"

\* Whenever a goroutine waits for the lock, some goroutine can go on: the retry
\* loop gives its read lock back before ClearHalt asks for the write lock, and a
\* Close that waits blocks only those that hold nothing.
NoLockDeadlock ==
    (\E p \in Procs : pc[p] \in {"closeWait", "closeRelease", "retryCheck", "retryNext"})
      => ENABLED \E p \in Procs :
           \/ TransferReturn(p) \/ retryReturn(p) \/ retryClearHalt(p) \/ retrySkip(p)
           \/ retryNext(p) \/ CloseMark(p) \/ CloseRelease(p)
=============================================================================
