------------------------------- MODULE MCLinux --------------------------------
(***************************************************************************)
(* Two parts of the Linux backend in one run: the hotplug watch, and a     *)
(* device handle with its claims and synchronous transfers. They share no  *)
(* state, so that a behaviour is about one of them, its part.              *)
(***************************************************************************)
EXTENDS HotplugLinux

CONSTANTS Procs, Ifaces, Fds, MaxOpens, MaxRetries              \* UsbfsHandle

VARIABLES part,
          fdTable, owner, gone, fd, claimedIfaces, closed, wrapped, inherited,
          opens, pc, attempt, useFd, limited, lastErr

U == INSTANCE UsbfsHandle

ASSUME HandleConstants == U!ConstantsAssumption

handleAll == <<fdTable, owner, gone, fd, claimedIfaces, closed, wrapped, inherited,
               opens, pc, attempt, useFd, limited, lastErr>>
allVars == <<part, vars, handleAll>>

\* A watch whose registration has failed takes no step.
NoWatch ==
    /\ faults = {} /\ present = {} /\ leaving = {} /\ used = Devices
    /\ foreign = MaxForeign /\ bound = FALSE /\ queue = <<>> /\ overrun = FALSE
    /\ seen = {} /\ stopped = FALSE /\ doneClosed = FALSE
    /\ wakeByte = FALSE /\ fdsOpen = FALSE
    /\ regPc = "failed" /\ todo = {} /\ ppc = "off" /\ event = NoEvent
    /\ dpc = [c \in Callers |-> "idle"]
    /\ view = {} /\ calls = 0 /\ lastCall = NoEvent

\* One state of an open handle, for the behaviours that are about the watch.
SomeHandle == owner = [i \in Ifaces |-> U!Free] /\ ~wrapped

\* The numbers of descriptors are interchangeable, and so are the interfaces: one of
\* the numbers is taken first, one of the interfaces may have been claimed before.
MCInit == /\ U!Init /\ fd = CHOOSE n \in Fds : TRUE
          /\ inherited \subseteq {CHOOSE i \in Ifaces : TRUE}
          /\ \/ part = "watch" /\ Init /\ SomeHandle
             \/ part = "handle" /\ NoWatch

MCNext == \/ part = "watch" /\ Next /\ UNCHANGED <<part, handleAll>>
          \/ part = "handle" /\ U!Next /\ UNCHANGED <<part, vars>>

MCSpec == MCInit /\ [][MCNext]_allVars /\ Fairness

\* The claims of a handle are the kernel's while it is open, and Close leaves
\* none of them and no descriptor.
ClaimsAccounted == U!TypeOK /\ U!ClaimsMatchKernel /\ U!CloseReleasesAll

\* A transfer that holds the lock is on the handle's own file, and a retry follows a
\* cleared halt.
TransfersSafe == U!LockedTransferOnOwnFile /\ U!HaltClearedBeforeRetry

\* Nothing waits for good: a device that arrives is reported, Deregister returns, and
\* whenever goroutines wait for the lock of a handle one of them can go on.
NothingStuck == ArrivalReported /\ DeregisterReturns /\ []U!NoLockDeadlock
=============================================================================
