------------------------------- MODULE MCWindows ------------------------------
(***************************************************************************)
(* Four parts of the Windows backend in one run: the completion port of    *)
(* AsyncTransfer, the hotplug watch, isochronous transfers and DeviceList. *)
(* They share no state, so that a behaviour is about one of them, its      *)
(* part.                                                                   *)
(*                                                                         *)
(* The tree of DeviceList: root hubs 1 and 2; on 1 the hub 3, and on it    *)
(* the composite device 4 with the function 5; on 2 the device 6.          *)
(***************************************************************************)
EXTENDS WinUsbAsync

CONSTANTS Paths, DeviceOf, Listable, MatchingPaths, MaxChanges, HotplugFaults,  \* HotplugWindows
          MaxIsoSubmits,                                     \* WinUsbIso
          Nodes, Parent, Port, Hubs, RootHubs, Interfaces    \* WinDeviceList

VARIABLES part,
          hPresent, hChanges, hNotified, hMessages, hWmClose, hWmQuit,
          hSeen, hStopped, hDoneClosed, hRouted, hRegPc, hReady, hListed, hFolded,
          hPpc, hTodo, hDpc, hView, hCalls,
          registered, event, isoSubmitted, isoDone, asked, ipc, result, ireq,
          endedBy, fileOpen, nsubmits,
          present, lpc, k, failedClass, entries, locs, rhDevnodes, numbered, order, hubs, list

H == INSTANCE HotplugWindows
      WITH Match <- MatchingPaths, Faults <- HotplugFaults,
           present <- hPresent, changes <- hChanges, notified <- hNotified,
           messages <- hMessages, wmClose <- hWmClose, wmQuit <- hWmQuit,
           seen <- hSeen, stopped <- hStopped, doneClosed <- hDoneClosed,
           routed <- hRouted, regPc <- hRegPc, ready <- hReady,
           listed <- hListed, folded <- hFolded, ppc <- hPpc, todo <- hTodo,
           dpc <- hDpc, view <- hView, calls <- hCalls

I == INSTANCE WinUsbIso

Path(n, class, fn) == [node |-> n, class |-> class, fn |-> fn]

D == INSTANCE WinDeviceList

MCParent == <<0, 0, 1, 3, 4, 2>>
MCPort == <<0, 0, 1, 2, 0, 2>>
MCInterfaces == {Path(1, "hub", FALSE), Path(3, "hub", FALSE), Path(4, "device", FALSE),
                 Path(5, "winusb", TRUE), Path(6, "winusb", FALSE)}

ASSUME ListConstants == D!TreeAssumption

\* Device 1 has a path of its own and a function's, device 2 a path and one of a class
\* that DeviceList does not read and whose text names no vendor.
MCDeviceOf == [p \in Paths |-> IF p \in {"p1", "p2"} THEN 1 ELSE 2]

ASSUME WatchConstants == H!ConstantsAssumption

watchVars == <<hPresent, hChanges, hNotified, hMessages, hWmClose, hWmQuit,
               hSeen, hStopped, hDoneClosed, hRouted, hRegPc, hReady, hListed, hFolded,
               hPpc, hTodo, hDpc, hView, hCalls>>
isoVars == <<registered, event, isoSubmitted, isoDone, asked, ipc, result, ireq, endedBy,
             fileOpen, nsubmits>>
listVars == <<present, lpc, k, failedClass, entries, locs, rhDevnodes, numbered, order, hubs, list>>
allVars == <<part, vars, watchVars, isoVars, listVars>>

\* A watch whose registration has failed takes no step.
NoWatch ==
    /\ hPresent = {} /\ hChanges = 0 /\ hNotified = FALSE
    /\ hMessages = <<>> /\ hWmClose = FALSE /\ hWmQuit = FALSE
    /\ hSeen = {} /\ hStopped = FALSE /\ hDoneClosed = TRUE /\ hRouted = FALSE
    /\ hRegPc = "failed" /\ hReady = "error" /\ hListed = TRUE /\ hFolded = {}
    /\ hPpc = "stopped" /\ hTodo = {} /\ hDpc = "idle" /\ hView = {} /\ hCalls = 0

\* What was connected before the watch began has its interfaces up.
UpTogether == \A p, q \in Paths : DeviceOf[p] = DeviceOf[q] => (p \in hPresent <=> q \in hPresent)

MCInit == /\ Init /\ I!WinIsoInit /\ D!ListInit
          /\ \/ part = "hotplug" /\ H!Init /\ UpTogether
             \/ part \in {"async", "iso", "list"} /\ NoWatch
          /\ part # "async" => faults = CHOOSE f \in FaultSets : TRUE

MCNext == \/ part = "async" /\ Next /\ UNCHANGED <<part, watchVars, isoVars, listVars>>
          \/ part = "hotplug" /\ H!Next /\ UNCHANGED <<part, vars, isoVars, listVars>>
          \/ part = "iso" /\ I!WinIsoNext /\ UNCHANGED <<part, vars, watchVars, listVars>>
          \/ part = "list" /\ D!ListNext /\ UNCHANGED <<part, vars, watchVars, isoVars>>

MCSpec == MCInit /\ [][MCNext]_allVars /\ Fairness /\ H!Fairness /\ I!WinIsoFairness

\* The hotplug watch: what the user knows is current when every message is handled.
WatchSound == H!TypeOK /\ H!ViewIsCurrent

\* It implements the contract of hotplug.go.
WatchImplementsContract == H!ImplementsContract

\* Isochronous transfers: whoever has waited has its buffer back, and no buffer
\* stays registered without its transfer.
IsoSound == I!WaitedMeansReturned /\ I!RegistrationUndone

\* DeviceList: one line for each device that is not being unplugged, which names the
\* device's own interface, opens a WinUSB one if there is one, and has its hub's address.
ListFaithful == /\ D!ListTypeOK /\ D!OnePerPort /\ D!IdentityIsDevice
                /\ D!OpensWinUsb /\ D!ParentAddressed

\* Every call that waits returns: Close, and Wait of what was in flight when it
\* began; Deregister; Wait of an isochronous transfer that was aborted.
CallsReturn == /\ CloseReturns /\ InFlightAtCloseReleased
               /\ H!DeregisterReturns /\ I!AbortEndsWait
=============================================================================
