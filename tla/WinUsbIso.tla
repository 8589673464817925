------------------------------ MODULE WinUsbIso -------------------------------
(***************************************************************************)
(* IsochronousTransfer on Windows: NewIsochronousTransfer registers the    *)
(* buffer and creates an event, Submit, Wait and Cancel work on the        *)
(* transfer's own fields without a lock, Close gives buffer and event      *)
(* back. One goroutine submits and waits, another may call Cancel, and     *)
(* the device handle may be closed at any time.                            *)
(***************************************************************************)
EXTENDS Naturals

CONSTANT MaxIsoSubmits    \* bound: calls of Submit that reach the driver

VARIABLES
    registered,   \* the buffer is registered with WinUSB
    event,        \* "none", "reset", "signaled", "closed"
    isoSubmitted, isoDone,
    asked,        \* Cancel was called for the request in flight
    ipc,          \* the goroutine: "create", "idle", "wait", "closed", "failed"
    result,       \* what the latest Wait returned: "none", "ok", "error"
    ireq,         \* the request in the driver: "none", "pending", "aborting"
    endedBy,      \* how the latest request ended: "none", "data", "abort"
    fileOpen,     \* the handle's file is open
    nsubmits

isoFields == <<isoSubmitted, isoDone, asked, result>>
isoSys == <<registered, event, ireq, endedBy, fileOpen>>
winIsoVars == <<isoFields, isoSys, ipc, nsubmits>>

WinIsoInit ==
    /\ registered = FALSE /\ event = "none" /\ fileOpen = TRUE
    /\ isoSubmitted = FALSE /\ isoDone = FALSE /\ asked = FALSE
    /\ ipc = "create" /\ result = "none"
    /\ ireq = "none" /\ endedBy = "none" /\ nsubmits = 0
-----------------------------------------------------------------------------
\* CreateEvent has failed: the registration is undone.
UndoRegister == FALSE

\* WinUsb_RegisterIsochBuffer and CreateEvent.
NewIsochronousTransfer ==
    /\ ipc = "create"
    /\ \/ /\ fileOpen /\ registered' = TRUE /\ event' = "reset" /\ ipc' = "idle"
       \/ /\ ipc' = "failed" /\ registered' = UndoRegister /\ UNCHANGED event
       \/ /\ ipc' = "failed" /\ UNCHANGED <<registered, event>>
    /\ UNCHANGED <<isoFields, ireq, endedBy, fileOpen, nsubmits>>

\* t.submitted && !t.done refuses the call.
MaySubmit == ~(isoSubmitted /\ ~isoDone)

\* ReadIsochPipeAsap or WriteIsochPipeAsap: queued, or an error, which leaves
\* submitted set.
Submit ==
    /\ ipc = "idle" /\ nsubmits < MaxIsoSubmits /\ MaySubmit
    /\ event' = "reset" /\ isoSubmitted' = TRUE /\ isoDone' = FALSE /\ asked' = FALSE
    /\ nsubmits' = nsubmits + 1 /\ result' = "none" /\ endedBy' = "none"
    /\ \/ fileOpen /\ ireq' = "pending"
       \/ UNCHANGED ireq
    /\ UNCHANGED <<registered, ipc, fileOpen>>

\* The driver completes the request and signals the event.
DriverCompletes ==
    /\ ireq # "none"
    /\ ireq' = "none"
    /\ endedBy' = IF ireq = "aborting" THEN "abort" ELSE "data"
    /\ event' = IF event = "closed" THEN event ELSE "signaled"
    /\ UNCHANGED <<registered, fileOpen, isoFields, ipc, nsubmits>>

\* WaitForSingleObject, unless there is nothing to wait for.
WaitEnter ==
    /\ ipc = "idle" /\ isoSubmitted /\ ~isoDone /\ ipc' = "wait"
    /\ UNCHANGED <<isoFields, isoSys, nsubmits>>

Polled == TRUE

Signaled == event = "signaled"

\* The event is signaled: GetOverlappedResult, and the transfer is done whatever
\* that says.
WaitReturn ==
    /\ ipc = "wait" /\ Signaled /\ ipc' = "idle"
    /\ isoDone' = TRUE /\ UNCHANGED <<isoSubmitted, asked>>
    /\ result' = IF fileOpen /\ endedBy = "data" THEN "ok" ELSE "error"
    /\ UNCHANGED <<isoSys, nsubmits>>

\* WaitForSingleObject fails: Wait returns and the transfer is not done.
WaitFails ==
    /\ ipc = "wait" /\ ipc' = "idle" /\ result' = "error"
    /\ UNCHANGED <<isoSubmitted, isoDone, asked, isoSys, nsubmits>>

\* WinUsb_AbortPipe; with a freed interface handle it does nothing.
AbortPipe == ireq' = IF ireq = "pending" /\ fileOpen THEN "aborting" ELSE ireq

Cancel ==
    /\ isoSubmitted /\ ~isoDone /\ ireq = "pending" /\ AbortPipe /\ asked' = TRUE
    /\ UNCHANGED <<registered, event, endedBy, fileOpen, isoSubmitted, isoDone, result, ipc,
                   nsubmits>>

\* IsochronousTransfer.Close: unregister the buffer, close the event. Both only
\* once; a request in flight is not waited for.
CloseTransfer ==
    /\ ipc = "idle" /\ ipc' = "closed"
    /\ registered' = FALSE /\ event' = "closed"
    /\ UNCHANGED <<isoFields, ireq, endedBy, fileOpen, nsubmits>>

\* DeviceHandle.Close closes the file, which ends what is in the driver.
HandleCloses ==
    /\ fileOpen /\ fileOpen' = FALSE
    /\ ireq' = IF ireq = "none" THEN "none" ELSE "aborting"
    /\ UNCHANGED <<registered, event, endedBy, isoFields, ipc, nsubmits>>

WinIsoNext == \/ NewIsochronousTransfer \/ Submit \/ DriverCompletes \/ WaitEnter
              \/ WaitReturn \/ WaitFails \/ Cancel \/ CloseTransfer \/ HandleCloses

\* An aborted request completes, a goroutine whose event is signaled runs. Nothing
\* makes WaitForSingleObject fail.
WinIsoFairness == /\ WF_winIsoVars(ireq = "aborting" /\ DriverCompletes)
                  /\ WF_winIsoVars(WaitReturn)
-----------------------------------------------------------------------------
(* Properties                                                              *)

\* Once Wait has found the event signaled, whatever result it returns, the driver
\* is done with the buffer and the OVERLAPPED of the transfer, so that Submit can
\* use them again. A Wait that fails leaves the transfer in flight.
WaitedMeansReturned == isoDone => ireq = "none"

\* A transfer that was created and closed, or could not be created, has no buffer
\* registered.
RegistrationUndone == ipc \in {"closed", "failed"} => ~registered

\* A goroutine in Wait returns once Cancel was called for its request, or the
\* handle was closed with the request in flight.
AbortEndsWait == ipc = "wait" /\ (asked \/ ireq = "aborting") ~> ipc # "wait"
=============================================================================
