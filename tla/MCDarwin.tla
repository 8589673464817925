------------------------------- MODULE MCDarwin -------------------------------
(***************************************************************************)
(* Four parts of the macOS backend in one run: the input queue of a HID    *)
(* collection, the completion pump of an interface, the hotplug watch, and *)
(* a device handle. They share no state, so that a behaviour is about one  *)
(* of them, its part.                                                      *)
(***************************************************************************)
EXTENDS DarwinHid

CONSTANTS Xfers, Iso, Empty,                                    \* DarwinPump
          Together,                  \* bound: the transfers of one behaviour
          Locations, MaxPlugs, Match,                           \* HotplugDarwin
          Ifaces, Seized, Keyboards, Users, Blocking,           \* DarwinHandle
          MaxClaims, MaxCalls

VARIABLES part, together,
          pInflight, pCompletions, pStopRequested, pValid, pAsyncStarted,
          pAsyncErr, pAsyncStopped, pMaps, pAsyncReady, pPending, pShared, pPpc,
          pCurrent, pClosed, pCpc, pQuiet, pSpc, pSubmitted, pCompleted,
          pStatus, pAborted, pCrashed, wPresent, wPlugs, wIter, wArmed,
          wMessages, wHeld, wStopped, wReady, wDoneClosed, wStopRequested,
          wRegPc, wPpc, wDpc, wSeen, wView, wCalls, wMissed,
          closed, claimed, interfaces, hid, opened, hids, claims, cpc, call,
          workers, answers, crashed

P == INSTANCE DarwinPump
      WITH inflight <- pInflight, completions <- pCompletions,
           stopRequested <- pStopRequested, valid <- pValid,
           asyncStarted <- pAsyncStarted, asyncErr <- pAsyncErr,
           asyncStopped <- pAsyncStopped, maps <- pMaps,
           asyncReady <- pAsyncReady, pending <- pPending, shared <- pShared, ppc <- pPpc,
           current <- pCurrent, closed <- pClosed, cpc <- pCpc,
           quiet <- pQuiet, spc <- pSpc, submitted <- pSubmitted,
           completed <- pCompleted, status <- pStatus, aborted <- pAborted,
           crashed <- pCrashed
W == INSTANCE HotplugDarwin
      WITH present <- wPresent, plugs <- wPlugs, iter <- wIter,
           armed <- wArmed, messages <- wMessages, held <- wHeld,
           stopped <- wStopped, ready <- wReady, doneClosed <- wDoneClosed,
           stopRequested <- wStopRequested, regPc <- wRegPc, ppc <- wPpc,
           dpc <- wDpc, seen <- wSeen, view <- wView, calls <- wCalls,
           missed <- wMissed
H == INSTANCE DarwinHandle

ASSUME PumpConstants == P!ConstantsAssumption
ASSUME WatchConstants == W!ConstantsAssumption
ASSUME HandleConstants == H!ConstantsAssumption

pumpAll == <<pInflight, pCompletions, pStopRequested, pValid, pAsyncStarted,
             pAsyncErr, pAsyncStopped, pMaps, pAsyncReady, pPending, pShared, pPpc,
             pCurrent, pClosed, pCpc, pQuiet, pSpc, pSubmitted, pCompleted,
             pStatus, pAborted, pCrashed>>
watchAll == <<wPresent, wPlugs, wIter, wArmed, wMessages, wHeld, wStopped,
              wReady, wDoneClosed, wStopRequested, wRegPc, wPpc, wDpc, wSeen,
              wView, wCalls, wMissed>>
handleAll == <<closed, claimed, interfaces, hid, opened, hids, claims, cpc, call,
               workers, answers, crashed>>
allVars == <<part, together, vars, pumpAll, watchAll, handleAll>>

\* A HID collection that is closed, and a watch that could not be registered.
NoCollection ==
    /\ sent = 0 /\ reports = <<>> /\ cb = "none" /\ lost = {} /\ taken = 0
    /\ rpc = [r \in Readers |-> "idle"] /\ mark = [r \in Readers |-> 0]
    /\ ppc = "exited" /\ ready = TRUE /\ pumpStopped = TRUE /\ stopRequested = TRUE
    /\ opc = "closed" /\ deviceOpen = FALSE

NoWatch ==
    /\ wPresent = {} /\ wPlugs = 0 /\ wIter = [k \in W!Kinds |-> <<>>] /\ wArmed = {}
    /\ wMessages = <<>> /\ wHeld = {} /\ wStopped = FALSE /\ wReady = FALSE
    /\ wDoneClosed = FALSE /\ wStopRequested = FALSE
    /\ wRegPc = "failed" /\ wPpc = "none" /\ wDpc = "idle"
    /\ wSeen = [l \in Locations |-> W!NoService]
    /\ wView = {} /\ wCalls = 0 /\ wMissed = {}

MCInit == /\ part \in {"hid", "pump", "watch", "handle"}
          /\ together \in IF part = "pump" THEN Together ELSE {{}}
          /\ IF part = "hid" THEN Init ELSE NoCollection
          /\ P!Init /\ H!Init
          /\ IF part = "watch" THEN W!Init ELSE NoWatch

MCNext ==
    \/ part = "hid" /\ Next /\ UNCHANGED <<part, together, pumpAll, watchAll, handleAll>>
    \/ /\ part = "pump" /\ P!Next /\ UNCHANGED <<part, together, vars, watchAll, handleAll>>
       /\ \A t \in Xfers \ together : pSpc'[t] = "idle"
    \/ part = "watch" /\ W!Next /\ UNCHANGED <<part, together, vars, pumpAll, handleAll>>
    \/ part = "handle" /\ H!Next /\ UNCHANGED <<part, together, vars, pumpAll, watchAll>>

MCSpec == MCInit /\ [][MCNext]_allVars
            /\ Fairness /\ P!Fairness /\ W!Fairness /\ H!Fairness

\* The HID queue: the newest report is kept, reports are read in order and once,
\* a flush leaves none from before it, and close ends the callbacks.
ReportsIntact == TypeOK /\ NewestKept /\ InOrder /\ FlushDiscards /\ NoCallbackAfterClose

\* The completion pump: under a key that no two transfers have shared, a transfer in
\* IOKit keeps its buffer and a completion goes to the transfer it belongs to; and a
\* Close that no Submit overlaps leaves no pump behind.
PumpSound == P!TypeOK /\ P!PendingHoldsBuffer /\ P!CompletionIsOwn /\ P!PumpJoined

\* The hotplug watch: the user's view is current, no event is left in an iterator,
\* nothing is left of a watch that has ended and at most one matching dictionary of a
\* registration that failed, and Deregister ends the callbacks.
WatchSound == /\ W!TypeOK /\ W!ViewIsCurrent /\ W!NothingStranded
              /\ W!AllReleased /\ W!SilentAfterDeregister

\* What hotplug.go promises: a service arrives once before it leaves, and nothing is
\* reported after Deregister.
WatchImplementsContract == W!ImplementsContract

\* The device handle: what is claimed is open, every open interface object is a
\* claim's, and Close leaves nothing open (on a device with one usable HID interface;
\* a second one's transport would replace the first one's and stay open).
HandleClaims == H!TypeOK /\ H!ClaimsAreOpen /\ H!CloseReleasesAll

\* Calls on the handle: a running one keeps its interface, and its result is its
\* own, whatever the workers of calls that timed out do.
HandleCalls == H!LiveCallHoldsInterface /\ H!ResultIsOwn

\* Every call that waits returns: close of a HID device, of an interface's pump and
\* of a handle, Deregister, and Wait of a transfer whose pipe was aborted.
CallsReturn == /\ CloseReturns /\ P!CloseReturns /\ H!CloseReturns
               /\ W!DeregisterReturns /\ P!CancelCompletes
=============================================================================
