---------------------------- MODULE HotplugWindows ----------------------------
(***************************************************************************)
(* The Windows hotplug watch: registerHotplugCallback, its goroutine with  *)
(* the message-only window, and the goroutine that calls Deregister.       *)
(*                                                                         *)
(* A device has several interfaces (its own, one for each function, those  *)
(* of other classes above them), each with a path that it has again when   *)
(* it comes back to the same port. The window hears of all of them, one    *)
(* message for each, and the user is told of paths; DeviceList gives a     *)
(* device by one of its paths.                                             *)
(***************************************************************************)
EXTENDS Naturals, Sequences, FiniteSets

CONSTANTS Paths,       \* interface paths
          DeviceOf,    \* the device of each
          Listable,    \* those of the classes DeviceList reads
          Match,       \* those the vendorID and productID filter accepts
          MaxChanges,  \* bound: interfaces that come up, devices that go
          Faults       \* of "list" (DeviceList may fail) and "getmessage"

\* The paths of a device that DeviceList reads all carry its vendor and product.
\* (The module that instantiates this one assumes it.)
ConstantsAssumption ==
    /\ MaxChanges \in Nat /\ IsFiniteSet(Paths)
    /\ \A p, q \in Listable \cap Paths : DeviceOf[p] = DeviceOf[q] => (p \in Match <=> q \in Match)

VARIABLES
    \* Windows
    present,     \* interfaces of connected devices
    changes,     \* number of changes so far
    notified,    \* the window receives WM_DEVICECHANGE
    messages,    \* those not yet delivered, <<event, path>>
    wmClose,     \* WM_CLOSE is posted
    wmQuit,      \* WM_QUIT is posted
    \* windowsHotplugHandle
    seen, stopped, doneClosed,
    routed,      \* activeHotplugHandles holds the window
    \* goroutines
    regPc, ready,
    listed,      \* DeviceList has read every class
    folded,      \* history: connected since the snapshot, which left them out
    ppc, todo,   \* the pump, and what is left of its snapshot
    dpc,         \* the caller of Deregister
    \* what the user's callback has been told
    view, calls

systemVars == <<present, changes, notified, messages, wmClose, wmQuit>>
handleVars == <<seen, stopped, doneClosed, routed>>
regVars == <<regPc, ready, listed, folded>>
pumpVars == <<ppc, todo>>
clientVars == <<view, calls>>
vars == <<systemVars, handleVars, regVars, pumpVars, dpc, clientVars>>
-----------------------------------------------------------------------------
(* Windows                                                                 *)

Of(d) == {p \in Paths : DeviceOf[p] = d}

InAnyOrder(S) == {q \in [1..Cardinality(S) -> S] : \A p \in S : \E i \in DOMAIN q : q[i] = p}

Change(news) ==
    /\ changes < MaxChanges
    /\ changes' = changes + 1
    /\ messages' = IF notified THEN messages \o news ELSE messages
    /\ UNCHANGED <<notified, wmClose, wmQuit, handleVars, regPc, ready, listed, pumpVars,
                   dpc, clientVars>>

\* The interfaces of a device come up as their drivers start.
PlugIn(p) ==
    /\ p \notin present /\ present' = present \cup {p}
    /\ Change(<<<<"arrival", p>>>>) /\ UNCHANGED folded

\* They go together.
PullOut(d) ==
    LET gone == Of(d) \cap present IN
      /\ gone # {} /\ present' = present \ gone /\ folded' = folded \ gone
      /\ \E q \in InAnyOrder(gone) : Change([i \in DOMAIN q |-> <<"removal", q[i]>>])
-----------------------------------------------------------------------------
(* Reports to the user                                                     *)

MatchesAll(p) == TRUE

\* The vendorID and productID filter of the registration.
matches(p) == p \in Match

\* callback(HotplugEventArrived, dev) for a path that matches.
Arrived(p) ==
    IF matches(p) THEN view' = view \cup {p} /\ calls' = calls + 1
                  ELSE UNCHANGED clientVars

Left(p) ==
    IF matches(p) THEN view' = view \ {p} /\ calls' = calls + 1
                  ELSE UNCHANGED clientVars
-----------------------------------------------------------------------------
(* The goroutine of the registration                                       *)

\* CreateWindowEx and RegisterDeviceNotification, whose failure ends the
\* goroutine; the handle is then routed and the registration is ready.
pumpWindow ==
    /\ ppc = "window"
    /\ \/ /\ notified' = TRUE /\ routed' = TRUE
          /\ ready' = "ok" /\ ppc' = "list"
          /\ UNCHANGED doneClosed
       \/ /\ ready' = "error" /\ ppc' = "stopped"
          /\ doneClosed' = TRUE
          /\ UNCHANGED <<notified, routed>>
    /\ UNCHANGED <<present, changes, messages, wmClose, wmQuit, seen, stopped,
                   regPc, listed, folded, todo, dpc, clientVars>>

\* What DeviceList can give: every device that has an interface it reads, by one of
\* its paths, or by each of them if its place on the tree cannot be found.
Snapshots == {S \in SUBSET (present \cap Listable) :
                \A p \in present \cap Listable : \E q \in S : DeviceOf[q] = DeviceOf[p]}

\* DeviceList; it passes over a class that it cannot read, and its error leaves the
\* snapshot empty.
pumpList ==
    /\ ppc = "list"
    /\ \/ todo' \in Snapshots /\ UNCHANGED listed
       \/ "list" \in Faults /\ todo' \in SUBSET (present \cap Listable) /\ listed' = FALSE
    /\ folded' = present \ todo'
    /\ ppc' = "snapshot"
    /\ UNCHANGED <<systemVars, handleVars, regPc, ready, dpc, clientVars>>

SnapshotUnrecorded(p) == Arrived(p) /\ UNCHANGED seen

\* The body of the loop over the snapshot.
SnapshotDevice(p) == Arrived(p) /\ seen' = seen \cup {p}

pumpSnapshot(p) ==
    /\ ppc = "snapshot" /\ p \in todo
    /\ SnapshotDevice(p)
    /\ todo' = todo \ {p}
    /\ UNCHANGED <<systemVars, stopped, doneClosed, routed, regVars, ppc, dpc>>

pumpSnapshotEnd ==
    /\ ppc = "snapshot" /\ todo = {}
    /\ ppc' = "get"
    /\ UNCHANGED <<systemVars, handleVars, regVars, todo, dpc, clientVars>>

NeverSeen(p) == FALSE

\* The arrival of a path the snapshot has delivered already.
alreadySeen(p) == p \in seen

\* onDeviceChange, by way of hotplugWndProc and the routing map.
onDeviceChange(e, p) ==
    \/ /\ routed /\ e = "arrival" /\ ~alreadySeen(p)
       /\ seen' = seen \cup {p}
       /\ Arrived(p)
    \/ /\ routed /\ e = "removal" /\ p \in seen
       /\ seen' = seen \ {p}
       /\ Left(p)
    \/ /\ ~routed \/ (IF e = "arrival" THEN alreadySeen(p) ELSE p \notin seen)
       /\ UNCHANGED <<seen, clientVars>>

\* GetMessage and DispatchMessage of a WM_DEVICECHANGE.
pumpDeviceChange ==
    /\ ppc = "get" /\ messages # <<>>
    /\ messages' = Tail(messages)
    /\ onDeviceChange(Head(messages)[1], Head(messages)[2])
    /\ UNCHANGED <<present, changes, notified, wmClose, wmQuit, stopped,
                   doneClosed, routed, regVars, pumpVars, dpc>>

\* DispatchMessage of WM_CLOSE: the window is destroyed, WM_DESTROY posts
\* WM_QUIT.
pumpClose ==
    /\ ppc = "get" /\ wmClose
    /\ wmClose' = FALSE /\ wmQuit' = TRUE
    /\ notified' = FALSE /\ messages' = <<>>
    /\ UNCHANGED <<present, changes, handleVars, regVars, pumpVars, dpc,
                   clientVars>>

\* GetMessage returns 0 for WM_QUIT, or fails: leave the loop.
pumpLeave ==
    /\ ppc = "get"
    /\ wmQuit \/ "getmessage" \in Faults
    /\ ppc' = "cleanup"
    /\ UNCHANGED <<systemVars, handleVars, regVars, todo, dpc, clientVars>>

\* Unroute, unregister the notification, destroy the window, close(h.done).
pumpCleanup ==
    /\ ppc = "cleanup"
    /\ routed' = FALSE /\ notified' = FALSE /\ messages' = <<>>
    /\ wmClose' = FALSE
    /\ doneClosed' = TRUE
    /\ ppc' = "stopped"
    /\ UNCHANGED <<present, changes, wmQuit, seen, stopped, regVars, todo, dpc,
                   clientVars>>

pump == \/ pumpWindow \/ pumpList \/ pumpSnapshotEnd \/ pumpDeviceChange
        \/ pumpClose \/ pumpLeave \/ pumpCleanup
        \/ \E p \in Paths : pumpSnapshot(p)
-----------------------------------------------------------------------------
(* The caller                                                              *)

\* <-ready, and registerHotplugCallback returns.
registerReturn ==
    /\ regPc = "wait" /\ ready # "none"
    /\ regPc' = IF ready = "ok" THEN "returned" ELSE "failed"
    /\ UNCHANGED <<systemVars, handleVars, ready, listed, folded, pumpVars, dpc, clientVars>>

\* h.stopped is set under h.mu. A second call returns at once and is left out.
DeregisterMark ==
    /\ dpc = "idle" /\ regPc = "returned"
    /\ stopped' = TRUE
    /\ dpc' = "post"
    /\ UNCHANGED <<systemVars, seen, doneClosed, routed, regVars, pumpVars,
                   clientVars>>

\* PostMessage(hwnd, WM_CLOSE), which fails once the window is gone.
PostClose == wmClose' = notified

DeregisterPost ==
    /\ dpc = "post"
    /\ PostClose
    /\ dpc' = "join"
    /\ UNCHANGED <<present, changes, notified, messages, wmQuit, handleVars,
                   regVars, pumpVars, clientVars>>

\* <-h.done
DoneReceived == doneClosed

DeregisterJoin ==
    /\ dpc = "join"
    /\ DoneReceived
    /\ dpc' = "returned"
    /\ UNCHANGED <<systemVars, handleVars, regVars, pumpVars, clientVars>>

Deregister == DeregisterMark \/ DeregisterPost \/ DeregisterJoin
-----------------------------------------------------------------------------
Init ==
    /\ present \in SUBSET Paths /\ changes = 0 /\ notified = FALSE
    /\ messages = <<>> /\ wmClose = FALSE /\ wmQuit = FALSE
    /\ seen = {} /\ stopped = FALSE /\ doneClosed = FALSE /\ routed = FALSE
    /\ regPc = "wait" /\ ready = "none" /\ listed = TRUE /\ folded = {}
    /\ ppc = "window" /\ todo = {} /\ dpc = "idle"
    /\ view = {} /\ calls = 0

Next == \/ \E p \in Paths : PlugIn(p) \/ PullOut(DeviceOf[p])
        \/ pump
        \/ registerReturn
        \/ Deregister

Spec == Init /\ [][Next]_vars

\* Goroutines that can run are scheduled, and GetMessage delivers what is
\* queued. Devices, calls of Deregister and failures are not fair.
Fairness == /\ WF_vars(ppc # "get" /\ pump)
            /\ WF_vars(pumpDeviceChange) /\ WF_vars(pumpClose)
            /\ WF_vars(wmQuit /\ pumpLeave)
            /\ WF_vars(registerReturn)
            /\ WF_vars(DeregisterPost \/ DeregisterJoin)

FairSpec == Spec /\ Fairness
-----------------------------------------------------------------------------
(* Properties                                                              *)

SystemType ==
    /\ present \subseteq Paths /\ changes \in 0..MaxChanges
    /\ notified \in BOOLEAN /\ wmClose \in BOOLEAN /\ wmQuit \in BOOLEAN
    /\ messages \in Seq({"arrival", "removal"} \X Paths)

HandleType ==
    /\ seen \subseteq Paths /\ stopped \in BOOLEAN /\ doneClosed \in BOOLEAN
    /\ routed \in BOOLEAN

ProcType ==
    /\ regPc \in {"wait", "returned", "failed"}
    /\ ready \in {"none", "ok", "error"} /\ listed \in BOOLEAN /\ folded \subseteq Paths
    /\ ppc \in {"window", "list", "snapshot", "get", "cleanup", "stopped"}
    /\ todo \subseteq Paths
    /\ dpc \in {"idle", "post", "join", "returned"}

\* Every variable stays in its domain.
TypeOK == /\ SystemType /\ HandleType /\ ProcType
          /\ view \subseteq Match /\ calls \in Nat

\* When every message is handled, although the snapshot overlaps the notifications, the
\* user has been told of no path that is gone, and of every matching one that is
\* connected but for those that the snapshot left out; of those devices it gave another
\* path, which the user still knows, unless a class could not be read or none of the
\* device's paths is of a class that DeviceList reads.
ViewIsCurrent ==
    ppc = "get" /\ notified /\ messages = <<>> =>
        /\ view \subseteq present
        /\ (present \ folded) \cap Match \subseteq view
        /\ listed => \A p \in present \cap Match \cap Listable :
                       \E q \in view : DeviceOf[q] = DeviceOf[p]

\* Deregister returns, also while the pump sleeps in GetMessage.
DeregisterReturns == dpc = "post" ~> dpc = "returned"

Contract == INSTANCE HotplugContract
              WITH Devices <- Match, ended <- (dpc = "returned")

\* The watch implements the contract of hotplug.go for paths: arrivals and departures
\* of a path alternate, snapshot included, and Deregister ends the callbacks. (Of one
\* device the user may be told several times, by its several paths.)
ImplementsContract == Contract!Spec
=============================================================================
