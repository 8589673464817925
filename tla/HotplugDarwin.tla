----------------------------- MODULE HotplugDarwin ----------------------------
(***************************************************************************)
(* The macOS hotplug watch: registerHotplugCallback, the pump goroutine    *)
(* with its CFRunLoop, and the goroutine that calls Deregister.            *)
(*                                                                         *)
(* A service is one connection of a device: <<locationID, instance>>. A    *)
(* device that is plugged in again is a new service at the same location.  *)
(* Each of the two notifications has an iterator of services and, once the *)
(* iterator has been drained, is armed to send one message.                *)
(***************************************************************************)
EXTENDS Naturals, Sequences, FiniteSets

CONSTANTS Locations,   \* ports
          MaxPlugs,    \* bound: services that are ever created
          Match        \* instances the vendorID and productID filter accepts

ConstantsAssumption == IsFiniteSet(Locations) /\ MaxPlugs \in Nat

Kinds == {"arrival", "terminated"}
Services == Locations \X (1..MaxPlugs)
NoService == <<>>
Loc(s) == s[1]

VARIABLES
    \* IOKit
    present,     \* services in the registry
    plugs,       \* number of services created so far
    iter,        \* arrivalIter and terminatedIter: services not yet fetched
    armed,       \* notifications that send a message for the next service
    messages,    \* messages on the notification port
    held,        \* what the registration owns: mode, port, dictionaries, iterators
    \* darwinHotplugHandle
    stopped, ready, doneClosed,
    stopRequested,  \* CFRunLoopStop reached the running loop
    \* goroutines
    regPc, ppc, dpc,
    seen,        \* [location -> service reported as arrived]
    \* what the user's callback has been told
    view, calls,
    missed       \* locations of terminations not handled as the end of their own service

kitVars == <<present, plugs, iter, armed, messages>>
handleVars == <<stopped, ready, doneClosed>>
clientVars == <<view, calls>>
vars == <<kitVars, held, handleVars, stopRequested, regPc, ppc, dpc, seen, clientVars,
          missed>>
-----------------------------------------------------------------------------
(* IOKit                                                                   *)

\* A service reaches the iterator of a notification that has been added, and
\* sends a message if the notification is armed.
Notify(k, s) ==
    /\ iter' = IF k \in held THEN [iter EXCEPT ![k] = Append(@, s)] ELSE iter
    /\ messages' = IF k \in armed THEN Append(messages, k) ELSE messages
    /\ armed' = armed \ {k}
    /\ UNCHANGED <<held, handleVars, stopRequested, regPc, ppc, dpc, seen, clientVars>>

PlugIn(l) ==
    /\ plugs < MaxPlugs
    /\ \A s \in present : Loc(s) # l
    /\ plugs' = plugs + 1
    /\ present' = present \cup {<<l, plugs + 1>>}
    /\ Notify("arrival", <<l, plugs + 1>>)
    /\ UNCHANGED missed

\* A termination before there is a notification for it is lost.
PullOut(s) ==
    /\ s \in present
    /\ present' = present \ {s}
    /\ missed' = IF "arrival" \in held /\ "terminated" \notin held
                  THEN missed \cup {Loc(s)} ELSE missed
    /\ Notify("terminated", s)
    /\ UNCHANGED plugs
-----------------------------------------------------------------------------
(* registerHotplugCallback                                                 *)

\* What is released when a step of the registration fails: no dictionary.
ReleaseOnError == {"mode", "port", "arrival"}

Dictionaries == {"matchArrival", "matchTerminated"}

\* The notification port and its run loop source; the mode string before it.
registerPort ==
    /\ regPc = "port"
    /\ \/ regPc' = "match" /\ held' = {"mode", "port"}
       \/ regPc' = "failed" /\ held' = {"mode"} \ ReleaseOnError
    /\ UNCHANGED <<kitVars, handleVars, stopRequested, ppc, dpc, seen, clientVars, missed>>

\* IOServiceMatching, twice; one may be 0 and the other not.
registerMatch ==
    /\ regPc = "match"
    /\ \E made \in SUBSET Dictionaries :
         IF made = Dictionaries
         THEN regPc' = "addArrival" /\ held' = held \cup made
         ELSE regPc' = "failed" /\ held' = (held \cup made) \ ReleaseOnError
    /\ UNCHANGED <<kitVars, handleVars, stopRequested, ppc, dpc, seen, clientVars, missed>>

\* IOServiceAddMatchingNotification consumes its dictionary, also when it fails, and
\* fills the iterator with what is connected; for terminations there is nothing yet.
registerAdd(k, dictionary, next) ==
    /\ \/ /\ held' = (held \ {dictionary}) \cup {k}
          /\ \E q \in [1..Cardinality(present) -> present] :
               /\ \A s \in present : \E i \in DOMAIN q : q[i] = s
               /\ iter' = [iter EXCEPT ![k] = IF k = "arrival" THEN q ELSE <<>>]
          /\ regPc' = next
          /\ ppc' = IF next = "returned" THEN "start" ELSE ppc
       \/ /\ held' = held \ ({dictionary} \cup ReleaseOnError)
          /\ regPc' = "failed"
          /\ UNCHANGED <<iter, ppc>>
    /\ UNCHANGED <<present, plugs, armed, messages, handleVars, stopRequested, dpc, seen,
                   clientVars, missed>>

registerAddArrival ==
    regPc = "addArrival" /\ registerAdd("arrival", "matchArrival", "addTerminated")

\* After the second notification the pump goroutine is started.
registerAddTerminated ==
    regPc = "addTerminated" /\ registerAdd("terminated", "matchTerminated", "returned")

register == registerPort \/ registerMatch \/ registerAddArrival \/ registerAddTerminated
-----------------------------------------------------------------------------
(* The pump                                                                *)

Goto(next) ==
    ppc' = next /\ UNCHANGED <<held, handleVars, regPc, dpc, missed>>

\* The run loop of the thread gets the source, h.runLoop is published.
pumpStart ==
    /\ ppc = "start"
    /\ ready' = TRUE
    /\ ppc' = "firstArrivals"
    /\ UNCHANGED <<kitVars, held, stopped, doneClosed, stopRequested, regPc, dpc, seen,
                   clientVars, missed>>

\* The vendorID and productID filter of the registration.
matches(s) == s[2] \in Match

ArrivalForgotten(s) == UNCHANGED seen

\* seen[loc] = dev
RecordArrival(s) == seen' = [seen EXCEPT ![Loc(s)] = s]

\* One round of drainArrivals: the properties of a service that is gone may
\* not be readable any more.
drainArrival ==
    LET s == Head(iter["arrival"]) IN
      \/ /\ matches(s)
         /\ RecordArrival(s)
         /\ view' = view \cup {s}
         /\ calls' = calls + 1
         /\ UNCHANGED missed
      \/ /\ ~matches(s) \/ s \notin present
         /\ UNCHANGED <<seen, clientVars, missed>>

Keep(l) == UNCHANGED seen

\* delete(seen, loc)
Delete(l) == seen' = [seen EXCEPT ![l] = NoService]

\* seen[loc]
WasSeen(l) == seen[l] # NoService

\* One round of drainTerminations: the location of a terminated service is
\* looked up among those reported; if it cannot be read it is 0, no device's.
drainTermination ==
    LET s == Head(iter["terminated"])
        l == Loc(s)
    IN  \/ /\ WasSeen(l)
           /\ view' = view \ {seen[l]}
           /\ calls' = calls + 1
           /\ Delete(l)
           /\ missed' = IF seen[l] = s THEN missed ELSE missed \cup {l}
        \/ /\ ~WasSeen(l)
           /\ missed' = IF \E i \in DOMAIN iter["arrival"] : iter["arrival"][i] = s
                         THEN missed \cup {l} ELSE missed
           /\ UNCHANGED <<seen, clientVars>>
        \/ /\ WasSeen(l)
           /\ missed' = missed \cup {l}
           /\ UNCHANGED <<seen, clientVars>>

\* IOIteratorNext returned 0
Drained(k) == iter[k] = <<>>

\* IOIteratorNext: a round of the drain, or the end of the iterator, which arms
\* the notification.
Drain(k, round, next) ==
    \/ /\ ~Drained(k)
       /\ round
       /\ iter' = [iter EXCEPT ![k] = Tail(@)]
       /\ UNCHANGED <<armed, ppc>>
    \/ /\ Drained(k)
       /\ armed' = armed \cup {k}
       /\ ppc' = next
       /\ UNCHANGED <<iter, seen, clientVars, missed>>

drainArrivals ==
    /\ ppc \in {"firstArrivals", "arrivalCB"}
    /\ Drain("arrival", drainArrival,
             IF ppc = "arrivalCB" THEN "check" ELSE "firstTerminations")
    /\ UNCHANGED <<present, plugs, messages, held, handleVars, stopRequested, regPc, dpc>>

drainTerminations ==
    /\ ppc \in {"firstTerminations", "terminatedCB"}
    /\ Drain("terminated", drainTermination, "check")
    /\ UNCHANGED <<present, plugs, messages, held, handleVars, stopRequested, regPc, dpc>>

StopUnread == FALSE

\* h.stopped, read under h.mu
StopSeen == stopped

pumpCheck ==
    /\ ppc = "check"
    /\ Goto(IF StopSeen THEN "cleanup" ELSE "enter")
    /\ UNCHANGED <<kitVars, stopRequested, seen, clientVars>>

\* CFRunLoopRunInMode begins a run of its own: a stop that came before is gone.
pumpEnter ==
    /\ ppc = "enter"
    /\ stopRequested' = FALSE
    /\ Goto("run")
    /\ UNCHANGED <<kitVars, seen, clientVars>>

\* A message on the port: its callback, and then the run loop returns because
\* of returnAfterSourceHandled.
pumpMessage ==
    /\ ppc = "run" /\ messages # <<>>
    /\ messages' = Tail(messages)
    /\ Goto(IF Head(messages) = "arrival" THEN "arrivalCB" ELSE "terminatedCB")
    /\ UNCHANGED <<present, plugs, iter, armed, stopRequested, seen, clientVars>>

\* CFRunLoopStop makes the run return.
pumpWoken ==
    /\ ppc = "run" /\ stopRequested
    /\ Goto("check")
    /\ UNCHANGED <<kitVars, stopRequested, seen, clientVars>>

\* The hour of CFRunLoopRunInMode is over, with nothing to handle.
pumpHour ==
    /\ ppc = "run" /\ ~stopRequested /\ messages = <<>>
    /\ Goto("check")
    /\ UNCHANGED <<kitVars, stopRequested, seen, clientVars>>

\* The iterators, the port with its source and the mode are released.
pumpCleanup ==
    /\ ppc = "cleanup"
    /\ held' = {} /\ iter' = [k \in Kinds |-> <<>>]
    /\ armed' = {} /\ messages' = <<>>
    /\ doneClosed' = TRUE
    /\ ppc' = "exited"
    /\ UNCHANGED <<present, plugs, stopped, ready, stopRequested, regPc, dpc, seen,
                   clientVars, missed>>

pump == \/ pumpStart \/ drainArrivals \/ drainTerminations \/ pumpCheck \/ pumpEnter
        \/ pumpMessage \/ pumpWoken \/ pumpHour \/ pumpCleanup
-----------------------------------------------------------------------------
(* Deregister. A second call returns at once and is left out.              *)

DeregisterStep(from, to) ==
    /\ dpc = from /\ dpc' = to
    /\ UNCHANGED <<kitVars, held, regPc, ppc, seen, clientVars, missed, ready, doneClosed>>

DeregisterMark ==
    /\ regPc = "returned"
    /\ stopped' = TRUE
    /\ DeregisterStep("idle", "stop")
    /\ UNCHANGED stopRequested

\* CFRunLoopStop: it concerns the run in progress, if there is one.
CFRunLoopStop == stopRequested' = TRUE

\* <-h.ready, then h.runLoop is stopped.
DeregisterStop ==
    /\ ready
    /\ CFRunLoopStop
    /\ DeregisterStep("stop", "join")
    /\ UNCHANGED stopped

DoneUnheeded == TRUE

\* <-h.done
DoneReceived == doneClosed

DeregisterJoin ==
    /\ DoneReceived
    /\ DeregisterStep("join", "returned")
    /\ UNCHANGED <<stopped, stopRequested>>

Deregister == DeregisterMark \/ DeregisterStop \/ DeregisterJoin
-----------------------------------------------------------------------------
Init ==
    /\ \E ls \in SUBSET Locations :
         \E n \in [ls -> 1..MaxPlugs] :
           /\ Cardinality(ls) <= MaxPlugs
           /\ {n[l] : l \in ls} = 1..Cardinality(ls)
           /\ present = {<<l, n[l]>> : l \in ls}
           /\ plugs = Cardinality(ls)
    /\ iter = [k \in Kinds |-> <<>>] /\ armed = {} /\ messages = <<>> /\ held = {}
    /\ stopped = FALSE /\ ready = FALSE /\ doneClosed = FALSE /\ stopRequested = FALSE
    /\ regPc = "port" /\ ppc = "none" /\ dpc = "idle"
    /\ seen = [l \in Locations |-> NoService]
    /\ view = {} /\ calls = 0 /\ missed = {}

Next == \/ \E l \in Locations : PlugIn(l)
        \/ \E s \in present : PullOut(s)
        \/ register \/ pump \/ Deregister

Spec == Init /\ [][Next]_vars

\* Goroutines that can run are scheduled, messages are delivered and an hour
\* passes. Devices and calls of Deregister are not fair.
Fairness ==
    /\ WF_vars(ppc # "run" /\ pump) /\ WF_vars(ppc = "run" /\ pump)
    /\ WF_vars(DeregisterStop \/ DeregisterJoin)

FairSpec == Spec /\ Fairness
-----------------------------------------------------------------------------
(* Properties                                                              *)

RegistryType == present \subseteq Services /\ plugs \in 0..MaxPlugs

PortType ==
    /\ iter \in [Kinds -> Seq(Services)]
    /\ armed \subseteq Kinds /\ messages \in Seq(Kinds)
    /\ held \subseteq {"mode", "port"} \cup Dictionaries \cup Kinds

HandleType ==
    /\ stopped \in BOOLEAN /\ ready \in BOOLEAN /\ doneClosed \in BOOLEAN
    /\ stopRequested \in BOOLEAN
    /\ regPc \in {"port", "match", "addArrival", "addTerminated", "returned", "failed"}
    /\ ppc \in {"none", "start", "firstArrivals", "firstTerminations", "check", "enter",
                "run", "arrivalCB", "terminatedCB", "cleanup", "exited"}
    /\ dpc \in {"idle", "stop", "join", "returned"}

Matching == {s \in Services : matches(s)}

ClientType ==
    /\ seen \in [Locations -> Services \cup {NoService}]
    /\ view \subseteq Matching
    /\ calls \in Nat /\ missed \subseteq Locations

\* Every variable stays in its domain.
TypeOK == RegistryType /\ PortType /\ HandleType /\ ClientType

At(l, S) == {s \in S : Loc(s) = l}

\* While the pump sleeps and nothing is queued, the user has been told at each
\* location exactly of the matching device that is connected; unless at that location
\* a termination was lost before there was a notification for it, overtook its
\* arrival, met a later service, or could not be read.
ViewIsCurrent ==
    ppc = "run" /\ messages = <<>> =>
        \A l \in Locations \ missed : At(l, view) = At(l, {s \in present : matches(s)})

\* A message is on its way, or the pump is about to fetch, whenever a service
\* waits in an iterator: no arrival or departure is left there for good.
NothingStranded ==
    \A k \in Kinds :
        ppc = "run" /\ iter[k] # <<>> => \E i \in DOMAIN messages : messages[i] = k

\* A watch that has ended owns nothing; a registration that fails keeps at most one
\* matching dictionary, which nothing releases, and no port or iterator.
AllReleased ==
    /\ doneClosed => held = {}
    /\ regPc = "failed" => held = {} \/ \E d \in Dictionaries : held = {d}

\* Deregister returns, also when its stop comes between the pump's check and
\* CFRunLoopRunInMode; then after the hour of that call.
DeregisterReturns == dpc = "stop" ~> dpc = "returned"

\* Once Deregister has returned, the goroutine that makes the callbacks is gone.
SilentAfterDeregister == dpc = "returned" => ppc = "exited"

Contract == INSTANCE HotplugContract
              WITH Devices <- Matching, ended <- (dpc = "returned")

\* The watch implements the contract of hotplug.go, also where it has missed a
\* termination: arrivals and departures of a service alternate, and
\* Deregister ends the callbacks.
ImplementsContract == Contract!Spec
=============================================================================
