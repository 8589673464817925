------------------------------ MODULE DarwinPump ------------------------------
(***************************************************************************)
(* Asynchronous transfers on one claimed interface of the macOS backend:   *)
(* Submit and Cancel of AsyncTransfer and IsochronousTransfer, the pump    *)
(* goroutine that ensureAsyncPump starts on first use, and the goroutine   *)
(* that closes the handle and so releases the interface.                   *)
(*                                                                         *)
(* Submit does not take the handle's lock: it reads h.closed and           *)
(* h.interfaces while Close may be under way.                              *)
(***************************************************************************)
EXTENDS Naturals, FiniteSets

CONSTANTS Xfers,   \* transfers, each with the goroutine that uses it
          Iso,     \* the IsochronousTransfers among them
          Empty    \* the AsyncTransfers whose buffer is empty

VARIABLES
    \* IOKit
    inflight,    \* transfers it holds a buffer of
    completions, \* finished ones whose callback has not run: <<transfer, result>>
    stopRequested,
    \* IOUSBInterfaceInterface
    valid,       \* i.handle # nil
    asyncStarted, asyncErr, asyncStopped,
    maps,        \* pending, pendingBulk and the callbacks are made
    asyncReady,  \* "nil", "made", "closed"
    pending,     \* transfers by key, the two maps in one
    shared,      \* keys under which one transfer has replaced another
    ppc, current,   \* the pump, and the completion whose callback it runs
    \* the handle and the goroutine that closes it
    closed, cpc,
    quiet,       \* no Submit was under way when stopAsyncPump looked
    \* transfers
    spc, submitted, completed, status,
    aborted,     \* Cancel has aborted the pipe with the transfer on it
    crashed      \* a store into a nil map ended the program

kitVars == <<inflight, completions, stopRequested>>
asyncVars == <<asyncStarted, asyncErr, asyncStopped, maps, asyncReady>>
pumpVars == <<ppc, current>>
closeVars == <<valid, closed, cpc, quiet>>
xferVars == <<spc, submitted, completed, status, aborted>>
vars == <<kitVars, asyncVars, pending, shared, pumpVars, closeVars, xferVars, crashed>>

Results == {"ok", "error", "timeout"}
NoXfer == "none"
NoKey == "zero"
Nothing == <<>>

\* bufferKey of an AsyncTransfer, which is 0 for every empty buffer;
\* isocFrameListKey of an IsochronousTransfer, whose frame list is its own.
Key(t) == IF t \in Empty THEN NoKey ELSE t
Keys == Xfers \cup {NoKey}

\* The module that instantiates this one assumes it.
ConstantsAssumption ==
    /\ Iso \subseteq Xfers /\ Empty \subseteq Xfers
    /\ NoXfer \notin Xfers /\ NoKey \notin Xfers
-----------------------------------------------------------------------------
(* IOKit                                                                   *)

\* The device answers.
TransferCompletes(t) ==
    /\ t \in inflight
    /\ inflight' = inflight \ {t}
    /\ \E r \in Results : completions' = completions \cup {<<t, r>>}
    /\ UNCHANGED <<stopRequested, asyncVars, pending, pumpVars, closeVars,
                   xferVars, shared, crashed>>

\* AbortPipe, and USBInterfaceClose, end what is in flight.
AbortAll ==
    /\ inflight' = {}
    /\ completions' = completions \cup {<<t, "error">> : t \in inflight}
-----------------------------------------------------------------------------
(* Submit, which holds t.mutex throughout                                  *)

Goto(t, next) == spc' = [spc EXCEPT ![t] = next]

SubmitKeeps == UNCHANGED <<pumpVars, closeVars, submitted, completed, status, aborted>>

\* The checks: not submitted, handle open, an interface claimed.
SubmitEnter(t) ==
    /\ spc[t] = "idle" /\ ~submitted[t]
    /\ ~closed /\ cpc = "idle"
    /\ Goto(t, "ensure")
    /\ SubmitKeeps
    /\ UNCHANGED <<kitVars, asyncVars, pending, shared, crashed>>

\* The test of asyncStarted under asyncMu.
ensureAsyncPump(t) ==
    /\ spc[t] = "ensure"
    /\ IF asyncStarted
         THEN /\ Goto(t, IF asyncErr THEN "failed" ELSE "store")
              /\ UNCHANGED asyncStarted
         ELSE /\ asyncStarted' = TRUE
              /\ Goto(t, "source")
    /\ SubmitKeeps
    /\ UNCHANGED <<kitVars, asyncErr, asyncStopped, maps, asyncReady, pending, shared, crashed>>

\* CreateInterfaceAsyncEventSource, whose error is kept for later calls; it
\* fails when the interface has been released.
ensureSource(t) ==
    /\ spc[t] = "source"
    /\ \/ valid /\ Goto(t, "maps") /\ UNCHANGED asyncErr
       \/ Goto(t, "failed") /\ asyncErr' = TRUE
    /\ SubmitKeeps
    /\ UNCHANGED <<kitVars, asyncStarted, asyncStopped, maps, asyncReady, pending, shared, crashed>>

\* The maps and the two shared callbacks are made.
ensureMaps(t) ==
    /\ spc[t] = "maps"
    /\ maps' = TRUE
    /\ Goto(t, "go")
    /\ SubmitKeeps
    /\ UNCHANGED <<kitVars, asyncStarted, asyncErr, asyncStopped, asyncReady, pending,
                   shared, crashed>>

\* The channels are made and the pump goroutine is started.
ensureGo(t) ==
    /\ spc[t] = "go"
    /\ asyncReady' = "made" /\ ppc' = "start"
    /\ Goto(t, "store")
    /\ UNCHANGED <<kitVars, asyncStarted, asyncErr, asyncStopped, maps, pending, current,
                   closeVars, submitted, completed, status, aborted, shared, crashed>>

\* GetBusFrameNumber or PipeRefForEndpoint, which fail once the interface is
\* released, then the store into the map of pending transfers.
SubmitStore(t) ==
    /\ spc[t] = "store"
    /\ \/ /\ valid /\ maps
          /\ pending' = [pending EXCEPT ![Key(t)] = t]
          /\ shared' = IF pending[Key(t)] = NoXfer THEN shared ELSE shared \cup {Key(t)}
          /\ Goto(t, "issue")
          /\ UNCHANGED crashed
       \/ /\ valid /\ ~maps
          /\ crashed' = TRUE
          /\ Goto(t, "failed")
          /\ UNCHANGED <<pending, shared>>
       \/ Goto(t, "failed") /\ UNCHANGED <<pending, shared, crashed>>
    /\ SubmitKeeps
    /\ UNCHANGED <<kitVars, asyncVars>>

ForgetNothing(t) == UNCHANGED pending

\* delete(intf.pending, key)
Forget(t) == pending' = [pending EXCEPT ![Key(t)] = NoXfer]

\* ReadPipeAsync and its three siblings; a refused transfer is forgotten.
SubmitIssue(t) ==
    /\ spc[t] = "issue"
    /\ \/ valid /\ inflight' = inflight \cup {t} /\ Goto(t, "mark") /\ UNCHANGED pending
       \/ Goto(t, "failed") /\ Forget(t) /\ UNCHANGED inflight
    /\ SubmitKeeps
    /\ UNCHANGED <<completions, stopRequested, asyncVars, shared, crashed>>

\* t.submitted is set, t.mutex is released.
SubmitMark(t) ==
    /\ spc[t] = "mark"
    /\ submitted' = [submitted EXCEPT ![t] = TRUE]
    /\ Goto(t, "idle")
    /\ UNCHANGED <<kitVars, asyncVars, pending, pumpVars, closeVars, completed, status,
                   aborted, shared, crashed>>

\* The error return; the caller may submit again.
SubmitFail(t) ==
    /\ spc[t] = "failed"
    /\ Goto(t, "idle")
    /\ SubmitKeeps
    /\ UNCHANGED <<kitVars, asyncVars, pending, shared, crashed>>

Submit(t) == \/ SubmitEnter(t) \/ ensureAsyncPump(t) \/ ensureSource(t) \/ ensureMaps(t)
             \/ ensureGo(t) \/ SubmitStore(t) \/ SubmitIssue(t) \/ SubmitMark(t)
             \/ SubmitFail(t)

\* Cancel of a transfer that is submitted and not completed aborts its pipe.
Cancel(t) ==
    /\ spc[t] = "idle" /\ submitted[t] /\ ~completed[t]
    /\ valid
    /\ AbortAll
    /\ aborted' = [aborted EXCEPT ![t] = TRUE]
    /\ UNCHANGED <<stopRequested, asyncVars, pending, pumpVars, closeVars, spc, submitted,
                   completed, status, shared, crashed>>
-----------------------------------------------------------------------------
(* The pump                                                                *)

PumpGoto(from, to) ==
    /\ ppc = from /\ ppc' = to
    /\ UNCHANGED <<asyncStarted, asyncErr, asyncStopped, maps, closeVars, spc, submitted,
                   aborted, shared, crashed>>

\* The source is added to the thread's run loop, i.runLoop is published.
pumpStart ==
    /\ PumpGoto("start", "check")
    /\ asyncReady' = "closed"
    /\ UNCHANGED <<kitVars, pending, current, completed, status>>

StopUnread == FALSE

\* asyncStopped, read under asyncMu
StopSeen == asyncStopped

pumpCheck ==
    /\ PumpGoto("check", IF StopSeen THEN "exited" ELSE "enter")
    /\ UNCHANGED <<kitVars, asyncReady, pending, current, completed, status>>

\* CFRunLoopRunInMode begins a run of its own: a stop that came before is gone.
pumpEnter ==
    /\ PumpGoto("enter", "run")
    /\ stopRequested' = FALSE
    /\ UNCHANGED <<inflight, completions, asyncReady, pending, current, completed, status>>

\* The shared callback looks the transfer up by its key and forgets it.
pumpCallback ==
    \E c \in completions :
        /\ PumpGoto("run", "complete")
        /\ completions' = completions \ {c}
        /\ current' = <<pending[Key(c[1])], c[2]>>
        /\ Forget(c[1])
        /\ UNCHANGED <<inflight, stopRequested, asyncReady, completed, status>>

\* markCompletedLocked
MarkCompleted(t) == completed' = [completed EXCEPT ![t] = TRUE]

\* The status for a result: an IsochronousTransfer knows success and error only.
StatusOf(t, r) == IF t \in Iso /\ r # "ok" THEN "error" ELSE r

\* completeAsync, under the mutex that Submit holds: status, and done is closed.
completeAsync ==
    /\ PumpGoto("complete", "check")
    /\ IF current[1] = NoXfer
         THEN UNCHANGED <<completed, status>>
         ELSE /\ spc[current[1]] = "idle"
              /\ MarkCompleted(current[1])
              /\ status' = [status EXCEPT ![current[1]] = StatusOf(current[1], current[2])]
    /\ current' = Nothing
    /\ UNCHANGED <<kitVars, asyncReady, pending>>

\* CFRunLoopStop ends the run in progress.
pumpWoken ==
    /\ stopRequested
    /\ PumpGoto("run", "check")
    /\ UNCHANGED <<kitVars, asyncReady, pending, current, completed, status>>

\* The hour of CFRunLoopRunInMode is over, with nothing to handle.
pumpHour ==
    /\ ~stopRequested /\ completions = {}
    /\ PumpGoto("run", "check")
    /\ UNCHANGED <<kitVars, asyncReady, pending, current, completed, status>>

pump == \/ pumpStart \/ pumpCheck \/ pumpEnter \/ pumpCallback \/ completeAsync
        \/ pumpWoken \/ pumpHour
-----------------------------------------------------------------------------
(* Close                                                                   *)

CloseStep(from, to) ==
    /\ cpc = from /\ cpc' = to
    /\ UNCHANGED <<pending, pumpVars, xferVars, shared, crashed, asyncStarted, asyncErr, maps,
                   asyncReady>>

\* h.closed is set; the interfaces are closed one by one.
CloseMark ==
    /\ CloseStep("idle", "close")
    /\ closed' = TRUE
    /\ UNCHANGED <<kitVars, asyncStopped, valid, quiet>>

\* closeInterface
CloseInterface ==
    /\ CloseStep("close", "stop")
    /\ AbortAll
    /\ UNCHANGED <<stopRequested, asyncStopped, valid, closed, quiet>>

\* stopAsyncPump: nothing to stop before the pump was started, and nothing to
\* wait for before its channels are made.
stopAsyncPump ==
    /\ \/ /\ asyncStarted
          /\ asyncStopped' = TRUE
          /\ CloseStep("stop", IF asyncReady = "nil" THEN "release" ELSE "ready")
       \/ /\ ~asyncStarted
          /\ CloseStep("stop", "release")
          /\ UNCHANGED asyncStopped
    /\ quiet' = \A t \in Xfers : spc[t] = "idle"
    /\ UNCHANGED <<kitVars, valid, closed>>

\* <-ready and CFRunLoopStop
stopRunLoop ==
    /\ asyncReady = "closed"
    /\ CloseStep("ready", "join")
    /\ stopRequested' = TRUE
    /\ UNCHANGED <<inflight, completions, asyncStopped, valid, closed, quiet>>

DoneUnheeded == TRUE

\* <-i.asyncDone
DoneReceived == ppc = "exited"

stopJoin ==
    /\ DoneReceived
    /\ CloseStep("join", "release")
    /\ UNCHANGED <<kitVars, asyncStopped, valid, closed, quiet>>

\* release drops the interface.
CloseRelease ==
    /\ CloseStep("release", "returned")
    /\ valid' = FALSE
    /\ UNCHANGED <<kitVars, asyncStopped, closed, quiet>>

Close == \/ CloseMark \/ CloseInterface \/ stopAsyncPump \/ stopRunLoop \/ stopJoin
         \/ CloseRelease
-----------------------------------------------------------------------------
Init ==
    /\ inflight = {} /\ completions = {} /\ stopRequested = FALSE
    /\ valid = TRUE /\ asyncStarted = FALSE /\ asyncErr = FALSE /\ asyncStopped = FALSE
    /\ maps = FALSE /\ asyncReady = "nil" /\ pending = [k \in Keys |-> NoXfer]
    /\ shared = {}
    /\ ppc = "none" /\ current = Nothing
    /\ closed = FALSE /\ cpc = "idle" /\ quiet = TRUE
    /\ spc = [t \in Xfers |-> "idle"]
    /\ submitted = [t \in Xfers |-> FALSE] /\ completed = [t \in Xfers |-> FALSE]
    /\ status = [t \in Xfers |-> "none"] /\ aborted = [t \in Xfers |-> FALSE]
    /\ crashed = FALSE

Next ==
    /\ ~crashed
    /\ \/ \E t \in Xfers : Submit(t) \/ Cancel(t) \/ TransferCompletes(t)
       \/ pump
       \/ Close

Spec == Init /\ [][Next]_vars

\* Goroutines that can run are scheduled and callbacks are delivered; an hour
\* passes. The device, and calls of Submit, Cancel and Close, are not fair.
Fairness ==
    /\ \A t \in Xfers : WF_vars(~crashed /\ spc[t] # "idle" /\ Submit(t))
    /\ WF_vars(~crashed /\ ppc # "run" /\ pump)
    /\ WF_vars(~crashed /\ ppc = "run" /\ pump)
    /\ WF_vars(~crashed /\ cpc # "idle" /\ Close)

FairSpec == Spec /\ Fairness
-----------------------------------------------------------------------------
(* Properties                                                              *)

KitType ==
    /\ inflight \subseteq Xfers /\ completions \subseteq Xfers \X Results
    /\ stopRequested \in BOOLEAN /\ valid \in BOOLEAN
    /\ closed \in BOOLEAN /\ quiet \in BOOLEAN /\ crashed \in BOOLEAN
    /\ cpc \in {"idle", "close", "stop", "ready", "join", "release", "returned"}

PumpType ==
    /\ asyncStarted \in BOOLEAN /\ asyncErr \in BOOLEAN /\ asyncStopped \in BOOLEAN
    /\ maps \in BOOLEAN /\ asyncReady \in {"nil", "made", "closed"}
    /\ pending \in [Keys -> Xfers \cup {NoXfer}] /\ shared \subseteq Keys
    /\ ppc \in {"none", "start", "check", "enter", "run", "complete", "exited"}
    /\ current \in {Nothing} \cup ((Xfers \cup {NoXfer}) \X Results)

XferType ==
    /\ spc \in [Xfers -> {"idle", "ensure", "source", "maps", "go", "store", "issue",
                          "mark", "failed"}]
    /\ submitted \in [Xfers -> BOOLEAN] /\ completed \in [Xfers -> BOOLEAN]
    /\ status \in [Xfers -> {"none"} \cup Results]
    /\ \A t \in Iso : status[t] # "timeout"
    /\ aborted \in [Xfers -> BOOLEAN]

\* Every variable stays in its domain.
TypeOK == KitType /\ PumpType /\ XferType

\* t's key has been its own: no transfer replaced another under it. Only empty
\* buffers share a key; from then on their completions go to one another.
OwnKey(t) == Key(t) \notin shared

\* While IOKit holds a transfer's buffer, or its callback has yet to run, the
\* map of pending transfers holds the transfer, if its key is its own: its
\* buffer stays reachable and its completion finds it.
PendingHoldsBuffer ==
    \A t \in Xfers :
        OwnKey(t) /\ (t \in inflight \/ \E c \in completions : c[1] = t) =>
            pending[Key(t)] = t

\* Every completion under a key of its own goes to the transfer that was
\* submitted: what is completed has been issued, is not in flight any more, and
\* nothing is kept for it.
CompletionIsOwn ==
    \A t \in Xfers : OwnKey(t) /\ completed[t] =>
        /\ submitted[t] \/ spc[t] = "mark"
        /\ t \notin inflight
        /\ \A k \in Keys : pending[k] # t

\* When no Submit overlaps it, Close leaves no pump behind that uses the
\* released interface.
PumpJoined == cpc = "returned" /\ quiet => ppc \in {"none", "exited"}

\* A transfer whose key is its own and whose pipe was aborted completes, as long
\* as the interface is not released.
CancelCompletes ==
    \A t \in Xfers : aborted[t] ~> completed[t] \/ ~OwnKey(t) \/ closed \/ crashed

\* Close returns, also when its stop comes between the pump's check and
\* CFRunLoopRunInMode; then after the hour of that call.
CloseReturns == cpc = "close" ~> cpc = "returned" \/ crashed

\* isochronous_darwin.go: ensureAsyncPump is safe to call from goroutines that
\* submit concurrently.
ConcurrentSubmitsSafe == ~crashed
=============================================================================
