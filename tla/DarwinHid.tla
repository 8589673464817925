------------------------------- MODULE DarwinHid ------------------------------
(***************************************************************************)
(* The input side of a hidCollection of the macOS backend: the pump that   *)
(* startInputPump starts, the callback that queues reports in a channel of *)
(* bounded capacity and drops the oldest when it is full, readReport,      *)
(* flush, and hidDevice.close with stopInputPump.                          *)
(*                                                                         *)
(* Reports are numbered in the order the device sends them. readReport and *)
(* flush run under h.mu for reading, close under h.mu for writing.         *)
(***************************************************************************)
EXTENDS Naturals, Sequences

CONSTANTS Cap,         \* capacity of the channel; 32 in the code
          MaxReports,  \* bound: reports the device sends
          Readers      \* goroutines that read or flush

ASSUME ConstantsAssumption == Cap \in Nat \ {0} /\ MaxReports \in Nat

VARIABLES
    sent,        \* reports handed to the callback so far
    reports,     \* the channel
    cb,          \* where the callback is
    lost,        \* reports the callback could not queue
    taken,       \* the last report that left the queue at its head
    rpc, mark,   \* each reader, and what had been sent when its flush began
    ppc, ready,  \* the pump
    pumpStopped, stopRequested, opc,
    deviceOpen

cbVars == <<sent, cb, lost>>
readVars == <<rpc, mark>>
pumpVars == <<ppc, ready, pumpStopped, stopRequested>>
vars == <<cbVars, reports, taken, readVars, pumpVars, opc, deviceOpen>>

Take == /\ reports # <<>>
        /\ reports' = Tail(reports) /\ taken' = Head(reports)

TakeNothing == UNCHANGED <<reports, taken>>
-----------------------------------------------------------------------------
(* The callback, which the pump's run loop calls                           *)

CallbackKeeps == UNCHANGED <<readVars, pumpVars, opc, deviceOpen>>

\* The channel has room.
Room == Len(reports) < Cap

\* c.reports <- buf
Queue(n) == reports' = Append(reports, n)

\* case c.reports <- buf, or the queue is full.
callback ==
    /\ ppc = "run" /\ cb = "none" /\ sent < MaxReports
    /\ sent' = sent + 1
    /\ IF Room THEN Queue(sent + 1) /\ cb' = "none"
               ELSE cb' = "drop" /\ UNCHANGED reports
    /\ UNCHANGED <<lost, taken>>
    /\ CallbackKeeps

DropNothing == TakeNothing

\* case <-c.reports, or a reader has made room.
DropOldest == Take \/ (reports = <<>> /\ TakeNothing)

callbackDrop ==
    /\ cb = "drop" /\ cb' = "push"
    /\ DropOldest
    /\ UNCHANGED <<sent, lost>>
    /\ CallbackKeeps

\* The second send, which gives up when the queue is full again.
callbackPush ==
    /\ cb = "push" /\ cb' = "none"
    /\ IF Room THEN Queue(sent) /\ UNCHANGED lost
               ELSE lost' = lost \cup {sent} /\ UNCHANGED reports
    /\ UNCHANGED <<sent, taken>>
    /\ CallbackKeeps
-----------------------------------------------------------------------------
(* Readers                                                                 *)

RLock == opc = "none"

ReadKeeps == UNCHANGED <<cbVars, pumpVars, opc, deviceOpen>>

readReport(r) ==
    /\ rpc[r] = "idle" /\ RLock
    /\ rpc' = [rpc EXCEPT ![r] = "read"]
    /\ TakeNothing /\ UNCHANGED mark
    /\ ReadKeeps

\* case report := <-c.reports
readTake(r) ==
    /\ rpc[r] = "read" /\ rpc' = [rpc EXCEPT ![r] = "idle"]
    /\ Take /\ UNCHANGED mark
    /\ ReadKeeps

\* case <-timerC
readTimeout(r) ==
    /\ rpc[r] = "read" /\ rpc' = [rpc EXCEPT ![r] = "idle"]
    /\ TakeNothing /\ UNCHANGED mark
    /\ ReadKeeps

flush(r) ==
    /\ rpc[r] = "idle" /\ RLock
    /\ rpc' = [rpc EXCEPT ![r] = "flush"]
    /\ mark' = [mark EXCEPT ![r] = IF cb = "none" THEN sent ELSE sent - 1]
    /\ TakeNothing
    /\ ReadKeeps

\* default: the channel is empty.
FlushDone == reports = <<>>

flushTake(r) ==
    /\ rpc[r] = "flush" /\ ~FlushDone
    /\ Take /\ UNCHANGED readVars
    /\ ReadKeeps

flushReturn(r) ==
    /\ rpc[r] = "flush" /\ FlushDone
    /\ rpc' = [rpc EXCEPT ![r] = "flushed"]
    /\ TakeNothing /\ UNCHANGED mark
    /\ ReadKeeps

\* RUnlock after a flush.
flushUnlock(r) ==
    /\ rpc[r] = "flushed" /\ rpc' = [rpc EXCEPT ![r] = "idle"]
    /\ TakeNothing /\ UNCHANGED mark
    /\ ReadKeeps
-----------------------------------------------------------------------------
(* The pump                                                                *)

PumpStep(from, to) ==
    /\ ppc = from /\ ppc' = to
    /\ UNCHANGED <<cbVars, reports, taken, readVars, pumpStopped, opc, deviceOpen>>

\* The callback is registered, the device scheduled, c.runLoop published.
pumpStart == PumpStep("start", "check") /\ ready' = TRUE /\ UNCHANGED stopRequested

StopUnread == FALSE

\* c.pumpStopped, read under pumpMu
StopSeen == pumpStopped

\* Not stopped: CFRunLoopRunInMode for 0.05 s. Stopped: the device is
\* unscheduled, pumpDone is closed.
pumpCheck ==
    \/ ~StopSeen /\ PumpStep("check", "run") /\ stopRequested' = FALSE /\ UNCHANGED ready
    \/ StopSeen /\ PumpStep("check", "exited") /\ UNCHANGED <<ready, stopRequested>>

\* The run loop returns after its time or when it is stopped, not in a callback.
pumpPoll == cb = "none" /\ PumpStep("run", "check") /\ UNCHANGED <<ready, stopRequested>>

pump == pumpStart \/ pumpCheck \/ pumpPoll
-----------------------------------------------------------------------------
(* hidDevice.close, with h.mu locked                                       *)

CloseStep(from, to) ==
    /\ opc = from /\ opc' = to
    /\ UNCHANGED <<cbVars, reports, taken, readVars, ppc, ready>>

\* stopInputPump
closeStop ==
    /\ CloseStep("none", "ready")
    /\ \A r \in Readers : rpc[r] = "idle"
    /\ pumpStopped' = TRUE
    /\ UNCHANGED <<stopRequested, deviceOpen>>

\* <-ready and CFRunLoopStop
closeWake ==
    /\ CloseStep("ready", "join") /\ ready
    /\ stopRequested' = TRUE
    /\ UNCHANGED <<pumpStopped, deviceOpen>>

DoneUnheeded == TRUE

\* <-c.pumpDone
DoneReceived == ppc = "exited"

\* IOHIDDeviceClose and CFRelease
closeDevice ==
    /\ CloseStep("join", "closed") /\ DoneReceived
    /\ deviceOpen' = FALSE
    /\ UNCHANGED <<pumpStopped, stopRequested>>

close == closeStop \/ closeWake \/ closeDevice
-----------------------------------------------------------------------------
Init ==
    /\ sent = 0 /\ reports = <<>> /\ cb = "none" /\ lost = {} /\ taken = 0
    /\ rpc = [r \in Readers |-> "idle"] /\ mark = [r \in Readers |-> 0]
    /\ ppc = "start" /\ ready = FALSE /\ pumpStopped = FALSE /\ stopRequested = FALSE
    /\ opc = "none" /\ deviceOpen = TRUE

Reader(r) == readTake(r) \/ readTimeout(r) \/ flushTake(r) \/ flushReturn(r) \/ flushUnlock(r)

Next == \/ callback \/ callbackDrop \/ callbackPush
        \/ \E r \in Readers : readReport(r) \/ flush(r) \/ Reader(r)
        \/ pump \/ close

Spec == Init /\ [][Next]_vars

\* Goroutines that can run are scheduled; the device and the calls are not fair.
Fairness ==
    /\ WF_vars(callbackDrop \/ callbackPush) /\ WF_vars(pump)
    /\ WF_vars(closeWake \/ closeDevice)

FairSpec == Spec /\ Fairness
-----------------------------------------------------------------------------
(* Properties                                                              *)

QueueType ==
    /\ sent \in 0..MaxReports /\ taken \in 0..MaxReports
    /\ Len(reports) <= Cap /\ \A i \in DOMAIN reports : reports[i] \in 1..sent
    /\ cb \in {"none", "drop", "push"} /\ lost \subseteq 1..sent

ReaderType ==
    /\ rpc \in [Readers -> {"idle", "read", "flush", "flushed"}]
    /\ mark \in [Readers -> 0..MaxReports]

PumpType ==
    /\ ppc \in {"start", "check", "run", "exited"}
    /\ ready \in BOOLEAN /\ pumpStopped \in BOOLEAN /\ stopRequested \in BOOLEAN
    /\ opc \in {"none", "ready", "join", "closed"} /\ deviceOpen \in BOOLEAN

\* Every variable stays in its domain and the queue within its capacity.
TypeOK == QueueType /\ ReaderType /\ PumpType

\* hid_darwin.go: the oldest report is dropped "rather than losing the report
\* that just arrived", whatever readers do between the three steps.
NewestKept == lost = {}

\* Reports leave the queue in the order they came, and none is there twice.
InOrder ==
    /\ \A i \in DOMAIN reports : taken < reports[i]
    /\ \A i, j \in DOMAIN reports : i < j => reports[i] < reports[j]

\* A flush leaves no report that had been queued before it began: what is read
\* after it is not stale.
FlushDiscards ==
    \A r \in Readers : rpc[r] = "flushed" =>
        \A i \in DOMAIN reports : reports[i] > mark[r]

\* The HID device is closed only after the pump has left, so that no callback
\* runs on a closed device.
NoCallbackAfterClose == ~deviceOpen => ppc = "exited" /\ cb = "none"

\* close returns once it has the lock.
CloseReturns == opc = "ready" ~> opc = "closed"
=============================================================================
