------------------------------ MODULE UsbfsAsync ------------------------------
(***************************************************************************)
(* Asynchronous transfers of the Linux backend: the goroutines that call   *)
(* Submit, Cancel, ResetDevice and Close on one DeviceHandle, the reapLoop *)
(* goroutine the handle starts on demand, and usbfs underneath them.       *)
(*                                                                         *)
(* A step of the specification is a system call or a critical section.     *)
(* The read side of DeviceHandle.mu is the set of transfers inside Submit; *)
(* every section under its write side, or under reapMutex, is one step.    *)
(***************************************************************************)
EXTENDS Naturals, FiniteSets

CONSTANTS Xfers,       \* the transfers created on the handle
          Bulk,        \* the ones that are AsyncBulkTransfers
          MaxSubmits,  \* bound: URB submissions per transfer
          MaxReapers,  \* bound: reapLoop goroutines ever started
          MaxResets,   \* bound: calls of ResetDevice
          Faults       \* the environment events that may happen

ASSUME ConstantsAssumption ==
    /\ Bulk \subseteq Xfers
    /\ MaxSubmits \in Nat
    /\ MaxReapers \in Nat
    /\ MaxResets \in Nat
    /\ Faults \subseteq {"unplug", "pipe", "epoll"}

VARIABLES
    \* DeviceHandle
    closed,      \* h.closed
    fdOpen,      \* h.fd refers to an open file
    resets,      \* number of ResetDevice calls so far
    reapMap,     \* transfers whose URB has a callback in h.reapMap
    mapNil,      \* h.reapMap = nil
    reaping,     \* h.reaping
    epoch,       \* the reaper whose pipe and channel the fields hold, 0 = none
    \* wake pipes and channels, named after the reaper they were made for
    pipeOpen, wakeByte, chanClosed,
    panicked,    \* close of a closed channel, or store into a nil map
    \* transfer objects
    submitted, reaped, reapErr, actual,
    urbErr,      \* urb.Status # 0
    urbFrom,     \* the submission whose ActualLength is in the URB
    undone,      \* the last submission that Submit has taken back, 0 = none
    spc,         \* where the goroutine in Submit is
    cpc,         \* where a Cancel is
    \* Close and reapLoop goroutines
    closePc, closeDone,
    rpc, rwatch, rpipe, rhold,
    \* usbfs
    connected, nsub, kurb

handleVars == <<closed, fdOpen, resets, reapMap, mapNil, reaping, epoch>>
wakeVars == <<pipeOpen, wakeByte, chanClosed>>
resultVars == <<submitted, reaped, reapErr, actual>>
urbVars == <<urbErr, urbFrom, undone>>
reaperVars == <<rpc, rwatch, rpipe, rhold>>
closeVars == <<closePc, closeDone>>
kernelVars == <<connected, nsub, kurb>>
vars == <<handleVars, wakeVars, panicked, resultVars, urbVars, spc, cpc,
          closeVars, reaperVars, kernelVars>>

Reapers == 1..MaxReapers
Numbers == 1..MaxSubmits
Urbs == Xfers \X Numbers
NoUrb == <<>>

\* A reaper in one of these states still serves the reap map.
Active == {"start", "check", "final", "wait", "reap", "lookup", "call", "fail"}
-----------------------------------------------------------------------------
(* usbfs                                                                   *)

\* The completed URBs a USBDEVFS_REAPURBNDELAY can return.
Reapable == {u \in Urbs : kurb[u] \in {"ok", "err"}}

\* The pending URB that DISCARDURB finds for a transfer: the oldest one.
Oldest(u) == /\ kurb[u] = "pending"
             /\ \A m \in Numbers : kurb[<<u[1], m>>] = "pending" => u[2] <= m

\* USBDEVFS_DISCARDURB for each of a set of transfers: synchronous in usbfs,
\* the URB is no longer in flight when the call returns.
Discard(X) ==
    kurb' = [u \in Urbs |-> IF u[1] \in X /\ Oldest(u) THEN "err" ELSE kurb[u]]

\* The host controller finishes an URB.
UrbCompletes(u) ==
    /\ kurb[u] = "pending"
    /\ \E st \in {"ok", "err"} : kurb' = [kurb EXCEPT ![u] = st]
    /\ UNCHANGED <<handleVars, wakeVars, panicked, resultVars, urbVars, spc,
                   cpc, closeVars, reaperVars, connected, nsub>>

\* The device is unplugged: usbfs completes every URB with an error.
Unplug ==
    /\ "unplug" \in Faults
    /\ connected
    /\ connected' = FALSE
    /\ kurb' = [u \in Urbs |-> IF kurb[u] = "pending" THEN "err" ELSE kurb[u]]
    /\ UNCHANGED <<handleVars, wakeVars, panicked, resultVars, urbVars, spc,
                   cpc, closeVars, reaperVars, nsub>>
-----------------------------------------------------------------------------
(* Submit, Cancel                                                          *)

\* The transfers inside Submit hold the read side of h.mu ...
Readers == {x \in Xfers : spc[x] # "idle"}

MuNotTaken == TRUE

\* ... and h.mu.Lock waits for them.
MuLock == Readers = {}

BusyNever(x) == FALSE

\* The check for a transfer that is still in flight.
Busy(x) == IF x \in Bulk THEN urbErr[x] /\ ~reaped[x] ELSE submitted[x]

\* Submit up to the reset of the URB: the busy check, RLock, the closed check.
SubmitEnter(x) ==
    /\ spc[x] = "idle"
    /\ nsub[x] < MaxSubmits
    /\ ~Busy(x)
    /\ ~closed
    /\ spc' = [spc EXCEPT ![x] = "ioctl"]
    /\ urbErr' = [urbErr EXCEPT ![x] = FALSE]
    /\ urbFrom' = [urbFrom EXCEPT ![x] = 0]
    /\ UNCHANGED <<handleVars, wakeVars, panicked, resultVars, undone, cpc,
                   closeVars, reaperVars, kernelVars>>

\* USBDEVFS_SUBMITURB: accepted, or refused and Submit returns the error.
SubmitURB(x) ==
    /\ spc[x] = "ioctl"
    /\ \/ /\ connected
          /\ nsub' = [nsub EXCEPT ![x] = @ + 1]
          /\ kurb' = [kurb EXCEPT ![<<x, nsub[x] + 1>>] = "pending"]
          /\ spc' = [spc EXCEPT ![x] = "mark"]
       \/ /\ spc' = [spc EXCEPT ![x] = "idle"]
          /\ UNCHANGED <<nsub, kurb>>
    /\ UNCHANGED <<handleVars, wakeVars, panicked, resultVars, urbVars, cpc,
                   closeVars, reaperVars, connected>>

\* t.submitted = true; t.reaped = false
SubmitMark(x) ==
    /\ spc[x] = "mark"
    /\ submitted' = [submitted EXCEPT ![x] = x \notin Bulk]
    /\ reaped' = [reaped EXCEPT ![x] = FALSE]
    /\ spc' = [spc EXCEPT ![x] = "register"]
    /\ UNCHANGED <<handleVars, wakeVars, panicked, reapErr, actual, urbVars,
                   cpc, closeVars, reaperVars, kernelVars>>

\* h.reapMap[urbPtr] = callback, a panic when the map is nil.
StoreCallback(x) ==
    /\ panicked' = mapNil
    /\ reapMap' = reapMap \cup {x}

StartReaperUnmarked ==
    /\ epoch < MaxReapers
    /\ epoch' = epoch + 1
    /\ pipeOpen' = pipeOpen \cup {epoch + 1}
    /\ UNCHANGED reaping
    /\ rpc' = [rpc EXCEPT ![epoch + 1] = "start"]

\* The `if !h.reaping` block: a new pipe, a new channel, a new goroutine.
StartReaper ==
    /\ epoch < MaxReapers
    /\ epoch' = epoch + 1
    /\ pipeOpen' = pipeOpen \cup {epoch + 1}
    /\ reaping' = TRUE
    /\ rpc' = [rpc EXCEPT ![epoch + 1] = "start"]

registerURBCompletion(x) ==
    /\ spc[x] = "register"
    /\ \/ /\ IF reaping THEN UNCHANGED <<epoch, pipeOpen, reaping, rpc>>
                        ELSE StartReaper
          /\ StoreCallback(x)
          /\ spc' = [spc EXCEPT ![x] = "idle"]
       \/ /\ ~reaping /\ "pipe" \in Faults        \* Pipe2 fails
          /\ spc' = [spc EXCEPT ![x] = "undo"]
          /\ UNCHANGED <<epoch, pipeOpen, reaping, rpc, panicked, reapMap>>
    /\ UNCHANGED <<closed, fdOpen, resets, mapNil, wakeByte, chanClosed,
                   resultVars, urbVars, cpc, closeVars, rwatch, rpipe, rhold,
                   kernelVars>>

\* Submit when registering failed: discard the URB, give the transfer back. An
\* AsyncTransfer is left neither submitted nor reaped.
SubmitUndo(x) ==
    /\ spc[x] = "undo"
    /\ Discard({x})
    /\ submitted' = [submitted EXCEPT ![x] = FALSE]
    /\ reaped' = [reaped EXCEPT ![x] = x \in Bulk]
    /\ undone' = [undone EXCEPT ![x] = nsub[x]]
    /\ spc' = [spc EXCEPT ![x] = "idle"]
    /\ UNCHANGED <<handleVars, wakeVars, panicked, reapErr, actual, urbErr,
                   urbFrom, cpc, closeVars, reaperVars, connected, nsub>>

\* Cancel's unlocked check, also reached by WaitWithTimeout when its timer
\* fires before the transfer is reaped.
CancelCheck(x) ==
    /\ cpc[x] = "idle"
    /\ x \in Bulk \/ submitted[x]
    /\ cpc' = [cpc EXCEPT ![x] = "discard"]
    /\ UNCHANGED <<handleVars, wakeVars, panicked, resultVars, urbVars, spc,
                   closeVars, reaperVars, kernelVars>>

\* Cancel under RLock: nothing on a closed handle, else DISCARDURB, whose
\* EINVAL (no such URB in flight) is ignored.
CancelDiscard(x) ==
    /\ cpc[x] = "discard"
    /\ cpc' = [cpc EXCEPT ![x] = "idle"]
    /\ IF closed THEN UNCHANGED kurb ELSE Discard({x})
    /\ UNCHANGED <<handleVars, wakeVars, panicked, resultVars, urbVars, spc,
                   closeVars, reaperVars, connected, nsub>>
-----------------------------------------------------------------------------
(* reapLoop                                                                *)

CallbackKeepsLength(X, e) ==
    /\ submitted' = [x \in Xfers |-> submitted[x] /\ x \notin X]
    /\ reaped' = [x \in Xfers |-> reaped[x] \/ x \in X]
    /\ reapErr' = [x \in Xfers |-> IF x \in X THEN e ELSE reapErr[x]]
    /\ UNCHANGED actual

\* BufferLength, which is no submission's ActualLength, instead of ActualLength.
CallbackWholeBuffer(X, e) ==
    /\ submitted' = [x \in Xfers |-> submitted[x] /\ x \notin X]
    /\ reaped' = [x \in Xfers |-> reaped[x] \/ x \in X]
    /\ reapErr' = [x \in Xfers |-> IF x \in X THEN e ELSE reapErr[x]]
    /\ actual' = [x \in Xfers |-> IF x \in X THEN MaxSubmits + 1 ELSE actual[x]]

\* The completion callbacks of a set of transfers, run with error e.
Callback(X, e) ==
    /\ submitted' = [x \in Xfers |-> submitted[x] /\ x \notin X]
    /\ reaped' = [x \in Xfers |-> reaped[x] \/ x \in X]
    /\ reapErr' = [x \in Xfers |-> IF x \in X THEN e ELSE reapErr[x]]
    /\ actual' = [x \in Xfers |-> IF x \in X \ Bulk /\ ~e THEN urbFrom[x]
                                                          ELSE actual[x]]

NotifyNone ==
    /\ UNCHANGED resultVars
    /\ reapMap' = {}

\* Every pending callback is called with an error and forgotten.
NotifyAll ==
    /\ Callback(reapMap, TRUE)
    /\ reapMap' = {}

Goto(r, l) == rpc' = [rpc EXCEPT ![r] = l]

\* epoll_create1 and the two epoll_ctl calls: EBADF on a closed fd, and any
\* of the three may fail for want of resources.
reapLoopSetup(r) ==
    /\ rpc[r] = "start"
    /\ \/ /\ fdOpen /\ epoch \in pipeOpen
          /\ Goto(r, "check")
          /\ rwatch' = [rwatch EXCEPT ![r] = TRUE]
          /\ rpipe' = [rpipe EXCEPT ![r] = epoch]
       \/ /\ ~fdOpen \/ epoch \notin pipeOpen \/ "epoll" \in Faults
          /\ Goto(r, "fail")
          /\ UNCHANGED <<rwatch, rpipe>>
    /\ UNCHANGED <<handleVars, wakeVars, panicked, resultVars, urbVars, spc,
                   cpc, closeVars, rhold, kernelVars>>

\* The top of the loop: read h.closed under RLock.
reapLoopCheck(r) ==
    /\ rpc[r] = "check"
    /\ Goto(r, IF closed THEN "final" ELSE "wait")
    /\ UNCHANGED <<handleVars, wakeVars, panicked, resultVars, urbVars, spc,
                   cpc, closeVars, rwatch, rpipe, rhold, kernelVars>>

\* The handle is closed: every callback is called, the map becomes nil.
reapLoopFinal(r) ==
    /\ rpc[r] = "final"
    /\ NotifyAll
    /\ mapNil' = TRUE
    /\ reaping' = FALSE
    /\ Goto(r, "exitPipe")
    /\ UNCHANGED <<closed, fdOpen, resets, epoch, wakeVars, panicked, urbVars,
                   spc, cpc, closeVars, rwatch, rpipe, rhold, kernelVars>>

\* What epoll_wait reports: a reapable URB or a hangup on the device file the
\* reaper registered, or a byte in its pipe.
EpollReady(r) ==
    \/ rwatch[r] /\ (Reapable # {} \/ ~connected)
    \/ rpipe[r] \in pipeOpen \cap wakeByte

\* epoll_wait returns events, and the wake byte is drained when the pipe it
\* came from is the one h.reapWakeR names now.
reapLoopWake(r) ==
    /\ rpc[r] = "wait"
    /\ EpollReady(r)
    /\ wakeByte' = wakeByte \ ({rpipe[r]} \cap {epoch})
    /\ Goto(r, "reap")
    /\ UNCHANGED <<handleVars, pipeOpen, chanClosed, panicked, resultVars,
                   urbVars, spc, cpc, closeVars, rwatch, rpipe, rhold,
                   kernelVars>>

\* epoll_wait returns EINTR (back to the check) or fails.
reapLoopWaitError(r) ==
    /\ rpc[r] = "wait"
    /\ Goto(r, "check") \/ ("epoll" \in Faults /\ Goto(r, "fail"))
    /\ UNCHANGED <<handleVars, wakeVars, panicked, resultVars, urbVars, spc,
                   cpc, closeVars, rwatch, rpipe, rhold, kernelVars>>

DrainEndFatal == "fail"

\* Where the drain loop goes when nothing is reapable: EAGAIN, or ENODEV (EBADF
\* on a closed file), which ends reaping.
DrainEnd == IF fdOpen /\ connected THEN "check" ELSE "fail"

\* One USBDEVFS_REAPURBNDELAY: an URB, EAGAIN, or a fatal error.
drainReap(r) ==
    /\ rpc[r] = "reap"
    /\ \/ /\ fdOpen
          /\ \E u \in Reapable :
                /\ kurb' = [kurb EXCEPT ![u] = "free"]
                /\ urbErr' = [urbErr EXCEPT ![u[1]] = kurb[u] = "err"]
                /\ urbFrom' = [urbFrom EXCEPT ![u[1]] = u[2]]
                /\ rhold' = [rhold EXCEPT ![r] = u]
          /\ UNCHANGED undone
          /\ Goto(r, "lookup")
       \/ /\ ~fdOpen \/ Reapable = {}
          /\ Goto(r, DrainEnd)
          /\ UNCHANGED <<kurb, urbVars, rhold>>
    /\ UNCHANGED <<handleVars, wakeVars, panicked, resultVars, spc, cpc,
                   closeVars, rwatch, rpipe, connected, nsub>>

KeepCallback(x) == UNCHANGED reapMap

\* delete(h.reapMap, urb)
TakeCallback(x) == reapMap' = reapMap \ {x}

\* Look the URB up under reapMutex; one without a callback is dropped.
drainLookup(r) ==
    /\ rpc[r] = "lookup"
    /\ LET x == rhold[r][1] IN
       IF x \in reapMap
         THEN /\ TakeCallback(x)
              /\ Goto(r, "call")
              /\ UNCHANGED rhold
         ELSE /\ Goto(r, "reap")
              /\ rhold' = [rhold EXCEPT ![r] = NoUrb]
              /\ UNCHANGED reapMap
    /\ UNCHANGED <<closed, fdOpen, resets, mapNil, reaping, epoch, wakeVars,
                   panicked, resultVars, urbVars, spc, cpc, closeVars, rwatch,
                   rpipe, kernelVars>>

\* callback(err), with err from the Status the URB has now.
drainCall(r) ==
    /\ rpc[r] = "call"
    /\ Callback({rhold[r][1]}, urbErr[rhold[r][1]])
    /\ Goto(r, "reap")
    /\ rhold' = [rhold EXCEPT ![r] = NoUrb]
    /\ UNCHANGED <<handleVars, wakeVars, panicked, urbVars, spc, cpc,
                   closeVars, rwatch, rpipe, kernelVars>>

failReaping(r) ==
    /\ rpc[r] = "fail"
    /\ NotifyAll
    /\ mapNil' = FALSE
    /\ reaping' = FALSE
    /\ Goto(r, "exitPipe")
    /\ UNCHANGED <<closed, fdOpen, resets, epoch, wakeVars, panicked, urbVars,
                   spc, cpc, closeVars, rwatch, rpipe, rhold, kernelVars>>

\* The deferred function closes the pipe the fields name now, not the one the
\* goroutine was started with.
reapLoopClosePipe(r) ==
    /\ rpc[r] = "exitPipe"
    /\ pipeOpen' = pipeOpen \ {epoch}
    /\ rwatch' = [rwatch EXCEPT ![r] = FALSE]
    /\ Goto(r, "exitChan")
    /\ UNCHANGED <<handleVars, wakeByte, chanClosed, panicked, resultVars,
                   urbVars, spc, cpc, closeVars, rpipe, rhold, kernelVars>>

\* ... and then the channel, a panic when it is already closed.
reapLoopCloseChan(r) ==
    /\ rpc[r] = "exitChan"
    /\ chanClosed' = chanClosed \cup {epoch}
    /\ panicked' = (epoch \in chanClosed)
    /\ Goto(r, "stopped")
    /\ UNCHANGED <<handleVars, pipeOpen, wakeByte, resultVars, urbVars, spc,
                   cpc, closeVars, rwatch, rpipe, rhold, kernelVars>>

reapLoop(r) ==
    \/ reapLoopSetup(r) \/ reapLoopCheck(r) \/ reapLoopFinal(r)
    \/ reapLoopWake(r) \/ reapLoopWaitError(r)
    \/ drainReap(r) \/ drainLookup(r) \/ drainCall(r)
    \/ failReaping(r) \/ reapLoopClosePipe(r) \/ reapLoopCloseChan(r)
-----------------------------------------------------------------------------
(* ResetDevice, Close                                                      *)

\* The file is reopened and the old one closed, which kills its URBs and takes
\* it out of the reapers' epoll sets. A reaper reads h.fd without the lock: one
\* that is about to use it may still use the number of the closed file.
ResetDevice ==
    /\ resets < MaxResets
    /\ MuLock /\ ~closed /\ connected
    /\ resets' = resets + 1
    /\ kurb' = [u \in Urbs |-> "free"]
    /\ rwatch' = [r \in Reapers |-> FALSE]
    /\ \E S \in SUBSET {r \in Reapers : rpc[r] \in {"start", "reap"}} :
          rpc' = [r \in Reapers |-> IF r \in S THEN "fail" ELSE rpc[r]]
    /\ UNCHANGED <<closed, fdOpen, reapMap, mapNil, reaping, epoch, wakeVars,
                   panicked, resultVars, urbVars, spc, cpc, closeVars, rpipe,
                   rhold, connected, nsub>>

\* Close up to the first Unlock.
CloseMark ==
    /\ closePc = "idle"
    /\ MuLock
    /\ closed' = TRUE
    /\ closeDone' = epoch
    /\ closePc' = "discard"
    /\ UNCHANGED <<fdOpen, resets, reapMap, mapNil, reaping, epoch, wakeVars,
                   panicked, resultVars, urbVars, spc, cpc, reaperVars,
                   kernelVars>>

\* DISCARDURB for every URB in the map.
CloseDiscard ==
    /\ closePc = "discard"
    /\ Discard(reapMap)
    /\ closePc' = IF closeDone = 0 THEN "release" ELSE "wake"
    /\ UNCHANGED <<handleVars, wakeVars, panicked, resultVars, urbVars, spc,
                   cpc, closeDone, reaperVars, connected, nsub>>

WriteNoByte == UNCHANGED wakeByte

\* syscall.Write(wakeW): a pipe the reaper has closed takes no byte.
WriteWakeByte == wakeByte' = wakeByte \cup ({closeDone} \cap pipeOpen)

CloseWake ==
    /\ closePc = "wake"
    /\ WriteWakeByte
    /\ closePc' = "join"
    /\ UNCHANGED <<handleVars, pipeOpen, chanClosed, panicked, resultVars,
                   urbVars, spc, cpc, closeDone, reaperVars, kernelVars>>

DoneUnheeded == TRUE

\* The channel Close has taken from the handle is closed.
DoneReceived == closeDone \in chanClosed

\* <-reapDone
CloseJoin ==
    /\ closePc = "join"
    /\ DoneReceived
    /\ closePc' = "release"
    /\ UNCHANGED <<handleVars, wakeVars, panicked, resultVars, urbVars, spc,
                   cpc, closeDone, reaperVars, kernelVars>>

\* Release the interfaces and close the file.
CloseRelease ==
    /\ closePc = "release"
    /\ MuLock
    /\ fdOpen' = FALSE
    /\ kurb' = [u \in Urbs |-> "free"]
    /\ rwatch' = [r \in Reapers |-> FALSE]
    /\ closePc' = "done"
    /\ UNCHANGED <<closed, resets, reapMap, mapNil, reaping, epoch, wakeVars,
                   panicked, resultVars, urbVars, spc, cpc, closeDone, rpc,
                   rpipe, rhold, connected, nsub>>

Close == CloseMark \/ CloseDiscard \/ CloseWake \/ CloseJoin \/ CloseRelease
-----------------------------------------------------------------------------
Init ==
    /\ closed = FALSE /\ fdOpen = TRUE /\ resets = 0
    /\ reapMap = {} /\ mapNil = FALSE /\ reaping = FALSE /\ epoch = 0
    /\ pipeOpen = {} /\ wakeByte = {} /\ chanClosed = {} /\ panicked = FALSE
    /\ submitted = [x \in Xfers |-> FALSE]
    /\ reaped = [x \in Xfers |-> FALSE]
    /\ reapErr = [x \in Xfers |-> FALSE]
    /\ actual = [x \in Xfers |-> 0]
    /\ urbErr = [x \in Xfers |-> FALSE]
    /\ urbFrom = [x \in Xfers |-> 0]
    /\ undone = [x \in Xfers |-> 0]
    /\ spc = [x \in Xfers |-> "idle"]
    /\ cpc = [x \in Xfers |-> "idle"]
    /\ closePc = "idle" /\ closeDone = 0
    /\ rpc = [r \in Reapers |-> "unborn"]
    /\ rwatch = [r \in Reapers |-> FALSE]
    /\ rpipe = [r \in Reapers |-> 0]
    /\ rhold = [r \in Reapers |-> NoUrb]
    /\ connected = TRUE
    /\ nsub = [x \in Xfers |-> 0]
    /\ kurb = [u \in Urbs |-> "free"]

SubmitStep(x) == \/ SubmitURB(x) \/ SubmitMark(x)
                 \/ registerURBCompletion(x) \/ SubmitUndo(x)

Next ==
    /\ ~panicked
    /\ \/ \E x \in Xfers : \/ SubmitEnter(x) \/ SubmitStep(x)
                           \/ CancelCheck(x) \/ CancelDiscard(x)
       \/ \E u \in Urbs : UrbCompletes(u)
       \/ Unplug
       \/ \E r \in Reapers : reapLoop(r)
       \/ ResetDevice
       \/ Close

Spec == Init /\ [][Next]_vars

(***************************************************************************)
(* Goroutines that can run are scheduled. An epoll_wait that keeps having  *)
(* something to report is not interrupted by signals for ever, but no      *)
(* signal need ever come. A sync.RWMutex does not starve a writer. The     *)
(* device, the user's calls and the faults are not fair.                   *)
(***************************************************************************)
Fairness ==
    /\ \A x \in Xfers : WF_vars(~panicked /\ SubmitStep(x))
    /\ \A r \in Reapers : /\ WF_vars(~panicked /\ rpc[r] # "wait" /\ reapLoop(r))
                          /\ SF_vars(~panicked /\ reapLoopWake(r))
    /\ WF_vars(~panicked /\ (CloseDiscard \/ CloseWake \/ CloseJoin))
    /\ SF_vars(~panicked /\ CloseRelease)

FairSpec == Spec /\ Fairness
-----------------------------------------------------------------------------
(* Properties                                                              *)

HandleType ==
    /\ closed \in BOOLEAN /\ fdOpen \in BOOLEAN /\ resets \in 0..MaxResets
    /\ reapMap \subseteq Xfers /\ mapNil \in BOOLEAN /\ reaping \in BOOLEAN
    /\ epoch \in 0..MaxReapers
    /\ pipeOpen \subseteq Reapers /\ wakeByte \subseteq Reapers
    /\ chanClosed \subseteq Reapers /\ panicked \in BOOLEAN
    /\ closePc \in {"idle", "discard", "wake", "join", "release", "done"}
    /\ closeDone \in 0..MaxReapers

TransferObjectType ==
    /\ submitted \in [Xfers -> BOOLEAN] /\ reaped \in [Xfers -> BOOLEAN]
    /\ reapErr \in [Xfers -> BOOLEAN] /\ actual \in [Xfers -> 0..MaxSubmits]
    /\ urbErr \in [Xfers -> BOOLEAN] /\ urbFrom \in [Xfers -> 0..MaxSubmits]
    /\ undone \in [Xfers -> 0..MaxSubmits]
    /\ spc \in [Xfers -> {"idle", "ioctl", "mark", "register", "undo"}]
    /\ cpc \in [Xfers -> {"idle", "discard"}]

ReaperType ==
    /\ rpc \in [Reapers -> Active \cup {"unborn", "exitPipe", "exitChan",
                                        "stopped"}]
    /\ rwatch \in [Reapers -> BOOLEAN] /\ rpipe \in [Reapers -> 0..MaxReapers]
    /\ rhold \in [Reapers -> Urbs \cup {NoUrb}]

KernelType ==
    /\ connected \in BOOLEAN /\ nsub \in [Xfers -> 0..MaxSubmits]
    /\ kurb \in [Urbs -> {"free", "pending", "ok", "err"}]

\* Every variable of the handle, the transfers, the reapers and usbfs stays in
\* its domain.
TypeOK == HandleType /\ TransferObjectType /\ ReaperType /\ KernelType

\* The reaper that has taken the callback of x out of the map to call it.
Calling(r, x) == rpc[r] = "call" /\ rhold[r][1] = x

\* h.reaping tells the truth: it is set exactly while one reapLoop serves the
\* map, there is never a second one, and no callback is registered without it.
\* A callback without a reaper would never be called.
OneReaper ==
    /\ \A r, s \in Reapers : rpc[r] \in Active /\ rpc[s] \in Active => r = s
    /\ reaping <=> \E r \in Reapers : rpc[r] \in Active
    /\ reapMap # {} => reaping

\* The reaper of a closed handle sets reapMap to nil while no Submit is under
\* way and none can start, so registerURBCompletion never stores into nil.
NoStoreIntoNilMap == mapNil => closed /\ Readers = {}

\* The bookkeeping of callbacks: outside Submit a transfer is marked submitted
\* exactly while one callback for it is in the map or in a reaper's hands, never
\* two. failReaping, Close, the drain loop and a Submit that fails leave neither
\* a mark without a callback nor a callback without a mark. Which completion the
\* callback is run for is not said: the drain loop may have dropped the one it
\* was meant for (DropOnlyInShutdown), and after a failed pipe2 it may be run for
\* the submission that was taken back.
OneCallbackOwed ==
    \A x \in Xfers \ Bulk :
        LET callers == {r \in Reapers : Calling(r, x)} IN
        /\ \A r, s \in callers : r = s
        /\ x \in reapMap => callers = {}
        /\ IF spc[x] \in {"idle", "ioctl"}
             THEN submitted[x] <=> (x \in reapMap \/ callers # {})
             ELSE x \notin reapMap /\ callers = {}

\* No URB of a transfer that its caller may use again is still in flight.
NoneInFlightWhenIdle ==
    \A x \in Xfers \ Bulk :
        ~submitted[x] /\ spc[x] \in {"idle", "ioctl"} =>
            \A n \in Numbers : kurb[<<x, n>>] # "pending"

\* While the handle is open the caller gets its buffer back only when the
\* kernel is done with it, whichever of completion, Cancel, unplug and
\* failReaping released the transfer.
BufferReturned == ~closed => NoneInFlightWhenIdle

\* A callback is run only for the completion of the latest submission of its
\* transfer, and a transfer that reports success reports the length the kernel
\* wrote for that one.
SuccessIsLatest ==
    \A x \in Xfers \ Bulk :
        /\ \A r \in Reapers : Calling(r, x) => rhold[r] = <<x, nsub[x]>>
        /\ spc[x] = "idle" /\ reaped[x] /\ ~reapErr[x] => actual[x] = nsub[x]

\* Close closes the file only after the reaper has stopped using it.
CloseWaitsForReaper ==
    closePc \in {"release", "done"} =>
        \A r \in Reapers : rpc[r] \in {"unborn", "stopped"}

\* failReaping runs when there is "nothing left to reap": no URB is in flight
\* or waiting to be reaped when the callbacks are told of the failure.
NothingLeftToReap ==
    \A r \in Reapers : rpc[r] = "fail" => \A u \in Urbs : kurb[u] = "free"

\* Nobody who waits for a submission of x is blocked: waiters sleep until t.reaped
\* is set. An AsyncTransfer whose Submit has taken the URB back is excepted: it
\* stays unreaped, and Status, ActualLength and Buffer block.
Released(x) ==
    nsub[x] > 0 /\ (x \in Bulk \/ nsub[x] # undone[x]) => reaped[x]

\* The deferred function of an earlier reaper has closed the pipe of the one
\* that runs: nothing can wake it.
Robbed == \E r \in Reapers : rpc[r] \in Active /\ r \notin pipeOpen

\* Once Close has marked the handle closed it returns, and every submission that
\* Submit has not taken back is released: no waiter for one blocks on a closed
\* handle whose reaper has its pipe.
CloseReleases ==
    closed ~> \/ panicked \/ Robbed
              \/ /\ closePc = "done" /\ reapMap = {}
                 /\ \A x \in Xfers : Released(x)

\* After the device is unplugged every submitted transfer is released, without
\* any call of Close, unless the reaper has been robbed of its pipe.
UnplugReleases ==
    ~connected ~> (panicked \/ Robbed \/ \A x \in Xfers : Released(x))

\* device_linux.go: h.reapDone signals that the reaper has stopped; a closed
\* channel is the channel of a reaper that has.
DoneMeansStopped == \A r \in chanClosed : rpc[r] = "stopped"

\* drainReapedURBs drops a completion ("reaped but not registered") only
\* during shutdown.
DropOnlyInShutdown ==
    \A r \in Reapers :
        rpc[r] = "lookup" /\ rhold[r][1] \notin reapMap => closed
=============================================================================
