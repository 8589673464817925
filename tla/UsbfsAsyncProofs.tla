--------------------------- MODULE UsbfsAsyncProofs ---------------------------
(***************************************************************************)
(* Proofs about UsbfsAsync, for every number of transfers, submissions,    *)
(* reapers and resets and for every choice of faults.                      *)
(***************************************************************************)
EXTENDS UsbfsAsync, TLAPS

USE ConstantsAssumption

\* Where a reaper is agrees with what it has read: the reapers started so far
\* are the first epoch ones, one past the lookup holds an URB, and only one that
\* has seen the handle closed runs the final callbacks.
ReaperControl ==
    \A r \in Reapers :
        /\ rpc[r] = "unborn" <=> r > epoch
        /\ rpc[r] \in {"lookup", "call"} => rhold[r] \in Urbs
        /\ rpc[r] = "final" => closed

\* Submit holds the read lock, so the handle is open while it runs.
SubmitControl ==
    /\ \A x \in Xfers :
          /\ spc[x] # "idle" => ~closed
          /\ spc[x] = "ioctl" => nsub[x] < MaxSubmits
    /\ mapNil => closed

TInv == TypeOK /\ ReaperControl /\ SubmitControl

\* URBs are pairs of a transfer and a submission number.
LEMMA UrbPairs ==
  /\ \A x \in Xfers, n \in Numbers : <<x, n>> \in Urbs
  /\ \A u \in Urbs : u[1] \in Xfers /\ u[2] \in Numbers
  BY DEF Urbs

LEMMA InitTInv == Init => TInv
<1> SUFFICES ASSUME Init PROVE TInv
  OBVIOUS
<1>1. HandleType
  <2>1. resets \in 0..MaxResets /\ epoch \in 0..MaxReapers
        /\ closeDone \in 0..MaxReapers
    BY DEF Init
  <2>2. QED
    BY <2>1 DEF Init, HandleType
<1>2. TransferObjectType
  BY DEF Init, TransferObjectType
<1>3. ReaperType
  BY DEF Init, ReaperType
<1>4. KernelType
  BY DEF Init, KernelType
<1>5. ReaperControl /\ SubmitControl
  BY DEF Init, ReaperControl, SubmitControl, Reapers
<1>6. QED
  BY <1>1, <1>2, <1>3, <1>4, <1>5 DEF TInv, TypeOK

LEMMA SubmitTInv ==
  ASSUME TInv, NEW x \in Xfers,
         SubmitEnter(x) \/ SubmitStep(x) \/ CancelCheck(x) \/ CancelDiscard(x)
  PROVE  TInv'
<1> USE UrbPairs
    DEF TInv, TypeOK, ReaperControl, SubmitControl, HandleType, TransferObjectType, ReaperType,
        KernelType, handleVars, wakeVars, resultVars, urbVars, reaperVars,
        closeVars, kernelVars
<1>1. CASE SubmitEnter(x)
  BY <1>1 DEF SubmitEnter
<1>2. CASE SubmitURB(x)
  <2>1. CASE spc'[x] = "mark"
    <3>1. nsub[x] + 1 \in Numbers
      BY <1>2 DEF SubmitURB, Numbers
    <3> DEFINE u == <<x, nsub[x] + 1>>
    <3>u. u \in Urbs /\ nsub' = [nsub EXCEPT ![x] = @ + 1]
          /\ kurb' = [kurb EXCEPT ![u] = "pending"] /\ connected' = connected
      BY <1>2, <2>1, <3>1 DEF SubmitURB
    <3> HIDE DEF u
    <3>2. KernelType'
      BY <3>1, <3>u DEF Numbers
    <3>3. ReaperControl' /\ SubmitControl'
      BY <1>2, <2>1 DEF SubmitURB
    <3>4. QED
      BY <1>2, <2>1, <3>2, <3>3 DEF SubmitURB
  <2>2. CASE spc'[x] = "idle"
    BY <1>2, <2>2 DEF SubmitURB
  <2>3. QED
    BY <1>2, <2>1, <2>2 DEF SubmitURB
<1>3. CASE SubmitMark(x)
  BY <1>3 DEF SubmitMark
<1>4. CASE registerURBCompletion(x)
  <2>1. CASE reaping
    BY <1>4, <2>1 DEF registerURBCompletion, StoreCallback
  <2>2. CASE StartReaper /\ StoreCallback(x)
    <3>1. epoch + 1 \in Reapers /\ epoch' = epoch + 1
      BY <2>2 DEF StartReaper, Reapers
    <3>2. HandleType'
      BY <1>4, <2>2, <3>1 DEF registerURBCompletion, StartReaper,
                              StoreCallback, Reapers
    <3>3. ReaperType'
      BY <1>4, <2>2, <3>1 DEF registerURBCompletion, StartReaper, Active
    <3>r. \A r \in Reapers :
             rpc'[r] = IF r = epoch + 1 THEN "start" ELSE rpc[r]
      BY <2>2, <3>1 DEF StartReaper
    <3>4. ReaperControl' /\ SubmitControl'
      <4>1. ReaperControl'
        BY <1>4, <3>1, <3>r DEF registerURBCompletion, Reapers
      <4>2. SubmitControl'
        BY <1>4 DEF registerURBCompletion
      <4>3. QED
        BY <4>1, <4>2
    <3>5. TransferObjectType'
      BY <1>4 DEF registerURBCompletion
    <3>6. KernelType'
      BY <1>4 DEF registerURBCompletion
    <3>7. QED
      BY <3>2, <3>3, <3>4, <3>5, <3>6
  <2>3. CASE spc'[x] = "undo"
    BY <1>4, <2>3 DEF registerURBCompletion
  <2>4. QED
    BY <1>4, <2>1, <2>2, <2>3 DEF registerURBCompletion
<1>5. CASE SubmitUndo(x)
  BY <1>5 DEF SubmitUndo, Discard
<1>6. CASE CancelCheck(x)
  BY <1>6 DEF CancelCheck
<1>7. CASE CancelDiscard(x)
  BY <1>7 DEF CancelDiscard, Discard
<1>8. QED
  BY <1>1, <1>2, <1>3, <1>4, <1>5, <1>6, <1>7 DEF SubmitStep

LEMMA CallbackType ==
  ASSUME TransferObjectType, NEW X, NEW e \in BOOLEAN, Callback(X, e),
         UNCHANGED <<urbVars, spc, cpc>>
  PROVE  TransferObjectType'
  BY DEF TransferObjectType, Callback, urbVars

LEMMA ReapLoopTInv ==
  ASSUME TInv, NEW r \in Reapers, reapLoop(r)
  PROVE  TInv'
<1> USE UrbPairs
    DEF TInv, TypeOK, ReaperControl, SubmitControl, HandleType,
        ReaperType, KernelType, handleVars, wakeVars, reaperVars,
        closeVars, kernelVars
<1>e. rpc[r] # "unborn" => epoch \in Reapers
  BY DEF Reapers
<1>1. CASE reapLoopSetup(r)
  <2>1. TransferObjectType'
    BY <1>1 DEF reapLoopSetup, TransferObjectType, resultVars, urbVars
  <2>2. ReaperType'
    <3>1. rpc' \in [Reapers -> Active \cup {"unborn", "exitPipe", "exitChan",
                                           "stopped"}]
      BY <1>1 DEF reapLoopSetup, Goto, Active
    <3>2. rwatch' \in [Reapers -> BOOLEAN]
      <4>1. rwatch' = rwatch \/ rwatch' = [rwatch EXCEPT ![r] = TRUE]
        BY <1>1 DEF reapLoopSetup
      <4>2. QED
        BY <4>1
    <3>3. rpipe' \in [Reapers -> 0..MaxReapers]
      BY <1>1 DEF reapLoopSetup
    <3>4. rhold' = rhold
      BY <1>1 DEF reapLoopSetup
    <3>5. QED
      BY <3>1, <3>2, <3>3, <3>4
  <2>3. ReaperControl' /\ SubmitControl'
    BY <1>1 DEF reapLoopSetup, Goto
  <2>4. QED
    BY <1>1, <2>1, <2>2, <2>3 DEF reapLoopSetup
<1>2. CASE reapLoopCheck(r)
  BY <1>2 DEF reapLoopCheck, Goto, Active, TransferObjectType, resultVars, urbVars
<1>3. CASE reapLoopFinal(r)
  <2>1. TransferObjectType'
    BY <1>3, CallbackType DEF reapLoopFinal, NotifyAll
  <2>2. QED
    BY <1>3, <2>1 DEF reapLoopFinal, NotifyAll, Goto
<1>4. CASE reapLoopWake(r)
  BY <1>4 DEF reapLoopWake, Goto, Active, TransferObjectType, resultVars, urbVars
<1>5. CASE reapLoopWaitError(r)
  BY <1>5 DEF reapLoopWaitError, Goto, Active, TransferObjectType, resultVars,
              urbVars
<1>6. CASE drainReap(r)
  <2>1. CASE rpc'[r] = "lookup"
    <3>1. PICK u \in Reapable :
             /\ kurb' = [kurb EXCEPT ![u] = "free"]
             /\ urbErr' = [urbErr EXCEPT ![u[1]] = kurb[u] = "err"]
             /\ urbFrom' = [urbFrom EXCEPT ![u[1]] = u[2]]
             /\ rhold' = [rhold EXCEPT ![r] = u]
             /\ UNCHANGED undone
      BY <1>6, <2>1 DEF drainReap, Goto, DrainEnd
    <3>2. u \in Urbs /\ u[1] \in Xfers /\ u[2] \in 0..MaxSubmits
      BY UrbPairs DEF Reapable, Numbers
    <3>3. TransferObjectType'
      BY <1>6, <3>1, <3>2 DEF drainReap, TransferObjectType, resultVars
    <3>4. KernelType' /\ ReaperType'
      BY <1>6, <3>1, <3>2 DEF drainReap, Goto, DrainEnd, Active
    <3>5. ReaperControl' /\ SubmitControl'
      BY <1>6, <2>1, <3>1, <3>2 DEF drainReap, Goto, DrainEnd
    <3>6. QED
      BY <1>6, <3>3, <3>4, <3>5 DEF drainReap
  <2>2. CASE rpc'[r] # "lookup"
    BY <1>6, <2>2 DEF drainReap, Goto, DrainEnd, Active, TransferObjectType,
                      resultVars, urbVars
  <2>3. QED
    BY <2>1, <2>2
<1>7. CASE drainLookup(r)
  BY <1>7 DEF drainLookup, Goto, TakeCallback, Active, TransferObjectType,
              resultVars, urbVars
<1>8. CASE drainCall(r)
  <2>1. TransferObjectType'
    BY <1>8, CallbackType DEF drainCall, TransferObjectType
  <2>2. QED
    BY <1>8, <2>1 DEF drainCall, Goto, Active
<1>9. CASE failReaping(r)
  <2>1. TransferObjectType'
    BY <1>9, CallbackType DEF failReaping, NotifyAll
  <2>2. QED
    BY <1>9, <2>1 DEF failReaping, NotifyAll, Goto
<1>10. CASE reapLoopClosePipe(r)
  BY <1>10 DEF reapLoopClosePipe, Goto, TransferObjectType, resultVars, urbVars
<1>11. CASE reapLoopCloseChan(r)
  BY <1>11, <1>e DEF reapLoopCloseChan, Goto, TransferObjectType, resultVars,
                     urbVars
<1>12. QED
  BY <1>1, <1>2, <1>3, <1>4, <1>5, <1>6, <1>7, <1>8, <1>9, <1>10, <1>11
  DEF reapLoop

LEMMA OtherTInv ==
  ASSUME TInv,
         \/ \E u \in Urbs : UrbCompletes(u)
         \/ Unplug \/ ResetDevice \/ Close \/ UNCHANGED vars
  PROVE  TInv'
<1> USE DEF TInv, TypeOK, ReaperControl, SubmitControl, HandleType,
        TransferObjectType, ReaperType, KernelType, handleVars, wakeVars,
        resultVars, urbVars, reaperVars, closeVars, kernelVars
<1>1. CASE \E u \in Urbs : UrbCompletes(u)
  BY <1>1 DEF UrbCompletes
<1>2. CASE Unplug
  BY <1>2 DEF Unplug
<1>3. CASE ResetDevice
  BY <1>3 DEF ResetDevice, Active
<1>4. CASE CloseMark
  BY <1>4 DEF CloseMark, MuLock, Readers
<1>5. CASE CloseDiscard
  BY <1>5 DEF CloseDiscard, Discard
<1>6. CASE CloseWake
  BY <1>6 DEF CloseWake, WriteWakeByte
<1>7. CASE CloseJoin
  BY <1>7 DEF CloseJoin
<1>8. CASE CloseRelease
  BY <1>8 DEF CloseRelease
<1>9. CASE UNCHANGED vars
  BY <1>9 DEF vars
<1>10. QED
  BY <1>1, <1>2, <1>3, <1>4, <1>5, <1>6, <1>7, <1>8, <1>9 DEF Close

LEMMA NextTInv == TInv /\ [Next]_vars => TInv'
  BY SubmitTInv, ReapLoopTInv, OtherTInv DEF Next

LEMMA TInvHolds == Spec => []TInv
  BY InitTInv, NextTInv, PTL DEF Spec

\* Type correctness of the Linux asynchronous transfer machinery, for any
\* number of transfers, submissions, reapers and resets and any faults.
THEOREM TypeCorrect == Spec => []TypeOK
  BY TInvHolds, PTL DEF TInv

\* However Submit, Close and the reapers interleave, registerURBCompletion never
\* stores a callback into the reapMap that reapLoop has set to nil.
THEOREM NilMapNeverStored == Spec => []NoStoreIntoNilMap
<1>1. TInv => NoStoreIntoNilMap
  BY DEF TInv, SubmitControl, NoStoreIntoNilMap, Readers
<1>2. QED
  BY <1>1, TInvHolds, PTL
-----------------------------------------------------------------------------
(* h.reaping, and with it the choice whether to start a reaper, is right.  *)

\* A step that moves reapers only between serving states, and leaves the map
\* and the flag alone, preserves OneReaper.
LEMMA SameServers ==
  ASSUME OneReaper, reaping' = reaping, reapMap' \subseteq reapMap,
         \A r \in Reapers : rpc'[r] \in Active <=> rpc[r] \in Active
  PROVE  OneReaper'
  BY DEF OneReaper

LEMMA NextOneReaper == TInv /\ OneReaper /\ [Next]_vars => OneReaper'
<1> SUFFICES ASSUME TInv, OneReaper, [Next]_vars PROVE OneReaper'
  OBVIOUS
<1> USE DEF TInv, TypeOK, ReaperType, handleVars, reaperVars
<1>1. ASSUME NEW x \in Xfers, registerURBCompletion(x) PROVE OneReaper'
  <2>1. CASE reaping
    BY <1>1, <2>1 DEF registerURBCompletion, StoreCallback, OneReaper
  <2>2. CASE StartReaper
    <3>1. epoch + 1 \in Reapers
      BY <2>2 DEF StartReaper, HandleType, Reapers
    <3>2. \A r \in Reapers : rpc'[r] = IF r = epoch + 1 THEN "start" ELSE rpc[r]
      BY <2>2, <3>1 DEF StartReaper
    <3>3. CASE ~reaping
      BY <2>2, <3>1, <3>2, <3>3 DEF StartReaper, OneReaper, Active
    <3>4. QED
      BY <2>1, <3>3 DEF HandleType
  <2>3. CASE UNCHANGED <<reaping, rpc, reapMap>>
    BY <2>3, SameServers
  <2>4. QED
    BY <1>1, <2>1, <2>2, <2>3 DEF registerURBCompletion
<1>2. ASSUME NEW x \in Xfers,
             SubmitEnter(x) \/ SubmitURB(x) \/ SubmitMark(x) \/ SubmitUndo(x)
             \/ CancelCheck(x) \/ CancelDiscard(x)
      PROVE  OneReaper'
  BY <1>2, SameServers DEF SubmitEnter, SubmitURB, SubmitMark, SubmitUndo,
                           CancelCheck, CancelDiscard
<1>3. ASSUME NEW r \in Reapers, reapLoopFinal(r) \/ failReaping(r)
      PROVE  OneReaper'
  <2>1. rpc[r] \in Active /\ \A s \in Reapers : rpc'[s] =
           IF s = r THEN "exitPipe" ELSE rpc[s]
    BY <1>3 DEF reapLoopFinal, failReaping, Goto, Active
  <2>2. reaping' = FALSE /\ reapMap' = {}
    BY <1>3 DEF reapLoopFinal, failReaping, NotifyAll
  <2>3. QED
    BY <2>1, <2>2 DEF OneReaper, Active
<1>4. ASSUME NEW r \in Reapers,
             \/ reapLoopSetup(r) \/ reapLoopCheck(r) \/ reapLoopWake(r)
             \/ reapLoopWaitError(r) \/ drainReap(r) \/ drainLookup(r)
             \/ drainCall(r)
      PROVE  OneReaper'
  <2>1. PICK l \in Active : rpc' = [rpc EXCEPT ![r] = l]
    BY <1>4 DEF reapLoopSetup, reapLoopCheck, reapLoopWake, reapLoopWaitError,
                drainReap, drainLookup, drainCall, Goto, DrainEnd, Active
  <2>2. rpc[r] \in Active
    BY <1>4 DEF reapLoopSetup, reapLoopCheck, reapLoopWake, reapLoopWaitError,
                drainReap, drainLookup, drainCall, Active
  <2>3. reaping' = reaping /\ reapMap' \subseteq reapMap
    BY <1>4 DEF reapLoopSetup, reapLoopCheck, reapLoopWake, reapLoopWaitError,
                drainReap, drainLookup, drainCall, TakeCallback
  <2>4. QED
    BY <2>1, <2>2, <2>3, SameServers
<1>5. ASSUME NEW r \in Reapers, reapLoopClosePipe(r) \/ reapLoopCloseChan(r)
      PROVE  OneReaper'
  BY <1>5, SameServers DEF reapLoopClosePipe, reapLoopCloseChan, Goto, Active
<1>6. CASE ResetDevice
  BY <1>6, SameServers DEF ResetDevice, Active
<1>7. CASE \/ \E u \in Urbs : UrbCompletes(u)
           \/ Unplug \/ Close \/ UNCHANGED vars
  BY <1>7, SameServers DEF UrbCompletes, Unplug, Close, CloseMark, CloseDiscard,
                           CloseWake, CloseJoin, CloseRelease, vars
<1>8. QED
  BY <1>1, <1>2, <1>3, <1>4, <1>5, <1>6, <1>7 DEF Next, SubmitStep, reapLoop

\* h.reaping is set exactly while one reapLoop serves the map: no callback is
\* registered without a reaper to call it, and there are never two.
THEOREM ReaperUnique == Spec => []OneReaper
<1>1. Init => OneReaper
  BY DEF Init, OneReaper, Active
<1>2. QED
  BY <1>1, NextOneReaper, TInvHolds, PTL DEF Spec
-----------------------------------------------------------------------------
(* A submitted transfer is owed exactly one callback.                      *)

\* Some reaper has the callback of x in hand.
InHand(x) == \E r \in Reapers : Calling(r, x)

\* The inductive form of OneCallbackOwed: it also follows Submit between the
\* ioctl and the registration.
Ledger(x) ==
    /\ x \in reapMap => ~InHand(x)
    /\ spc[x] \in {"idle", "ioctl"} => (submitted[x] <=> x \in reapMap \/ InHand(x))
    /\ spc[x] \notin {"idle", "ioctl"} => x \notin reapMap /\ ~InHand(x)
    /\ spc[x] = "ioctl" => ~submitted[x]
    /\ spc[x] = "register" => submitted[x]

LedgerInv == \A x \in Xfers \ Bulk : Ledger(x)

\* A step that touches nothing the ledger of x speaks of preserves it.
LEMMA SameLedger ==
  ASSUME NEW x \in Xfers, Ledger(x), x \in reapMap' <=> x \in reapMap,
         InHand(x)' <=> InHand(x), spc'[x] = spc[x], submitted'[x] = submitted[x]
  PROVE  Ledger(x)'
  BY DEF Ledger

\* The URB in hand changes only with the reaper's own step.
LEMMA SameHand ==
  ASSUME NEW x \in Xfers,
         \A r \in Reapers : (rpc[r] = "call" \/ rpc'[r] = "call") =>
            rpc'[r] = rpc[r] /\ rhold'[r] = rhold[r]
  PROVE  InHand(x)' <=> InHand(x)
  BY DEF InHand, Calling

LEMMA SubmitLedger ==
  ASSUME TInv, LedgerInv, NEW y \in Xfers,
         SubmitEnter(y) \/ SubmitStep(y) \/ CancelCheck(y) \/ CancelDiscard(y),
         NEW x \in Xfers \ Bulk
  PROVE  Ledger(x)'
<1> USE DEF TInv, TypeOK, TransferObjectType, handleVars, resultVars, reaperVars
<1>1. Ledger(x)
  BY DEF LedgerInv
<1>2. CASE SubmitEnter(y)
  <2>1. InHand(x)' <=> InHand(x)
    BY <1>2, SameHand DEF SubmitEnter
  <2>2. QED
    BY <1>1, <1>2, <2>1 DEF SubmitEnter, Busy, Ledger
<1>3. CASE SubmitURB(y)
  <2>1. InHand(x)' <=> InHand(x)
    BY <1>3, SameHand DEF SubmitURB
  <2>2. QED
    BY <1>1, <1>3, <2>1 DEF SubmitURB, Ledger
<1>4. CASE SubmitMark(y)
  <2>1. InHand(x)' <=> InHand(x)
    BY <1>4, SameHand DEF SubmitMark
  <2>2. QED
    BY <1>1, <1>4, <2>1 DEF SubmitMark, Ledger
<1>5. CASE registerURBCompletion(y)
  <2>1. \A r \in Reapers : (rpc[r] = "call" \/ rpc'[r] = "call") =>
            rpc'[r] = rpc[r] /\ rhold'[r] = rhold[r]
    <3>1. CASE UNCHANGED rpc
      BY <1>5, <3>1 DEF registerURBCompletion
    <3>2. CASE StartReaper
      <4>1. epoch + 1 \in Reapers /\ rpc[epoch + 1] = "unborn"
        BY <3>2 DEF StartReaper, HandleType, Reapers, ReaperControl
      <4>2. \A r \in Reapers : rpc'[r] = IF r = epoch + 1 THEN "start" ELSE rpc[r]
        BY <3>2, <4>1 DEF StartReaper, ReaperType
      <4>3. QED
        BY <1>5, <4>1, <4>2 DEF registerURBCompletion
    <3>3. QED
      BY <1>5, <3>1, <3>2 DEF registerURBCompletion
  <2>2. InHand(x)' <=> InHand(x)
    BY <2>1, SameHand
  <2>3. QED
    BY <1>1, <1>5, <2>2 DEF registerURBCompletion, StoreCallback, Ledger
<1>6. CASE SubmitUndo(y)
  <2>1. InHand(x)' <=> InHand(x)
    BY <1>6, SameHand DEF SubmitUndo
  <2>2. QED
    BY <1>1, <1>6, <2>1 DEF SubmitUndo, Ledger
<1>7. CASE CancelCheck(y) \/ CancelDiscard(y)
  <2>1. InHand(x)' <=> InHand(x)
    BY <1>7, SameHand DEF CancelCheck, CancelDiscard
  <2>2. QED
    BY <1>1, <1>7, <2>1, SameLedger DEF CancelCheck, CancelDiscard
<1>8. QED
  BY <1>2, <1>3, <1>4, <1>5, <1>6, <1>7 DEF SubmitStep

LEMMA ReapLoopLedger ==
  ASSUME TInv, OneReaper, LedgerInv, NEW r \in Reapers, reapLoop(r),
         NEW x \in Xfers \ Bulk
  PROVE  Ledger(x)'
<1> USE DEF TInv, TypeOK, TransferObjectType, ReaperType, handleVars, resultVars,
            reaperVars
<1>1. Ledger(x)
  BY DEF LedgerInv
<1>2. CASE \/ reapLoopSetup(r) \/ reapLoopCheck(r) \/ reapLoopWake(r)
           \/ reapLoopWaitError(r) \/ drainReap(r) \/ reapLoopClosePipe(r)
           \/ reapLoopCloseChan(r)
  <2>1. \A s \in Reapers : (rpc[s] = "call" \/ rpc'[s] = "call") =>
            rpc'[s] = rpc[s] /\ rhold'[s] = rhold[s]
    BY <1>2 DEF reapLoopSetup, reapLoopCheck, reapLoopWake, reapLoopWaitError,
        drainReap, reapLoopClosePipe, reapLoopCloseChan, Goto, DrainEnd
  <2>2. UNCHANGED <<reapMap, spc, submitted>>
    BY <1>2 DEF reapLoopSetup, reapLoopCheck, reapLoopWake, reapLoopWaitError,
        drainReap, reapLoopClosePipe, reapLoopCloseChan
  <2>3. QED
    BY <1>1, <2>1, <2>2, SameHand, SameLedger
<1>3. CASE reapLoopFinal(r) \/ failReaping(r)
  <2>1. \A s \in Reapers : (rpc[s] = "call" \/ rpc'[s] = "call") =>
            rpc'[s] = rpc[s] /\ rhold'[s] = rhold[s]
    BY <1>3 DEF reapLoopFinal, failReaping, Goto
  <2>2. InHand(x)' <=> InHand(x)
    BY <2>1, SameHand
  <2>3. reapMap' = {} /\ spc' = spc
        /\ submitted'[x] = (submitted[x] /\ x \notin reapMap)
    <3>1. NotifyAll /\ spc' = spc
      BY <1>3 DEF reapLoopFinal, failReaping
    <3>2. QED
      BY <3>1 DEF NotifyAll, Callback
  <2>4. QED
    BY <1>1, <2>2, <2>3 DEF Ledger, SubmitControl
<1>4. CASE drainLookup(r)
  <2>1. rhold[r] \in Urbs /\ rhold[r][1] \in Xfers
    BY <1>4, UrbPairs DEF drainLookup, ReaperControl
  <2>2. CASE rhold[r][1] \in reapMap
    <3>1. /\ reapMap' = reapMap \ {rhold[r][1]}
          /\ rpc' = [rpc EXCEPT ![r] = "call"] /\ rhold' = rhold
          /\ UNCHANGED <<spc, submitted>>
      BY <1>4, <2>2 DEF drainLookup, TakeCallback, Goto
    <3>2. CASE x = rhold[r][1]
      <4>1. Calling(r, x)' /\ x \in reapMap /\ x \notin reapMap'
        BY <2>2, <3>1, <3>2 DEF Calling
      <4>2. InHand(x)'
        BY <4>1 DEF InHand
      <4>3. QED
        BY <1>1, <3>1, <4>1, <4>2 DEF Ledger
    <3>3. CASE x # rhold[r][1]
      <4>1. rpc[r] # "call"
        BY <1>4 DEF drainLookup
      <4>2. InHand(x)' <=> InHand(x)
        BY <3>1, <3>3, <4>1 DEF InHand, Calling
      <4>3. QED
        BY <1>1, <3>1, <3>3, <4>2, SameLedger
    <3>4. QED
      BY <3>2, <3>3
  <2>3. CASE rhold[r][1] \notin reapMap
    <3>1. \A s \in Reapers : (rpc[s] = "call" \/ rpc'[s] = "call") =>
              rpc'[s] = rpc[s] /\ rhold'[s] = rhold[s]
      BY <1>4, <2>3 DEF drainLookup, Goto
    <3>2. QED
      BY <1>1, <1>4, <2>3, <3>1, SameHand, SameLedger DEF drainLookup
  <2>4. QED
    BY <2>2, <2>3
<1>5. CASE drainCall(r)
  <2>1. /\ rpc[r] = "call" /\ rpc' = [rpc EXCEPT ![r] = "reap"]
        /\ rhold' = [rhold EXCEPT ![r] = NoUrb]
        /\ UNCHANGED <<reapMap, spc>>
        /\ submitted'[x] = (submitted[x] /\ x # rhold[r][1])
    BY <1>5 DEF drainCall, Goto, Callback
  <2>2. \A s \in Reapers : rpc[s] = "call" => s = r
    BY <2>1 DEF OneReaper, Active
  <2>3. ~InHand(x)'
    BY <2>1, <2>2 DEF InHand, Calling
  <2>4. InHand(x) <=> x = rhold[r][1]
    BY <2>1, <2>2 DEF InHand, Calling
  <2>5. QED
    BY <1>1, <2>1, <2>3, <2>4 DEF Ledger
<1>6. QED
  BY <1>2, <1>3, <1>4, <1>5 DEF reapLoop

LEMMA NextLedger == TInv /\ OneReaper /\ LedgerInv /\ [Next]_vars => LedgerInv'
<1> SUFFICES ASSUME TInv, OneReaper, LedgerInv, [Next]_vars,
                    NEW x \in Xfers \ Bulk
             PROVE  Ledger(x)'
  BY DEF LedgerInv
<1>1. Ledger(x)
  BY DEF LedgerInv
<1>2. CASE ResetDevice
  <2>1. \A s \in Reapers : (rpc[s] = "call" \/ rpc'[s] = "call") =>
            rpc'[s] = rpc[s] /\ rhold'[s] = rhold[s]
    BY <1>2 DEF ResetDevice
  <2>2. QED
    BY <1>1, <1>2, <2>1, SameHand, SameLedger DEF ResetDevice, resultVars
<1>3. CASE \/ \E u \in Urbs : UrbCompletes(u)
           \/ Unplug \/ Close \/ UNCHANGED vars
  <2>1. UNCHANGED <<reapMap, spc, submitted, rpc, rhold>>
    BY <1>3 DEF UrbCompletes, Unplug, Close, CloseMark, CloseDiscard, CloseWake,
        CloseJoin, CloseRelease, vars, handleVars, resultVars, reaperVars
  <2>2. QED
    BY <1>1, <2>1, SameHand, SameLedger
<1>4. QED
  BY <1>2, <1>3, SubmitLedger, ReapLoopLedger DEF Next

\* A transfer outside Submit is marked submitted exactly while one callback for it
\* is in the map or in a reaper's hands, however completions, failReaping, Close,
\* failing submissions, unplug and reset interleave. Which completion the callback
\* is run for is not part of it (SuccessFresh).
THEOREM CallbackExactlyOnce == Spec => []OneCallbackOwed
<1>1. Init => LedgerInv
  BY DEF Init, LedgerInv, Ledger, InHand, Calling
<1>2. OneReaper /\ LedgerInv => OneCallbackOwed
  <2> SUFFICES ASSUME OneReaper, LedgerInv, NEW x \in Xfers \ Bulk
               PROVE  LET callers == {r \in Reapers : Calling(r, x)} IN
                      /\ \A r, s \in callers : r = s
                      /\ x \in reapMap => callers = {}
                      /\ IF spc[x] \in {"idle", "ioctl"}
                           THEN submitted[x] <=> (x \in reapMap \/ callers # {})
                           ELSE x \notin reapMap /\ callers = {}
    BY DEF OneCallbackOwed
  <2>1. \A r, s \in Reapers : Calling(r, x) /\ Calling(s, x) => r = s
    BY DEF OneReaper, Calling, Active
  <2>2. InHand(x) <=> {r \in Reapers : Calling(r, x)} # {}
    BY DEF InHand
  <2>3. Ledger(x)
    BY DEF LedgerInv
  <2>4. QED
    BY <2>1, <2>2, <2>3 DEF Ledger
<1>3. QED
  BY <1>1, <1>2, NextLedger, TInvHolds, ReaperUnique, PTL DEF Spec
-----------------------------------------------------------------------------
(* Close waits for the reaper                                              *)

\* What Close took from the handle is still there, and the channel of a handle's
\* only reaper is closed by that reaper.
JoinInv ==
    /\ closed <=> closePc # "idle"
    /\ closed => closeDone = epoch
    /\ closePc \in {"release", "done"} => closeDone = 0 \/ closeDone \in chanClosed
    /\ \A r \in chanClosed : r <= epoch
    /\ epoch <= 1 => \A r \in chanClosed : rpc[r] = "stopped"

\* A new reaper takes the place after the last one, which no goroutine had.
LEMMA StartedReaper ==
  ASSUME TInv, StartReaper
  PROVE  /\ epoch' = epoch + 1 /\ epoch + 1 \in Reapers /\ rpc[epoch + 1] = "unborn"
         /\ \A r \in Reapers : rpc'[r] = IF r = epoch + 1 THEN "start" ELSE rpc[r]
<1>1. epoch + 1 \in Reapers /\ epoch \in Nat
  BY DEF StartReaper, TInv, TypeOK, HandleType, Reapers
<1>2. QED
  BY <1>1 DEF StartReaper, TInv, TypeOK, ReaperControl, ReaperType

LEMMA NextJoinInv == TInv /\ JoinInv /\ [Next]_vars => JoinInv'
<1> SUFFICES ASSUME TInv, JoinInv, [Next]_vars PROVE JoinInv'
  OBVIOUS
<1> USE DEF JoinInv, handleVars, wakeVars, reaperVars, closeVars
<1>e. epoch \in Nat /\ chanClosed \subseteq Reapers /\ DOMAIN rpc = Reapers
  BY DEF TInv, TypeOK, HandleType, ReaperType
<1>1. ASSUME NEW x \in Xfers, registerURBCompletion(x) PROVE JoinInv'
  <2>1. ~closed /\ UNCHANGED <<closed, chanClosed, closePc, closeDone>>
    BY <1>1 DEF registerURBCompletion, TInv, SubmitControl
  <2>2. CASE StartReaper
    BY <1>e, <2>1, <2>2, StartedReaper DEF Reapers
  <2>3. CASE UNCHANGED <<epoch, rpc>>
    BY <2>1, <2>3
  <2>4. QED
    BY <1>1, <2>2, <2>3 DEF registerURBCompletion
<1>2. ASSUME NEW r \in Reapers, reapLoopCloseChan(r) PROVE JoinInv'
  <2>1. rpc[r] # "unborn" /\ r <= epoch
    BY <1>e, <1>2 DEF reapLoopCloseChan, TInv, ReaperControl, Reapers
  <2>2. chanClosed' = chanClosed \cup {epoch} /\ rpc' = [rpc EXCEPT ![r] = "stopped"]
        /\ UNCHANGED <<closed, epoch, closePc, closeDone>>
    BY <1>2 DEF reapLoopCloseChan, Goto
  <2>3. epoch <= 1 => r = epoch
    BY <1>e, <2>1 DEF Reapers
  <2>4. QED
    BY <1>e, <2>2, <2>3
<1>3. ASSUME NEW r \in Reapers,
             \/ reapLoopSetup(r) \/ reapLoopCheck(r) \/ reapLoopFinal(r)
             \/ reapLoopWake(r) \/ reapLoopWaitError(r) \/ drainReap(r)
             \/ drainLookup(r) \/ drainCall(r) \/ failReaping(r)
             \/ reapLoopClosePipe(r)
      PROVE  JoinInv'
  <2>1. rpc[r] # "stopped" /\ \E l : rpc' = [rpc EXCEPT ![r] = l]
    BY <1>3 DEF reapLoopSetup, reapLoopCheck, reapLoopFinal, reapLoopWake,
        reapLoopWaitError, drainReap, drainLookup, drainCall, failReaping,
        reapLoopClosePipe, Goto
  <2>2. UNCHANGED <<closed, epoch, chanClosed, closePc, closeDone>>
    BY <1>3 DEF reapLoopSetup, reapLoopCheck, reapLoopFinal, reapLoopWake,
        reapLoopWaitError, drainReap, drainLookup, drainCall, failReaping,
        reapLoopClosePipe
  <2>3. QED
    BY <1>e, <2>1, <2>2
<1>4. CASE ResetDevice
  BY <1>e, <1>4 DEF ResetDevice
<1>5. CASE Close
  BY <1>5 DEF Close, CloseMark, CloseDiscard, CloseWake, CloseJoin, DoneReceived,
              CloseRelease
<1>6. ASSUME NEW x \in Xfers,
             SubmitEnter(x) \/ SubmitURB(x) \/ SubmitMark(x) \/ SubmitUndo(x)
             \/ CancelCheck(x) \/ CancelDiscard(x)
      PROVE  JoinInv'
  BY <1>6 DEF SubmitEnter, SubmitURB, SubmitMark, SubmitUndo, CancelCheck, CancelDiscard
<1>7. CASE (\E u \in Urbs : UrbCompletes(u)) \/ Unplug \/ UNCHANGED vars
  BY <1>7 DEF UrbCompletes, Unplug, vars
<1>8. QED
  BY <1>1, <1>2, <1>3, <1>4, <1>5, <1>6, <1>7 DEF Next, SubmitStep, reapLoop

\* Close closes the file of a handle after the only reaper it ever had has stopped.
\* (With a second one the channel Close waits for may be another reaper's.)
THEOREM CloseJoinsReaper == Spec => [](epoch <= 1 => CloseWaitsForReaper)
<1>1. Init => JoinInv
  BY DEF Init, JoinInv
<1>2. TInv /\ JoinInv => (epoch <= 1 => CloseWaitsForReaper)
  <2> SUFFICES ASSUME TInv, JoinInv, epoch <= 1, closePc \in {"release", "done"},
                      NEW r \in Reapers
               PROVE  rpc[r] \in {"unborn", "stopped"}
    BY DEF CloseWaitsForReaper
  <2>1. epoch = 0 \/ epoch \in chanClosed
    BY DEF JoinInv
  <2>2. epoch \in Nat /\ r \in Nat /\ r >= 1
    BY DEF TInv, TypeOK, HandleType, Reapers
  <2>3. r > epoch \/ (r = epoch /\ epoch \in chanClosed)
    BY <2>1, <2>2
  <2>4. QED
    BY <2>3 DEF JoinInv, TInv, ReaperControl
<1>3. QED
  BY <1>1, <1>2, NextJoinInv, TInvHolds, PTL DEF Spec
-----------------------------------------------------------------------------
(* What the kernel has when reaping fails                                  *)

AllFree == \A u \in Urbs : kurb[u] = "free"

\* The device is unplugged, or its file closed, and its last URB reaped.
Gone == AllFree /\ (~connected \/ ~fdOpen)

\* A reaper fails, and a second one is started, only when the device is gone: the
\* first one keeps its pipe while it serves.
DrainedInv ==
    /\ ~fdOpen => closed /\ AllFree
    /\ ~connected => \A u \in Urbs : kurb[u] # "pending"
    /\ \A r \in Reapers :
          /\ rpc[r] = "fail" => Gone
          /\ rpc[r] \in {"exitPipe", "exitChan", "stopped"} => closed \/ Gone
          /\ rpc[r] \in Active /\ epoch = 1 => epoch \in pipeOpen
    /\ epoch > 1 => Gone

\* The life of an URB: a submission puts it into flight, the controller completes it,
\* and anything else can only set it free.
LEMMA UrbLife ==
  ASSUME TInv, [Next]_vars, NEW u \in Urbs
  PROVE  \/ kurb'[u] \in {"free", kurb[u]}
         \/ kurb[u] = "pending" /\ kurb'[u] \in {"ok", "err"}
         \/ \E x \in Xfers : SubmitURB(x) /\ connected /\ u = <<x, nsub[x] + 1>>
<1> USE DEF TInv, TypeOK, KernelType
<1>1. CASE UNCHANGED kurb
  BY <1>1
<1>2. CASE kurb' = [v \in Urbs |-> "free"]
  BY <1>2
<1>3. ASSUME NEW X, Discard(X)
      PROVE  kurb'[u] = kurb[u] \/ (kurb[u] = "pending" /\ kurb'[u] = "err")
  BY <1>3 DEF Discard, Oldest
<1>4. ASSUME NEW x \in Xfers, SubmitURB(x)
      PROVE  kurb'[u] = kurb[u] \/ (connected /\ u = <<x, nsub[x] + 1>>)
  BY <1>4 DEF SubmitURB
<1>5. ASSUME NEW r \in Reapers, drainReap(r) PROVE kurb'[u] \in {"free", kurb[u]}
  BY <1>5 DEF drainReap
<1>6. ASSUME NEW v \in Urbs, UrbCompletes(v)
      PROVE  kurb'[u] = kurb[u] \/ (kurb[u] = "pending" /\ kurb'[u] \in {"ok", "err"})
  BY <1>6 DEF UrbCompletes
<1>7. CASE Unplug
  BY <1>7 DEF Unplug
<1>8. ASSUME NEW x \in Xfers,
             SubmitEnter(x) \/ SubmitStep(x) \/ CancelCheck(x) \/ CancelDiscard(x)
      PROVE  UNCHANGED kurb \/ SubmitURB(x) \/ \E X : Discard(X)
  BY <1>8 DEF SubmitEnter, SubmitStep, SubmitMark, registerURBCompletion, SubmitUndo,
              CancelCheck, CancelDiscard, kernelVars
<1>9. ASSUME NEW r \in Reapers, reapLoop(r) PROVE UNCHANGED kurb \/ drainReap(r)
  BY <1>9 DEF reapLoop, reapLoopSetup, reapLoopCheck, reapLoopFinal, reapLoopWake,
     reapLoopWaitError, drainLookup, drainCall, failReaping, reapLoopClosePipe,
     reapLoopCloseChan, kernelVars
<1>10. CASE ResetDevice \/ Close
  BY <1>1, <1>2, <1>3, <1>10 DEF ResetDevice, Close, CloseMark, CloseDiscard, CloseWake,
                                 CloseJoin, CloseRelease, kernelVars
<1>11. QED
  BY <1>1, <1>3, <1>4, <1>5, <1>6, <1>7, <1>8, <1>9, <1>10 DEF Next, vars, kernelVars

\* A reaper moves by itself, is started, or is sent to failReaping by a reset.
LEMMA ReaperMoves ==
  ASSUME TInv, [Next]_vars, NEW r \in Reapers, rpc'[r] # rpc[r]
  PROVE  reapLoop(r) \/ (StartReaper /\ r = epoch + 1) \/ ResetDevice
<1> USE DEF reaperVars
<1>e. DOMAIN rpc = Reapers
  BY DEF TInv, TypeOK, ReaperType
<1>1. ASSUME NEW x \in Xfers, registerURBCompletion(x) PROVE StartReaper /\ r = epoch + 1
  <2>1. StartReaper
    BY <1>1 DEF registerURBCompletion
  <2>2. QED
    BY <2>1, StartedReaper
<1>2. ASSUME NEW x \in Xfers,
             SubmitEnter(x) \/ SubmitURB(x) \/ SubmitMark(x) \/ SubmitUndo(x)
             \/ CancelCheck(x) \/ CancelDiscard(x)
      PROVE  FALSE
  BY <1>2 DEF SubmitEnter, SubmitURB, SubmitMark, SubmitUndo, CancelCheck, CancelDiscard
<1>3. ASSUME NEW s \in Reapers, reapLoop(s) PROVE s = r
  <2>1. \E l : rpc' = [rpc EXCEPT ![s] = l]
    BY <1>3 DEF reapLoop, reapLoopSetup, reapLoopCheck, reapLoopFinal, reapLoopWake,
       reapLoopWaitError, drainReap, drainLookup, drainCall, failReaping,
       reapLoopClosePipe, reapLoopCloseChan, Goto
  <2>2. QED
    BY <1>e, <2>1
<1>4. QED
  BY <1>1, <1>2, <1>3 DEF Next, SubmitStep, UrbCompletes, Unplug, Close, CloseMark,
     CloseDiscard, CloseWake, CloseJoin, CloseRelease, vars

\* Neither the device nor the file comes back.
LEMMA NoWayBack ==
  ASSUME TInv, [Next]_vars
  PROVE  /\ connected' => connected
         /\ fdOpen' => fdOpen
         /\ closed => closed'
         /\ fdOpen /\ ~fdOpen' => CloseRelease
         /\ connected /\ ~connected' => Unplug
<1> USE DEF handleVars, kernelVars
<1>1. ASSUME NEW x \in Xfers,
             SubmitEnter(x) \/ SubmitStep(x) \/ CancelCheck(x) \/ CancelDiscard(x)
      PROVE  UNCHANGED <<connected, fdOpen, closed>>
  BY <1>1 DEF SubmitEnter, SubmitStep, SubmitURB, SubmitMark, registerURBCompletion,
              SubmitUndo, CancelCheck, CancelDiscard
<1>2. ASSUME NEW r \in Reapers, reapLoop(r) PROVE UNCHANGED <<connected, fdOpen, closed>>
  BY <1>2 DEF reapLoop, reapLoopSetup, reapLoopCheck, reapLoopFinal, reapLoopWake,
     reapLoopWaitError, drainReap, drainLookup, drainCall, failReaping,
     reapLoopClosePipe, reapLoopCloseChan
<1>3. QED
  BY <1>1, <1>2 DEF Next, UrbCompletes, Unplug, ResetDevice, Close, CloseMark,
     CloseDiscard, CloseWake, CloseJoin, CloseRelease, vars

\* A device that is gone stays gone.
LEMMA GoneStays == TInv /\ DrainedInv /\ Gone /\ [Next]_vars => Gone'
<1> SUFFICES ASSUME TInv, DrainedInv, Gone, [Next]_vars PROVE Gone'
  OBVIOUS
<1>1. ASSUME NEW x \in Xfers, SubmitURB(x), connected PROVE FALSE
  BY <1>1 DEF SubmitURB, Gone, DrainedInv, TInv, SubmitControl
<1>2. AllFree'
  BY <1>1, UrbLife DEF Gone, AllFree
<1>3. QED
  BY <1>2, NoWayBack DEF Gone

\* Only registerURBCompletion starts reapers, on an open handle that has none.
LEMMA OnlyStartsCount ==
  ASSUME TInv, [Next]_vars
  PROVE  /\ UNCHANGED epoch \/ (StartReaper /\ ~reaping /\ ~closed)
         /\ StartReaper => ~reaping /\ ~closed
<1> USE DEF handleVars
<1>e. epoch \in Nat
  BY DEF TInv, TypeOK, HandleType
<1>1. ASSUME NEW x \in Xfers, registerURBCompletion(x)
      PROVE  UNCHANGED epoch \/ (StartReaper /\ ~reaping /\ ~closed)
  BY <1>1 DEF registerURBCompletion, TInv, SubmitControl
<1>2. ASSUME NEW x \in Xfers,
             SubmitEnter(x) \/ SubmitURB(x) \/ SubmitMark(x) \/ SubmitUndo(x)
             \/ CancelCheck(x) \/ CancelDiscard(x)
      PROVE  UNCHANGED epoch
  BY <1>2 DEF SubmitEnter, SubmitURB, SubmitMark, SubmitUndo, CancelCheck, CancelDiscard
<1>3. ASSUME NEW r \in Reapers, reapLoop(r) PROVE UNCHANGED epoch
  BY <1>3 DEF reapLoop, reapLoopSetup, reapLoopCheck, reapLoopFinal, reapLoopWake,
     reapLoopWaitError, drainReap, drainLookup, drainCall, failReaping,
     reapLoopClosePipe, reapLoopCloseChan
<1>4. UNCHANGED epoch \/ (StartReaper /\ ~reaping /\ ~closed)
  BY <1>1, <1>2, <1>3 DEF Next, SubmitStep, UrbCompletes, Unplug, ResetDevice, Close,
     CloseMark, CloseDiscard, CloseWake, CloseJoin, CloseRelease, vars
<1>5. StartReaper => epoch' # epoch
  BY <1>e DEF StartReaper
<1>6. QED
  BY <1>4, <1>5

\* A reaper that serves after a step of its own did so before.
LEMMA LoopLeaves ==
  ASSUME TInv, NEW r \in Reapers, reapLoop(r)
  PROVE  rpc[r] \in Active \/ rpc'[r] \notin Active
  BY DEF TInv, TypeOK, ReaperType, Active, reapLoop, reapLoopSetup, reapLoopCheck,
     reapLoopFinal, reapLoopWake, reapLoopWaitError, drainReap, DrainEnd, drainLookup,
     drainCall, failReaping, reapLoopClosePipe, reapLoopCloseChan, Goto

\* Only the deferred function of a reaper closes a pipe.
LEMMA PipeStays ==
  ASSUME [Next]_vars, ~StartReaper, \A s \in Reapers : ~reapLoopClosePipe(s)
  PROVE  UNCHANGED pipeOpen
<1> USE DEF wakeVars
<1>1. ASSUME NEW x \in Xfers,
             SubmitEnter(x) \/ SubmitStep(x) \/ CancelCheck(x) \/ CancelDiscard(x)
      PROVE  UNCHANGED pipeOpen
  BY <1>1 DEF SubmitEnter, SubmitStep, SubmitURB, SubmitMark, registerURBCompletion,
              SubmitUndo, CancelCheck, CancelDiscard
<1>2. ASSUME NEW r \in Reapers, reapLoop(r) PROVE UNCHANGED pipeOpen
  BY <1>2 DEF reapLoop, reapLoopSetup, reapLoopCheck, reapLoopFinal, reapLoopWake,
     reapLoopWaitError, drainReap, drainLookup, drainCall, failReaping,
     reapLoopCloseChan
<1>3. QED
  BY <1>1, <1>2 DEF Next, UrbCompletes, Unplug, ResetDevice, Close, CloseMark,
     CloseDiscard, CloseWake, CloseJoin, CloseRelease, vars

LEMMA NextDrained ==
  ASSUME "epoll" \notin Faults, TInv, OneReaper, JoinInv, DrainedInv, [Next]_vars,
         resets' = resets
  PROVE  DrainedInv'
<1>e. epoch \in Nat /\ epoch \in 0..MaxReapers /\ DOMAIN rpc = Reapers
  BY DEF TInv, TypeOK, HandleType, ReaperType
<1>z. ~ResetDevice
  BY DEF ResetDevice, TInv, TypeOK, HandleType
<1>1. ~fdOpen' => closed' /\ AllFree'
  <2>1. CASE CloseRelease
    BY <2>1 DEF CloseRelease, AllFree, JoinInv, handleVars
  <2>2. CASE ~fdOpen
    <3>1. closed' /\ \A x \in Xfers : ~SubmitURB(x)
      BY <2>2, NoWayBack DEF DrainedInv, SubmitURB, TInv, SubmitControl
    <3>2. QED
      BY <2>2, <3>1, UrbLife DEF DrainedInv, AllFree
  <2>3. QED
    BY <2>1, <2>2, NoWayBack
<1>2. ~connected' => \A u \in Urbs : kurb'[u] # "pending"
  <2>1. CASE Unplug
    BY <2>1 DEF Unplug
  <2>2. CASE ~connected
    <3>1. ASSUME NEW u \in Urbs, kurb'[u] = "pending" PROVE kurb[u] = "pending"
      BY <2>2, <3>1, UrbLife
    <3>2. QED
      BY <2>2, <3>1 DEF DrainedInv
  <2>3. QED
    BY <2>1, <2>2, NoWayBack
<1>3. ASSUME NEW r \in Reapers, rpc'[r] = "fail" PROVE Gone'
  <2>1. CASE Gone
    BY <2>1, GoneStays
  <2>2. CASE ~Gone
    <3>1. rpc[r] # "fail" /\ reapLoop(r)
      BY <1>3, <2>2, ReaperMoves, StartedReaper, <1>e, <1>z DEF DrainedInv
    <3>2. CASE reapLoopSetup(r)
      <4>1. ~fdOpen \/ epoch \notin pipeOpen
        BY <1>e, <1>3, <3>2 DEF reapLoopSetup, Goto
      <4>2. epoch = 1 \/ epoch > 1
        BY <1>e, <3>2 DEF reapLoopSetup, TInv, ReaperControl, Reapers
      <4>3. epoch = 1 => epoch \in pipeOpen
        BY <3>2 DEF reapLoopSetup, DrainedInv, Active
      <4>4. QED
        BY <2>2, <4>1, <4>2, <4>3 DEF DrainedInv, Gone
    <3>3. CASE drainReap(r)
      <4>1. Reapable = {} /\ ~(fdOpen /\ connected)
        BY <1>e, <1>3, <2>2, <3>3 DEF drainReap, Goto, DrainEnd, DrainedInv, Gone
      <4>2. AllFree
        BY <4>1 DEF DrainedInv, AllFree, Reapable, TInv, TypeOK, KernelType
      <4>3. QED
        BY <2>2, <4>1, <4>2 DEF Gone
    <3>4. CASE \/ reapLoopCheck(r) \/ reapLoopFinal(r) \/ reapLoopWake(r)
               \/ reapLoopWaitError(r) \/ drainLookup(r) \/ drainCall(r)
               \/ failReaping(r) \/ reapLoopClosePipe(r) \/ reapLoopCloseChan(r)
      BY <1>e, <1>3, <3>4 DEF reapLoopCheck, reapLoopFinal, reapLoopWake,
         reapLoopWaitError, drainLookup, drainCall, failReaping, reapLoopClosePipe,
         reapLoopCloseChan, Goto
    <3>5. QED
      BY <3>1, <3>2, <3>3, <3>4 DEF reapLoop
  <2>3. QED
    BY <2>1, <2>2
<1>4. ASSUME NEW r \in Reapers, rpc'[r] \in {"exitPipe", "exitChan", "stopped"}
      PROVE  closed' \/ Gone'
  <2>1. CASE closed \/ Gone
    BY <2>1, GoneStays, NoWayBack
  <2>2. CASE ~closed /\ ~Gone
    <3>1. rpc[r] \notin {"exitPipe", "exitChan", "stopped", "fail", "final"} /\ reapLoop(r)
      BY <1>4, <2>2, ReaperMoves, StartedReaper, <1>e, <1>z
         DEF DrainedInv, TInv, ReaperControl
    <3>2. QED
      BY <1>e, <1>4, <3>1 DEF reapLoop, reapLoopSetup, reapLoopCheck, reapLoopFinal,
         reapLoopWake, reapLoopWaitError, drainReap, DrainEnd, drainLookup, drainCall,
         failReaping, reapLoopClosePipe, reapLoopCloseChan, Goto
  <2>3. QED
    BY <2>1, <2>2
<1>5. ASSUME NEW r \in Reapers, rpc'[r] \in Active, epoch' = 1 PROVE epoch' \in pipeOpen'
  <2>1. CASE StartReaper
    BY <2>1 DEF StartReaper
  <2>2. CASE ~StartReaper
    <3>1. UNCHANGED epoch
      BY <2>2, OnlyStartsCount
    <3>2. rpc[r] \in Active
      BY <1>5, <2>2, <1>z, ReaperMoves, LoopLeaves
    <3>3. epoch \in pipeOpen /\ r = epoch
      BY <1>5, <3>1, <3>2 DEF DrainedInv, TInv, ReaperControl, Reapers, Active
    <3>4. ASSUME NEW s \in Reapers, reapLoopClosePipe(s) PROVE FALSE
      BY <1>5, <1>e, <3>1, <3>2, <3>3, <3>4
         DEF reapLoopClosePipe, TInv, ReaperControl, Reapers, Active, Goto
    <3>5. QED
      BY <2>2, <3>1, <3>3, <3>4, PipeStays
  <2>3. QED
    BY <2>1, <2>2
<1>6. epoch' > 1 => Gone'
  <2>1. CASE epoch > 1
    BY <2>1, GoneStays DEF DrainedInv
  <2>2. CASE StartReaper /\ epoch = 1
    <3>1. ~reaping /\ ~closed
      BY <2>2, OnlyStartsCount
    <3>2. epoch \in Reapers /\ rpc[epoch] \notin Active /\ rpc[epoch] # "unborn"
      BY <1>e, <2>2, <3>1 DEF OneReaper, TInv, ReaperControl, Reapers
    <3>3. rpc[epoch] \in {"exitPipe", "exitChan", "stopped"}
      BY <3>2 DEF TInv, TypeOK, ReaperType, Active
    <3>4. QED
      BY <3>1, <3>2, <3>3, GoneStays DEF DrainedInv
  <2>3. QED
    BY <1>e, <2>1, <2>2, OnlyStartsCount, StartedReaper
<1>7. QED
  BY <1>1, <1>2, <1>3, <1>4, <1>5, <1>6 DEF DrainedInv

\* Calls of ResetDevice are counted.
LEMMA ResetsCount ==
  ASSUME TInv, [Next]_vars, resets' = 0
  PROVE  resets = 0 /\ resets' = resets
<1> USE DEF handleVars
<1>1. resets \in Nat
  BY DEF TInv, TypeOK, HandleType
<1>2. ASSUME NEW x \in Xfers,
             SubmitEnter(x) \/ SubmitStep(x) \/ CancelCheck(x) \/ CancelDiscard(x)
      PROVE  UNCHANGED resets
  BY <1>2 DEF SubmitEnter, SubmitStep, SubmitURB, SubmitMark, registerURBCompletion,
              SubmitUndo, CancelCheck, CancelDiscard
<1>3. ASSUME NEW r \in Reapers, reapLoop(r) PROVE UNCHANGED resets
  BY <1>3 DEF reapLoop, reapLoopSetup, reapLoopCheck, reapLoopFinal, reapLoopWake,
     reapLoopWaitError, drainReap, drainLookup, drainCall, failReaping,
     reapLoopClosePipe, reapLoopCloseChan
<1>4. ~ResetDevice
  BY <1>1 DEF ResetDevice
<1>5. QED
  BY <1>2, <1>3, <1>4 DEF Next, UrbCompletes, Unplug, Close,
     CloseMark, CloseDiscard, CloseWake, CloseJoin, CloseRelease, vars

LEMMA DrainedHolds ==
  ASSUME "epoll" \notin Faults
  PROVE  Spec => [](resets = 0 => DrainedInv)
<1>1. Init => DrainedInv
  BY DEF Init, DrainedInv, Active
<1>2. TInv /\ OneReaper /\ JoinInv /\ (resets = 0 => DrainedInv) /\ [Next]_vars
        => (resets = 0 => DrainedInv)'
  BY NextDrained, ResetsCount
<1>3. Init => JoinInv
  BY DEF Init, JoinInv
<1>4. QED
  BY <1>1, <1>2, <1>3, NextJoinInv, TInvHolds, ReaperUnique, PTL DEF Spec

\* Unless epoll itself fails or the device is reset, failReaping runs only when the
\* kernel holds no URB of the handle, and so releases no buffer it still writes to.
THEOREM NothingLeft ==
  ASSUME "epoll" \notin Faults
  PROVE  Spec => [](resets = 0 => NothingLeftToReap)
<1>1. (resets = 0 => DrainedInv) => (resets = 0 => NothingLeftToReap)
  BY DEF DrainedInv, Gone, AllFree, NothingLeftToReap
<1>2. QED
  BY <1>1, DrainedHolds, PTL
-----------------------------------------------------------------------------
(* Which URB of a transfer is in flight                                    *)

\* The reaper r has an URB of x in hand.
Holds(r, x) == rpc[r] \in {"lookup", "call"} /\ rhold[r][1] = x

\* An URB of x is with the kernel or with a reaper.
InFlight(x) == \/ \E n \in Numbers : kurb[<<x, n>>] # "free"
               \/ \E r \in Reapers : Holds(r, x)

\* Only the latest submission of x is in flight, and only while x is submitted.
LatestInFlight(x) ==
    /\ \A n \in Numbers : n # nsub[x] => kurb[<<x, n>>] = "free"
    /\ InFlight(x) /\ ~closed => spc[x] = "mark" \/ submitted[x]
    /\ \A r \in Reapers :
          Holds(r, x) => /\ rhold[r] = <<x, nsub[x]>> /\ kurb[rhold[r]] = "free"
                         /\ urbFrom[x] = nsub[x]
    /\ spc[x] # "undo"
    /\ spc[x] = "ioctl" => ~submitted[x]

\* The result of a transfer is that of its latest submission.
ResultLatest(x) ==
    /\ spc[x] \in {"idle", "ioctl"} /\ reaped[x] /\ ~reapErr[x] => actual[x] = nsub[x]
    /\ spc[x] = "register" => ~reaped[x]

FlightInv == \A x \in Xfers \ Bulk : LatestInFlight(x) /\ ResultLatest(x)

\* A step keeps the first of them that puts no URB of x into flight and none into
\* the hands of a reaper.
LEMMA SameFlight ==
  ASSUME NEW x \in Xfers, LatestInFlight(x), nsub'[x] = nsub[x], urbFrom'[x] = urbFrom[x],
         \A n \in Numbers : kurb[<<x, n>>] = "free" => kurb'[<<x, n>>] = "free",
         \A r \in Reapers : Holds(r, x)' => Holds(r, x) /\ rhold'[r] = rhold[r],
         closed => closed', nsub[x] \in Numbers \/ \A r \in Reapers : ~Holds(r, x),
         spc'[x] = spc[x], closed' \/ submitted'[x] = submitted[x],
         spc[x] = "ioctl" => (submitted'[x] => submitted[x])
  PROVE  LatestInFlight(x)'
  BY DEF LatestInFlight, InFlight

\* The reaper that holds an URB is the only one that serves.
LEMMA OneHolder ==
  ASSUME OneReaper, NEW x, NEW r \in Reapers, NEW s \in Reapers,
         rpc[r] \in Active, Holds(s, x)
  PROVE  s = r
  BY DEF OneReaper, Holds, Active

LEMMA LoopIsNoSubmit ==
  ASSUME TInv, NEW r \in Reapers, reapLoop(r)
  PROVE  UNCHANGED <<nsub, spc>> /\ \A x \in Xfers : ~SubmitURB(x)
<1>1. UNCHANGED <<nsub, spc>>
  BY DEF reapLoop, reapLoopSetup, reapLoopCheck, reapLoopFinal, reapLoopWake,
     reapLoopWaitError, drainReap, drainLookup, drainCall, failReaping,
     reapLoopClosePipe, reapLoopCloseChan, kernelVars
<1>2. ASSUME NEW x \in Xfers, SubmitURB(x) PROVE spc'[x] # spc[x]
  BY <1>2 DEF SubmitURB, TInv, TypeOK, TransferObjectType
<1>3. QED
  BY <1>1, <1>2

LEMMA NextFlight ==
  ASSUME Faults \subseteq {"unplug"}, TInv, OneReaper, LedgerInv, DrainedInv, FlightInv,
         [Next]_vars, resets' = resets, NEW x \in Xfers \ Bulk
  PROVE  LatestInFlight(x)' /\ ResultLatest(x)'
<1> USE DEF handleVars, wakeVars, resultVars, urbVars, reaperVars, closeVars, kernelVars
<1>a. LatestInFlight(x) /\ ResultLatest(x) /\ Ledger(x)
  BY DEF FlightInv, LedgerInv
<1>t. /\ DOMAIN rpc = Reapers /\ DOMAIN rhold = Reapers /\ DOMAIN spc = Xfers
      /\ DOMAIN submitted = Xfers /\ DOMAIN reaped = Xfers /\ DOMAIN nsub = Xfers
      /\ DOMAIN kurb = Urbs /\ DOMAIN urbFrom = Xfers
      /\ NoUrb \notin Urbs
  BY DEF TInv, TypeOK, TransferObjectType, ReaperType, KernelType, Urbs, NoUrb
<1>h. \A r \in Reapers : Holds(r, x) => nsub[x] \in Numbers
  BY <1>a, UrbPairs DEF LatestInFlight, Holds, TInv, ReaperControl, Numbers, Urbs
<1>k. ASSUME ~SubmitURB(x), NEW n \in Numbers, kurb[<<x, n>>] = "free"
      PROVE  kurb'[<<x, n>>] = "free"
  BY <1>k, UrbLife, UrbPairs
<1>w. closed => closed'
  BY NoWayBack
\* A step that changes neither the transfer nor what the reapers hold of it.
<1>s. ASSUME ~SubmitURB(x), UNCHANGED <<nsub, urbFrom, spc, submitted, rhold>>,
             \A r \in Reapers : rpc'[r] \in {"lookup", "call"} => rpc[r] \in {"lookup", "call"}
      PROVE  LatestInFlight(x)'
  BY <1>a, <1>h, <1>k, <1>w, <1>s, SameFlight DEF Holds
<1>1. ASSUME NEW y \in Xfers,
             SubmitEnter(y) \/ SubmitStep(y) \/ CancelCheck(y) \/ CancelDiscard(y)
      PROVE  LatestInFlight(x)' /\ ResultLatest(x)'
  <2>1. CASE SubmitEnter(x)
    <3>1. ~submitted[x] /\ ~closed /\ spc[x] = "idle"
      BY <2>1 DEF SubmitEnter, Busy
    <3>2. ~InFlight(x)
      BY <1>a, <3>1 DEF LatestInFlight
    <3>3. ~InFlight(x)' /\ UNCHANGED <<kurb, nsub, submitted, closed, rpc, rhold>>
      BY <2>1, <3>2 DEF SubmitEnter, InFlight, Holds
    <3>4. LatestInFlight(x)'
      BY <1>a, <1>t, <2>1, <3>1, <3>3 DEF SubmitEnter, LatestInFlight, InFlight
    <3>5. ResultLatest(x)'
      BY <1>a, <1>t, <2>1 DEF SubmitEnter, ResultLatest
    <3>6. QED
      BY <3>4, <3>5
  <2>2. CASE SubmitURB(x) /\ spc'[x] = "mark"
    <3>1. ~InFlight(x) /\ ~submitted[x]
      BY <1>a, <2>2 DEF SubmitURB, LatestInFlight, TInv, SubmitControl
    <3>2. /\ nsub'[x] = nsub[x] + 1 /\ nsub[x] + 1 \in Numbers
          /\ spc'[x] = "mark" /\ UNCHANGED <<rpc, rhold, urbFrom, submitted>>
          /\ kurb' = [kurb EXCEPT ![<<x, nsub[x] + 1>>] = "pending"]
      BY <1>t, <2>2 DEF SubmitURB, TInv, TypeOK, KernelType, SubmitControl, Numbers
    <3>3. \A n \in Numbers : n # nsub'[x] => kurb'[<<x, n>>] = "free"
      BY <1>t, <3>1, <3>2, UrbPairs DEF InFlight
    <3>4. \A r \in Reapers : ~Holds(r, x)'
      BY <3>1, <3>2 DEF InFlight, Holds
    <3>5. QED
      BY <3>2, <3>3, <3>4 DEF LatestInFlight, ResultLatest
  <2>3. CASE SubmitURB(x) /\ spc'[x] # "mark"
    <3>1. /\ spc[x] = "ioctl" /\ spc'[x] = "idle"
          /\ UNCHANGED <<nsub, kurb, rpc, rhold, urbFrom, submitted, reaped, reapErr,
                         actual, closed>>
      BY <1>t, <2>3 DEF SubmitURB
    <3>2. QED
      BY <1>a, <3>1 DEF LatestInFlight, ResultLatest, InFlight, Holds
  <2>4. CASE SubmitMark(x)
    <3>1. /\ spc'[x] = "register" /\ submitted'[x] /\ ~reaped'[x]
          /\ UNCHANGED <<nsub, kurb, rpc, rhold, urbFrom, closed>>
      BY <1>t, <2>4 DEF SubmitMark
    <3>2. QED
      BY <1>a, <3>1 DEF LatestInFlight, ResultLatest, InFlight, Holds
  <2>5. CASE registerURBCompletion(y)
    <3>1. /\ y = x => spc[x] = "register" /\ spc'[x] = "idle"
          /\ y # x => spc'[x] = spc[x]
          /\ UNCHANGED <<nsub, kurb, rhold, urbFrom, submitted, reaped, reapErr, actual,
                         closed>>
      BY <1>t, <2>5 DEF registerURBCompletion
    <3>2. \A r \in Reapers : rpc'[r] \in {"lookup", "call"} => rpc'[r] = rpc[r]
      BY <1>t, <2>5, StartedReaper DEF registerURBCompletion
    <3>3. \A r \in Reapers : Holds(r, x)' => Holds(r, x)
      BY <3>1, <3>2 DEF Holds
    <3>4. LatestInFlight(x)'
      BY <1>a, <3>1, <3>3 DEF LatestInFlight, InFlight
    <3>5. QED
      BY <1>a, <3>1, <3>4 DEF ResultLatest
  <2>6. CASE SubmitUndo(x)
    BY <1>a, <2>6 DEF SubmitUndo, LatestInFlight
  <2>7. CASE /\ y # x
             /\ SubmitEnter(y) \/ SubmitURB(y) \/ SubmitMark(y) \/ SubmitUndo(y)
    <3>1. /\ UNCHANGED <<rpc, rhold, closed>> /\ spc'[x] = spc[x] /\ nsub'[x] = nsub[x]
          /\ urbFrom'[x] = urbFrom[x] /\ submitted'[x] = submitted[x]
          /\ reaped'[x] = reaped[x] /\ reapErr'[x] = reapErr[x] /\ actual'[x] = actual[x]
      BY <1>t, <2>7 DEF SubmitEnter, SubmitURB, SubmitMark, SubmitUndo
    <3>2. ASSUME NEW n \in Numbers, kurb[<<x, n>>] = "free" PROVE kurb'[<<x, n>>] = "free"
      BY <1>t, <2>7, <3>2, UrbPairs DEF SubmitEnter, SubmitURB, SubmitMark, SubmitUndo, Discard, Oldest
    <3>3. LatestInFlight(x)'
      BY <1>a, <1>h, <1>w, <3>1, <3>2, SameFlight DEF Holds
    <3>4. QED
      BY <1>a, <3>1, <3>3 DEF ResultLatest
  <2>8. CASE CancelCheck(y) \/ CancelDiscard(y)
    <3>1. UNCHANGED <<rpc, rhold, closed, spc, nsub, urbFrom, submitted, reaped, reapErr,
                      actual>>
      BY <2>8 DEF CancelCheck, CancelDiscard
    <3>2. ASSUME NEW n \in Numbers, kurb[<<x, n>>] = "free" PROVE kurb'[<<x, n>>] = "free"
      BY <2>8, <3>2, UrbPairs DEF CancelCheck, CancelDiscard, Discard, Oldest
    <3>3. LatestInFlight(x)'
      BY <1>a, <1>h, <1>w, <3>1, <3>2, SameFlight DEF Holds
    <3>4. QED
      BY <1>a, <3>1, <3>3 DEF ResultLatest
  <2>9. QED
    BY <1>1, <2>1, <2>2, <2>3, <2>4, <2>5, <2>6, <2>7, <2>8 DEF SubmitStep
<1>2. ASSUME NEW r \in Reapers, reapLoop(r)
      PROVE  LatestInFlight(x)' /\ ResultLatest(x)'
  <2>k. ASSUME NEW n \in Numbers, kurb[<<x, n>>] = "free" PROVE kurb'[<<x, n>>] = "free"
    BY <1>2, <1>k, <2>k, LoopIsNoSubmit
  <2>n. UNCHANGED <<nsub, spc>>
    BY <1>2, LoopIsNoSubmit
  <2>1. CASE drainReap(r) /\ rpc'[r] = "lookup"
    <3>1. PICK u \in Reapable : /\ kurb' = [kurb EXCEPT ![u] = "free"]
                                /\ urbFrom' = [urbFrom EXCEPT ![u[1]] = u[2]]
                                /\ rhold' = [rhold EXCEPT ![r] = u]
      BY <1>t, <2>1 DEF drainReap, DrainEnd, Goto
    <3>2. rpc[r] = "reap" /\ rpc' = [rpc EXCEPT ![r] = "lookup"]
          /\ UNCHANGED <<resultVars, closed>>
      BY <1>t, <2>1 DEF drainReap, DrainEnd, Goto
    <3>3. \A s \in Reapers : ~Holds(s, x)
      BY <3>2, OneHolder DEF Active, Holds
    <3>4. CASE u[1] = x
      <4>1. u \in Urbs /\ kurb[u] # "free" /\ u = <<x, u[2]>> /\ u[2] \in Numbers
        BY <3>4, UrbPairs DEF Reapable, Urbs
      <4>2. u[2] = nsub[x] /\ InFlight(x)
        BY <1>a, <4>1 DEF LatestInFlight, InFlight
      <4>3. /\ urbFrom'[x] = nsub[x] /\ kurb'[u] = "free" /\ rhold'[r] = u
            /\ \A s \in Reapers : Holds(s, x)' => s = r
        BY <1>t, <3>1, <3>2, <3>3, <4>1, <4>2 DEF Holds
      <4>4. LatestInFlight(x)'
        BY <1>a, <2>n, <2>k, <3>2, <4>1, <4>2, <4>3 DEF LatestInFlight
      <4>5. QED
        BY <1>a, <2>n, <3>2, <4>4 DEF ResultLatest
    <3>5. CASE u[1] # x
      <4>1. \A s \in Reapers : ~Holds(s, x)'
        BY <1>t, <3>1, <3>2, <3>3, <3>5 DEF Holds
      <4>2. urbFrom'[x] = urbFrom[x]
        BY <1>t, <3>1, <3>5
      <4>3. LatestInFlight(x)'
        BY <1>a, <1>h, <1>w, <2>k, <2>n, <3>2, <3>3, <4>1, <4>2, SameFlight
      <4>4. QED
        BY <1>a, <2>n, <3>2, <4>3 DEF ResultLatest
    <3>6. QED
      BY <3>4, <3>5
  <2>2. CASE drainCall(r)
    <3> DEFINE y == rhold[r][1]
    <3>1. /\ rpc[r] = "call" /\ rpc' = [rpc EXCEPT ![r] = "reap"]
          /\ rhold' = [rhold EXCEPT ![r] = NoUrb] /\ UNCHANGED <<urbFrom, kurb, closed>>
          /\ Callback({y}, urbErr[y])
      BY <2>2 DEF drainCall, Goto
    <3>2. \A s \in Reapers : ~Holds(s, x)'
      BY <1>t, <3>1, OneHolder DEF Holds, Active
    <3>3. CASE x = y
      <4>1. Holds(r, x) /\ InHand(x)
        BY <3>1, <3>3 DEF Holds, InHand, Calling
      <4>2. /\ urbFrom[x] = nsub[x] /\ spc[x] \in {"idle", "ioctl"} /\ submitted[x]
            /\ spc[x] # "ioctl" /\ nsub[x] \in Numbers
            /\ \A n \in Numbers : kurb[<<x, n>>] = "free"
        BY <1>a, <1>h, <4>1 DEF LatestInFlight, Ledger
      <4>3. ~submitted'[x] /\ (~reapErr'[x] => actual'[x] = nsub[x])
        BY <3>1, <3>3, <4>2 DEF Callback
      <4>4. ~InFlight(x)'
        BY <3>1, <3>2, <4>2 DEF InFlight
      <4>5. QED
        BY <2>n, <3>1, <3>2, <4>2, <4>3, <4>4 DEF LatestInFlight, ResultLatest
    <3>4. CASE x # y
      <4>1. /\ submitted'[x] = submitted[x] /\ reaped'[x] = reaped[x]
            /\ reapErr'[x] = reapErr[x] /\ actual'[x] = actual[x]
        BY <3>1, <3>4 DEF Callback, TInv, TypeOK, TransferObjectType
      <4>2. LatestInFlight(x)'
        BY <1>a, <1>h, <1>w, <2>n, <3>1, <3>2, <4>1, SameFlight
      <4>3. QED
        BY <1>a, <2>n, <4>1, <4>2 DEF ResultLatest
    <3>5. QED
      BY <3>3, <3>4
  <2>3. CASE reapLoopFinal(r) \/ failReaping(r)
    <3>1. /\ rpc[r] \in {"final", "fail"} /\ rpc' = [rpc EXCEPT ![r] = "exitPipe"]
          /\ UNCHANGED <<rhold, urbFrom, kurb, closed>> /\ Callback(reapMap, TRUE)
      BY <2>3 DEF reapLoopFinal, failReaping, NotifyAll, Goto
    <3>2. \A s \in Reapers : ~Holds(s, x) /\ ~Holds(s, x)'
      BY <1>t, <3>1, OneHolder DEF Holds, Active
    <3>3. closed \/ ~InFlight(x)
      BY <3>1, <3>2, UrbPairs DEF TInv, ReaperControl, DrainedInv, Gone, AllFree, InFlight
    <3>4. /\ submitted'[x] => submitted[x]
          /\ ~reapErr'[x] => reapErr'[x] = reapErr[x] /\ reaped'[x] = reaped[x]
          /\ spc[x] = "register" => reaped'[x] = reaped[x]
          /\ ~reapErr'[x] => actual'[x] = actual[x]
      BY <1>a, <3>1 DEF Callback, Ledger, TInv, TypeOK, TransferObjectType
    <3>5. LatestInFlight(x)'
      BY <1>a, <2>n, <3>1, <3>2, <3>3, <3>4 DEF LatestInFlight, InFlight
    <3>6. QED
      BY <1>a, <2>n, <3>4, <3>5 DEF ResultLatest
  <2>4. CASE drainLookup(r)
    <3>1. /\ rpc[r] = "lookup" /\ UNCHANGED <<resultVars, urbFrom, kurb, closed>>
          /\ \E l : rpc' = [rpc EXCEPT ![r] = l]
          /\ rhold' = rhold \/ rhold' = [rhold EXCEPT ![r] = NoUrb]
          /\ rpc'[r] \in {"lookup", "call"} => rhold' = rhold
      BY <1>t, <2>4 DEF drainLookup, Goto
    <3>2. \A s \in Reapers : Holds(s, x)' => Holds(s, x) /\ rhold'[s] = rhold[s]
      BY <1>t, <3>1 DEF Holds
    <3>3. LatestInFlight(x)'
      BY <1>a, <1>h, <1>w, <2>k, <2>n, <3>1, <3>2, SameFlight
    <3>4. QED
      BY <1>a, <2>n, <3>1, <3>3 DEF ResultLatest
  <2>5. CASE \/ reapLoopSetup(r) \/ reapLoopCheck(r) \/ reapLoopWake(r)
             \/ reapLoopWaitError(r) \/ (drainReap(r) /\ rpc'[r] # "lookup")
             \/ reapLoopClosePipe(r) \/ reapLoopCloseChan(r)
    <3>1. /\ UNCHANGED <<resultVars, closed, rhold>>
          /\ \E l : /\ rpc' = [rpc EXCEPT ![r] = l]
                    /\ l \in {"lookup", "call"} => rpc[r] \in {"lookup", "call"}
          /\ UNCHANGED urbFrom
      BY <1>t, <2>5 DEF reapLoopSetup, reapLoopCheck, reapLoopWake, reapLoopWaitError,
         drainReap, DrainEnd, reapLoopClosePipe, reapLoopCloseChan, Goto
    <3>2. \A s \in Reapers :
              rpc'[s] \in {"lookup", "call"} => rpc[s] \in {"lookup", "call"}
      BY <1>t, <3>1
    <3>3. LatestInFlight(x)'
      BY <1>2, <1>s, <2>n, <3>1, <3>2, LoopIsNoSubmit
    <3>4. QED
      BY <1>a, <2>n, <3>1, <3>3 DEF ResultLatest
  <2>6. QED
    BY <1>2, <2>1, <2>2, <2>3, <2>4, <2>5 DEF reapLoop
<1>3. CASE \/ \E u \in Urbs : UrbCompletes(u)
           \/ Unplug \/ Close \/ UNCHANGED vars
  <2>1. UNCHANGED <<rpc, rhold, spc, nsub, urbFrom, submitted, reaped, reapErr, actual>>
    BY <1>3 DEF UrbCompletes, Unplug, Close, CloseMark, CloseDiscard, CloseWake,
        CloseJoin, CloseRelease, vars
  <2>2. ~SubmitURB(x)
    BY <1>t, <2>1 DEF SubmitURB
  <2>3. QED
    BY <1>a, <1>s, <2>1, <2>2 DEF ResultLatest
<1>4. ~ResetDevice
  BY DEF ResetDevice, TInv, TypeOK, HandleType
<1>5. QED
  BY <1>1, <1>2, <1>3, <1>4 DEF Next

LEMMA FlightHolds ==
  ASSUME Faults \subseteq {"unplug"}
  PROVE  Spec => [](resets = 0 => FlightInv)
<1>1. Init => FlightInv
  BY UrbPairs DEF Init, FlightInv, LatestInFlight, ResultLatest, InFlight, Holds
<1>2. TInv /\ OneReaper /\ LedgerInv /\ (resets = 0 => DrainedInv)
      /\ (resets = 0 => FlightInv) /\ [Next]_vars => (resets = 0 => FlightInv)'
  <2>1. ASSUME TInv, OneReaper, LedgerInv, resets = 0 => DrainedInv,
               resets = 0 => FlightInv, [Next]_vars, resets' = 0
        PROVE  FlightInv'
    <3>1. resets = 0 /\ resets' = resets
      BY <2>1, ResetsCount
    <3>2. ASSUME NEW x \in Xfers \ Bulk PROVE LatestInFlight(x)' /\ ResultLatest(x)'
      BY <2>1, <3>1, NextFlight
    <3>3. QED
      BY <3>2 DEF FlightInv
  <2>2. QED
    BY <2>1
<1>3. Init => LedgerInv
  BY DEF Init, LedgerInv, Ledger, InHand, Calling
<1>4. Spec => [](resets = 0 => DrainedInv)
  BY DrainedHolds
<1>5. QED
  BY <1>1, <1>2, <1>3, <1>4, NextLedger, TInvHolds, ReaperUnique, PTL DEF Spec

\* While no reset, pipe or epoll failure intervenes, a transfer that its caller may
\* use again has no URB in flight on an open handle.
THEOREM BufferComesBack ==
  ASSUME Faults \subseteq {"unplug"}
  PROVE  Spec => [](resets = 0 => BufferReturned)
<1>1. FlightInv => BufferReturned
  <2> SUFFICES ASSUME FlightInv, ~closed, NEW x \in Xfers \ Bulk,
                      ~submitted[x] /\ spc[x] \in {"idle", "ioctl"}, NEW n \in Numbers
               PROVE  kurb[<<x, n>>] # "pending"
    BY DEF BufferReturned, NoneInFlightWhenIdle
  <2>1. ~InFlight(x)
    BY DEF FlightInv, LatestInFlight
  <2>2. QED
    BY <2>1 DEF InFlight
<1>2. QED
  BY <1>1, FlightHolds, PTL

\* Under the same conditions a callback is run only for the completion of the
\* latest submission, and a success is reported with that one's length: a late
\* completion of an earlier one is never taken for it.
THEOREM SuccessFresh ==
  ASSUME Faults \subseteq {"unplug"}
  PROVE  Spec => [](resets = 0 => SuccessIsLatest)
<1>1. FlightInv => SuccessIsLatest
  <2>1. ASSUME FlightInv, NEW x \in Xfers \ Bulk, NEW r \in Reapers, Calling(r, x)
        PROVE  rhold[r] = <<x, nsub[x]>>
    BY <2>1 DEF FlightInv, LatestInFlight, Holds, Calling
  <2>2. QED
    BY <2>1 DEF FlightInv, ResultLatest, SuccessIsLatest
<1>2. QED
  BY <1>1, FlightHolds, PTL
=============================================================================
