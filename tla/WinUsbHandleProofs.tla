-------------------------- MODULE WinUsbHandleProofs --------------------------
(***************************************************************************)
(* Proofs about the device handle of the Windows backend, for every finite *)
(* number of goroutines and interfaces.                                    *)
(***************************************************************************)
EXTENDS MCWinUsbHandle, FiniteSetTheorems, TLAPS

USE ConstantsAssumption

ClosePcs == {"closeWait", "closeRelease", "closed"}

Released == \E p \in Procs : pc[p] = "closed"

\* What is open belongs to the handle; a collection is open until Close and is nothing
\* that a reset or a release frees.
LiveIsHeld ==
    /\ live \subseteq Held \cup {hid}
    /\ hid # None => hid \notin Held /\ (~Released => hid \in live)

\* Until Close, or a reset that fails, everything the handle refers to is open, and
\* every interface has a system handle of its own.
HeldIsLive ==
    ~resetFailed /\ ~Released =>
      /\ (Held \cup {hid}) \ {None} \subseteq live
      /\ \A i \in Ifaces : interfaceHandles[i] # None =>
           /\ interfaceHandles[i] \notin {file, winusb}
           /\ \A j \in Ifaces : interfaceHandles[j] = interfaceHandles[i] => j = i

\* One goroutine closes the handle.
OneCloser ==
    \A p \in Procs : pc[p] \in ClosePcs =>
      /\ p \in Callers /\ (closed <=> pc[p] # "closeWait")
      /\ \A q \in Procs : pc[q] \in ClosePcs => q = p

\* The goroutine of AsyncBulkTransfer is there while the transfer runs.
WorkerRuns == pc[Worker] \in {"start", "wait", "drain"} <=> ab = "running"

HandleInv == HandleType /\ LiveIsHeld /\ HeldIsLive /\ misused = FALSE
             /\ \A i \in Ifaces : i \in claimedIfaces <=> interfaceHandles[i] # None

CallInv == /\ CallType /\ OneCloser /\ WorkerRuns
           /\ TransferOnLiveHandle /\ BufferReturned /\ CloseFreesAll

Inv == HandleInv /\ CallInv
-------------------------------------------------------------------------------
(* System handles                                                          *)

\* A new handle is a number that nothing refers to.
LEMMA NewHandleFresh ==
  ASSUME NEW S, IsFiniteSet(S)
  PROVE  NewHandle(S) \in Nat \ {None} /\ NewHandle(S) \notin S
<1> DEFINE n == Cardinality(S)
<1>1. n \in Nat
  BY FS_CardinalityType
<1>2. IsFiniteSet(1..(n + 1)) /\ Cardinality(1..(n + 1)) = n + 1
  BY <1>1, FS_Interval
<1>3. ~(1..(n + 1) \subseteq S)
  <2> SUFFICES ASSUME 1..(n + 1) \subseteq S PROVE FALSE
    OBVIOUS
  <2>1. Cardinality(1..(n + 1)) <= n
    BY FS_Subset
  <2>2. QED
    BY <1>1, <1>2, <2>1
<1>4. \E x \in 1..(n + 1) : x \notin S
  BY <1>3
<1>5. NewHandle(S) \in 1..(n + 1) /\ NewHandle(S) \notin S
  BY <1>4 DEF NewHandle
<1>6. QED
  BY <1>1, <1>5 DEF None

LEMMA RequestsFinite == ASSUME CallType PROVE IsFiniteSet(InDriver)
<1>1. IsFiniteSet(Procs)
  BY FS_AddElement DEF Procs
<1> DEFINE f == [p \in Procs |-> req[p].on]
<1>2. f \in Surjection(Procs, InDriver)
  BY DEF Surjection, InDriver
<1>3. QED
  BY <1>1, <1>2, FS_Surjection

LEMMA HandlesFinite == ASSUME HandleType PROVE IsFiniteSet(Held)
<1> DEFINE f == [i \in Ifaces |-> interfaceHandles[i]]
           T == {interfaceHandles[i] : i \in Ifaces}
<1>1. f \in Surjection(Ifaces, T)
  BY DEF Surjection
<1>2. IsFiniteSet(T)
  BY <1>1, FS_Surjection
<1>3. IsFiniteSet({file}) /\ IsFiniteSet({file} \cup {winusb})
  BY FS_Singleton, FS_AddElement
<1>4. Held = ({file} \cup {winusb}) \cup T
  BY DEF Held
<1>5. QED
  BY <1>2, <1>3, <1>4, FS_Union

LEMMA LiveFinite == ASSUME HandleType, LiveIsHeld PROVE IsFiniteSet(live)
<1>1. IsFiniteSet(Held \cup {hid})
  BY HandlesFinite, FS_AddElement
<1>2. live \in SUBSET (Held \cup {hid})
  BY DEF LiveIsHeld
<1>3. QED
  BY <1>1, <1>2, FS_Subset

\* An open handle's system handles can be used and freed.
LEMMA OpenIsLive ==
  ASSUME Inv, ~closed
  PROVE  /\ ~Released
         /\ \A xs : xs \subseteq (Held \cup {hid}) \ {None} => resetFailed \/ xs \subseteq live
<1>1. ~Released
  BY DEF Inv, CallInv, OneCloser, Released, ClosePcs
<1>2. QED
  BY <1>1 DEF Inv, HandleInv, HeldIsLive

LEMMA InterfaceHandleHeld ==
  ASSUME NEW i \in Ifaces \cup {0}
  PROVE  getInterfaceHandle(i) \in Held
  BY DEF getInterfaceHandle, Held
-------------------------------------------------------------------------------
(* Steps                                                                   *)

LEMMA InitInv == Init => Inv
<1> SUFFICES ASSUME Init PROVE Inv
  OBVIOUS
<1>1. Worker \in Procs /\ \A p \in Procs : pc[p] = "idle" /\ req[p] = NoReq
  BY DEF Init, Procs
<1>2. HandleType
  <2>1. interfaceHandles \in [Ifaces -> Nat]
    BY DEF Init, NoHandles, None
  <2>2. {1, 2} \subseteq Nat \ {None}
    BY DEF None
  <2>3. live \subseteq {1, 2}
    BY DEF Init
  <2>4. file \in Nat /\ winusb \in Nat /\ hid \in Nat
    BY DEF Init, None
  <2>5. misused \in BOOLEAN /\ closed \in BOOLEAN /\ resetFailed \in BOOLEAN
        /\ claimedIfaces = {}
    BY DEF Init
  <2>6. QED
    BY <2>1, <2>2, <2>3, <2>4, <2>5 DEF HandleType
<1>3. LiveIsHeld
  BY DEF Init, LiveIsHeld, Held, None, NoHandles
<1>4. HeldIsLive
  BY DEF Init, HeldIsLive, Held, None, NoHandles
<1>5. HandleInv
  BY <1>2, <1>3, <1>4 DEF Init, HandleInv, NoHandles
<1>6. CallType
  BY DEF Init, CallType, NoReq, None
<1>7. CallInv
  BY <1>1, <1>6 DEF Init, CallInv, OneCloser, WorkerRuns, ClosePcs, TransferOnLiveHandle,
     BufferReturned, CloseFreesAll, Readers, NoReq
<1>8. QED
  BY <1>5, <1>7 DEF Inv

\* Steps that leave the handle alone: HandleInv depends on nothing else but whether
\* Close has returned.
LEMMA HandleKept ==
  ASSUME Inv, UNCHANGED <<live, handleVars>>, misused' = FALSE, Released' <=> Released
  PROVE  HandleInv' /\ CloseFreesAll'
<1>1. Held' = Held
  BY DEF Held, handleVars
<1>2. HandleType'
  BY DEF Inv, HandleInv, HandleType, handleVars
<1>3. LiveIsHeld'
  BY <1>1 DEF Inv, HandleInv, LiveIsHeld, handleVars
<1>4. HeldIsLive'
  BY <1>1 DEF Inv, HandleInv, HeldIsLive, handleVars
<1>5. CloseFreesAll'
  BY <1>1 DEF Inv, CallInv, CloseFreesAll, Released, handleVars
<1>6. QED
  BY <1>2, <1>3, <1>4, <1>5 DEF Inv, HandleInv, handleVars

\* Calls that use a handle and change nothing.
LEMMA UseSteps ==
  ASSUME Inv, ~closed, NEW x \in Held \cup {hid}, x # None, Uses(x),
         UNCHANGED <<live, handleVars, callVars>>
  PROVE  Inv'
<1>1. misused' = FALSE
  BY OpenIsLive DEF Inv, HandleInv, Uses
<1>2. HandleInv'
  BY <1>1, HandleKept DEF Released, callVars
<1>3. CallInv'
  BY <1>1, HandleKept DEF Inv, CallInv, CallType, OneCloser, WorkerRuns,
     TransferOnLiveHandle, Readers, BufferReturned, Released, handleVars, callVars
<1>4. QED
  BY <1>2, <1>3 DEF Inv

\* Under the write lock no transfer is in progress, and the handle is not closed.
LEMMA WriteSteps ==
  ASSUME Inv, NEW p \in Procs, WriteOp(p), UNCHANGED <<closed, callVars>>
  PROVE  ~Released' /\ CallInv'
<1>1. ~Released /\ ~Released'
  BY OpenIsLive DEF WriteOp, Released, callVars
<1>2. Readers = {} /\ Readers' = {}
  BY DEF WriteOp, LockFree, Readers, callVars
<1>3. CallType' /\ OneCloser' /\ WorkerRuns' /\ BufferReturned'
  BY DEF Inv, CallInv, CallType, OneCloser, WorkerRuns, BufferReturned, callVars
<1>4. TransferOnLiveHandle' /\ CloseFreesAll'
  BY <1>1, <1>2 DEF TransferOnLiveHandle, CloseFreesAll, Released
<1>5. QED
  BY <1>1, <1>3, <1>4 DEF CallInv

LEMMA ClaimStep ==
  ASSUME Inv, NEW p \in Procs, NEW i \in Ifaces \cup {0}, ClaimInterface(p, i)
  PROVE  Inv'
<1>t. HandleInv /\ HandleType
  BY DEF Inv, HandleInv
<1>1. WriteOp(p) /\ UNCHANGED <<closed, callVars, file, winusb, hid, resetFailed>> /\ ~closed
  BY DEF ClaimInterface, WriteOpKeeps, WriteOp
<1>2. ~Released /\ ~Released' /\ CallInv'
  BY <1>1, WriteSteps, OpenIsLive
<1>3. misused' = FALSE
  BY <1>1, <1>2, OpenIsLive DEF ClaimInterface, Uses, Inv, HandleInv, Held
<1>4. CASE /\ UNCHANGED <<interfaceHandles, live>>
           /\ \/ i = 0 /\ claimedIfaces' = claimedIfaces \cup {0}
              \/ UNCHANGED claimedIfaces
  <2>1. HandleType'
    BY <1>1, <1>3, <1>4, <1>t DEF HandleType
  <2>2. LiveIsHeld' /\ HeldIsLive'
    BY <1>1, <1>2, <1>4, <1>t DEF HandleInv, LiveIsHeld, HeldIsLive, Held, NoHandles
  <2>3. \A j \in Ifaces : j \in claimedIfaces' <=> interfaceHandles'[j] # None
    BY <1>4, <1>t DEF HandleInv
  <2>4. QED
    BY <1>2, <1>3, <2>1, <2>2, <2>3 DEF Inv, HandleInv
<1>5. CASE /\ i # 0 /\ i \notin claimedIfaces /\ winusb # None
           /\ claimedIfaces' = claimedIfaces \cup {i}
           /\ LET x == NewHandle(live \cup Held \cup InDriver) IN
                /\ interfaceHandles' = [interfaceHandles EXCEPT ![i] = x]
                /\ live' = live \cup {x}
  <2> DEFINE x == NewHandle(live \cup Held \cup InDriver)
  <2>1. IsFiniteSet(live \cup Held \cup InDriver)
    BY <1>t, LiveFinite, HandlesFinite, RequestsFinite, FS_Union DEF HandleInv, Inv, CallInv
  <2>2. x \in Nat \ {None} /\ x \notin live /\ x \notin Held
    BY <2>1, NewHandleFresh
  <2> HIDE DEF x
  <2>3. i \in Ifaces /\ interfaceHandles[i] = None
    BY <1>5, <1>t DEF HandleInv
  <2>4. /\ \A j \in Ifaces : interfaceHandles'[j] = IF j = i THEN x ELSE interfaceHandles[j]
        /\ live' = live \cup {x} /\ interfaceHandles' \in [Ifaces -> Nat]
    BY <1>5, <1>t, <2>2, <2>3 DEF HandleType, x
  <2>5. HandleType'
    BY <1>1, <1>3, <1>5, <1>t, <2>2, <2>4 DEF HandleType
  <2>6. \A y \in Held : y # None => y \in Held'
    BY <1>1, <2>3, <2>4 DEF Held
  <2>7. x \in Held' /\ \A y \in Held' : y \in Held \cup {x}
    BY <1>1, <2>3, <2>4 DEF Held
  <2>8. LiveIsHeld'
    <3>1. live' \subseteq Held' \cup {hid}
      BY <1>t, <2>4, <2>6, <2>7 DEF HandleInv, HandleType, LiveIsHeld
    <3>2. hid # None => hid \in live' /\ hid \notin Held'
      BY <1>2, <1>t, <2>2, <2>4, <2>7 DEF HandleInv, LiveIsHeld
    <3>3. QED
      BY <1>1, <3>1, <3>2 DEF LiveIsHeld
  <2>9. HeldIsLive'
    <3> SUFFICES ASSUME ~resetFailed
                 PROVE  /\ (Held' \cup {hid}) \ {None} \subseteq live'
                        /\ \A j \in Ifaces : interfaceHandles'[j] # None =>
                             /\ interfaceHandles'[j] \notin {file, winusb}
                             /\ \A m \in Ifaces :
                                  interfaceHandles'[m] = interfaceHandles'[j] => m = j
      BY <1>1, <1>2 DEF HeldIsLive
    <3>1. x \notin {file, winusb} /\ \A j \in Ifaces : interfaceHandles[j] # x
      BY <2>2 DEF Held
    <3>2. QED
      BY <1>2, <1>t, <2>4, <2>7, <3>1 DEF HandleInv, HeldIsLive
  <2>10. \A j \in Ifaces : j \in claimedIfaces' <=> interfaceHandles'[j] # None
    BY <1>5, <1>t, <2>2, <2>4 DEF HandleInv
  <2>11. QED
    BY <1>2, <1>3, <2>5, <2>8, <2>9, <2>10 DEF Inv, HandleInv
<1>6. QED
  BY <1>4, <1>5 DEF ClaimInterface

LEMMA ReleaseStep ==
  ASSUME Inv, NEW p \in Procs, NEW i \in Ifaces \cup {0}, ReleaseInterface(p, i)
  PROVE  Inv'
<1>t. HandleInv /\ HandleType
  BY DEF Inv, HandleInv
<1>1. WriteOp(p) /\ UNCHANGED <<closed, callVars, file, winusb, hid, resetFailed>> /\ ~closed
      /\ i \in claimedIfaces /\ claimedIfaces' = claimedIfaces \ {i}
  BY DEF ReleaseInterface, WriteOpKeeps, WriteOp
<1>2. ~Released /\ ~Released' /\ CallInv'
  BY <1>1, WriteSteps, OpenIsLive
<1>3. CASE i = 0
  <2>1. UNCHANGED <<interfaceHandles, live, misused>>
    BY <1>3 DEF ReleaseInterface
  <2>2. HandleType' /\ misused' = FALSE
    BY <1>1, <1>t, <2>1 DEF HandleInv, HandleType
  <2>3. LiveIsHeld' /\ HeldIsLive'
    BY <1>1, <1>2, <1>t, <2>1 DEF HandleInv, LiveIsHeld, HeldIsLive, Held, NoHandles
  <2>4. \A j \in Ifaces : j \in claimedIfaces' <=> interfaceHandles'[j] # None
    BY <1>1, <1>3, <1>t, <2>1 DEF HandleInv
  <2>5. QED
    BY <1>2, <2>2, <2>3, <2>4 DEF Inv, HandleInv
<1>4. CASE i # 0
  <2>1. i \in Ifaces /\ interfaceHandles[i] # None /\ interfaceHandles[i] \in Held
    BY <1>1, <1>4, <1>t DEF HandleInv, Held
  <2>2. /\ live' = live \ {interfaceHandles[i]}
        /\ interfaceHandles' = [interfaceHandles EXCEPT ![i] = None]
    BY <1>4 DEF ReleaseInterface, Frees, Forget
  <2>3. misused' = FALSE
    BY <1>1, <1>4, <1>t, <2>1, OpenIsLive DEF ReleaseInterface, Frees, HandleInv
  <2>4. /\ \A j \in Ifaces : interfaceHandles'[j] = IF j = i THEN None ELSE interfaceHandles[j]
        /\ interfaceHandles' \in [Ifaces -> Nat]
    BY <1>t, <2>1, <2>2 DEF HandleType, None
  <2>5. HandleType'
    BY <1>1, <1>t, <2>2, <2>3, <2>4 DEF HandleType
  <2>6. \A y \in Held : y # interfaceHandles[i] => y \in Held'
    BY <1>1, <2>1, <2>4 DEF Held
  <2>7. \A y \in Held' : y # None => y \in Held
    BY <1>1, <2>1, <2>4 DEF Held
  <2>8. LiveIsHeld'
    <3>1. hid # None => hid \in live' /\ hid \notin Held'
      BY <1>2, <1>t, <2>1, <2>2, <2>7 DEF HandleInv, LiveIsHeld
    <3>2. QED
      BY <1>1, <1>t, <2>2, <2>6, <3>1 DEF HandleInv, LiveIsHeld
  <2>9. HeldIsLive'
    <3> SUFFICES ASSUME ~resetFailed
                 PROVE  /\ (Held' \cup {hid}) \ {None} \subseteq live'
                        /\ \A j \in Ifaces : interfaceHandles'[j] # None =>
                             /\ interfaceHandles'[j] \notin {file, winusb}
                             /\ \A m \in Ifaces :
                                  interfaceHandles'[m] = interfaceHandles'[j] => m = j
      BY <1>1, <1>2 DEF HeldIsLive
    <3>1. interfaceHandles[i] \notin Held' \cup {hid}
      BY <1>1, <1>2, <1>t, <2>1, <2>4 DEF HandleInv, HeldIsLive, LiveIsHeld, Held, NoHandles
    <3>2. QED
      BY <1>2, <1>t, <2>2, <2>4, <2>7, <3>1 DEF HandleInv, HeldIsLive
  <2>10. \A j \in Ifaces : j \in claimedIfaces' <=> interfaceHandles'[j] # None
    BY <1>1, <1>t, <2>4 DEF HandleInv
  <2>11. QED
    BY <1>2, <2>3, <2>5, <2>8, <2>9, <2>10 DEF Inv, HandleInv
<1>5. QED
  BY <1>3, <1>4

LEMMA ResetStep ==
  ASSUME Inv, NEW p \in Procs, ResetDevice(p)
  PROVE  Inv'
<1>t. HandleInv /\ HandleType
  BY DEF Inv, HandleInv
<1>1. WriteOp(p) /\ UNCHANGED <<closed, callVars, hid>> /\ ~closed
      /\ interfaceHandles' = NoHandles
  BY DEF ResetDevice, WriteOp
<1>2. ~Released /\ ~Released' /\ CallInv'
  BY <1>1, WriteSteps, OpenIsLive
<1>3. misused' = FALSE
  BY <1>1, <1>t, OpenIsLive DEF ResetDevice, HandleInv, HandleType
<1>4. /\ \A j \in Ifaces : interfaceHandles'[j] = None
      /\ interfaceHandles' \in [Ifaces -> Nat] /\ live \ Held = {hid} \ {None}
  BY <1>1, <1>2, <1>t DEF NoHandles, HandleInv, HandleType, LiveIsHeld, None
<1>5. CASE /\ file' = NewHandle(InDriver \cup {hid})
           /\ winusb' = NewHandle(InDriver \cup {hid, file'})
           /\ live' = (live \ Held) \cup {file', winusb'}
           /\ claimedIfaces' = {} /\ UNCHANGED resetFailed
  <2>1. IsFiniteSet(InDriver \cup {hid}) /\ IsFiniteSet(InDriver \cup {hid, file'})
    <3>1. IsFiniteSet(InDriver)
      BY RequestsFinite DEF Inv, CallInv
    <3>2. IsFiniteSet(InDriver \cup {hid})
      BY <3>1, FS_AddElement
    <3>3. IsFiniteSet((InDriver \cup {hid}) \cup {file'})
      BY <3>2, FS_AddElement
    <3>4. (InDriver \cup {hid}) \cup {file'} = InDriver \cup {hid, file'}
      OBVIOUS
    <3>5. QED
      BY <3>2, <3>3, <3>4
  <2>2. file' \in Nat \ {None} /\ winusb' \in Nat \ {None} /\ hid \notin {file', winusb'}
    BY <1>5, <2>1, NewHandleFresh
  <2>3. live' = ({hid} \ {None}) \cup {file', winusb'} /\ Held' \subseteq {file', winusb', None}
        /\ {file', winusb'} \subseteq Held'
    BY <1>4, <1>5 DEF Held
  <2>4. HandleType'
    BY <1>1, <1>3, <1>4, <1>5, <1>t, <2>2, <2>3 DEF HandleType
  <2>5. LiveIsHeld' /\ HeldIsLive'
    BY <1>1, <1>4, <2>2, <2>3 DEF LiveIsHeld, HeldIsLive
  <2>6. QED
    BY <1>2, <1>3, <1>4, <1>5, <2>4, <2>5 DEF Inv, HandleInv
<1>6. CASE /\ live' = live \ Held /\ claimedIfaces' = claimedIfaces \cap {0}
           /\ resetFailed' = (resetFailed \/ {file, winusb} # {None}) /\ UNCHANGED <<file, winusb>>
  <2>1. HandleType'
    BY <1>1, <1>3, <1>4, <1>6, <1>t DEF HandleType
  <2>2. Held' \subseteq {file, winusb, None} /\ {file, winusb} \subseteq Held
    BY <1>4, <1>6 DEF Held
  <2>3. LiveIsHeld'
    BY <1>1, <1>2, <1>4, <1>6, <1>t, <2>2 DEF LiveIsHeld, HandleInv
  <2>4. HeldIsLive'
    <3>1. ~resetFailed' => Held' \subseteq {None} /\ {hid} \ {None} \subseteq live'
      BY <1>4, <1>6, <2>2
    <3>2. QED
      BY <1>1, <1>4, <3>1 DEF HeldIsLive
  <2>5. QED
    BY <1>2, <1>3, <1>4, <1>6, <2>1, <2>3, <2>4 DEF Inv, HandleInv
<1>7. QED
  BY <1>5, <1>6 DEF ResetDevice

\* Steps of one goroutine, which may enter a transfer, or leave one whose request the
\* driver has done; others only see their requests cancelled.
LEMMA CallKept ==
  ASSUME Inv, UNCHANGED <<live, handleVars>>, misused' = FALSE, CallType', WorkerRuns',
         NEW p \in Procs, \A q \in Procs : q # p => pc'[q] = pc[q],
         pc[p] \notin ClosePcs /\ pc'[p] \notin ClosePcs,
         \A q \in Procs : pc'[q] \in {"wait", "drain"} =>
            \/ pc[q] \in {"wait", "drain"} /\ req'[q].on = req[q].on
            \/ req'[q].on \in live,
         \A q \in Procs : req'[q].st \in {"pending", "cancelled"} =>
            waitFailed' \/ pc'[q] \in {"wait", "drain"}
  PROVE  Inv'
<1>1. Released' <=> Released
  BY DEF Released, ClosePcs
<1>2. HandleInv' /\ CloseFreesAll'
  BY <1>1, HandleKept
<1>3. OneCloser'
  BY DEF Inv, CallInv, OneCloser, handleVars
<1>4. TransferOnLiveHandle'
  BY DEF Inv, CallInv, TransferOnLiveHandle, Readers
<1>5. BufferReturned'
  BY DEF BufferReturned
<1>6. QED
  BY <1>2, <1>3, <1>4, <1>5 DEF Inv, CallInv

LEMMA StartStep ==
  ASSUME Inv, NEW p \in Procs, NEW i \in Ifaces \cup {0}, TransferStart(p, i)
  PROVE  Inv'
<1>t. CallType /\ misused = FALSE /\ live \subseteq Nat /\ Worker \in Procs
  BY DEF Inv, CallInv, HandleInv, HandleType, Procs
<1>1. /\ Target(i) \in live /\ pc[p] \in {"idle", "start"} /\ (p = Worker => pc[p] = "start")
      /\ (p # Worker => pc[p] = "idle")
      /\ req' = [req EXCEPT ![p] = [st |-> "pending", on |-> Target(i)]]
      /\ pc' = [pc EXCEPT ![p] = "wait"]
      /\ \E lim \in BOOLEAN : limited' = [limited EXCEPT ![p] = lim]
      /\ UNCHANGED <<live, misused, handleVars, waitFailed, ab>>
  BY DEF TransferStart, Goto, sysVars
<1>2. \A q \in Procs : pc'[q] = IF q = p THEN "wait" ELSE pc[q]
  BY <1>1, <1>t DEF CallType
<1>3. \A q \in Procs : req'[q] = IF q = p THEN [st |-> "pending", on |-> Target(i)] ELSE req[q]
  BY <1>1, <1>t DEF CallType
<1>4. CallType'
  <2>1. [st |-> "pending", on |-> Target(i)] \in
           [st : {"none", "pending", "cancelled", "done"}, on : Nat]
    BY <1>1, <1>t
  <2>2. req' \in [Procs -> [st : {"none", "pending", "cancelled", "done"}, on : Nat]]
    BY <1>1, <1>t, <2>1 DEF CallType
  <2>3. limited' \in [Procs -> BOOLEAN]
    BY <1>1, <1>t DEF CallType
  <2>4. QED
    BY <1>1, <1>t, <2>2, <2>3 DEF CallType
<1>5. WorkerRuns'
  BY <1>1, <1>2, <1>t DEF Inv, CallInv, WorkerRuns
<1>6. \A q \in Procs : req'[q].st \in {"pending", "cancelled"} =>
            waitFailed' \/ pc'[q] \in {"wait", "drain"}
  BY <1>1, <1>2, <1>3 DEF Inv, CallInv, BufferReturned
<1>7. /\ \A q \in Procs : q # p => pc'[q] = pc[q]
      /\ pc[p] \notin ClosePcs /\ pc'[p] \notin ClosePcs /\ misused' = FALSE
  BY <1>1, <1>2, <1>t DEF ClosePcs
<1>8. \A q \in Procs : pc'[q] \in {"wait", "drain"} =>
        \/ pc[q] \in {"wait", "drain"} /\ req'[q].on = req[q].on
        \/ req'[q].on \in live
  BY <1>1, <1>2, <1>3
<1>9. UNCHANGED <<live, handleVars>>
  BY <1>1
<1>10. QED
  BY <1>4, <1>5, <1>6, <1>7, <1>8, <1>9, CallKept

\* The requests of some goroutines are cancelled.
LEMMA CancelSteps ==
  ASSUME Inv, NEW p \in Procs, awaitTimeout(p) \/ abCancel(p)
  PROVE  Inv'
<1>t. CallType /\ misused = FALSE /\ Worker \in Procs
  BY DEF Inv, CallInv, HandleInv, Procs
<1>1. UNCHANGED <<live, handleVars, limited, waitFailed, ab>>
  BY DEF awaitTimeout, abCancel
<1>2. misused' = FALSE
  <2>1. CASE awaitTimeout(p)
    <3>1. req[p].on \in live
      BY <2>1 DEF Inv, CallInv, TransferOnLiveHandle, Readers, awaitTimeout
    <3>2. QED
      BY <1>t, <2>1, <3>1 DEF awaitTimeout, Uses
  <2>2. CASE abCancel(p)
    <3>1. ~closed /\ {winusb} \subseteq (Held \cup {hid}) \ {None}
      BY <2>2 DEF abCancel, Held
    <3>2. resetFailed \/ winusb \in live
      BY <3>1, OpenIsLive
    <3>3. QED
      BY <1>t, <2>2, <3>2 DEF abCancel, Uses
  <2>3. QED
    BY <2>1, <2>2
<1>3. \E P : req' = [q \in Procs |-> IF req[q].st = "pending" /\ q \in P
                                      THEN [req[q] EXCEPT !.st = "cancelled"] ELSE req[q]]
  <2>1. CASE awaitTimeout(p)
    <3>1. PICK own \in {TRUE, hid # None} :
            req' = [q \in Procs |->
                      IF req[q].st = "pending" /\ req[q].on = req[p].on /\ (own => q = p)
                        THEN [req[q] EXCEPT !.st = "cancelled"] ELSE req[q]]
      BY <2>1 DEF awaitTimeout
    <3> DEFINE P == {q \in Procs : req[q].on = req[p].on /\ (own => q = p)}
    <3>2. req' = [q \in Procs |-> IF req[q].st = "pending" /\ q \in P
                                  THEN [req[q] EXCEPT !.st = "cancelled"] ELSE req[q]]
      BY <3>1
    <3>3. QED
      BY <3>2
  <2>2. CASE abCancel(p)
    <3> DEFINE P == {q \in Procs : req[q] = [st |-> "pending", on |-> winusb]}
    <3>1. req' = [q \in Procs |-> IF req[q].st = "pending" /\ q \in P
                                  THEN [req[q] EXCEPT !.st = "cancelled"] ELSE req[q]]
      BY <2>2 DEF abCancel
    <3>2. QED
      BY <3>1
  <2>3. QED
    BY <2>1, <2>2
<1>4. PICK P : req' = [q \in Procs |-> IF req[q].st = "pending" /\ q \in P
                                       THEN [req[q] EXCEPT !.st = "cancelled"] ELSE req[q]]
  BY <1>3
<1>5. \A q \in Procs : /\ req'[q].on = req[q].on
                       /\ req'[q].st \in {"pending", "cancelled"} =>
                            req[q].st \in {"pending", "cancelled"}
                       /\ req'[q] \in [st : {"none", "pending", "cancelled", "done"}, on : Nat]
  BY <1>4, <1>t DEF CallType
<1>6. /\ \A q \in Procs : q # p => pc'[q] = pc[q]
      /\ pc' = pc \/ (pc[p] = "wait" /\ pc' = [pc EXCEPT ![p] = "drain"])
      /\ pc[p] \in {"wait", "idle"}
  BY <1>t DEF awaitTimeout, abCancel, Goto, CallType
<1>7. CallType'
  BY <1>1, <1>4, <1>5, <1>6, <1>t DEF CallType
<1>8. WorkerRuns' /\ pc'[p] \notin ClosePcs /\ pc[p] \notin ClosePcs
      /\ \A q \in Procs : pc'[q] \in {"wait", "drain"} <=> pc[q] \in {"wait", "drain"}
  BY <1>1, <1>6, <1>t DEF Inv, CallInv, CallType, WorkerRuns, ClosePcs
<1>9. \A q \in Procs : req'[q].st \in {"pending", "cancelled"} =>
            waitFailed' \/ pc'[q] \in {"wait", "drain"}
  BY <1>1, <1>5, <1>8 DEF Inv, CallInv, BufferReturned
<1>10. QED
  BY <1>1, <1>2, <1>5, <1>6, <1>7, <1>8, <1>9, CallKept

\* A transfer ends: its request is done, or the wait for it has failed.
LEMMA ReturnSteps ==
  ASSUME Inv, NEW p \in Procs, awaitDone(p) \/ awaitDrain(p) \/ awaitError(p)
  PROVE  Inv'
<1>t. CallType /\ misused = FALSE /\ Worker \in Procs
  BY DEF Inv, CallInv, HandleInv, Procs
<1>1. /\ Returns(p) /\ pc[p] \in {"wait", "drain"}
      /\ \/ req[p].st = "done" /\ UNCHANGED waitFailed
         \/ waitFailed' = TRUE
      /\ UNCHANGED <<live, misused, handleVars>>
  BY DEF awaitDone, awaitDrain, Drained, awaitError, sysVars
<1>2. /\ pc' = [pc EXCEPT ![p] = "idle"] /\ limited' = [limited EXCEPT ![p] = TRUE]
      /\ req' \in {req, [req EXCEPT ![p] = NoReq]} /\ ab' = AfterRun(p)
      /\ req[p].st = "done" => req' = [req EXCEPT ![p] = NoReq]
  BY <1>1 DEF Returns, Goto
<1>3. \A q \in Procs : pc'[q] = IF q = p THEN "idle" ELSE pc[q]
  BY <1>2, <1>t DEF CallType
<1>4. NoReq \in [st : {"none", "pending", "cancelled", "done"}, on : Nat]
  BY DEF NoReq, None
<1>5. CallType'
  <2>1. pc' \in [Procs -> {"idle", "start", "wait", "drain", "abWait", "closeWait",
                          "closeRelease", "closed"}]
    BY <1>2, <1>t DEF CallType
  <2>2. req' \in [Procs -> [st : {"none", "pending", "cancelled", "done"}, on : Nat]]
    BY <1>2, <1>4, <1>t DEF CallType
  <2>3. limited' \in [Procs -> BOOLEAN] /\ waitFailed' \in BOOLEAN
    BY <1>1, <1>2, <1>t DEF CallType
  <2>4. ab' \in {"new", "running", "completed"}
    BY <1>2, <1>t DEF CallType, AfterRun
  <2>5. QED
    BY <2>1, <2>2, <2>3, <2>4 DEF CallType
<1>6. \A q \in Procs : req'[q] = req[q] \/ (q = p /\ req'[q].st = "none")
  BY <1>2, <1>t DEF CallType, NoReq
<1>7. WorkerRuns'
  BY <1>1, <1>2, <1>3, <1>t DEF Inv, CallInv, WorkerRuns, AfterRun
<1>8. \A q \in Procs : req'[q].st \in {"pending", "cancelled"} =>
            waitFailed' \/ pc'[q] \in {"wait", "drain"}
  <2>1. req[p].st = "done" => req'[p].st = "none"
    BY <1>2, <1>t DEF CallType, NoReq
  <2>2. QED
    BY <1>1, <1>3, <1>6, <2>1 DEF Inv, CallInv, BufferReturned
<1>9. QED
  BY <1>1, <1>3, <1>5, <1>6, <1>7, <1>8, <1>t, CallKept DEF ClosePcs

LEMMA CompleteStep ==
  ASSUME Inv, NEW p \in Procs, RequestCompletes(p)
  PROVE  Inv'
<1>t. CallType /\ misused = FALSE
  BY DEF Inv, CallInv, HandleInv
<1>1. /\ req' \in {[req EXCEPT ![p].st = "done"], [req EXCEPT ![p] = NoReq]}
      /\ pc[p] \in {"wait", "drain"} => req' = [req EXCEPT ![p].st = "done"]
      /\ UNCHANGED <<sysVars, handleVars, pc, limited, waitFailed, ab>>
  BY DEF RequestCompletes
<1>2. /\ \A q \in Procs : q # p => req'[q] = req[q]
      /\ req'[p].st \in {"none", "done"}
      /\ pc[p] \in {"wait", "drain"} => req'[p].on = req[p].on
      /\ req' \in [Procs -> [st : {"none", "pending", "cancelled", "done"}, on : Nat]]
  BY <1>1, <1>t DEF CallType, NoReq, None
<1>3. CallType' /\ WorkerRuns' /\ OneCloser'
  BY <1>1, <1>2, <1>t DEF CallType, Inv, CallInv, WorkerRuns, OneCloser, handleVars
<1>4. HandleInv' /\ CloseFreesAll'
  BY <1>1, <1>t, HandleKept DEF sysVars, Released
<1>5. TransferOnLiveHandle' /\ BufferReturned'
  BY <1>1, <1>2 DEF Inv, CallInv, TransferOnLiveHandle, BufferReturned, Readers, sysVars
<1>6. QED
  BY <1>3, <1>4, <1>5 DEF Inv, CallInv

\* AsyncBulkTransfer: a Submit that starts the goroutine, the goroutine's transfer that
\* is refused, Wait.
LEMMA AsyncBulkSteps ==
  ASSUME Inv, NEW p \in Procs, abSubmit(p) \/ abRefused \/ abWait(p) \/ abWaitReturn(p)
  PROVE  Inv'
<1>t. CallType /\ misused = FALSE /\ Worker \in Procs /\ Callers \subseteq Procs
      /\ Worker \notin Callers
  BY DEF Inv, CallInv, HandleInv, Procs
<1>1. UNCHANGED <<live, misused, handleVars, req, limited, waitFailed>>
  BY DEF abSubmit, abRefused, abWait, abWaitReturn, sysVars
<1>2. \E q \in Procs, l \in {"idle", "start", "abWait"} :
         /\ pc' = [pc EXCEPT ![q] = l] /\ ab' \in {"new", "running", "completed"}
         /\ pc[q] \notin {"wait", "drain"} \cup ClosePcs
         /\ IF q = Worker THEN l # "abWait" /\ (ab' = "running" <=> l = "start")
                          ELSE l # "start" /\ ab' = ab /\ pc[q] # "start"
  <2>w. pc[Worker] \notin ClosePcs
    BY <1>t DEF Inv, CallInv, OneCloser
  <2>1. CASE abSubmit(p)
    <3>1. pc[Worker] \notin {"wait", "drain"} /\ pc' = [pc EXCEPT ![Worker] = "start"]
          /\ ab' = "running"
      BY <2>1 DEF abSubmit, NotInFlight, Goto, Inv, CallInv, WorkerRuns
    <3>2. QED
      BY <1>t, <2>w, <3>1
  <2>2. CASE abRefused
    <3>1. pc[Worker] = "start" /\ pc' = [pc EXCEPT ![Worker] = "idle"] /\ ab' = "completed"
      BY <2>2 DEF abRefused, AfterRun, Goto
    <3>2. QED
      BY <1>t, <3>1 DEF ClosePcs
  <2>3. CASE abWait(p)
    <3>1. p # Worker /\ pc[p] = "idle" /\ pc' = [pc EXCEPT ![p] = "abWait"] /\ ab' = ab
      BY <1>t, <2>3 DEF abWait, Goto
    <3>2. QED
      BY <1>t, <3>1 DEF CallType, ClosePcs
  <2>4. CASE abWaitReturn(p)
    <3>1. pc[p] = "abWait" /\ pc' = [pc EXCEPT ![p] = "idle"] /\ ab' = ab /\ ab = "completed"
      BY <2>4 DEF abWaitReturn, Goto
    <3>2. QED
      BY <1>t, <3>1 DEF CallType, ClosePcs
  <2>5. QED
    BY <2>1, <2>2, <2>3, <2>4
<1>3. PICK q \in Procs, l \in {"idle", "start", "abWait"} :
         /\ pc' = [pc EXCEPT ![q] = l] /\ ab' \in {"new", "running", "completed"}
         /\ pc[q] \notin {"wait", "drain"} \cup ClosePcs
         /\ IF q = Worker THEN l # "abWait" /\ (ab' = "running" <=> l = "start")
                          ELSE l # "start" /\ ab' = ab /\ pc[q] # "start"
  BY <1>2
<1>4. \A r \in Procs : pc'[r] = IF r = q THEN l ELSE pc[r]
  BY <1>3, <1>t DEF CallType
<1>5. CallType'
  BY <1>1, <1>3, <1>t DEF CallType
<1>6. WorkerRuns'
  BY <1>3, <1>4, <1>t DEF Inv, CallInv, WorkerRuns
<1>7. \A r \in Procs : req'[r].st \in {"pending", "cancelled"} =>
            waitFailed' \/ pc'[r] \in {"wait", "drain"}
  BY <1>1, <1>3, <1>4 DEF Inv, CallInv, BufferReturned
<1>8. \A r \in Procs : pc'[r] \in {"wait", "drain"} =>
            pc[r] \in {"wait", "drain"} /\ req'[r].on = req[r].on
  BY <1>1, <1>3, <1>4
<1>9. /\ \A r \in Procs : r # q => pc'[r] = pc[r]
      /\ pc[q] \notin ClosePcs /\ pc'[q] \notin ClosePcs /\ misused' = FALSE
  BY <1>1, <1>3, <1>4, <1>t DEF ClosePcs
<1>10. UNCHANGED <<live, handleVars>>
  BY <1>1
<1>11. QED
  BY <1>5, <1>6, <1>7, <1>8, <1>9, <1>10, CallKept

\* Close: one goroutine waits for the lock, marks the handle, frees what it has.
LEMMA CloseSteps ==
  ASSUME Inv, NEW p \in Procs, Close(p)
  PROVE  Inv'
<1>t. /\ CallType /\ HandleInv /\ HandleType /\ Worker \notin Callers /\ Worker \in Procs
      /\ OneCloser /\ BufferReturned /\ TransferOnLiveHandle /\ WorkerRuns
  BY DEF Inv, CallInv, HandleInv, Procs
<1>0. UNCHANGED <<req, limited, waitFailed, ab>>
  BY DEF Close, CloseEnter, CloseMark, CloseRelease
<1>1. CASE CloseEnter(p)
  <2>1. /\ pc[p] = "idle" /\ p \in Callers /\ pc' = [pc EXCEPT ![p] = "closeWait"] /\ ~closed
        /\ Closing = {} /\ UNCHANGED <<live, misused, handleVars>>
    BY <1>1 DEF CloseEnter, Goto, sysVars
  <2>2. \A q \in Procs : pc'[q] = IF q = p THEN "closeWait" ELSE pc[q]
    BY <1>t, <2>1 DEF CallType
  <2>3. \A q \in Procs : pc[q] \notin ClosePcs
    BY <1>t, <2>1 DEF OneCloser, Closing, ClosePcs
  <2>4. CallType' /\ OneCloser'
    BY <1>0, <1>t, <2>1, <2>2, <2>3 DEF CallType, OneCloser, ClosePcs, handleVars
  <2>5. WorkerRuns' /\ BufferReturned' /\ TransferOnLiveHandle'
    BY <1>0, <1>t, <2>1, <2>2 DEF WorkerRuns, BufferReturned, TransferOnLiveHandle, Readers
  <2>6. HandleInv' /\ CloseFreesAll'
    <3>1. Released' <=> Released
      BY <2>1, <2>2 DEF Released
    <3>2. misused' = FALSE
      BY <1>t, <2>1 DEF HandleInv
    <3>3. QED
      BY <2>1, <3>1, <3>2, HandleKept
  <2>7. QED
    BY <2>4, <2>5, <2>6 DEF Inv, CallInv
<1>2. CASE CloseMark(p)
  <2>1. /\ pc[p] = "closeWait" /\ pc' = [pc EXCEPT ![p] = "closeRelease"] /\ closed' = TRUE
        /\ UNCHANGED <<live, misused, file, winusb, interfaceHandles, claimedIfaces, hid,
                       resetFailed>>
    BY <1>2 DEF CloseMark, Goto, sysVars
  <2>2. \A q \in Procs : pc'[q] = IF q = p THEN "closeRelease" ELSE pc[q]
    BY <1>t, <2>1 DEF CallType
  <2>3. p \in Callers /\ \A q \in Procs : pc[q] \in ClosePcs => q = p
    BY <1>t, <2>1 DEF OneCloser, ClosePcs
  <2>4. CallType' /\ OneCloser'
    BY <1>0, <1>t, <2>1, <2>2, <2>3 DEF CallType, OneCloser, ClosePcs
  <2>5. WorkerRuns' /\ BufferReturned' /\ TransferOnLiveHandle'
    BY <1>0, <1>t, <2>1, <2>2, <2>3 DEF WorkerRuns, BufferReturned, TransferOnLiveHandle,
       Readers
  <2>6. Held' = Held /\ (Released' <=> Released)
    BY <2>1, <2>2 DEF Held, Released
  <2>7. HandleType' /\ LiveIsHeld' /\ HeldIsLive'
    BY <1>t, <2>1, <2>6 DEF HandleInv, HandleType, LiveIsHeld, HeldIsLive, NoHandles
  <2>8. CloseFreesAll'
    BY <2>1, <2>6 DEF Inv, CallInv, CloseFreesAll, Released
  <2>9. QED
    BY <1>t, <2>1, <2>4, <2>5, <2>7, <2>8 DEF Inv, CallInv, HandleInv
<1>3. CASE CloseRelease(p)
  <2>1. /\ pc[p] = "closeRelease" /\ pc' = [pc EXCEPT ![p] = "closed"] /\ Readers = {}
        /\ live' = live \ (AllHandles \ {None})
        /\ UNCHANGED <<closed, hid, resetFailed>>
    BY <1>3 DEF CloseRelease, Frees, Goto, LockFree
  <2>2. \A q \in Procs : pc'[q] = IF q = p THEN "closed" ELSE pc[q]
    BY <1>t, <2>1 DEF CallType
  <2>3. p \in Callers /\ ~Released /\ \A q \in Procs : pc[q] \in ClosePcs => q = p
    BY <1>t, <2>1 DEF OneCloser, ClosePcs, Released
  <2>4. misused' = FALSE
    <3>1. AllHandles \ {None} \subseteq (Held \cup {hid}) \ {None}
      BY DEF AllHandles
    <3>2. resetFailed \/ AllHandles \ {None} \subseteq live
      BY <1>t, <2>3, <3>1 DEF HandleInv, HeldIsLive
    <3>3. QED
      BY <1>3, <1>t, <3>2 DEF CloseRelease, Frees, HandleInv
  <2>5. Released'
    BY <2>2 DEF Released
  <2>6. ASSUME hid # None PROVE HandleInv' /\ CloseFreesAll'
    <3>1. UNCHANGED <<file, winusb, interfaceHandles, claimedIfaces>> /\ AllHandles = {hid}
      BY <1>3, <2>6 DEF CloseRelease, AllHandles
    <3>2. Held' = Held /\ live' \subseteq Held
      BY <1>t, <2>1, <2>6, <3>1 DEF HandleInv, LiveIsHeld, Held
    <3>3. HandleType' /\ LiveIsHeld' /\ HeldIsLive'
      BY <1>t, <2>1, <2>4, <2>5, <2>6, <3>1, <3>2
         DEF HandleInv, HandleType, LiveIsHeld, HeldIsLive
    <3>4. QED
      BY <1>t, <2>1, <2>4, <2>6, <3>1, <3>2, <3>3 DEF HandleInv, CloseFreesAll
  <2>7. ASSUME hid = None PROVE HandleInv' /\ CloseFreesAll'
    <3>1. /\ file' = None /\ winusb' = None /\ interfaceHandles' = NoHandles
          /\ claimedIfaces' = claimedIfaces \cap {0} /\ AllHandles = Held
      BY <1>3, <2>7 DEF CloseRelease, AllHandles
    <3>2. live' = {}
      BY <1>t, <2>1, <2>7, <3>1 DEF HandleInv, HandleType, LiveIsHeld
    <3>3. interfaceHandles' \in [Ifaces -> Nat] /\ \A i \in Ifaces : interfaceHandles'[i] = None
      BY <3>1 DEF NoHandles, None
    <3>4. HandleType'
      BY <1>t, <2>1, <2>4, <3>1, <3>2, <3>3 DEF HandleType, None
    <3>5. LiveIsHeld' /\ HeldIsLive'
      BY <2>1, <2>5, <2>7, <3>2 DEF LiveIsHeld, HeldIsLive
    <3>6. QED
      BY <1>t, <2>1, <2>4, <2>7, <3>1, <3>2, <3>3, <3>4, <3>5 DEF HandleInv, CloseFreesAll
  <2>8. HandleInv' /\ CloseFreesAll'
    BY <2>6, <2>7
  <2>9. CallType' /\ OneCloser'
    BY <1>0, <1>t, <2>1, <2>2, <2>3 DEF CallType, OneCloser, ClosePcs
  <2>10. WorkerRuns' /\ BufferReturned' /\ TransferOnLiveHandle'
    BY <1>0, <1>t, <2>1, <2>2, <2>3 DEF WorkerRuns, BufferReturned,
       TransferOnLiveHandle, Readers
  <2>11. QED
    BY <2>8, <2>9, <2>10 DEF Inv, CallInv
<1>4. QED
  BY <1>1, <1>2, <1>3 DEF Close

\* No step breaks the invariant.
LEMMA NextInv == Inv /\ [Next]_vars => Inv'
<1> SUFFICES ASSUME Inv, [Next]_vars PROVE Inv'
  OBVIOUS
<1>1. CASE UNCHANGED vars
  <2>1. HandleInv' /\ CloseFreesAll'
    BY <1>1, HandleKept DEF vars, sysVars, callVars, Inv, HandleInv, Released
  <2>2. CallInv'
    BY <1>1, <2>1 DEF vars, sysVars, handleVars, callVars, Inv, CallInv, CallType, OneCloser,
       WorkerRuns, TransferOnLiveHandle, BufferReturned, Readers
  <2>3. QED
    BY <2>1, <2>2 DEF Inv
<1>2. ASSUME NEW p \in Procs, Overlapped(p) PROVE Inv'
  <2>1. CASE \E i \in Ifaces \cup {0} : TransferStart(p, i)
    BY <2>1, StartStep
  <2>2. CASE \E i \in Ifaces \cup {0} : TransferStale(p, i)
    <3>1. PICK i \in Ifaces \cup {0} : TransferStale(p, i)
      BY <2>2
    <3>2. Target(i) \in Held \cup {hid}
      BY InterfaceHandleHeld DEF Target
    <3>3. QED
      BY <3>1, <3>2, UseSteps DEF TransferStale
  <2>3. QED
    BY <1>2, <2>1, <2>2, CompleteStep, ReturnSteps, CancelSteps
       DEF Overlapped, ControlTransfer, interruptTransfer, BulkTransferWithOptions
<1>3. ASSUME NEW p \in Procs, abSubmit(p) \/ abWait(p) \/ abWaitReturn(p) \/ abRefused
      PROVE  Inv'
  BY <1>3, AsyncBulkSteps
<1>4. ASSUME NEW p \in Procs, NEW i \in Ifaces \cup {0},
             ClaimInterface(p, i) \/ ReleaseInterface(p, i) \/ PipeRequest(p, i)
             \/ PipePolicy(p, i)
      PROVE  Inv'
  <2>1. CASE PipeRequest(p, i)
    <3>1. getInterfaceHandle(i) \in Held
      BY InterfaceHandleHeld
    <3>2. QED
      BY <2>1, <3>1, UseSteps DEF PipeRequest, WriteOp, WriteOpKeeps, handleVars
  <2>2. CASE PipePolicy(p, i)
    <3>1. getInterfaceHandle(i) \in Held
      BY InterfaceHandleHeld
    <3>2. QED
      BY <2>2, <3>1, UseSteps DEF PipePolicy, ReadOp
  <2>3. QED
    BY <1>4, <2>1, <2>2, ClaimStep, ReleaseStep
<1>5. ASSUME NEW p \in Procs,
             DescriptorRequest(p) \/ StandardRequest(p) \/ ReadBOSDescriptor(p)
             \/ HidRequest(p) \/ hidControlTransfer(p)
      PROVE  Inv'
  <2>1. \E x \in {winusb, hid} : ReadOp(p, x)
    BY <1>5 DEF DescriptorRequest, StandardRequest, ReadBOSDescriptor, HidRequest,
       hidControlTransfer
  <2>2. {winusb, hid} \subseteq Held \cup {hid}
    BY DEF Held
  <2>3. QED
    BY <2>1, <2>2, UseSteps DEF ReadOp
<1>6. ASSUME NEW p \in Procs, Close(p) \/ ResetDevice(p) \/ abCancel(p) PROVE Inv'
  BY <1>6, CloseSteps, ResetStep, CancelSteps
<1>7. Worker \in Procs
  BY DEF Procs
<1>8. QED
  BY <1>1, <1>2, <1>3, <1>4, <1>5, <1>6, <1>7 DEF Next

LEMMA Invariant == FairSpec => []Inv
<1>1. QED
  BY InitInv, NextInv, PTL DEF FairSpec, Spec
--------------------------------------------------------------------------------
(* Theorems                                                                *)

\* However claims, releases, resets and Close follow each other, no system handle is
\* freed twice or used after it was freed, as long as every ResetDevice gets the device
\* back, and none is freed under a transfer. Close leaves none open but those that a
\* reset has given a HID handle (device_windows.go).
THEOREM HandlesAreSound == FairSpec => []HandlesSound
<1>1. Inv => HandlesSound
  BY DEF Inv, HandleInv, CallInv, HandlesSound, TypeOK, HandlesFreedOnce
<1>2. QED
  BY <1>1, Invariant, PTL

\* A transfer returns only when the driver is done with its buffer, unless the wait for
\* it has failed: a timeout cancels the request and waits for it (awaitOverlapped).
THEOREM BufferComesBack == FairSpec => []BufferReturned
<1>1. Inv => BufferReturned
  BY DEF Inv, CallInv
<1>2. QED
  BY <1>1, Invariant, PTL
================================================================================
