---------------------------- MODULE HotplugContract ---------------------------
(***************************************************************************)
(* What a hotplug watch promises its user (hotplug.go): devices arrive and *)
(* leave in turn, and a watch that Deregister has stopped is silent.       *)
(***************************************************************************)
EXTENDS Naturals

CONSTANT Devices       \* the devices the filter accepts

VARIABLES view,        \* devices whose last report was Arrived
          calls,       \* number of callbacks so far
          ended        \* Deregister has returned

Report(v) == /\ ~ended
             /\ view' = v
             /\ calls' = calls + 1
             /\ UNCHANGED ended

HotplugEventArrived(d) == d \notin view /\ Report(view \cup {d})

HotplugEventLeft(d) == d \in view /\ Report(view \ {d})

Deregister == ended' = TRUE /\ UNCHANGED <<view, calls>>

Init == view = {} /\ calls = 0 /\ ended = FALSE

Next == \/ \E d \in Devices : HotplugEventArrived(d) \/ HotplugEventLeft(d)
        \/ Deregister

Spec == Init /\ [][Next]_<<view, calls, ended>>
=============================================================================
