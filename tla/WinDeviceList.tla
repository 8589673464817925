---------------------------- MODULE WinDeviceList ----------------------------
(***************************************************************************)
(* DeviceList on Windows: the interfaces that three device classes report  *)
(* are located on the USB tree, collapsed to one entry per hub port, and   *)
(* described by asking their hubs. A device may be unplugged meanwhile,    *)
(* with what hangs on it, but no root hub, and one device in an            *)
(* enumeration.                                                            *)
(*                                                                         *)
(* A devnode is a number, which also orders the instance ids and stands    *)
(* for the device's address. A device path is the record of its interface: *)
(* the devnode, the class, and whether it names a function of a composite  *)
(* device ("&mi_" in the text).                                            *)
(***************************************************************************)
EXTENDS Naturals, Sequences, FiniteSets, SequencesExt

CONSTANTS Nodes, Parent, Port, Hubs, RootHubs, Interfaces

\* The devnodes are a tree below the root hubs in which hubs hang on hubs and a
\* port has one devnode; only functions have an interface further down.
TreeAssumption ==
    /\ Nodes \subseteq Nat \ {0} /\ Hubs \subseteq Nodes /\ RootHubs \subseteq Hubs
    /\ \A n \in Nodes \ RootHubs : Parent[n] \in Nodes /\ Port[n] \in Nat
    /\ \A h \in Hubs \ RootHubs : Parent[h] \in Hubs
    /\ \A S \in SUBSET Nodes : S # {} => \E n \in S : n \in RootHubs \/ Parent[n] \notin S
    /\ \A n, m \in Nodes \ RootHubs :
         Parent[n] = Parent[m] /\ Parent[n] \in Hubs /\ Port[n] = Port[m] /\ Port[n] # 0 => n = m
    /\ IsFiniteSet(Nodes) /\ IsFiniteSet(Interfaces)
    /\ Interfaces \subseteq [node : Nodes, class : {"winusb", "device", "hub"}, fn : BOOLEAN]
    /\ \A i \in Interfaces : i.fn \/ i.node \in RootHubs \/ Parent[i.node] \in Hubs

VARIABLES
    present,      \* devnodes that are not being unplugged
    lpc, k,       \* where DeviceList is, and the element it is at
    failedClass,  \* firstErr # nil
    entries,      \* winDevices
    locs,         \* their locations, NoLoc where ok is false
    rhDevnodes,
    numbered,     \* the devnodes that have a bus number
    order,        \* byPort, in the order of the keys
    hubs,         \* the hub cache: "none", "open", "invalid"
    list          \* devices

listVars == <<present, lpc, k, failedClass, entries, locs, rhDevnodes, numbered, order, hubs, list>>

Classes == <<"winusb", "device", "hub">>
NoPort == [hub |-> 0, port |-> 0]
NoLoc == [at |-> NoPort, root |-> 0]
NoPath == [node |-> 0, class |-> "none", fn |-> FALSE]

\* The devnode below n, or n itself, that is on a port of a hub.
OnPort[n \in Nodes \ RootHubs] == IF Parent[n] \in Hubs THEN n ELSE OnPort[Parent[n]]

RootOf[h \in Hubs] == IF h \in RootHubs THEN h ELSE RootOf[Parent[h]]

\* h with what hangs below it: where the climb to the root comes by h.
Subtree(h) ==
    LET climb[n \in Nodes] == IF n \in RootHubs \cup {h} THEN n ELSE climb[Parent[n]]
    IN  {n \in Nodes : climb[n] = h}

\* The system: a device goes, with what hangs below it. From here on it may still be
\* there for one call and not for the next, in any order.
Unplug(n) ==
    /\ present = Nodes /\ n \notin RootHubs
    /\ present' = present \ Subtree(n)
    /\ UNCHANGED <<lpc, k, failedClass, entries, locs, rhDevnodes, numbered, order, hubs, list>>

ListInit ==
    /\ present = Nodes /\ lpc = "enumerate" /\ k = 1 /\ failedClass = FALSE
    /\ entries = <<>> /\ locs = <<>> /\ rhDevnodes = {} /\ numbered = {} /\ order = <<>> /\ list = <<>>
    /\ hubs = [h \in Hubs |-> "none"]
-----------------------------------------------------------------------------
\* The interfaces of a class, without those of the root hubs.
OfClass(c) == {i \in Interfaces : i.class = Classes[c] /\ i.node \notin RootHubs}

\* EnumerateUSBDevices: one class, in the order the system lists it; a class that cannot be read is passed over.
enumerateClass ==
    /\ lpc = "enumerate" /\ k <= 3
    /\ k' = k + 1
    /\ \/ /\ \E going \in SUBSET {i \in OfClass(k) : i.node \notin present} :
               \E s \in SetToSeqs({i \in OfClass(k) : i.node \in present} \cup going) :
                 entries' = entries \o s
          /\ UNCHANGED failedClass
       \/ failedClass' = TRUE /\ UNCHANGED entries
    /\ UNCHANGED <<present, lpc, locs, rhDevnodes, numbered, order, hubs, list>>

enumerated ==
    /\ lpc = "enumerate" /\ k = 4 /\ k' = 1
    /\ lpc' = IF entries = <<>> /\ failedClass THEN "error" ELSE "locate"
    /\ UNCHANGED <<present, failedClass, entries, locs, rhDevnodes, numbered, order, hubs, list>>

\* The climb to the root hub ends early at a hub whose parent cannot be read.
rootHubOf(h) == {RootOf[h]} \cup {g \in Hubs \ present : h \in Subtree(g)}

PortOf(n) == [hub |-> Parent[n], port |-> Port[n]]

\* locateDevice: up to the nearest hub; the port belongs to the last devnode before
\* it, and 0 is none. A hub that is going may no longer answer as one: then what is
\* below is found at the hub's own port.
locateDevice(n) ==
    LET silent == {h \in Hubs \ present : n \in Subtree(h) \ {h}}
        found == {m \in {OnPort[n]} \cup silent : Port[m] # 0}
    IN  (UNION {{[at |-> PortOf(m), root |-> r] : r \in rootHubOf(Parent[m])} : m \in found})
          \cup (IF n \in present /\ found # {} THEN {} ELSE {NoLoc})

locateNext ==
    /\ lpc = "locate" /\ k <= Len(entries)
    /\ \E loc \in locateDevice(entries[k].node) : locs' = Append(locs, loc)
    /\ k' = k + 1
    /\ UNCHANGED <<present, lpc, failedClass, entries, rhDevnodes, numbered, order, hubs, list>>

\* The root hubs are listed, but for those whose host controller does not name them;
\* then the roots are numbered, but for those whose id can no longer be read.
enumerateRootHubDevnodes ==
    /\ lpc = "locate" /\ k = Len(entries) + 1
    /\ rhDevnodes' \in SUBSET RootHubs
    /\ LET roots == rhDevnodes' \cup {locs[i].root : i \in {j \in DOMAIN locs : locs[j] # NoLoc}}
       IN  \E unread \in SUBSET (roots \ present) : numbered' = roots \ unread
    /\ lpc' = "merge" /\ k' = 1
    /\ UNCHANGED <<present, failedClass, entries, locs, order, hubs, list>>

busNumbering(r) ==
    IF r \in numbered THEN Cardinality({x \in numbered : x <= r}) ELSE 0
-----------------------------------------------------------------------------
(* One entry per hub port                                                  *)

SamePort(loc, m) == m.at = loc.at

FirstPath(m, e) == FALSE

\* The device's own interface is preferred to one of its functions.
Identifies(m, e) == m.display.fn /\ ~e.fn

\* Only a WinUSB interface can be opened.
OpenPath(e) == IF e.class = "winusb" THEN e ELSE NoPath

Opens(m, e) == IF m.open = NoPath THEN OpenPath(e) ELSE m.open

Merged(m, e) == [m EXCEPT !.display = IF Identifies(m, e) THEN e ELSE @, !.open = Opens(m, e)]

mergeNext ==
    /\ lpc = "merge" /\ k <= Len(entries) /\ k' = k + 1
    /\ LET e == entries[k]  loc == locs[k] IN
         \/ loc = NoLoc /\ UNCHANGED order
         \/ /\ loc # NoLoc /\ \E i \in DOMAIN order : SamePort(loc, order[i])
            /\ order' = [i \in DOMAIN order |->
                           IF SamePort(loc, order[i]) THEN Merged(order[i], e) ELSE order[i]]
         \/ /\ loc # NoLoc /\ \A i \in DOMAIN order : ~SamePort(loc, order[i])
            /\ order' = Append(order, [at |-> loc.at, root |-> loc.root,
                                       display |-> e, open |-> OpenPath(e)])
    /\ UNCHANGED <<present, lpc, failedClass, entries, locs, rhDevnodes, numbered, hubs, list>>

mergeEnd ==
    /\ lpc = "merge" /\ k = Len(entries) + 1 /\ lpc' = "describe" /\ k' = 1
    /\ UNCHANGED <<present, failedClass, entries, locs, rhDevnodes, numbered, order, hubs, list>>
-----------------------------------------------------------------------------
(* Asking the hubs                                                         *)

\* newDeviceFromPath
Device(path) == [path |-> path, open |-> path, inst |-> 0, at |-> NoPort, bus |-> 0,
                 addr |-> 0, parentAddr |-> 0]

\* Root hubs have address 1, what a hub reports is shifted by one.
describeFromHub(m, hub) ==
    LET on == {n \in Nodes \ RootHubs : PortOf(n) = m.at} IN
      IF hub # "open" THEN {0}
      ELSE {1 + n : n \in on} \cup IF on \subseteq present THEN {} ELSE {0}

\* The hub is opened for its first device, and the outcome is remembered.
describeNext ==
    /\ lpc = "describe" /\ k <= Len(order) /\ k' = k + 1
    /\ LET m == order[k]  h == m.at.hub IN
         \E hub \in IF hubs[h] # "none" THEN {hubs[h]} ELSE {"invalid", "open"} :
         \E address \in describeFromHub(m, hub) :
           /\ hubs' = [hubs EXCEPT ![h] = hub]
           /\ list' = Append(list,
                [Device(m.display) EXCEPT
                   !.open = IF m.open = NoPath THEN @ ELSE m.open, !.inst = m.display.node,
                   !.at = m.at, !.bus = busNumbering(m.root), !.addr = address])
    /\ UNCHANGED <<present, lpc, failedClass, entries, locs, rhDevnodes, numbered, order>>

describedAll ==
    /\ lpc = "describe" /\ k = Len(order) + 1 /\ lpc' = "unlocated" /\ k' = 1
    /\ UNCHANGED <<present, failedClass, entries, locs, rhDevnodes, numbered, order, hubs, list>>

\* Devices without a place follow.
reportUnlocated ==
    /\ lpc = "unlocated" /\ k <= Len(entries) /\ k' = k + 1
    /\ list' = IF locs[k] = NoLoc THEN Append(list, Device(entries[k])) ELSE list
    /\ UNCHANGED <<present, lpc, failedClass, entries, locs, rhDevnodes, numbered, order, hubs>>

describeRootHub(r) ==
    [Device([node |-> r, class |-> "hub", fn |-> FALSE]) EXCEPT
       !.inst = r, !.bus = busNumbering(r), !.addr = 1]

\* The keys of devInstToDevice.
WithInst(l) == {i \in DOMAIN l : l[i].inst # 0}

\* The second pass.
ParentHubAddr(l, d) ==
    LET hub == {i \in WithInst(l) : d.at.hub # 0 /\ l[i].inst = d.at.hub}
    IN  IF hub = {} THEN 0 ELSE l[CHOOSE i \in hub : \A j \in hub : j <= i].addr

closeAll == [h \in Hubs |-> "none"]

ParentsFilled(all) ==
    [i \in DOMAIN all |-> [all[i] EXCEPT !.parentAddr = ParentHubAddr(all, all[i])]]

\* Root hubs come last, those that have an interface; then the parents are filled in.
describeEnd ==
    /\ lpc = "unlocated" /\ k = Len(entries) + 1 /\ lpc' = "done" /\ UNCHANGED k
    /\ \E shown \in SUBSET rhDevnodes : \E roots \in SetToSeqs(shown) :
         list' = ParentsFilled(list \o [i \in DOMAIN roots |-> describeRootHub(roots[i])])
    /\ hubs' = closeAll
    /\ UNCHANGED <<present, failedClass, entries, locs, rhDevnodes, numbered, order>>

DeviceList == \/ enumerateClass \/ enumerated \/ locateNext \/ enumerateRootHubDevnodes
              \/ mergeNext \/ mergeEnd \/ describeNext \/ describedAll
              \/ reportUnlocated \/ describeEnd

ListNext == DeviceList \/ \E n \in Nodes : Unplug(n)
-----------------------------------------------------------------------------
(* Properties                                                              *)

Located == {i \in DOMAIN locs : locs[i] # NoLoc}

\* Every variable stays in its domain, and no hub is left open.
ListTypeOK ==
    /\ present \subseteq Nodes /\ numbered \subseteq Hubs
    /\ k \in 1..(Len(entries) + 4) /\ Len(locs) <= Len(entries)
    /\ lpc \in {"enumerate", "locate", "merge", "describe", "unlocated", "done", "error"}
    /\ lpc \notin {"describe", "unlocated"} => \A h \in Hubs : hubs[h] = "none"

\* A line of the list shows a device that is not being unplugged.
Stays(line) == line.path.node \in present \ RootHubs

\* A physical device that stays is one line of the list, however many interfaces
\* report it and in whatever order, whatever else is unplugged meanwhile; no port has
\* two lines, and no interface is missing.
OnePerPort ==
    lpc = "done" =>
      /\ \A i, j \in DOMAIN list : list[i].at = list[j].at /\ list[i].at # NoPort => i = j
      /\ \A i, j \in DOMAIN list :
           Stays(list[i]) /\ Stays(list[j])
             /\ OnPort[list[i].path.node] = OnPort[list[j].path.node]
             /\ Port[OnPort[list[i].path.node]] # 0 => i = j
      /\ \A i \in Located : \E j \in DOMAIN list : list[j].at = locs[i].at
      /\ \A i \in DOMAIN entries \ Located : \E j \in DOMAIN list : list[j].path = entries[i]

\* A composite device that stays is identified by its own interface, not by a
\* function's, if it has reported one; HID collections are searched below that devnode.
IdentityIsDevice ==
    lpc = "done" =>
      \A i \in Located : ~entries[i].fn /\ entries[i].node \in present =>
        \E j \in DOMAIN list : /\ list[j].at = PortOf(entries[i].node) /\ ~list[j].path.fn
                               /\ list[j].inst = entries[i].node

\* Open uses a WinUSB interface of that same device if there is one that stays.
OpensWinUsb ==
    lpc = "done" =>
      \A i \in Located : entries[i].class = "winusb" /\ entries[i].node \in present =>
        \E j \in DOMAIN list : /\ list[j].at = PortOf(OnPort[entries[i].node])
                               /\ list[j].open.class = "winusb"
                               /\ OnPort[list[j].open.node] = OnPort[entries[i].node]

\* A device's parent address is the address of the hub it hangs on, root hub or not,
\* whichever of the two is listed first, and its bus is that hub's, unless the device
\* is being unplugged.
ParentAddressed ==
    lpc = "done" =>
      \A i, j \in DOMAIN list :
        Stays(list[i]) /\ list[j].inst # 0 /\ list[j].inst = list[i].at.hub =>
          list[i].parentAddr = list[j].addr /\ list[i].bus = list[j].bus
=============================================================================
