---------------------------- MODULE WinEndpoints ----------------------------
(***************************************************************************)
(* Where a transfer to an endpoint goes on Windows. A WinUSB handle        *)
(* belongs to an interface, so that the interface of an endpoint is looked *)
(* up in the raw configuration descriptor (endpointInterface); a HID       *)
(* device is a list of collections, and its interrupt endpoints are mapped *)
(* onto them from the parsed configuration (openHIDDevice, mapEndpoints).  *)
(*                                                                         *)
(* Both read data, the bytes the configuration of ConfigDescriptor was     *)
(* parsed from.                                                            *)
(***************************************************************************)
EXTENDS ConfigDescriptor

CONSTANT Candidates   \* lists of HID collections the system may report

ASSUME CandidatesAssumption ==
    \A list \in Candidates :
      list \in Seq([own : BOOLEAN, usable : BOOLEAN, opens : BOOLEAN, iface : Nat, collection : Nat])

INTERRUPT == 3
-----------------------------------------------------------------------------
(* endpointInterface                                                       *)

\* The offsets of the descriptors the loop visits, from the end of the header.
Walked == {p \in Walk(data, Byte(data, 0), 2) : Whole(data, p, 2)}

FirstInterface(p) ==
    LET before == {q \in Walked : q < p /\ Byte(data, q + 1) = INTERFACE /\ Byte(data, q) >= 9}
    IN  IF before = {} THEN 0 ELSE Byte(data, Min(before) + 2)

\* curIface when the loop is at p; 0 before the first interface.
CurIface(p) ==
    LET before == {q \in Walked : q < p /\ Byte(data, q + 1) = INTERFACE /\ Byte(data, q) >= 9}
    IN  IF before = {} THEN 0 ELSE Byte(data, Max(before) + 2)

\* The interface of the first endpoint with the address, or none.
endpointInterface(addr) ==
    LET hits == {p \in Walked : /\ Byte(data, p + 1) = ENDPOINT
                                /\ Byte(data, p) >= 3 /\ Byte(data, p + 2) = addr}
    IN  IF hits = {} THEN {} ELSE {CurIface(Min(hits))}
-----------------------------------------------------------------------------
(* openHIDDevice                                                           *)

\* Collections below the device that are no keyboard or pointer and can be opened,
\* as positions in the list.
openHIDDevice(list) == {i \in DOMAIN list : list[i].own /\ list[i].usable /\ list[i].opens}

\* The lowest-numbered collection of an interface.
collectionForInterface(list, n) ==
    LET mine == {i \in openHIDDevice(list) : list[i].iface = n}
    IN  FirstOf(list, {i \in mine : \A j \in mine : list[i].collection <= list[j].collection})

IsInterrupt(e) == Byte(data, e.at + 3) % 4 = INTERRUPT

\* The interfaces that map an address: they have a collection and the endpoint.
Maps(list, addr) ==
    {InterfaceNumber(saved[i]) :
       i \in {k \in ListedAlts : /\ collectionForInterface(list, InterfaceNumber(saved[k])) # {}
                               /\ \E e \in ToSet(saved[k].eps) : EndpointAddr(e) = addr /\ IsInterrupt(e)}}

\* h.inputs and h.outputs: the first mapping of an address stays. Nothing is
\* mapped if the configuration cannot be parsed.
mapEndpoints(list, addr) ==
    IF result = "ok" /\ Maps(list, addr) # {}
      THEN collectionForInterface(list, Min(Maps(list, addr))) ELSE {}

\* interruptTransfer: the collection of the endpoint, else the first one.
interruptCollection(list, addr) ==
    IF mapEndpoints(list, addr) # {} THEN mapEndpoints(list, addr)
    ELSE FirstOf(list, openHIDDevice(list))
-----------------------------------------------------------------------------
(* Properties                                                              *)

Parsed == pc = "returned" /\ os = "windows" /\ result = "ok" /\ Byte(dev, 0) = 9

\* An endpoint's transfers go to the interface that Unmarshal files it under: the
\* scan of the raw bytes and the parser agree on every endpoint that is the first
\* with its address, if no descriptor is a lone byte.
EndpointFindsInterface ==
    Parsed /\ (\A p \in Starts(data) : Byte(data, p) # 1) =>
      \A a \in Alts : \A e \in ToSet(a.eps) :
        (\A p \in Starts(data) : p < e.at /\ Byte(data, p + 1) = ENDPOINT => Byte(data, p + 2) # EndpointAddr(e))
          => endpointInterface(EndpointAddr(e)) = {InterfaceNumber(a)}

\* A report for an interrupt endpoint goes to the lowest collection of the
\* endpoint's own interface, whatever order the system lists the collections in,
\* if that interface has an open one and no other declares the address.
HidEndpointServed ==
    Parsed =>
      \A list \in Candidates : \A a \in Alts : \A e \in ToSet(a.eps) :
        LET open == {list[i] : i \in openHIDDevice(list)} IN
        /\ IsInterrupt(e) /\ InterfaceNumber(a) # 255
        /\ \E c \in open : c.iface = InterfaceNumber(a)
        /\ \A b \in Alts : \A f \in ToSet(b.eps) :
             EndpointAddr(f) = EndpointAddr(e) => InterfaceNumber(b) = InterfaceNumber(a)
        => \E c \in interruptCollection(list, EndpointAddr(e)) :
             /\ c \in open /\ c.iface = InterfaceNumber(a)
             /\ \A d \in open : d.iface = c.iface => c.collection <= d.collection
=============================================================================
