--------------------------- MODULE ConfigDescriptor ---------------------------
(***************************************************************************)
(* Reading a configuration descriptor: the two requests of                 *)
(* RawConfigDescriptor, ConfigDescriptor.Unmarshal with its lookups, and   *)
(* ReadConfigDescriptor, which Linux and Windows parse a second time and   *)
(* macOS flattens from the first.                                          *)
(*                                                                         *)
(* Bytes are numbers; offsets count from 0, as in the code. A parsed       *)
(* descriptor is known by its offset, its fields are the bytes there.      *)
(***************************************************************************)
EXTENDS Naturals, Sequences, FiniteSets, SequencesExt

CONSTANTS Blobs,     \* what devices answer: byte sequences of 9 bytes or more
          BufLen     \* the buffer of ReadConfigDescriptor on Linux; 512 in the code

ASSUME BufLenAssumption == BufLen \in Nat /\ BufLen >= 9

ASSUME BlobsAssumption == \A b \in Blobs : b \in Seq(0..255) /\ Len(b) >= 9

VARIABLES
    os,         \* the backend: "linux", "windows" or "darwin"
    dev,        \* the device's descriptor
    pc,
    data,       \* what RawConfigDescriptor returned
    pos,        \* where the parser is
    cur,        \* currentInterface with currentEndpoints and extraBuffer
    saved,      \* alternate settings in interfaceMap, in the order they were added
    cextra,     \* c.Extra, as the offsets of its descriptors
    result,     \* how Unmarshal ended
    rpos, rifs, reps   \* ReadConfigDescriptor: position and the two flat lists

fetchVars == <<os, dev, data>>
parseVars == <<pos, cur, saved, cextra, result>>
readVars == <<rpos, rifs, reps>>
vars == <<fetchVars, pc, parseVars, readVars>>

INTERFACE == 4
ENDPOINT == 5
COMPANION == 48

NoAlt == [at |-> 0, eps |-> <<>>, extra |-> <<>>]
NoCompanion == 0

Outside == 999   \* an index out of range, where Go would panic

Byte(s, i) == IF i < Len(s) THEN s[i + 1] ELSE Outside
Word(s, i) == Byte(s, i) + 256 * Byte(s, i + 1)

\* A transfer into a zeroed buffer of n bytes.
Answer(n) == [i \in 1..n |-> IF i <= Len(dev) THEN dev[i] ELSE 0]
-----------------------------------------------------------------------------
(* RawConfigDescriptor                                                     *)

TotalLength == Word(Answer(9), 2)

Received == SubSeq(dev, 1, IF Len(dev) < TotalLength THEN Len(dev) ELSE TotalLength)

\* The header is read for the total length, then everything. Only macOS checks
\* the length: &fullBuf[0] of an empty buffer is out of range. Only Windows cuts
\* the buffer to what was transferred.
fetch ==
    /\ pc = "fetch"
    /\ \/ /\ os # "darwin" /\ TotalLength = 0
          /\ pc' = "read" /\ result' = "panic" /\ UNCHANGED data
       \/ /\ os = "darwin" /\ TotalLength < 9
          /\ pc' = "read" /\ result' = "short" /\ UNCHANGED data
       \/ /\ TotalLength >= IF os = "darwin" THEN 9 ELSE 1
          /\ data' = IF os = "windows" THEN Received ELSE Answer(TotalLength)
          /\ pc' = "parse" /\ UNCHANGED result
    /\ UNCHANGED <<os, dev, pos, cur, saved, cextra, readVars>>
-----------------------------------------------------------------------------
(* Unmarshal                                                               *)

Length == Byte(data, pos)
Type == Byte(data, pos + 1)

NoZeroCheck == pos + 2 <= Len(data) /\ pos + Length <= Len(data)

\* A descriptor begins at pos and lies in the data.
MoreToParse == pos + 2 <= Len(data) /\ Length # 0 /\ pos + Length <= Len(data)

ParseKeeps == UNCHANGED <<fetchVars, readVars>>

Fail(why) == pc' = "read" /\ result' = why

SaveNothing == saved

\* Endpoints and extra go to the interface that ends, which joins the map.
SaveCurrent == IF cur = NoAlt THEN saved ELSE Append(saved, cur)

parseTooShort ==
    /\ pc = "parse" /\ Len(data) < 9
    /\ Fail("short")
    /\ UNCHANGED <<pos, cur, saved, cextra>> /\ ParseKeeps

Parsing(type) == pc = "parse" /\ Len(data) >= 9 /\ MoreToParse /\ type

\* case USB_DT_INTERFACE
parseInterface ==
    /\ Parsing(Type = INTERFACE)
    /\ saved' = SaveCurrent
    /\ \/ Length < 9 /\ Fail("error") /\ cur' = NoAlt /\ UNCHANGED pos
       \/ /\ Length >= 9
          /\ cur' = [NoAlt EXCEPT !.at = pos]
          /\ pos' = pos + Length
          /\ UNCHANGED <<pc, result>>
    /\ UNCHANGED cextra /\ ParseKeeps

\* The next descriptor is a companion that lies in the data and is complete.
CompanionAt(next) ==
    /\ next + 2 <= Len(data) /\ Byte(data, next + 1) = COMPANION
    /\ next + Byte(data, next) <= Len(data) /\ Byte(data, next) >= 6

\* case USB_DT_ENDPOINT within an interface
parseEndpoint ==
    /\ Parsing(Type = ENDPOINT /\ cur # NoAlt)
    /\ LET next == pos + Length IN
         \/ Length < 7 /\ Fail("error") /\ UNCHANGED <<cur, pos>>
         \/ /\ Length >= 7
            /\ cur' = [cur EXCEPT !.eps = Append(@, [at |-> pos,
                 comp |-> IF CompanionAt(next) THEN next ELSE NoCompanion])]
            /\ pos' = next + IF CompanionAt(next) THEN Byte(data, next) ELSE 0
            /\ UNCHANGED <<pc, result>>
    /\ UNCHANGED <<saved, cextra>> /\ ParseKeeps

\* Everything else goes to the extra bytes of the interface, or of the
\* configuration before the first interface.
parseExtra ==
    /\ Parsing(Type # INTERFACE /\ (Type = ENDPOINT => cur = NoAlt))
    /\ IF cur # NoAlt
         THEN cur' = [cur EXCEPT !.extra = Append(@, pos)] /\ UNCHANGED cextra
         ELSE cextra' = Append(cextra, pos) /\ UNCHANGED cur
    /\ pos' = pos + Length
    /\ UNCHANGED <<pc, result, saved>> /\ ParseKeeps

\* The loop ends: the last interface is saved.
parseEnd ==
    /\ pc = "parse" /\ Len(data) >= 9 /\ ~MoreToParse
    /\ saved' = SaveCurrent
    /\ pc' = "read" /\ result' = "ok"
    /\ UNCHANGED <<pos, cur, cextra>> /\ ParseKeeps

Unmarshal == parseTooShort \/ parseInterface \/ parseEndpoint \/ parseExtra \/ parseEnd
-----------------------------------------------------------------------------
(* The parsed configuration                                                *)

InterfaceNumber(a) == Byte(data, a.at + 2)
AlternateSetting(a) == Byte(data, a.at + 3)
EndpointAddr(e) == Byte(data, e.at + 2)

\* for i := uint8(0); i < 255: the numbers that reach c.Interfaces
Listed == 0..254

\* c.Interfaces[...].AltSettings of one number, as positions in saved
AltSettings(n) == {i \in DOMAIN saved : n \in Listed /\ InterfaceNumber(saved[i]) = n}

\* The first of the elements that match, or none.
FirstOf(s, match) == IF match = {} THEN {} ELSE {s[CHOOSE i \in match : \A j \in match : i <= j]}

InterfaceAltSetting(n, alt) ==
    FirstOf(saved, {i \in AltSettings(n) : AlternateSetting(saved[i]) = alt})

EndpointsAt(a, addr) == FirstOf(a.eps, {k \in DOMAIN a.eps : EndpointAddr(a.eps[k]) = addr})

\* The order of c.Interfaces: by number, then as they were added.
Before(i, j) ==
    \/ InterfaceNumber(saved[i]) < InterfaceNumber(saved[j])
    \/ InterfaceNumber(saved[i]) = InterfaceNumber(saved[j]) /\ i <= j

ListedAlts == {i \in DOMAIN saved : InterfaceNumber(saved[i]) \in Listed}

FindEndpoint(addr) ==
    LET has == {i \in ListedAlts : EndpointsAt(saved[i], addr) # {}}
    IN  UNION {EndpointsAt(saved[i], addr) : i \in {k \in has : \A j \in has : Before(k, j)}}

\* SSEndpointCompanionDescriptor: Endpoint.Extra is never filled, so only the
\* companion that Unmarshal attached is found.
SSEndpointCompanion(n, alt, addr) ==
    {e.comp : e \in UNION {EndpointsAt(a, addr) : a \in InterfaceAltSetting(n, alt)}} \ {NoCompanion}
-----------------------------------------------------------------------------
(* ReadConfigDescriptor                                                    *)

\* Linux asks for BufLen bytes at once, Windows for what RawConfigDescriptor gets.
Buf == IF os = "linux" THEN Answer(BufLen) ELSE data
RTotal == Word(Buf, 2)
RLength == Byte(Buf, rpos)
RType == Byte(Buf, rpos + 1)
MinLength == IF os = "windows" THEN 2 ELSE 0

readStart ==
    /\ pc = "read" /\ os # "darwin" /\ Len(Buf) >= 9
    /\ pc' = "reading" /\ rpos' = Byte(Buf, 0)
    /\ UNCHANGED <<fetchVars, parseVars, rifs, reps>>

\* The fetch failed, or what it got is no configuration.
readRefused ==
    /\ pc = "read" /\ pc' = "returned"
    /\ IF os = "darwin" THEN result # "ok" ELSE Len(Buf) < 9
    /\ UNCHANGED <<fetchVars, parseVars, readVars>>

\* macOS: the parsed configuration in the order of c.Interfaces.
readFlatten ==
    /\ pc = "read" /\ os = "darwin" /\ result = "ok"
    /\ \E order \in SetToSeqs(ListedAlts) :
         /\ \A i, j \in DOMAIN order : i < j => Before(order[i], order[j])
         /\ rifs' = [i \in DOMAIN order |-> saved[order[i]].at]
         /\ reps' = FlattenSeq([i \in DOMAIN order |->
                      [j \in DOMAIN saved[order[i]].eps |-> saved[order[i]].eps[j].at]])
    /\ pc' = "returned"
    /\ UNCHANGED <<fetchVars, parseVars, rpos>>

Complete(n) == RLength >= n

\* A descriptor of length 0 does not move the position.
Advance == rpos + RLength

Reading == /\ rpos < RTotal /\ rpos + 2 <= Len(Buf)
           /\ RLength >= MinLength /\ rpos + RLength <= Len(Buf)

\* One round: a complete interface or endpoint is listed, the rest is skipped.
readDescriptor ==
    /\ pc = "reading" /\ Reading
    /\ rifs' = IF RType = INTERFACE /\ Complete(9) THEN Append(rifs, rpos) ELSE rifs
    /\ reps' = IF RType = ENDPOINT /\ Complete(7) THEN Append(reps, rpos) ELSE reps
    /\ rpos' = Advance
    /\ UNCHANGED <<fetchVars, pc, parseVars>>

readReturn ==
    /\ pc = "reading" /\ ~Reading
    /\ pc' = "returned"
    /\ UNCHANGED <<fetchVars, parseVars, readVars>>

ReadConfigDescriptor == readStart \/ readRefused \/ readFlatten \/ readDescriptor \/ readReturn
-----------------------------------------------------------------------------
Init ==
    /\ dev \in Blobs /\ os \in {"linux", "windows", "darwin"}
    /\ pc = "fetch" /\ data = <<>> /\ pos = 9 /\ cur = NoAlt /\ saved = <<>> /\ cextra = <<>>
    /\ result = "none"
    /\ rpos = 0 /\ rifs = <<>> /\ reps = <<>>

Next == fetch \/ Unmarshal \/ ReadConfigDescriptor

Spec == Init /\ [][Next]_vars

\* A parser that can go on does.
FairSpec == Spec /\ WF_vars(Next)
-----------------------------------------------------------------------------
(* Properties                                                              *)

\* Every variable stays in its domain.
TypeOK ==
    /\ Len(dev) >= 9 /\ os \in {"linux", "windows", "darwin"}
    /\ pc \in {"fetch", "parse", "read", "reading", "returned"}
    /\ result \in {"none", "ok", "error", "short", "panic"}
    /\ pos = 9 \/ pos \in 9..Len(data)
    /\ rpos \in 0..(Len(Buf) + 255)
    /\ \A i \in DOMAIN cextra : cextra[i] \in 9..Len(data)
    /\ cur.at < Len(data) + 1

\* The fields that were read belong to the descriptor they were read from, and
\* lie in the data: an interface has 9 bytes, an endpoint 7, a companion 6.
FieldsInDescriptor ==
    LET Has(at, n) == Byte(data, at) >= n /\ at + n <= Len(data) IN
      \A a \in ToSet(saved) \cup ({cur} \ {NoAlt}) :
        /\ Has(a.at, 9)
        /\ \A e \in ToSet(a.eps) :
             Has(e.at, 7) /\ (e.comp # NoCompanion => Has(e.comp, 6))

\* The reference: the offsets that a walk over d from start comes to, while whole
\* descriptors of the least length or more follow each other.
Whole(d, p, least) == p + 2 <= Len(d) /\ Byte(d, p) >= least /\ p + Byte(d, p) <= Len(d)

Behind(d, p, least) == IF Whole(d, p, least) THEN p + Byte(d, p) ELSE p

Walk(d, start, least) ==
    LET at[k \in 0..Len(d)] == IF k = 0 THEN start ELSE Behind(d, at[k - 1], least)
    IN  {at[k] : k \in 0..Len(d)}

\* Where the descriptors of a configuration are.
Starts(d) == {p \in Walk(d, 9, 1) : Whole(d, p, 1)}

Alts == ToSet(saved)
Endpoints == UNION {ToSet(a.eps) : a \in Alts}
Places(eps) == {e.at : e \in eps}
Companions == {e.comp : e \in Endpoints} \ {NoCompanion}
Extras == UNION {ToSet(a.extra) : a \in Alts}

Ascending(s) == \A i, j \in DOMAIN s : i < j => s[i] < s[j]

\* a is the last interface before p.
LastBefore(a, p) == a.at < p /\ \A b \in Alts : b.at < p => b.at <= a.at

\* Every descriptor of the data is in the result once and only once: as an
\* interface, an endpoint, the companion of the endpoint before it, or among the
\* extra bytes, all of them in the order of the data. Endpoints and extra bytes
\* belong to the last interface before them, or to the configuration if there is
\* none.
NothingLostOrDoubled ==
    pc \in {"read", "reading", "returned"} /\ result = "ok" =>
      LET ifs == {a.at : a \in Alts}
          eps == Places(Endpoints)
      IN  /\ Starts(data) = ifs \cup eps \cup Companions \cup Extras \cup ToSet(cextra)
          /\ ifs \cap (eps \cup Companions \cup Extras) = {}
          /\ eps \cap (Companions \cup Extras) = {} /\ Companions \cap Extras = {}
          /\ \A i, j \in DOMAIN saved : i < j => saved[i].at < saved[j].at
          /\ Ascending(cextra) /\ \A a \in Alts, p \in ToSet(cextra) : p < a.at
          /\ \A a \in Alts :
               /\ Ascending(a.extra) /\ \A i, j \in DOMAIN a.eps : i < j => a.eps[i].at < a.eps[j].at
               /\ \A p \in Places(ToSet(a.eps)) \cup ToSet(a.extra) : LastBefore(a, p)
          /\ \A e \in Endpoints : e.comp # NoCompanion => e.comp = e.at + Byte(data, e.at)

\* What the lookups return is what the data holds: an interface is found by
\* number and alternate setting if there is one, an endpoint by its address, and
\* the companion of an endpoint that the first two find, if one follows it.
\* Interface number 255 is parsed but not listed.
LookupsComplete ==
    pc = "returned" /\ result = "ok" =>
      \A a \in Alts : InterfaceNumber(a) # 255 =>
        LET found == InterfaceAltSetting(InterfaceNumber(a), AlternateSetting(a)) IN
        /\ \E b \in found : /\ b.at <= a.at /\ InterfaceNumber(b) = InterfaceNumber(a)
                            /\ AlternateSetting(b) = AlternateSetting(a)
        /\ \A e \in ToSet(a.eps) :
             /\ \E f \in FindEndpoint(EndpointAddr(e)) : EndpointAddr(f) = EndpointAddr(e)
             /\ a \in found /\ e \in EndpointsAt(a, EndpointAddr(e)) =>
                  SSEndpointCompanion(InterfaceNumber(a), AlternateSetting(a), EndpointAddr(e))
                    = {e.comp} \ {NoCompanion}

\* The two parsers list the same interfaces and endpoints when the device sends
\* all it announces, it fits the buffer, and Unmarshal accepts it. (A descriptor
\* of length 1 ends the Windows parser only; the Linux parser takes a last
\* descriptor that is cut off for one with zeros; macOS does not list interface
\* 255.)
ParsersAgree ==
    /\ pc = "returned" /\ result = "ok" /\ Byte(dev, 0) = 9 /\ Len(dev) = TotalLength
    /\ os = "linux" =>
         /\ Len(dev) <= BufLen
         /\ \A p \in Walk(data, 9, 1) : p + 2 <= Len(data) => p + Byte(data, p) <= Len(data)
    /\ os = "windows" => \A p \in Starts(data) : Byte(data, p) # 1
    => LET alts == {a \in Alts : os = "darwin" => InterfaceNumber(a) # 255} IN
         /\ ToSet(rifs) = {a.at : a \in alts}
         /\ {p \in ToSet(reps) : \E a \in Alts : a.at < p}
              = UNION {Places(ToSet(a.eps)) : a \in alts}

\* ReadConfigDescriptor comes to an end if no descriptor of length 0 stops it.
ReadReturns ==
    pc = "reading" ~> \/ pc = "returned"
                      \/ os = "linux" /\ rpos < RTotal /\ RLength = 0

\* Unmarshal comes to an end whatever the device sends: each round leaves the
\* descriptor it read behind.
ParseAdvances == [][pc = "parse" /\ pc' = "parse" => pos' > pos]_vars
=============================================================================
