--------------------------- MODULE DarwinWatchProofs --------------------------
(***************************************************************************)
(* Proofs about the hotplug watch of the macOS backend, for any finite set *)
(* of ports, any number of services and any filter: the user is told of    *)
(* what is connected, and the watch implements the contract of hotplug.go. *)
(***************************************************************************)
EXTENDS MCDarwin, SequenceTheorems, FiniteSetTheorems, TLAPS

USE WatchConstants DEF W!ConstantsAssumption
-------------------------------------------------------------------------------
(* Sequences of services                                                   *)

Listed(q) == {q[i] : i \in 1..Len(q)}

\* The services of one port are in the order of their connections.
Sorted(q) ==
    \A i, j \in 1..Len(q) : i < j /\ W!Loc(q[i]) = W!Loc(q[j]) => q[i][2] < q[j][2]

Arrived == Listed(wIter["arrival"])
Left == Listed(wIter["terminated"])
-------------------------------------------------------------------------------
(* The inductive invariant                                                 *)

\* What the registration owns at each of its steps, who runs, and what is still empty.
Control ==
    /\ wRegPc = "port" => wHeld = {}
    /\ wRegPc = "match" => wHeld = {"mode", "port"}
    /\ wRegPc = "addArrival" => wHeld = {"mode", "port", "matchArrival", "matchTerminated"}
    /\ wRegPc = "addTerminated" => wHeld = {"mode", "port", "matchTerminated", "arrival"}
    /\ wRegPc = "failed" => wHeld \in {{}, {"matchArrival"}, {"matchTerminated"}}
    /\ wRegPc = "returned" /\ wPpc # "exited" => W!Kinds \subseteq wHeld
    /\ wRegPc = "returned" => wHeld \cap W!Dictionaries = {}
    /\ wPpc = "exited" => wHeld = {}
    /\ wPpc = "none" <=> wRegPc # "returned"
    /\ wDoneClosed = TRUE <=> wPpc = "exited"
    /\ wDpc = "returned" => wPpc = "exited"
    /\ wPpc = "none" => wIter["terminated"] = <<>>

NothingTold ==
    wPpc \in {"none", "start"} =>
        /\ wView = {} /\ wArmed = {}
        /\ \A l \in Locations : wSeen[l] = W!NoService

CallbackOf(k) == IF k = "arrival" THEN "arrivalCB" ELSE "terminatedCB"

\* The first drain of k's iterator is over.
Watching(k) ==
    wPpc \in {"check", "enter", "run", "arrivalCB", "terminatedCB", "cleanup"}
              \cup (IF k = "arrival" THEN {"firstTerminations"} ELSE {})

\* A notification is armed only when its iterator is empty, and one that is not has
\* sent a message or is being drained.
Signals ==
    \A k \in W!Kinds :
        /\ k \in wArmed => wIter[k] = <<>>
        /\ Watching(k) => \/ k \in wArmed
                          \/ k \in Listed(wMessages)
                          \/ wPpc = CallbackOf(k)

\* A port has one device at a time; services are numbered as they come, and those still
\* to be told are newer than those that were; seen holds services that were told; what
\* is connected is the latest at its port.
Order ==
    /\ \A s, t \in wPresent : W!Loc(s) = W!Loc(t) => s = t
    /\ \A s \in wPresent \cup wView \cup Arrived \cup Left : s[2] <= wPlugs
    /\ Sorted(wIter["arrival"]) /\ Sorted(wIter["terminated"])
    /\ \A s \in wPresent, t \in Arrived : W!Loc(s) = W!Loc(t) => t[2] <= s[2]
    /\ \A s \in wPresent, t \in Left : W!Loc(s) = W!Loc(t) => t[2] < s[2]
    /\ \A s \in wView, t \in Arrived : W!Loc(s) = W!Loc(t) => s[2] < t[2]
    /\ \A l \in Locations :
         wSeen[l] # W!NoService => wSeen[l] \in wView /\ W!Loc(wSeen[l]) = l

\* Every service at port l that the watch knows of is connected or will be terminated,
\* and it knows of the one that is connected; seen has the latest that was told there.
Ledger(l) ==
    /\ \A s \in Arrived \cup wView : W!Loc(s) = l => s \in wPresent \cup Left
    /\ \A s \in wPresent \cap W!Matching : W!Loc(s) = l => s \in Arrived \cup wView
    /\ \A s \in wView : W!Loc(s) = l =>
         /\ wSeen[l] # W!NoService
         /\ s # wSeen[l] => s[2] < wSeen[l][2] /\ s \in Left

\* No termination was missed at port l, and arrivals are being collected.
Listening(l) == l \notin wMissed /\ "arrival" \in wHeld

WatchInv == /\ W!TypeOK /\ Control /\ NothingTold /\ Signals /\ Order
            /\ \A l \in Locations : Listening(l) => Ledger(l)
-------------------------------------------------------------------------------
(* Lemmas about sequences                                                  *)

LEMMA ListedAppend ==
  ASSUME NEW S, NEW q \in Seq(S), NEW e \in S
  PROVE  /\ Append(q, e) \in Seq(S)
         /\ Listed(Append(q, e)) = Listed(q) \cup {e}
<1>1. /\ Append(q, e) \in Seq(S) /\ Len(Append(q, e)) = Len(q) + 1
      /\ \A i \in 1..Len(q) : Append(q, e)[i] = q[i]
      /\ Append(q, e)[Len(q) + 1] = e
  BY AppendProperties
<1>2. Len(q) \in Nat
  OBVIOUS
<1>3. 1..Len(Append(q, e)) = 1..Len(q) \cup {Len(q) + 1}
  BY <1>1, <1>2
<1>4. QED
  BY <1>1, <1>3 DEF Listed

LEMMA SortedAppend ==
  ASSUME NEW S, NEW q \in Seq(S), NEW e \in S, Sorted(q),
         \A s \in Listed(q) : W!Loc(s) = W!Loc(e) => s[2] < e[2]
  PROVE  Sorted(Append(q, e))
<1>1. /\ Len(Append(q, e)) = Len(q) + 1
      /\ \A i \in 1..Len(q) : Append(q, e)[i] = q[i]
      /\ Append(q, e)[Len(q) + 1] = e
  BY AppendProperties
<1>2. Len(q) \in Nat
  OBVIOUS
<1> SUFFICES ASSUME NEW i \in 1..Len(q) + 1, NEW j \in 1..Len(q) + 1, i < j,
                    W!Loc(Append(q, e)[i]) = W!Loc(Append(q, e)[j])
             PROVE  Append(q, e)[i][2] < Append(q, e)[j][2]
  BY <1>1 DEF Sorted
<1>3. i \in 1..Len(q) /\ q[i] \in Listed(q)
  BY <1>2 DEF Listed
<1>4. CASE j \in 1..Len(q)
  BY <1>1, <1>3, <1>4 DEF Sorted
<1>5. CASE j = Len(q) + 1
  BY <1>1, <1>3, <1>5
<1>6. QED
  BY <1>2, <1>4, <1>5

LEMMA ListedTail ==
  ASSUME NEW S, NEW q \in Seq(S), q # <<>>
  PROVE  /\ Head(q) \in S /\ Tail(q) \in Seq(S)
         /\ Listed(q) = Listed(Tail(q)) \cup {Head(q)}
<1>1. /\ Head(q) \in S /\ Tail(q) \in Seq(S) /\ Len(Tail(q)) = Len(q) - 1
      /\ \A i \in 1..Len(Tail(q)) : Tail(q)[i] = q[i + 1]
  BY HeadTailProperties
<1>2. Len(q) \in Nat /\ Len(q) > 0 /\ Head(q) = q[1]
  OBVIOUS
<1>3. ASSUME NEW s \in Listed(q) PROVE s \in Listed(Tail(q)) \cup {Head(q)}
  <2>1. PICK i \in 1..Len(q) : s = q[i]
    BY DEF Listed
  <2>2. CASE i = 1
    BY <1>2, <2>1, <2>2
  <2>3. CASE i # 1
    <3>1. i - 1 \in 1..Len(Tail(q)) /\ (i - 1) + 1 = i
      BY <1>1, <1>2, <2>3
    <3>2. Tail(q)[i - 1] = s
      BY <1>1, <2>1, <3>1
    <3>3. QED
      BY <3>1, <3>2 DEF Listed
  <2>4. QED
    BY <2>2, <2>3
<1>4. ASSUME NEW s \in Listed(Tail(q)) PROVE s \in Listed(q)
  <2>1. PICK i \in 1..Len(Tail(q)) : s = Tail(q)[i]
    BY DEF Listed
  <2>2. i + 1 \in 1..Len(q)
    BY <1>1, <1>2
  <2>3. QED
    BY <1>1, <2>1, <2>2 DEF Listed
<1>5. Head(q) \in Listed(q)
  BY <1>2 DEF Listed
<1>6. QED
  BY <1>1, <1>3, <1>4, <1>5

LEMMA SortedTail ==
  ASSUME NEW S, NEW q \in Seq(S), q # <<>>, Sorted(q)
  PROVE  /\ Sorted(Tail(q))
         /\ \A s \in Listed(Tail(q)) : W!Loc(s) = W!Loc(Head(q)) => Head(q)[2] < s[2]
<1>1. /\ Len(Tail(q)) = Len(q) - 1
      /\ \A i \in 1..Len(Tail(q)) : Tail(q)[i] = q[i + 1]
  BY HeadTailProperties
<1>2. Len(q) \in Nat /\ Len(q) > 0 /\ Head(q) = q[1]
  OBVIOUS
<1>3. \A i \in 1..Len(Tail(q)) : i + 1 \in 1..Len(q) /\ 1 < i + 1
  BY <1>1, <1>2
<1>4. Sorted(Tail(q))
  <2> SUFFICES ASSUME NEW i \in 1..Len(Tail(q)), NEW j \in 1..Len(Tail(q)), i < j,
                      W!Loc(Tail(q)[i]) = W!Loc(Tail(q)[j])
               PROVE  Tail(q)[i][2] < Tail(q)[j][2]
    BY DEF Sorted
  <2>1. i + 1 \in 1..Len(q) /\ j + 1 \in 1..Len(q) /\ i + 1 < j + 1
    BY <1>3
  <2>2. Tail(q)[i] = q[i + 1] /\ Tail(q)[j] = q[j + 1]
    BY <1>1
  <2>3. QED
    BY <2>1, <2>2 DEF Sorted
<1>5. ASSUME NEW s \in Listed(Tail(q)), W!Loc(s) = W!Loc(Head(q))
      PROVE  Head(q)[2] < s[2]
  <2>1. PICK i \in 1..Len(Tail(q)) : s = Tail(q)[i]
    BY DEF Listed
  <2>2. i + 1 \in 1..Len(q) /\ 1 \in 1..Len(q) /\ 1 < i + 1 /\ s = q[i + 1]
    BY <1>1, <1>2, <1>3, <2>1
  <2>3. W!Loc(q[1]) = W!Loc(q[i + 1])
    BY <1>2, <1>5, <2>2
  <2>4. QED
    BY <1>2, <2>2, <2>3 DEF Sorted
<1>6. QED
  BY <1>4, <1>5

LEMMA ListedEmpty == Listed(<<>>) = {} /\ Sorted(<<>>)
  BY DEF Listed, Sorted
-------------------------------------------------------------------------------
(* Effects of the steps on the iterators                                   *)

\* IOIteratorNext
LEMMA Fetch ==
  ASSUME W!PortType, NEW k \in W!Kinds, wIter[k] # <<>>,
         wIter' = [wIter EXCEPT ![k] = Tail(@)]
  PROVE  /\ Head(wIter[k]) \in W!Services
         /\ wIter' \in [W!Kinds -> Seq(W!Services)]
         /\ Listed(wIter[k]) = Listed(wIter'[k]) \cup {Head(wIter[k])}
         /\ Sorted(wIter[k]) =>
              /\ Sorted(wIter'[k])
              /\ \A s \in Listed(wIter'[k]) :
                   W!Loc(s) = W!Loc(Head(wIter[k])) => Head(wIter[k])[2] < s[2]
         /\ \A j \in W!Kinds \ {k} : wIter'[j] = wIter[j]
<1>1. wIter[k] \in Seq(W!Services)
  BY DEF W!PortType
<1>2. wIter'[k] = Tail(wIter[k]) /\ \A j \in W!Kinds \ {k} : wIter'[j] = wIter[j]
  BY DEF W!PortType
<1>3. /\ Head(wIter[k]) \in W!Services /\ Tail(wIter[k]) \in Seq(W!Services)
      /\ Listed(wIter[k]) = Listed(Tail(wIter[k])) \cup {Head(wIter[k])}
  BY <1>1, ListedTail
<1>4. wIter' \in [W!Kinds -> Seq(W!Services)]
  BY <1>3 DEF W!PortType
<1>5. ASSUME Sorted(wIter[k])
      PROVE  /\ Sorted(Tail(wIter[k]))
             /\ \A s \in Listed(Tail(wIter[k])) :
                  W!Loc(s) = W!Loc(Head(wIter[k])) => Head(wIter[k])[2] < s[2]
  BY <1>1, <1>5, SortedTail
<1>6. QED
  BY <1>2, <1>3, <1>4, <1>5

\* A service is appended to the iterator of a notification that has been added.
LEMMA NotifyAppends ==
  ASSUME W!PortType, NEW k \in W!Kinds, NEW s \in W!Services, W!Notify(k, s)
  PROVE  /\ W!PortType'
         /\ k \in wHeld => /\ Listed(wIter'[k]) = Listed(wIter[k]) \cup {s}
                           /\ Sorted(wIter[k])
                                /\ (\A t \in Listed(wIter[k]) :
                                      W!Loc(t) = W!Loc(s) => t[2] < s[2])
                                => Sorted(wIter'[k])
         /\ k \notin wHeld => wIter'[k] = wIter[k]
         /\ \A j \in W!Kinds \ {k} : wIter'[j] = wIter[j]
<1>1. wIter[k] \in Seq(W!Services) /\ wMessages \in Seq(W!Kinds)
  BY DEF W!PortType
<1>2. /\ Append(wIter[k], s) \in Seq(W!Services)
      /\ Listed(Append(wIter[k], s)) = Listed(wIter[k]) \cup {s}
  BY <1>1, ListedAppend
<1>3. Append(wMessages, k) \in Seq(W!Kinds)
  BY <1>1, ListedAppend
<1>4. CASE k \in wHeld
  <2>1. wIter' = [wIter EXCEPT ![k] = Append(@, s)]
    BY <1>4 DEF W!Notify
  <2>2. /\ wIter' \in [W!Kinds -> Seq(W!Services)] /\ wIter'[k] = Append(wIter[k], s)
        /\ \A j \in W!Kinds \ {k} : wIter'[j] = wIter[j]
    BY <1>2, <2>1 DEF W!PortType
  <2>3. W!PortType'
    BY <1>3, <2>2 DEF W!Notify, W!PortType
  <2>4. ASSUME Sorted(wIter[k]),
               \A t \in Listed(wIter[k]) : W!Loc(t) = W!Loc(s) => t[2] < s[2]
        PROVE  Sorted(Append(wIter[k], s))
    BY <1>1, <2>4, SortedAppend
  <2>5. QED
    BY <1>2, <1>4, <2>2, <2>3, <2>4
<1>5. CASE k \notin wHeld
  <2>1. wIter' = wIter
    BY <1>5 DEF W!Notify
  <2>2. W!PortType'
    BY <1>3, <2>1 DEF W!Notify, W!PortType
  <2>3. QED
    BY <1>5, <2>1, <2>2
<1>6. QED
  BY <1>4, <1>5

LEMMA SameCardinality ==
  ASSUME NEW S PROVE W!Cardinality(S) = Cardinality(S) /\ W!IsFiniteSet(S) = IsFiniteSet(S)
  BY DEF W!Cardinality, Cardinality, W!IsFiniteSet, IsFiniteSet

LEMMA PresentFinite ==
  ASSUME W!RegistryType
  PROVE  IsFiniteSet(wPresent) /\ W!Cardinality(wPresent) \in Nat
<1>1. IsFiniteSet(Locations)
  BY SameCardinality
<1>2. IsFiniteSet(1..MaxPlugs)
  BY FS_Interval
<1>3. IsFiniteSet(W!Services)
  BY <1>1, <1>2, FS_Product DEF W!Services
<1>4. IsFiniteSet(wPresent)
  BY <1>3, FS_Subset DEF W!RegistryType
<1>5. QED
  BY <1>4, SameCardinality, FS_CardinalityType

\* IOServiceAddMatchingNotification lists each service that is connected, once.
LEMMA Snapshot ==
  ASSUME W!RegistryType, NEW q \in [1..W!Cardinality(wPresent) -> wPresent],
         \A s \in wPresent : \E i \in DOMAIN q : q[i] = s
  PROVE  /\ q \in Seq(W!Services) /\ Listed(q) = wPresent
         /\ (\A s, t \in wPresent : W!Loc(s) = W!Loc(t) => s = t) => Sorted(q)
<1> DEFINE n == W!Cardinality(wPresent)
<1>1. n \in Nat /\ n = Cardinality(wPresent)
  BY PresentFinite, SameCardinality
<1>2. wPresent \subseteq W!Services
  BY DEF W!RegistryType
<1>3. q \in Seq(W!Services) /\ Len(q) = n /\ DOMAIN q = 1..n
  BY <1>1, <1>2
<1>4. Listed(q) = wPresent
  BY <1>3 DEF Listed
<1>5. q \in Surjection(1..n, wPresent)
  BY <1>3 DEF Surjection
<1>6. IsFiniteSet(1..n) /\ Cardinality(1..n) = n
  BY <1>1, FS_Interval
<1>7. q \in Injection(1..n, wPresent)
  BY <1>1, <1>5, <1>6, FS_SurjSameCardinalityImpliesInj
<1>8. \A i, j \in 1..n : q[i] = q[j] => i = j
  BY <1>3, <1>7 DEF Injection, IsInjective
<1>9. ASSUME \A s, t \in wPresent : W!Loc(s) = W!Loc(t) => s = t PROVE Sorted(q)
  BY <1>1, <1>3, <1>8, <1>9 DEF Sorted
<1>10. QED
  BY <1>3, <1>4, <1>9
-------------------------------------------------------------------------------
(* Types                                                                   *)

LEMMA RegisterType == ASSUME W!TypeOK, W!register PROVE W!TypeOK'
<1> USE DEF W!TypeOK, W!kitVars, W!handleVars, W!clientVars
<1>1. W!RegistryType' /\ W!ClientType'
  BY DEF W!register, W!registerPort, W!registerMatch, W!registerAddArrival, W!registerAddTerminated,
         W!registerAdd, W!RegistryType, W!ClientType
<1>2. W!HandleType'
  BY DEF W!register, W!registerPort, W!registerMatch, W!registerAddArrival, W!registerAddTerminated,
         W!registerAdd, W!HandleType
<1>3. CASE W!registerPort \/ W!registerMatch
  <2>1. wHeld' \subseteq {"mode", "port"} \cup W!Dictionaries \cup W!Kinds
    BY <1>3 DEF W!registerPort, W!registerMatch, W!PortType
  <2>2. QED
    BY <1>1, <1>2, <1>3, <2>1 DEF W!registerPort, W!registerMatch, W!PortType
<1>4. ASSUME NEW k \in W!Kinds, NEW dictionary, NEW next, W!registerAdd(k, dictionary, next)
      PROVE  W!PortType'
  <2>1. wHeld' \subseteq {"mode", "port"} \cup W!Dictionaries \cup W!Kinds
    BY <1>4 DEF W!registerAdd, W!PortType
  <2>2. wIter' \in [W!Kinds -> Seq(W!Services)]
    <3>1. CASE UNCHANGED wIter
      BY <3>1 DEF W!PortType
    <3>2. ASSUME NEW q \in [1..W!Cardinality(wPresent) -> wPresent],
                 \A s \in wPresent : \E i \in DOMAIN q : q[i] = s,
                 wIter' = [wIter EXCEPT ![k] = IF k = "arrival" THEN q ELSE <<>>]
          PROVE  wIter' \in [W!Kinds -> Seq(W!Services)]
      <4>1. q \in Seq(W!Services)
        BY <3>2, Snapshot
      <4>2. <<>> \in Seq(W!Services)
        OBVIOUS
      <4>3. QED
        BY <3>2, <4>1, <4>2 DEF W!PortType
    <3>3. QED
      BY <1>4, <3>1, <3>2 DEF W!registerAdd
  <2>3. QED
    BY <1>4, <2>1, <2>2 DEF W!registerAdd, W!PortType
<1>5. "arrival" \in W!Kinds /\ "terminated" \in W!Kinds
  BY DEF W!Kinds
<1>6. QED
  BY <1>1, <1>2, <1>3, <1>4, <1>5 DEF W!register, W!registerAddArrival,
                                      W!registerAddTerminated

LEMMA DrainType ==
  ASSUME W!TypeOK, W!drainArrivals \/ W!drainTerminations PROVE W!TypeOK'
<1> USE DEF W!TypeOK, W!handleVars
<1>1. W!RegistryType' /\ W!HandleType'
  BY DEF W!drainArrivals, W!drainTerminations, W!Drain, W!RegistryType, W!HandleType
<1>2. "arrival" \in W!Kinds /\ "terminated" \in W!Kinds
  BY DEF W!Kinds
<1>3. PICK k \in W!Kinds :
        /\ \/ W!drainArrivals /\ k = "arrival"
           \/ W!drainTerminations /\ k = "terminated"
        /\ \/ ~W!Drained(k) /\ wIter' = [wIter EXCEPT ![k] = Tail(@)] /\ UNCHANGED wArmed
           \/ W!Drained(k) /\ UNCHANGED wIter /\ wArmed' = wArmed \cup {k}
  BY <1>2 DEF W!drainArrivals, W!drainTerminations, W!Drain
<1>4. W!PortType'
  <2>1. wIter' \in [W!Kinds -> Seq(W!Services)]
    BY <1>3, Fetch DEF W!Drained, W!PortType
  <2>2. QED
    BY <1>3, <2>1 DEF W!PortType, W!drainArrivals, W!drainTerminations
<1>5. W!ClientType'
  <2>1. CASE W!Drained(k)
    BY <1>3, <2>1 DEF W!drainArrivals, W!drainTerminations, W!Drain, W!ClientType,
                      W!clientVars
  <2>2. CASE W!drainArrivals /\ k = "arrival" /\ ~W!Drained(k)
    <3>1. Head(wIter["arrival"]) \in W!Services
      BY <1>2, <2>2, Fetch, <1>3 DEF W!Drained
    <3>2. W!drainArrival
      BY <2>2 DEF W!drainArrivals, W!Drain
    <3>3. CASE UNCHANGED <<wSeen, W!clientVars, wMissed>>
      BY <3>3 DEF W!ClientType, W!clientVars
    <3>4. CASE /\ W!matches(Head(wIter["arrival"]))
               /\ W!RecordArrival(Head(wIter["arrival"]))
               /\ wView' = wView \cup {Head(wIter["arrival"])} /\ wCalls' = wCalls + 1
               /\ UNCHANGED wMissed
      <4>1. wSeen' \in [Locations -> W!Services \cup {W!NoService}]
        BY <3>1, <3>4 DEF W!ClientType, W!RecordArrival
      <4>2. wView' \subseteq W!Matching
        BY <3>1, <3>4 DEF W!ClientType, W!Matching
      <4>3. wCalls' \in Nat /\ wMissed' \subseteq Locations
        BY <3>4 DEF W!ClientType
      <4>4. QED
        BY <4>1, <4>2, <4>3 DEF W!ClientType
    <3>5. QED
      BY <3>2, <3>3, <3>4 DEF W!drainArrival
  <2>3. CASE W!drainTerminations /\ k = "terminated" /\ ~W!Drained(k)
    <3>1. W!drainTermination
      BY <2>3 DEF W!drainTerminations, W!Drain
    <3>0. W!Loc(Head(wIter["terminated"])) \in Locations
      BY <1>2, <2>3, Fetch, <1>3 DEF W!Drained, W!Loc, W!Services
    <3>2. wMissed' \subseteq Locations
      BY <3>0, <3>1 DEF W!drainTermination, W!ClientType
    <3>3. wSeen' \in [Locations -> W!Services \cup {W!NoService}]
      BY <3>1 DEF W!drainTermination, W!Delete, W!ClientType
    <3>4. wView' \subseteq W!Matching /\ wCalls' \in Nat
      BY <3>1 DEF W!drainTermination, W!ClientType, W!clientVars
    <3>5. QED
      BY <3>2, <3>3, <3>4 DEF W!ClientType
  <2>4. QED
    BY <1>3, <2>1, <2>2, <2>3
<1>6. QED
  BY <1>1, <1>4, <1>5

\* The steps that change neither what the iterators hold nor what the user was told.
Quiet == W!pumpStart \/ W!pumpCheck \/ W!pumpEnter \/ W!pumpMessage \/ W!pumpWoken
           \/ W!pumpHour \/ W!Deregister

LEMMA QuietType ==
  ASSUME W!TypeOK, Quiet
  PROVE  W!TypeOK' /\ UNCHANGED <<wPresent, wPlugs, wIter, wArmed, wHeld, wSeen, wView,
                                  wCalls, wMissed, wRegPc>>
<1> USE DEF Quiet, W!kitVars, W!handleVars, W!clientVars, W!Goto
<1>1. UNCHANGED <<wPresent, wPlugs, wIter, wArmed, wHeld, wSeen, wView, wCalls, wMissed,
                  wRegPc>>
  BY DEF W!pumpStart, W!pumpCheck, W!pumpEnter, W!pumpMessage, W!pumpWoken, W!pumpHour,
         W!Deregister, W!DeregisterMark, W!DeregisterStop, W!DeregisterJoin,
         W!DeregisterStep
<1>2. W!RegistryType' /\ W!ClientType'
  BY <1>1 DEF W!TypeOK, W!RegistryType, W!ClientType
<1>3. wMessages' \in Seq(W!Kinds)
  <2>1. wMessages' = wMessages \/ (wMessages # <<>> /\ wMessages' = Tail(wMessages))
    BY DEF W!pumpStart, W!pumpCheck, W!pumpEnter, W!pumpMessage, W!pumpWoken, W!pumpHour,
           W!Deregister, W!DeregisterMark, W!DeregisterStop, W!DeregisterJoin,
           W!DeregisterStep
  <2>2. QED
    <3>1. wMessages \in Seq(W!Kinds)
      BY DEF W!TypeOK, W!PortType
    <3>2. wMessages # <<>> => Tail(wMessages) \in Seq(W!Kinds)
      BY <3>1, ListedTail
    <3>3. QED
      BY <2>1, <3>1, <3>2
<1>4. W!PortType'
  BY <1>1, <1>3 DEF W!TypeOK, W!PortType
<1>5. W!HandleType'
  BY DEF W!TypeOK, W!HandleType, W!pumpStart, W!pumpCheck, W!pumpEnter, W!pumpMessage,
         W!pumpWoken, W!pumpHour, W!Deregister, W!DeregisterMark, W!DeregisterStop,
         W!DeregisterJoin, W!DeregisterStep, W!CFRunLoopStop
<1>6. QED
  BY <1>1, <1>2, <1>4, <1>5 DEF W!TypeOK

LEMMA NextType == ASSUME W!TypeOK, W!Next PROVE W!TypeOK'
<1> USE DEF W!TypeOK
<1>k. "arrival" \in W!Kinds /\ "terminated" \in W!Kinds
  BY DEF W!Kinds
<1>1. ASSUME NEW l \in Locations, W!PlugIn(l) PROVE W!TypeOK'
  <2>1. wPlugs + 1 \in 1..MaxPlugs /\ <<l, wPlugs + 1>> \in W!Services
    BY <1>1 DEF W!PlugIn, W!RegistryType, W!Services
  <2>2. W!RegistryType'
    BY <1>1, <2>1 DEF W!PlugIn, W!RegistryType
  <2>3. W!PortType'
    BY <1>1, <1>k, <2>1, NotifyAppends DEF W!PlugIn
  <2>4. W!HandleType' /\ W!ClientType'
    BY <1>1 DEF W!PlugIn, W!Notify, W!HandleType, W!ClientType, W!handleVars, W!clientVars
  <2>5. QED
    BY <2>2, <2>3, <2>4
<1>2. ASSUME NEW s \in wPresent, W!PullOut(s) PROVE W!TypeOK'
  <2>1. s \in W!Services
    BY DEF W!RegistryType
  <2>2. W!RegistryType'
    BY <1>2 DEF W!PullOut, W!RegistryType
  <2>3. W!PortType'
    BY <1>2, <1>k, <2>1, NotifyAppends DEF W!PullOut
  <2>4. W!Loc(s) \in Locations
    BY <2>1 DEF W!Loc, W!Services
  <2>5. W!HandleType' /\ W!ClientType'
    BY <1>2, <2>4 DEF W!PullOut, W!Notify, W!HandleType, W!ClientType, W!handleVars,
                      W!clientVars
  <2>6. QED
    BY <2>2, <2>3, <2>5
<1>3. CASE W!pumpCleanup
  <2>1. W!RegistryType' /\ W!ClientType'
    BY <1>3 DEF W!pumpCleanup, W!RegistryType, W!ClientType, W!clientVars
  <2>2. W!PortType'
    BY <1>3 DEF W!pumpCleanup, W!PortType
  <2>3. W!HandleType'
    BY <1>3 DEF W!pumpCleanup, W!HandleType
  <2>4. QED
    BY <2>1, <2>2, <2>3
<1>4. QED
  BY <1>1, <1>2, <1>3, RegisterType, DrainType, QuietType DEF W!Next, W!pump, Quiet
-------------------------------------------------------------------------------
(* Control, and the notifications that are armed                           *)

LEMMA KindsAre == W!Kinds = {"arrival", "terminated"} /\ "arrival" # "terminated"
  BY DEF W!Kinds

LEMMA NextControl == ASSUME W!TypeOK, Control, W!Next PROVE Control'
<1> USE DEF Control, W!kitVars, W!handleVars, W!clientVars
<1>1. ASSUME NEW l \in Locations, W!PlugIn(l) PROVE Control'
  <2>1. UNCHANGED <<wHeld, wRegPc, wPpc, wDoneClosed, wDpc>>
    BY <1>1 DEF W!PlugIn, W!Notify
  <2>2. wPpc = "none" => wIter'["terminated"] = wIter["terminated"]
    BY <1>1 DEF W!PlugIn, W!Notify, W!TypeOK, W!PortType, W!Kinds
  <2>3. QED
    BY <2>1, <2>2
<1>2. ASSUME NEW s \in wPresent, W!PullOut(s) PROVE Control'
  <2>1. UNCHANGED <<wHeld, wRegPc, wPpc, wDoneClosed, wDpc>>
    BY <1>2 DEF W!PullOut, W!Notify
  <2>2. wPpc = "none" => "terminated" \notin wHeld
    BY DEF W!TypeOK, W!HandleType
  <2>3. wPpc = "none" => wIter' = wIter
    BY <1>2, <2>2 DEF W!PullOut, W!Notify
  <2>4. QED
    BY <2>1, <2>3
<1>3. CASE W!registerPort
  <2>1. /\ wRegPc = "port" /\ UNCHANGED <<wIter, wPpc, wDoneClosed, wDpc>>
        /\ \/ wRegPc' = "match" /\ wHeld' = {"mode", "port"}
           \/ wRegPc' = "failed" /\ wHeld' = {}
    BY <1>3 DEF W!registerPort, W!ReleaseOnError
  <2>2. QED
    BY <2>1
<1>m. CASE W!registerMatch
  <2>1. /\ wRegPc = "match" /\ wHeld = {"mode", "port"}
        /\ UNCHANGED <<wIter, wPpc, wDoneClosed, wDpc>>
    BY <1>m DEF W!registerMatch
  <2>2. PICK made \in SUBSET W!Dictionaries :
          IF made = W!Dictionaries
          THEN wRegPc' = "addArrival" /\ wHeld' = wHeld \cup made
          ELSE wRegPc' = "failed" /\ wHeld' = (wHeld \cup made) \ W!ReleaseOnError
    BY <1>m DEF W!registerMatch
  <2>3. made # W!Dictionaries => made \in {{}, {"matchArrival"}, {"matchTerminated"}}
    BY <2>2 DEF W!Dictionaries
  <2>4. CASE made = W!Dictionaries
    BY <2>1, <2>2, <2>4 DEF W!Dictionaries
  <2>5. CASE made # W!Dictionaries
    <3>1. wHeld' = made
      BY <2>1, <2>2, <2>3, <2>5 DEF W!ReleaseOnError
    <3>2. QED
      BY <2>1, <2>2, <2>3, <2>5, <3>1
  <2>6. QED
    BY <2>4, <2>5
<1>4. CASE W!registerAddArrival
  <2>1. /\ wRegPc = "addArrival" /\ wPpc = "none"
        /\ wHeld = {"mode", "port", "matchArrival", "matchTerminated"}
        /\ UNCHANGED <<wDoneClosed, wDpc>>
    BY <1>4 DEF W!registerAddArrival, W!registerAdd
  <2>2. \/ /\ wRegPc' = "addTerminated" /\ wHeld' = (wHeld \ {"matchArrival"}) \cup {"arrival"}
           /\ wPpc' = wPpc /\ wIter'["terminated"] = wIter["terminated"]
        \/ /\ wRegPc' = "failed" /\ wHeld' = wHeld \ ({"matchArrival"} \cup W!ReleaseOnError)
           /\ UNCHANGED <<wIter, wPpc>>
    BY <1>4 DEF W!registerAddArrival, W!registerAdd, W!TypeOK, W!PortType, W!Kinds
  <2>3. \/ wRegPc' = "addTerminated" /\ wHeld' = {"mode", "port", "matchTerminated", "arrival"}
        \/ wRegPc' = "failed" /\ wHeld' = {"matchTerminated"}
    BY <2>1, <2>2 DEF W!ReleaseOnError
  <2>4. QED
    BY <2>1, <2>2, <2>3
<1>5. CASE W!registerAddTerminated
  <2>1. /\ wRegPc = "addTerminated" /\ wHeld = {"mode", "port", "matchTerminated", "arrival"}
        /\ wPpc = "none" /\ UNCHANGED <<wDoneClosed, wDpc>>
    BY <1>5 DEF W!registerAddTerminated, W!registerAdd
  <2>2. \/ /\ wRegPc' = "returned" /\ wPpc' = "start"
           /\ wHeld' = (wHeld \ {"matchTerminated"}) \cup {"terminated"}
        \/ /\ wRegPc' = "failed" /\ wHeld' = wHeld \ ({"matchTerminated"} \cup W!ReleaseOnError)
           /\ UNCHANGED <<wIter, wPpc>>
    BY <1>5 DEF W!registerAddTerminated, W!registerAdd
  <2>3. \/ wRegPc' = "returned" /\ wHeld' = {"mode", "port", "arrival", "terminated"}
        \/ wRegPc' = "failed" /\ wHeld' = {}
    BY <2>1, <2>2 DEF W!ReleaseOnError
  <2>4. QED
    BY <2>1, <2>2, <2>3 DEF W!Kinds, W!Dictionaries
<1>6. CASE W!drainArrivals \/ W!drainTerminations
  <2>1. /\ wPpc \in {"firstArrivals", "arrivalCB", "firstTerminations", "terminatedCB"}
        /\ wPpc' \in {wPpc, "check", "firstTerminations"}
        /\ UNCHANGED <<wHeld, wRegPc, wDoneClosed, wDpc>>
    BY <1>6 DEF W!drainArrivals, W!drainTerminations, W!Drain
  <2>2. QED
    BY <2>1
<1>7. CASE W!pumpStart \/ W!pumpCheck \/ W!pumpEnter \/ W!pumpMessage \/ W!pumpWoken
             \/ W!pumpHour
  <2>1. /\ wPpc \notin {"none", "exited"} /\ wPpc' \notin {"none", "exited"}
        /\ UNCHANGED <<wHeld, wRegPc, wDoneClosed, wDpc>>
    BY <1>7 DEF W!pumpStart, W!pumpCheck, W!pumpEnter, W!pumpMessage, W!pumpWoken,
                W!pumpHour, W!Goto
  <2>2. QED
    BY <2>1
<1>8. CASE W!pumpCleanup
  BY <1>8 DEF W!pumpCleanup
<1>9. CASE W!Deregister
  <2>1. UNCHANGED <<wHeld, wRegPc, wPpc, wDoneClosed, wIter>>
    BY <1>9 DEF W!Deregister, W!DeregisterMark, W!DeregisterStop, W!DeregisterJoin,
                W!DeregisterStep
  <2>2. wDpc' = "returned" => wDoneClosed
    BY <1>9 DEF W!Deregister, W!DeregisterMark, W!DeregisterStop, W!DeregisterJoin,
                W!DeregisterStep, W!DoneReceived
  <2>3. QED
    BY <2>1, <2>2 DEF W!TypeOK, W!HandleType
<1>10. QED
  BY <1>1, <1>2, <1>3, <1>m, <1>4, <1>5, <1>6, <1>7, <1>8, <1>9 DEF W!Next, W!register, W!pump

LEMMA NextNothingTold ==
  ASSUME W!TypeOK, Control, NothingTold, W!Next PROVE NothingTold'
<1> USE DEF NothingTold, W!kitVars, W!handleVars, W!clientVars
<1>1. ASSUME \/ \E l \in Locations : W!PlugIn(l)
             \/ \E s \in wPresent : W!PullOut(s)
      PROVE  NothingTold'
  <2>1. wArmed' \subseteq wArmed /\ UNCHANGED <<wPpc, wView, wSeen>>
    BY <1>1 DEF W!PlugIn, W!PullOut, W!Notify
  <2>2. QED
    BY <2>1
<1>2. CASE W!register
  <2>1. wPpc = "none" /\ UNCHANGED <<wArmed, wView, wSeen>>
    BY <1>2 DEF W!register, W!registerPort, W!registerMatch, W!registerAddArrival, W!registerAddTerminated,
                W!registerAdd, Control
  <2>2. QED
    BY <2>1
<1>3. CASE W!pump
  BY <1>3 DEF W!pump, W!pumpStart, W!drainArrivals, W!drainTerminations, W!Drain,
              W!pumpCheck, W!pumpEnter, W!pumpMessage, W!pumpWoken, W!pumpHour,
              W!pumpCleanup, W!Goto
<1>4. CASE W!Deregister
  BY <1>4 DEF W!Deregister, W!DeregisterMark, W!DeregisterStop, W!DeregisterJoin,
              W!DeregisterStep
<1>5. QED
  BY <1>1, <1>2, <1>3, <1>4 DEF W!Next

LEMMA NextSignals ==
  ASSUME W!TypeOK, Control, NothingTold, Signals, W!Next PROVE Signals'
<1> USE DEF W!kitVars, W!handleVars, W!clientVars
<1>t. wMessages \in Seq(W!Kinds)
  BY DEF W!TypeOK, W!PortType
<1>n. ASSUME NEW k \in W!Kinds, NEW s \in W!Services, W!Notify(k, s) PROVE Signals'
  <2> SUFFICES ASSUME NEW j \in W!Kinds
               PROVE  /\ j \in wArmed' => wIter'[j] = <<>>
                      /\ Watching(j)' => \/ j \in wArmed'
                                         \/ j \in Listed(wMessages')
                                         \/ wPpc' = CallbackOf(j)
    BY DEF Signals
  <2>1. wArmed' = wArmed \ {k} /\ wPpc' = wPpc
    BY <1>n DEF W!Notify
  <2>2. Watching(j)' <=> Watching(j)
    BY <2>1 DEF Watching
  <2>3. Listed(wMessages) \subseteq Listed(wMessages')
        /\ (k \in wArmed => k \in Listed(wMessages'))
    BY <1>t, <1>n, ListedAppend DEF W!Notify
  <2>4. j # k => wIter'[j] = wIter[j]
    BY <1>n, NotifyAppends DEF W!TypeOK
  <2>5. QED
    BY <2>1, <2>2, <2>3, <2>4 DEF Signals
<1>1. ASSUME NEW l \in Locations, W!PlugIn(l) PROVE Signals'
  <2>1. <<l, wPlugs + 1>> \in W!Services
    BY <1>1 DEF W!PlugIn, W!TypeOK, W!RegistryType, W!Services
  <2>2. QED
    BY <1>1, <1>n, <2>1, KindsAre DEF W!PlugIn
<1>2. ASSUME NEW s \in wPresent, W!PullOut(s) PROVE Signals'
  <2>1. s \in W!Services
    BY DEF W!TypeOK, W!RegistryType
  <2>2. QED
    BY <1>2, <1>n, <2>1, KindsAre DEF W!PullOut
<1>3. CASE W!register
  <2>1. wPpc = "none" /\ wPpc' \in {"none", "start"} /\ wArmed' = {}
    BY <1>3 DEF W!register, W!registerPort, W!registerMatch, W!registerAddArrival, W!registerAddTerminated,
                W!registerAdd, Control, NothingTold
  <2>2. QED
    BY <2>1 DEF Signals, Watching
<1>4. ASSUME NEW k \in W!Kinds,
             \/ W!drainArrivals /\ k = "arrival"
             \/ W!drainTerminations /\ k = "terminated"
      PROVE  Signals'
  <2>1. /\ \/ /\ wIter[k] # <<>> /\ wIter' = [wIter EXCEPT ![k] = Tail(@)]
              /\ UNCHANGED <<wArmed, wPpc>>
           \/ /\ wIter[k] = <<>> /\ UNCHANGED wIter /\ wArmed' = wArmed \cup {k}
              /\ wPpc' = IF k = "arrival" /\ wPpc = "firstArrivals"
                         THEN "firstTerminations" ELSE "check"
        /\ UNCHANGED wMessages
        /\ wPpc \in IF k = "arrival" THEN {"firstArrivals", "arrivalCB"}
                                     ELSE {"firstTerminations", "terminatedCB"}
    BY <1>4, KindsAre DEF W!drainArrivals, W!drainTerminations, W!Drain, W!Drained
  <2>2. CASE wIter[k] # <<>>
    <3>1. \A j \in W!Kinds : j # k => wIter'[j] = wIter[j]
      BY <2>1, <2>2 DEF W!TypeOK, W!PortType
    <3>2. QED
      BY <2>1, <2>2, <3>1 DEF Signals, Watching
  <2>3. CASE wIter[k] = <<>>
    <3>1. \A j \in W!Kinds : j # k /\ Watching(j)' => Watching(j) /\ wPpc # CallbackOf(j)
      BY <2>1, <2>3, KindsAre DEF Watching, CallbackOf
    <3>2. QED
      BY <2>1, <2>3, <3>1 DEF Signals
  <2>4. QED
    BY <2>2, <2>3
<1>5. CASE W!pumpMessage
  <2>1. /\ wMessages # <<>> /\ wMessages' = Tail(wMessages) /\ UNCHANGED <<wIter, wArmed>>
        /\ wPpc = "run" /\ Head(wMessages) \in W!Kinds
        /\ wPpc' = CallbackOf(Head(wMessages))
    BY <1>t, <1>5, ListedTail DEF W!pumpMessage, W!Goto, CallbackOf
  <2>2. Listed(wMessages) = Listed(wMessages') \cup {Head(wMessages)}
    BY <1>t, <2>1, ListedTail
  <2>3. \A j \in W!Kinds : Watching(j) /\ wPpc # CallbackOf(j)
    BY <2>1 DEF Watching, CallbackOf
  <2>4. QED
    BY <2>1, <2>2, <2>3 DEF Signals
<1>6. CASE W!pumpStart \/ W!pumpCheck \/ W!pumpEnter \/ W!pumpWoken \/ W!pumpHour
             \/ W!Deregister
  <2>1. /\ UNCHANGED <<wMessages, wIter, wArmed>>
        /\ \/ wPpc' = wPpc
           \/ wPpc' = "firstArrivals"
           \/ wPpc \in {"check", "enter", "run"} /\ wPpc' \in {"check", "enter", "run", "cleanup"}
    BY <1>6 DEF W!pumpStart, W!pumpCheck, W!pumpEnter, W!pumpWoken, W!pumpHour, W!Goto,
                W!Deregister, W!DeregisterMark, W!DeregisterStop, W!DeregisterJoin,
                W!DeregisterStep
  <2>2. \A j \in W!Kinds : Watching(j)' => Watching(j)
                            /\ (wPpc = CallbackOf(j) => wPpc' = CallbackOf(j))
    BY <2>1, KindsAre DEF Watching, CallbackOf
  <2>3. QED
    BY <2>1, <2>2 DEF Signals
<1>7. CASE W!pumpCleanup
  BY <1>7 DEF W!pumpCleanup, Signals, Watching
<1>8. QED
  BY <1>1, <1>2, <1>3, <1>4, <1>5, <1>6, <1>7, KindsAre DEF W!Next, W!pump
-------------------------------------------------------------------------------
(* What the user is told                                                   *)

\* The rounds of drainArrivals: h, the next service, is told or passed over.
LEMMA ArrivalRound ==
  ASSUME W!TypeOK, W!drainArrivals, wIter["arrival"] # <<>>
  PROVE  LET h == Head(wIter["arrival"]) IN
           /\ h \in W!Services /\ h \in Arrived /\ Arrived = Arrived' \cup {h}
           /\ Sorted(wIter["arrival"]) =>
                /\ Sorted(wIter'["arrival"])
                /\ \A s \in Arrived' : W!Loc(s) = W!Loc(h) => h[2] < s[2]
           /\ wIter'["terminated"] = wIter["terminated"] /\ Left' = Left
           /\ UNCHANGED <<wPresent, wPlugs, wHeld>>
           /\ \/ /\ h \in W!Matching /\ wView' = wView \cup {h} /\ wCalls' = wCalls + 1
                 /\ wSeen'[W!Loc(h)] = h
                 /\ \A l \in Locations : l # W!Loc(h) => wSeen'[l] = wSeen[l]
                 /\ wMissed' = wMissed
              \/ /\ h \notin W!Matching \/ h \notin wPresent
                 /\ UNCHANGED <<wSeen, wView, wCalls, wMissed>>
<1> DEFINE h == Head(wIter["arrival"])
<1>1. wIter' = [wIter EXCEPT !["arrival"] = Tail(@)] /\ W!drainArrival
      /\ UNCHANGED <<wPresent, wPlugs, wHeld>>
  BY DEF W!drainArrivals, W!Drain, W!Drained
<1>2. /\ h \in W!Services /\ Arrived = Arrived' \cup {h} /\ h \in Arrived
      /\ Sorted(wIter["arrival"]) =>
           /\ Sorted(wIter'["arrival"])
           /\ \A s \in Arrived' : W!Loc(s) = W!Loc(h) => h[2] < s[2]
      /\ wIter'["terminated"] = wIter["terminated"]
  BY <1>1, Fetch, KindsAre DEF Arrived, W!TypeOK
<1>3. Left' = Left
  BY <1>2 DEF Left
<1>4. W!Loc(h) \in Locations
  BY <1>2 DEF W!Loc, W!Services
<1>5. CASE W!matches(h) /\ W!RecordArrival(h) /\ wView' = wView \cup {h}
             /\ wCalls' = wCalls + 1 /\ UNCHANGED wMissed
  <2>1. wSeen' = [wSeen EXCEPT ![W!Loc(h)] = h] /\ DOMAIN wSeen = Locations
    BY <1>5 DEF W!RecordArrival, W!TypeOK, W!ClientType
  <2>2. wSeen'[W!Loc(h)] = h /\ \A l \in Locations : l # W!Loc(h) => wSeen'[l] = wSeen[l]
    BY <1>4, <2>1
  <2>3. h \in W!Matching
    BY <1>2, <1>5 DEF W!Matching
  <2>4. QED
    BY <1>1, <1>2, <1>3, <1>5, <2>2, <2>3
<1>6. CASE (~W!matches(h) \/ h \notin wPresent) /\ UNCHANGED <<wSeen, W!clientVars, wMissed>>
  <2>1. h \notin W!Matching \/ h \notin wPresent
    BY <1>6 DEF W!Matching
  <2>2. QED
    BY <1>1, <1>2, <1>3, <1>6, <2>1 DEF W!clientVars
<1>7. QED
  BY <1>1, <1>5, <1>6 DEF W!drainArrival

\* The rounds of drainTerminations: what was told at the port of h, the next service, is
\* told to have left, or nothing was told or could be found out.
LEMMA TerminationRound ==
  ASSUME W!TypeOK, W!drainTerminations, wIter["terminated"] # <<>>
  PROVE  LET h == Head(wIter["terminated"])
             l == W!Loc(h)
         IN
           /\ h \in W!Services /\ l \in Locations
           /\ h \in Left /\ Left = Left' \cup {h}
           /\ Sorted(wIter["terminated"]) =>
                /\ Sorted(wIter'["terminated"])
                /\ \A s \in Left' : W!Loc(s) = l => h[2] < s[2]
           /\ wIter'["arrival"] = wIter["arrival"] /\ Arrived' = Arrived
           /\ UNCHANGED <<wPresent, wPlugs, wHeld>>
           /\ \/ /\ wSeen[l] # W!NoService /\ wView' = wView \ {wSeen[l]}
                 /\ wCalls' = wCalls + 1
                 /\ wSeen'[l] = W!NoService
                 /\ \A m \in Locations : m # l => wSeen'[m] = wSeen[m]
                 /\ l \notin wMissed' => wSeen[l] = h
              \/ /\ UNCHANGED <<wSeen, wView, wCalls>>
                 /\ l \notin wMissed' => wSeen[l] = W!NoService /\ h \notin Arrived
           /\ wMissed \subseteq wMissed'
<1> DEFINE h == Head(wIter["terminated"])
           l == W!Loc(h)
<1>1. wIter' = [wIter EXCEPT !["terminated"] = Tail(@)] /\ W!drainTermination
      /\ UNCHANGED <<wPresent, wPlugs, wHeld>>
  BY DEF W!drainTerminations, W!Drain, W!Drained
<1>2. /\ h \in W!Services /\ Left = Left' \cup {h} /\ h \in Left
      /\ Sorted(wIter["terminated"]) =>
           /\ Sorted(wIter'["terminated"])
           /\ \A s \in Left' : W!Loc(s) = l => h[2] < s[2]
      /\ wIter'["arrival"] = wIter["arrival"]
  BY <1>1, Fetch, KindsAre DEF Left, W!TypeOK
<1>3. Arrived' = Arrived
  BY <1>2 DEF Arrived
<1>4. l \in Locations
  BY <1>2 DEF W!Loc, W!Services
<1>5. CASE /\ W!WasSeen(l) /\ wView' = wView \ {wSeen[l]} /\ wCalls' = wCalls + 1
           /\ W!Delete(l)
           /\ wMissed' = IF wSeen[l] = h THEN wMissed ELSE wMissed \cup {l}
  <2>1. wSeen' = [wSeen EXCEPT ![l] = W!NoService] /\ DOMAIN wSeen = Locations
    BY <1>5 DEF W!Delete, W!TypeOK, W!ClientType
  <2>2. wSeen'[l] = W!NoService /\ \A m \in Locations : m # l => wSeen'[m] = wSeen[m]
    BY <1>4, <2>1
  <2>3. wMissed \subseteq wMissed' /\ (l \notin wMissed' => wSeen[l] = h)
    BY <1>5
  <2>4. QED
    BY <1>1, <1>2, <1>3, <1>4, <1>5, <2>2, <2>3 DEF W!WasSeen
<1>6. CASE /\ ~W!WasSeen(l) /\ UNCHANGED <<wSeen, W!clientVars>>
           /\ wMissed' = IF \E i \in DOMAIN wIter["arrival"] : wIter["arrival"][i] = h
                         THEN wMissed \cup {l} ELSE wMissed
  <2>1. wIter["arrival"] \in Seq(W!Services)
    BY KindsAre DEF W!TypeOK, W!PortType
  <2>2. DOMAIN wIter["arrival"] = 1..Len(wIter["arrival"])
    BY <2>1
  <2>3. h \in Arrived => \E i \in DOMAIN wIter["arrival"] : wIter["arrival"][i] = h
    BY <2>2 DEF Arrived, Listed
  <2>4. /\ wMissed \subseteq wMissed'
        /\ l \notin wMissed' => wSeen[l] = W!NoService /\ h \notin Arrived
    BY <1>6, <2>3 DEF W!WasSeen
  <2>5. QED
    BY <1>1, <1>2, <1>3, <1>4, <1>6, <2>4 DEF W!clientVars
<1>7. CASE wMissed' = wMissed \cup {l} /\ UNCHANGED <<wSeen, W!clientVars>>
  BY <1>1, <1>2, <1>3, <1>4, <1>7 DEF W!clientVars
<1>8. QED
  BY <1>1, <1>5, <1>6, <1>7 DEF W!drainTermination

LEMMA KnownServices ==
  ASSUME W!TypeOK
  PROVE  /\ wPresent \cup wView \cup Arrived \cup Left \subseteq W!Services
         /\ \A s \in W!Services : s[2] \in Nat /\ W!Loc(s) \in Locations
         /\ wPlugs \in Nat
         /\ W!NoService \notin W!Services
<1>1. wPresent \subseteq W!Services /\ wView \subseteq W!Services /\ wPlugs \in Nat
  BY DEF W!TypeOK, W!RegistryType, W!ClientType, W!Matching
<1>2. wIter["arrival"] \in Seq(W!Services) /\ wIter["terminated"] \in Seq(W!Services)
  BY KindsAre DEF W!TypeOK, W!PortType
<1>3. \A q \in Seq(W!Services) : Listed(q) \subseteq W!Services
  BY DEF Listed
<1>4. Arrived \subseteq W!Services /\ Left \subseteq W!Services
  BY <1>2, <1>3 DEF Arrived, Left
<1>5. \A s \in W!Services : s[2] \in Nat /\ W!Loc(s) \in Locations
  BY DEF W!Services, W!Loc
<1>6. W!NoService \notin W!Services
  BY DEF W!NoService, W!Services
<1>7. QED
  BY <1>1, <1>4, <1>5, <1>6

\* PlugIn and PullOut, as the iterators see them.
LEMMA PlugInEffect ==
  ASSUME W!TypeOK, NEW l \in Locations, W!PlugIn(l)
  PROVE  LET n == <<l, wPlugs + 1>> IN
           /\ n \in W!Services /\ W!Loc(n) = l /\ n[2] = wPlugs + 1
           /\ \A s \in wPresent : W!Loc(s) # l
           /\ wPresent' = wPresent \cup {n} /\ wPlugs' = wPlugs + 1
           /\ UNCHANGED <<wHeld, wSeen, wView, wCalls, wMissed, wDpc>>
           /\ wIter'["terminated"] = wIter["terminated"] /\ Left' = Left
           /\ "arrival" \in wHeld =>
                /\ Arrived' = Arrived \cup {n}
                /\ Sorted(wIter["arrival"])
                     /\ (\A t \in Arrived : W!Loc(t) = l => t[2] < wPlugs + 1)
                     => Sorted(wIter'["arrival"])
           /\ "arrival" \notin wHeld =>
                wIter'["arrival"] = wIter["arrival"] /\ Arrived' = Arrived
<1> DEFINE n == <<l, wPlugs + 1>>
<1>1. n \in W!Services /\ W!Loc(n) = l /\ n[2] = wPlugs + 1
  BY DEF W!PlugIn, W!TypeOK, W!RegistryType, W!Services, W!Loc
<1>2. /\ \A s \in wPresent : W!Loc(s) # l
      /\ wPresent' = wPresent \cup {n} /\ wPlugs' = wPlugs + 1
      /\ W!Notify("arrival", n) /\ UNCHANGED <<wHeld, wSeen, wView, wCalls, wMissed, wDpc>>
  BY DEF W!PlugIn, W!Notify, W!clientVars
<1>3. /\ "arrival" \in wHeld => /\ Listed(wIter'["arrival"]) = Listed(wIter["arrival"]) \cup {n}
                                /\ Sorted(wIter["arrival"])
                                     /\ (\A t \in Listed(wIter["arrival"]) :
                                           W!Loc(t) = W!Loc(n) => t[2] < n[2])
                                     => Sorted(wIter'["arrival"])
      /\ "arrival" \notin wHeld => wIter'["arrival"] = wIter["arrival"]
      /\ wIter'["terminated"] = wIter["terminated"]
  BY <1>1, <1>2, NotifyAppends, KindsAre DEF W!TypeOK
<1>4. QED
  BY <1>1, <1>2, <1>3 DEF Arrived, Left

LEMMA PullOutEffect ==
  ASSUME W!TypeOK, Control, NEW s \in wPresent, W!PullOut(s)
  PROVE  /\ s \in W!Services
         /\ wPresent' = wPresent \ {s}
         /\ UNCHANGED <<wPlugs, wHeld, wSeen, wView, wCalls, wDpc>>
         /\ wMissed \subseteq wMissed'
         /\ "arrival" \in wHeld /\ W!Loc(s) \notin wMissed' => "terminated" \in wHeld
         /\ wIter'["arrival"] = wIter["arrival"] /\ Arrived' = Arrived
         /\ "terminated" \in wHeld =>
              /\ Left' = Left \cup {s}
              /\ Sorted(wIter["terminated"])
                   /\ (\A t \in Left : W!Loc(t) = W!Loc(s) => t[2] < s[2])
                   => Sorted(wIter'["terminated"])
         /\ "terminated" \notin wHeld => Left' = Left /\ wIter'["terminated"] = wIter["terminated"]
<1>1. s \in W!Services
  BY DEF W!TypeOK, W!RegistryType
<1>2. /\ wPresent' = wPresent \ {s} /\ W!Notify("terminated", s)
      /\ UNCHANGED <<wPlugs, wHeld, wSeen, wView, wCalls, wDpc>>
      /\ wMissed' = IF "arrival" \in wHeld /\ "terminated" \notin wHeld
                    THEN wMissed \cup {W!Loc(s)} ELSE wMissed
  BY DEF W!PullOut, W!Notify, W!clientVars
<1>3. /\ wMissed \subseteq wMissed'
      /\ "arrival" \in wHeld /\ W!Loc(s) \notin wMissed' => "terminated" \in wHeld
  BY <1>2
<1>4. /\ "terminated" \in wHeld =>
           /\ Listed(wIter'["terminated"]) = Listed(wIter["terminated"]) \cup {s}
           /\ Sorted(wIter["terminated"])
                /\ (\A t \in Listed(wIter["terminated"]) :
                      W!Loc(t) = W!Loc(s) => t[2] < s[2])
                => Sorted(wIter'["terminated"])
      /\ "terminated" \notin wHeld => wIter'["terminated"] = wIter["terminated"]
      /\ wIter'["arrival"] = wIter["arrival"]
  BY <1>1, <1>2, NotifyAppends, KindsAre DEF W!TypeOK
<1>5. QED
  BY <1>1, <1>2, <1>3, <1>4 DEF Arrived, Left

\* The steps of the registration: nothing has been told yet; the iterator of arrivals
\* starts with all that is connected.
LEMMA RegisterEffect ==
  ASSUME W!TypeOK, Control, NothingTold, Order, W!register
  PROVE  /\ UNCHANGED <<wPresent, wPlugs, wSeen, wView, wCalls, wMissed, wDpc>>
         /\ wView = {} /\ \A l \in Locations : wSeen[l] = W!NoService
         /\ wIter["terminated"] = <<>> /\ wIter'["terminated"] = <<>>
         /\ \/ wIter'["arrival"] = wIter["arrival"]
                 /\ ("arrival" \in wHeld' => "arrival" \in wHeld)
            \/ Arrived' = wPresent /\ Sorted(wIter'["arrival"])
<1> USE DEF W!kitVars, W!handleVars, W!clientVars
<1>1. wPpc = "none" /\ UNCHANGED <<wPresent, wPlugs, wSeen, wView, wCalls, wMissed, wDpc>>
  BY DEF W!register, W!registerPort, W!registerMatch, W!registerAddArrival, W!registerAddTerminated,
         W!registerAdd, Control
<1>2. wView = {} /\ (\A l \in Locations : wSeen[l] = W!NoService)
      /\ wIter["terminated"] = <<>> /\ DOMAIN wIter = W!Kinds
  BY <1>1 DEF NothingTold, Control, W!TypeOK, W!PortType
<1>3. CASE UNCHANGED wIter /\ ("arrival" \in wHeld' => "arrival" \in wHeld)
  BY <1>1, <1>2, <1>3
<1>4. ASSUME NEW q \in [1..W!Cardinality(wPresent) -> wPresent],
             \A s \in wPresent : \E i \in DOMAIN q : q[i] = s,
             wIter' = [wIter EXCEPT !["arrival"] = q]
      PROVE  /\ Arrived' = wPresent /\ Sorted(wIter'["arrival"])
             /\ wIter'["terminated"] = <<>>
  <2>1. Listed(q) = wPresent /\ Sorted(q)
    BY <1>4, Snapshot DEF W!TypeOK, Order
  <2>2. wIter'["arrival"] = q /\ wIter'["terminated"] = <<>>
    BY <1>2, <1>4, KindsAre
  <2>3. QED
    BY <2>1, <2>2 DEF Arrived
<1>5. CASE W!registerPort \/ W!registerMatch
  <2>1. UNCHANGED wIter
    BY <1>5 DEF W!registerPort, W!registerMatch
  <2>2. "arrival" \in wHeld' => "arrival" \in wHeld
    BY <1>5 DEF W!registerPort, W!registerMatch, W!Dictionaries
  <2>3. QED
    BY <1>3, <2>1, <2>2
<1>6. CASE W!registerAddArrival
  BY <1>1, <1>2, <1>3, <1>4, <1>6 DEF W!registerAddArrival, W!registerAdd
<1>7. CASE W!registerAddTerminated
  <2>1. CASE wIter' = [wIter EXCEPT !["terminated"] = <<>>]
             /\ wHeld' = (wHeld \ {"matchTerminated"}) \cup {"terminated"}
    <3>1. wIter'["arrival"] = wIter["arrival"] /\ wIter'["terminated"] = <<>>
      BY <1>2, <2>1, KindsAre
    <3>2. QED
      BY <1>1, <1>2, <2>1, <3>1
  <2>2. QED
    BY <1>3, <1>7, <2>1 DEF W!registerAddTerminated, W!registerAdd
<1>8. QED
  BY <1>5, <1>6, <1>7 DEF W!register
-------------------------------------------------------------------------------
(* The steps                                                               *)

\* An iterator that has been drained is left alone.
LEMMA DrainEnds ==
  ASSUME \/ W!drainArrivals /\ wIter["arrival"] = <<>>
         \/ W!drainTerminations /\ wIter["terminated"] = <<>>
  PROVE  UNCHANGED <<wPresent, wPlugs, wIter, wHeld, wSeen, wView, wCalls, wMissed, wDpc>>
  BY DEF W!drainArrivals, W!drainTerminations, W!Drain, W!Drained, W!clientVars

\* The pump's last step.
LEMMA CleanupEffect ==
  ASSUME W!TypeOK, W!pumpCleanup
  PROVE  /\ UNCHANGED <<wPresent, wPlugs, wSeen, wView, wCalls, wMissed, wDpc>>
         /\ wHeld' = {} /\ wIter'["arrival"] = <<>> /\ wIter'["terminated"] = <<>>
  BY KindsAre DEF W!pumpCleanup, W!clientVars

LEMMA NextOrder ==
  ASSUME W!TypeOK, Control, NothingTold, Order, W!Next PROVE Order'
<1> USE KnownServices
<1>1. ASSUME NEW l \in Locations, W!PlugIn(l) PROVE Order'
  <2> DEFINE n == <<l, wPlugs + 1>>
  <2>1. /\ n \in W!Services /\ W!Loc(n) = l /\ n[2] = wPlugs + 1
        /\ \A s \in wPresent : W!Loc(s) # l
        /\ wPresent' = wPresent \cup {n} /\ wPlugs' = wPlugs + 1
        /\ UNCHANGED <<wSeen, wView>> /\ Left' = Left
        /\ wIter'["terminated"] = wIter["terminated"]
    BY <1>1, PlugInEffect
  <2>2. \A s \in wPresent \cup wView \cup Arrived \cup Left : s[2] < wPlugs + 1
    BY DEF Order
  <2>3. \/ Arrived' = Arrived \cup {n} /\ Sorted(wIter'["arrival"])
        \/ Arrived' = Arrived /\ wIter'["arrival"] = wIter["arrival"]
    BY <1>1, <2>2, PlugInEffect DEF Order
  <2> HIDE DEF n
  <2>4. \A s, t \in wPresent' : W!Loc(s) = W!Loc(t) => s = t
    BY <2>1 DEF Order
  <2>5. \A s \in wPresent' \cup wView' \cup Arrived' \cup Left' : s[2] <= wPlugs'
    BY <2>1, <2>2, <2>3
  <2>6. \A s \in wView', t \in Arrived' : W!Loc(s) = W!Loc(t) => s[2] < t[2]
    BY <2>1, <2>2, <2>3 DEF Order
  <2>7. /\ \A s \in wPresent', t \in Arrived' : W!Loc(s) = W!Loc(t) => t[2] <= s[2]
        /\ \A s \in wPresent', t \in Left' : W!Loc(s) = W!Loc(t) => t[2] < s[2]
    BY <2>1, <2>2, <2>3 DEF Order
  <2>8. QED
    BY <2>1, <2>3, <2>4, <2>5, <2>6, <2>7 DEF Order
<1>2. ASSUME NEW s \in wPresent, W!PullOut(s) PROVE Order'
  <2>1. /\ wPresent' = wPresent \ {s} /\ UNCHANGED <<wPlugs, wSeen, wView>>
        /\ wIter'["arrival"] = wIter["arrival"] /\ Arrived' = Arrived
        /\ Left' \subseteq Left \cup {s}
    BY <1>2, PullOutEffect
  <2>2. Sorted(wIter'["terminated"])
    BY <1>2, PullOutEffect DEF Order
  <2>3. \A x \in wPresent', t \in Left' : W!Loc(x) = W!Loc(t) => t[2] < x[2]
    BY <2>1 DEF Order
  <2>4. QED
    BY <2>1, <2>2, <2>3 DEF Order
<1>3. CASE W!register
  <2>1. /\ UNCHANGED <<wPresent, wPlugs, wSeen, wView>> /\ wView = {} /\ Left' = Left
        /\ wIter'["terminated"] = wIter["terminated"]
        /\ \A l \in Locations : wSeen[l] = W!NoService
        /\ \/ wIter'["arrival"] = wIter["arrival"] /\ Arrived' = Arrived
           \/ Arrived' = wPresent /\ Sorted(wIter'["arrival"])
    BY <1>3, RegisterEffect DEF Arrived, Left
  <2>2. QED
    BY <2>1 DEF Order
<1>4. CASE W!drainArrivals /\ wIter["arrival"] # <<>>
  <2> DEFINE h == Head(wIter["arrival"])
  <2>1. /\ h \in W!Services /\ h \in Arrived /\ Arrived = Arrived' \cup {h}
        /\ Sorted(wIter'["arrival"])
        /\ \A s \in Arrived' : W!Loc(s) = W!Loc(h) => h[2] < s[2]
        /\ Left' = Left /\ UNCHANGED <<wPresent, wPlugs>>
        /\ wIter'["terminated"] = wIter["terminated"]
        /\ \/ /\ wView' = wView \cup {h} /\ wSeen'[W!Loc(h)] = h
              /\ \A l \in Locations : l # W!Loc(h) => wSeen'[l] = wSeen[l]
           \/ UNCHANGED <<wSeen, wView>>
    BY <1>4, ArrivalRound DEF Order
  <2> HIDE DEF h
  <2>2. \A s \in wView', t \in Arrived' : W!Loc(s) = W!Loc(t) => s[2] < t[2]
    BY <2>1 DEF Order
  <2>3. \A l \in Locations :
          wSeen'[l] # W!NoService => wSeen'[l] \in wView' /\ W!Loc(wSeen'[l]) = l
    BY <2>1 DEF Order
  <2>4. \A s \in wPresent' \cup wView' \cup Arrived' \cup Left' : s[2] <= wPlugs'
    BY <2>1 DEF Order
  <2>5. QED
    BY <2>1, <2>2, <2>3, <2>4 DEF Order
<1>5. CASE W!drainTerminations /\ wIter["terminated"] # <<>>
  <2> DEFINE l == W!Loc(Head(wIter["terminated"]))
  <2>1. /\ l \in Locations /\ Left' \subseteq Left /\ Sorted(wIter'["terminated"])
        /\ wIter'["arrival"] = wIter["arrival"] /\ Arrived' = Arrived
        /\ UNCHANGED <<wPresent, wPlugs>>
        /\ \/ /\ wSeen[l] # W!NoService /\ wView' = wView \ {wSeen[l]}
              /\ wSeen'[l] = W!NoService
              /\ \A m \in Locations : m # l => wSeen'[m] = wSeen[m]
           \/ UNCHANGED <<wSeen, wView>>
    BY <1>5, TerminationRound DEF Order
  <2> HIDE DEF l
  <2>2. \A m \in Locations :
          wSeen'[m] # W!NoService => wSeen'[m] \in wView' /\ W!Loc(wSeen'[m]) = m
    BY <2>1 DEF Order
  <2>3. QED
    BY <2>1, <2>2 DEF Order
<1>6. CASE W!pumpCleanup
  <2>1. /\ Arrived' = {} /\ Left' = {}
        /\ Sorted(wIter'["arrival"]) /\ Sorted(wIter'["terminated"])
    BY <1>6, CleanupEffect, ListedEmpty DEF Arrived, Left
  <2>2. QED
    BY <1>6, <2>1, CleanupEffect DEF Order
<1>7. CASE UNCHANGED <<wPresent, wPlugs, wIter, wSeen, wView>>
  BY <1>7 DEF Order, Arrived, Left
<1>8. QED
  BY <1>1, <1>2, <1>3, <1>4, <1>5, <1>6, <1>7, QuietType, DrainEnds
     DEF W!Next, W!pump, Quiet

LEMMA NextLedger ==
  ASSUME W!TypeOK, Control, NothingTold, Order, W!Next,
         NEW p \in Locations, Listening(p) => Ledger(p), Listening(p)'
  PROVE  Ledger(p)'
<1> USE KnownServices
<1>1. ASSUME NEW l \in Locations, W!PlugIn(l) PROVE Ledger(p)'
  <2> DEFINE n == <<l, wPlugs + 1>>
  <2>1. /\ n \in W!Services /\ W!Loc(n) = l
        /\ wPresent' = wPresent \cup {n}
        /\ UNCHANGED <<wHeld, wSeen, wView, wMissed>> /\ Left' = Left
    BY <1>1, PlugInEffect
  <2>2. Listening(p) /\ Arrived' = Arrived \cup {n}
    BY <1>1, <2>1, PlugInEffect DEF Listening
  <2> HIDE DEF n
  <2>3. QED
    BY <2>1, <2>2 DEF Ledger
<1>2. ASSUME NEW s \in wPresent, W!PullOut(s) PROVE Ledger(p)'
  <2>1. /\ wPresent' = wPresent \ {s} /\ UNCHANGED <<wHeld, wSeen, wView>>
        /\ Arrived' = Arrived /\ wMissed \subseteq wMissed'
    BY <1>2, PullOutEffect
  <2>2. Listening(p)
    BY <2>1 DEF Listening
  <2>3. W!Loc(s) = p => Left' = Left \cup {s}
    BY <1>2, <2>1, PullOutEffect DEF Listening
  <2>4. Left \subseteq Left'
    BY <1>2, PullOutEffect
  <2>5. QED
    BY <2>1, <2>2, <2>3, <2>4 DEF Ledger
<1>3. CASE W!register
  <2>1. UNCHANGED <<wPresent, wSeen, wView, wMissed>> /\ wView = {} /\ Left' = Left
    BY <1>3, RegisterEffect DEF Left
  <2>2. CASE wIter'["arrival"] = wIter["arrival"] /\ "arrival" \in wHeld
    <3>1. Arrived' = Arrived /\ Listening(p)
      BY <2>1, <2>2 DEF Arrived, Listening
    <3>2. QED
      BY <2>1, <3>1 DEF Ledger
  <2>3. CASE Arrived' = wPresent
    BY <2>1, <2>3 DEF Ledger
  <2>4. QED
    BY <1>3, <2>2, <2>3, RegisterEffect DEF Listening
<1>4. CASE W!drainArrivals /\ wIter["arrival"] # <<>>
  <2> DEFINE h == Head(wIter["arrival"])
  <2>1. /\ h \in W!Services /\ h \in Arrived /\ Arrived = Arrived' \cup {h} /\ Left' = Left
        /\ UNCHANGED <<wPresent, wHeld, wMissed>>
        /\ \/ /\ h \in W!Matching /\ wView' = wView \cup {h} /\ wSeen'[W!Loc(h)] = h
              /\ \A l \in Locations : l # W!Loc(h) => wSeen'[l] = wSeen[l]
           \/ /\ h \notin W!Matching \/ h \notin wPresent
              /\ UNCHANGED <<wSeen, wView>>
    BY <1>4, ArrivalRound
  <2>2. Ledger(p)
    BY <2>1 DEF Listening
  <2> HIDE DEF h
  <2>3. CASE UNCHANGED <<wSeen, wView>> /\ (h \notin W!Matching \/ h \notin wPresent)
    BY <2>1, <2>2, <2>3 DEF Ledger
  <2>4. CASE /\ h \in W!Matching /\ wView' = wView \cup {h} /\ wSeen'[W!Loc(h)] = h
             /\ \A l \in Locations : l # W!Loc(h) => wSeen'[l] = wSeen[l]
    <3>1. ASSUME NEW s \in wView, W!Loc(s) = W!Loc(h), W!Loc(h) = p
          PROVE  s[2] < h[2] /\ s \in Left /\ s # h
      <4>1. s[2] < h[2]
        BY <2>1, <3>1 DEF Order
      <4>2. s \notin wPresent
        BY <2>1, <3>1, <4>1 DEF Order
      <4>3. QED
        BY <2>2, <3>1, <4>1, <4>2 DEF Ledger
    <3>2. h # W!NoService
      BY <2>1
    <3>3. \A s \in wView' : W!Loc(s) = p =>
            /\ wSeen'[p] # W!NoService
            /\ s # wSeen'[p] => s[2] < wSeen'[p][2] /\ s \in Left'
      BY <2>1, <2>2, <2>4, <3>1, <3>2 DEF Ledger
    <3>4. QED
      BY <2>1, <2>2, <2>4, <3>3 DEF Ledger
  <2>5. QED
    BY <2>1, <2>3, <2>4
<1>5. CASE W!drainTerminations /\ wIter["terminated"] # <<>>
  <2> DEFINE h == Head(wIter["terminated"])
             l == W!Loc(h)
  <2>1. /\ h \in W!Services /\ l \in Locations
        /\ h \in Left /\ Left = Left' \cup {h}
        /\ \A s \in Left' : W!Loc(s) = l => h[2] < s[2]
        /\ Arrived' = Arrived /\ UNCHANGED <<wPresent, wHeld>>
        /\ wMissed \subseteq wMissed'
        /\ \/ /\ wSeen[l] # W!NoService /\ wView' = wView \ {wSeen[l]}
              /\ wSeen'[l] = W!NoService
              /\ \A m \in Locations : m # l => wSeen'[m] = wSeen[m]
              /\ l \notin wMissed' => wSeen[l] = h
           \/ /\ UNCHANGED <<wSeen, wView>>
              /\ l \notin wMissed' => wSeen[l] = W!NoService /\ h \notin Arrived
    BY <1>5, TerminationRound DEF Order
  <2>2. Ledger(p) /\ p \notin wMissed'
    BY <2>1 DEF Listening
  <2>3. W!Loc(h) = l
    OBVIOUS
  <2> HIDE DEF h, l
  <2>4. h \notin wPresent
    BY <2>1 DEF Order
  <2>5. CASE l # p
    <3>1. wSeen'[p] = wSeen[p]
      BY <2>1, <2>5
    <3>2. \A s \in W!Services : W!Loc(s) = p =>
            (s \in wView' <=> s \in wView) /\ (s \in Left' <=> s \in Left)
      <4>1. wSeen[l] # W!NoService => W!Loc(wSeen[l]) = l
        BY <2>1 DEF Order
      <4>2. QED
        BY <2>1, <2>3, <2>5, <4>1
    <3>3. QED
      BY <2>1, <2>2, <3>1, <3>2 DEF Ledger
  <2>6. CASE /\ l = p /\ wSeen[l] = h /\ wView' = wView \ {h} /\ wSeen'[l] = W!NoService
    <3>1. h \in wView
      BY <2>1, <2>6 DEF Order
    <3>2. h \notin Arrived
      BY <2>1, <3>1 DEF Order
    <3>3. ASSUME NEW s \in wView, W!Loc(s) = l PROVE s = h
      <4>1. s # h => s[2] < h[2] /\ s \in Left'
        BY <2>1, <2>2, <2>6, <3>3 DEF Ledger
      <4>2. QED
        BY <2>1, <3>3, <4>1
    <3>4. \A s \in wView' : W!Loc(s) # p
      BY <2>6, <3>3
    <3>5. \A s \in Arrived' : W!Loc(s) = p => s \in wPresent' \cup Left'
      BY <2>1, <2>2, <2>6, <3>2 DEF Ledger
    <3>6. \A s \in wPresent' \cap W!Matching : W!Loc(s) = p => s \in Arrived' \cup wView'
      BY <2>1, <2>2, <2>4, <2>6 DEF Ledger
    <3>7. QED
      BY <3>4, <3>5, <3>6 DEF Ledger
  <2>7. CASE l = p /\ UNCHANGED <<wSeen, wView>> /\ wSeen[l] = W!NoService /\ h \notin Arrived
    <3>1. \A s \in wView : W!Loc(s) # p
      BY <2>2, <2>7 DEF Ledger
    <3>2. QED
      BY <2>1, <2>2, <2>7, <3>1 DEF Ledger
  <2>8. QED
    BY <2>1, <2>2, <2>5, <2>6, <2>7
<1>6. CASE W!pumpCleanup
  BY <1>6, CleanupEffect DEF Listening
<1>7. CASE UNCHANGED <<wPresent, wIter, wHeld, wSeen, wView, wMissed>>
  <2>1. Ledger(p)
    BY <1>7 DEF Listening
  <2>2. QED
    BY <1>7, <2>1 DEF Ledger, Arrived, Left
<1>8. QED
  BY <1>1, <1>2, <1>3, <1>4, <1>5, <1>6, <1>7, QuietType, DrainEnds
     DEF W!Next, W!pump, Quiet

\* Every step reports what the contract allows, or nothing.
LEMMA NextContract ==
  ASSUME W!TypeOK, Control, Order, W!Next
  PROVE  W!Contract!Next \/ UNCHANGED <<wView, wCalls, wDpc = "returned">>
<1> USE DEF W!Contract!Next, W!Contract!HotplugEventArrived, W!Contract!HotplugEventLeft,
            W!Contract!Report
<1>1. CASE (\E l \in Locations : W!PlugIn(l)) \/ (\E s \in wPresent : W!PullOut(s))
  BY <1>1 DEF W!PlugIn, W!PullOut, W!Notify, W!clientVars
<1>2. CASE W!register
  BY <1>2 DEF W!register, W!registerPort, W!registerMatch, W!registerAddArrival, W!registerAddTerminated,
              W!registerAdd, W!clientVars
<1>3. CASE W!drainArrivals /\ wIter["arrival"] # <<>>
  <2> DEFINE h == Head(wIter["arrival"])
  <2>1. wDpc # "returned" /\ wDpc' = wDpc
    BY <1>3 DEF W!drainArrivals, Control
  <2>2. \/ h \in W!Matching /\ wView' = wView \cup {h} /\ wCalls' = wCalls + 1
        \/ UNCHANGED <<wView, wCalls>>
    BY <1>3, ArrivalRound
  <2>3. h \notin wView
    <3>1. h \in Arrived /\ h[2] \in Nat
      BY <1>3, ArrivalRound, KnownServices
    <3>2. QED
      BY <3>1 DEF Order
  <2>4. QED
    BY <2>1, <2>2, <2>3
<1>4. CASE W!drainTerminations /\ wIter["terminated"] # <<>>
  <2> DEFINE l == W!Loc(Head(wIter["terminated"]))
  <2>1. wDpc # "returned" /\ wDpc' = wDpc
    BY <1>4 DEF W!drainTerminations, Control
  <2>2. \/ /\ l \in Locations /\ wSeen[l] # W!NoService /\ wView' = wView \ {wSeen[l]}
           /\ wCalls' = wCalls + 1
        \/ UNCHANGED <<wView, wCalls>>
    BY <1>4, TerminationRound
  <2>3. CASE UNCHANGED <<wView, wCalls>>
    BY <2>1, <2>3
  <2>4. CASE /\ l \in Locations /\ wSeen[l] # W!NoService /\ wView' = wView \ {wSeen[l]}
             /\ wCalls' = wCalls + 1
    <3>1. wSeen[l] \in wView /\ wSeen[l] \in W!Matching
      BY <2>4 DEF Order, W!TypeOK, W!ClientType
    <3>2. QED
      BY <2>1, <2>4, <3>1
  <2>5. QED
    BY <2>2, <2>3, <2>4
<1>5. CASE W!Deregister
  BY <1>5 DEF W!Deregister, W!DeregisterMark, W!DeregisterStop, W!DeregisterJoin,
              W!DeregisterStep, W!clientVars, W!Contract!Deregister
<1>6. CASE W!pumpCleanup
  BY <1>6, CleanupEffect
<1>7. CASE W!pumpStart \/ W!pumpCheck \/ W!pumpEnter \/ W!pumpMessage \/ W!pumpWoken
             \/ W!pumpHour
  BY <1>7 DEF W!pumpStart, W!pumpCheck, W!pumpEnter, W!pumpMessage, W!pumpWoken,
              W!pumpHour, W!Goto, W!clientVars
<1>8. QED
  BY <1>1, <1>2, <1>3, <1>4, <1>5, <1>6, <1>7, DrainEnds DEF W!Next, W!pump
-------------------------------------------------------------------------------
(* Initial states                                                          *)

LEMMA InitRegistry ==
  ASSUME NEW ls \in SUBSET Locations, NEW n \in [ls -> 1..MaxPlugs],
         W!Cardinality(ls) <= MaxPlugs,
         {n[l] : l \in ls} = 1..W!Cardinality(ls),
         wPresent = {<<l, n[l]>> : l \in ls}, wPlugs = W!Cardinality(ls)
  PROVE  /\ W!RegistryType
         /\ \A s, t \in wPresent : W!Loc(s) = W!Loc(t) => s = t
         /\ \A s \in wPresent : s[2] <= wPlugs
<1>1. IsFiniteSet(ls)
  BY SameCardinality, FS_Subset
<1>2. wPlugs \in Nat
  BY <1>1, SameCardinality, FS_CardinalityType
<1>3. wPresent \subseteq W!Services
  BY DEF W!Services
<1>4. \A l \in ls : n[l] <= wPlugs
  <2>1. \A l \in ls : n[l] \in 1..wPlugs
    OBVIOUS
  <2>2. QED
    BY <1>2, <2>1
<1>5. QED
  BY <1>2, <1>3, <1>4 DEF W!RegistryType, W!Loc

LEMMA InitWatch == MCInit => WatchInv
<1> SUFFICES ASSUME W!Init \/ NoWatch PROVE WatchInv
  BY DEF MCInit
<1>1. /\ wIter = [k \in W!Kinds |-> <<>>] /\ wArmed = {} /\ wMessages = <<>> /\ wHeld = {}
      /\ wStopped = FALSE /\ wReady = FALSE /\ wDoneClosed = FALSE /\ wStopRequested = FALSE
      /\ wRegPc \in {"port", "failed"} /\ wPpc = "none" /\ wDpc = "idle"
      /\ wSeen = [l \in Locations |-> W!NoService]
      /\ wView = {} /\ wCalls = 0 /\ wMissed = {}
  BY DEF W!Init, NoWatch
<1>2. /\ W!RegistryType /\ \A s, t \in wPresent : W!Loc(s) = W!Loc(t) => s = t
      /\ \A s \in wPresent : s[2] <= wPlugs
  <2>1. CASE NoWatch
    BY <2>1 DEF NoWatch, W!RegistryType
  <2>2. CASE W!Init
    <3>1. PICK ls \in SUBSET Locations : \E n \in [ls -> 1..MaxPlugs] :
            /\ W!Cardinality(ls) <= MaxPlugs
            /\ {n[l] : l \in ls} = 1..W!Cardinality(ls)
            /\ wPresent = {<<l, n[l]>> : l \in ls} /\ wPlugs = W!Cardinality(ls)
      BY <2>2 DEF W!Init
    <3>2. PICK n \in [ls -> 1..MaxPlugs] :
            /\ W!Cardinality(ls) <= MaxPlugs
            /\ {n[l] : l \in ls} = 1..W!Cardinality(ls)
            /\ wPresent = {<<l, n[l]>> : l \in ls} /\ wPlugs = W!Cardinality(ls)
      BY <3>1
    <3>3. QED
      BY <3>2, InitRegistry
  <2>3. QED
    BY <2>1, <2>2
<1>3. /\ wIter["arrival"] = <<>> /\ wIter["terminated"] = <<>>
      /\ Arrived = {} /\ Left = {}
      /\ Sorted(wIter["arrival"]) /\ Sorted(wIter["terminated"])
  BY <1>1, KindsAre, ListedEmpty DEF Arrived, Left
<1>4. W!TypeOK
  <2>1. W!PortType
    <3>1. <<>> \in Seq(W!Services) /\ <<>> \in Seq(W!Kinds)
      OBVIOUS
    <3>2. QED
      BY <1>1, <3>1 DEF W!PortType
  <2>2. W!HandleType
    BY <1>1 DEF W!HandleType
  <2>3. W!ClientType
    BY <1>1 DEF W!ClientType
  <2>4. QED
    BY <1>2, <2>1, <2>2, <2>3 DEF W!TypeOK
<1>5. Control /\ NothingTold /\ Signals
  BY <1>1, <1>3 DEF Control, NothingTold, Signals, Watching
<1>6. Order
  BY <1>1, <1>2, <1>3 DEF Order
<1>7. \A l \in Locations : ~Listening(l)
  BY <1>1 DEF Listening
<1>8. QED
  BY <1>4, <1>5, <1>6, <1>7 DEF WatchInv

LEMMA WatchSteps ==
  WatchInv /\ [MCNext]_allVars =>
    WatchInv' /\ (W!Contract!Next \/ UNCHANGED <<wView, wCalls, wDpc = "returned">>)
<1> SUFFICES ASSUME WatchInv, [MCNext]_allVars
             PROVE  /\ WatchInv'
                    /\ W!Contract!Next \/ UNCHANGED <<wView, wCalls, wDpc = "returned">>
  OBVIOUS
<1>1. CASE W!Next
  <2>1. W!TypeOK' /\ Control' /\ NothingTold' /\ Signals' /\ Order'
    BY <1>1, NextType, NextControl, NextNothingTold, NextSignals, NextOrder DEF WatchInv
  <2>2. (\A l \in Locations : Listening(l) => Ledger(l))'
    BY <1>1, NextLedger DEF WatchInv
  <2>3. W!Contract!Next \/ UNCHANGED <<wView, wCalls, wDpc = "returned">>
    BY <1>1, NextContract DEF WatchInv
  <2>4. QED
    BY <2>1, <2>2, <2>3 DEF WatchInv
<1>2. CASE UNCHANGED watchAll
  <2>1. W!TypeOK'
    BY <1>2 DEF WatchInv, watchAll, W!TypeOK, W!RegistryType, W!PortType, W!HandleType,
                W!ClientType
  <2>2. Control' /\ NothingTold' /\ Signals' /\ Order'
    BY <1>2 DEF WatchInv, watchAll, Control, NothingTold, Signals, Watching, Order, Arrived,
                Left
  <2>3. (\A l \in Locations : Listening(l) => Ledger(l))'
    BY <1>2 DEF WatchInv, watchAll, Listening, Ledger, Arrived, Left
  <2>4. QED
    BY <1>2, <2>1, <2>2, <2>3 DEF WatchInv, watchAll
<1>3. QED
  BY <1>1, <1>2 DEF MCNext, allVars

LEMMA WatchInvariant == MCSpec => []WatchInv
<1>1. WatchInv /\ [MCNext]_allVars => WatchInv'
  BY WatchSteps
<1>2. QED
  BY <1>1, InitWatch, PTL DEF MCSpec
-------------------------------------------------------------------------------
(* Theorems                                                                *)

\* The macOS watch (hotplug_darwin.go): while the pump sleeps and nothing is queued, the
\* user has been told of exactly the matching device that is connected at each port,
\* unless a termination was missed there; no service is left in an iterator without a
\* message; a watch that has ended has released what it made, and a registration that
\* failed all but at most one matching dictionary; and no callback follows Deregister.
THEOREM WatchIsCurrent == MCSpec => []WatchSound
<1>1. WatchInv => WatchSound
  <2> SUFFICES ASSUME WatchInv PROVE WatchSound
    OBVIOUS
  <2>1. W!TypeOK /\ W!SilentAfterDeregister
    BY DEF WatchInv, Control, W!SilentAfterDeregister
  <2>2. W!NothingStranded
    <3>1. wMessages \in Seq(W!Kinds)
      BY DEF WatchInv, W!TypeOK, W!PortType
    <3>2. ASSUME NEW k \in W!Kinds, wPpc = "run", wIter[k] # <<>>
          PROVE  \E i \in DOMAIN wMessages : wMessages[i] = k
      <4>1. k \in Listed(wMessages)
        BY <3>2 DEF WatchInv, Signals, Watching, CallbackOf
      <4>2. QED
        BY <3>1, <4>1 DEF Listed
    <3>3. QED
      BY <3>2 DEF W!NothingStranded
  <2>3. W!AllReleased
    BY DEF WatchInv, Control, W!AllReleased, W!TypeOK, W!HandleType, W!Dictionaries
  <2>4. W!ViewIsCurrent
    <3> SUFFICES ASSUME wPpc = "run", wMessages = <<>>, NEW l \in Locations \ wMissed
                 PROVE  W!At(l, wView) = W!At(l, {s \in wPresent : W!matches(s)})
      BY DEF W!ViewIsCurrent
    <3>1. Listening(l)
      BY KindsAre DEF WatchInv, Control, Listening, W!TypeOK, W!HandleType
    <3>2. wIter["arrival"] = <<>> /\ wIter["terminated"] = <<>>
      BY <2>2, KindsAre DEF W!NothingStranded
    <3>3. Arrived = {} /\ Left = {}
      BY <3>2, ListedEmpty DEF Arrived, Left
    <3>4. /\ \A s \in wView : W!Loc(s) = l => s \in wPresent
          /\ \A s \in wPresent \cap W!Matching : W!Loc(s) = l => s \in wView
      BY <3>1, <3>3 DEF WatchInv, Ledger
    <3>5. wView \subseteq W!Matching /\ wPresent \subseteq W!Services
      BY <2>1 DEF W!TypeOK, W!ClientType, W!RegistryType
    <3>6. QED
      BY <3>4, <3>5 DEF W!Matching, W!At
  <2>5. QED
    BY <2>1, <2>2, <2>3, <2>4 DEF WatchSound
<1>2. QED
  BY <1>1, WatchInvariant, PTL

\* And it implements the contract of hotplug.go at every step, whether or not it has missed
\* a termination: a service is reported as arrived only when it is not in the user's view
\* and as left only when it is, and never after Deregister has returned.
THEOREM WatchRefinesContract == MCSpec => WatchImplementsContract
<1>1. MCInit => W!Contract!Init
  BY DEF MCInit, W!Init, NoWatch, W!Contract!Init
<1>2. WatchInv /\ [MCNext]_allVars
        => [W!Contract!Next]_<<wView, wCalls, wDpc = "returned">>
  BY WatchSteps
<1>3. QED
  BY <1>1, <1>2, WatchInvariant, PTL
     DEF MCSpec, WatchImplementsContract, W!ImplementsContract, W!Contract!Spec
===============================================================================
